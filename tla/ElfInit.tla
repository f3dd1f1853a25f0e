------------------------------ MODULE ElfInit ------------------------------
(***************************************************************************)
(* init_elf (main.rs): how an ELF image and the metadata's version become  *)
(* a table of methods.  The image is loaded when it is constructed, loaded *)
(* again when it turns out to be a memory dump, and then four strategies   *)
(* look for the pair of registrations, one after the other, on the same    *)
(* object.  An attempt corrects the version, loads table after table, and  *)
(* may fail at any of them; what it has changed by then stays changed.     *)
(*                                                                         *)
(* What is in the file is unknown: whether a strategy has a candidate,     *)
(* what counts the candidate shows and where reading it fails are choices. *)
(* Versions are written in tenths (24.2 is 242).                           *)
(***************************************************************************)
EXTENDS Integers, Sequences

CONSTANTS
    Jobs         \* what a run is started with: records of JobType

(* The order in which the registrations are looked for. *)
Strategies == <<"section", "symbols", "arm32", "manual">>
Known == {Strategies[k] : k \in 1 .. Len(Strategies)}

(* version: the metadata's, or the forced one; base: a dump base was given; *)
(* force: --force-dump; keep: no_redirected_pointer; dump: check_dump();    *)
(* codm: the tolerant variant                                              *)
JobType == [version : Nat, base : BOOLEAN, force : BOOLEAN, keep : BOOLEAN,
            dump : BOOLEAN, codm : BOOLEAN]

ASSUME JobsAssumption == Jobs \subseteq JobType

(* One table of each way of loading, in the order of init: "attributes"    *)
(* stands for the arrays read when their count is positive and the version *)
(* has them, "types" and "offsets" for those always replaced, "specs" for  *)
(* the generic tables, kept when the structure counts none.                *)
LoadOrder == <<"attributes", "types", "offsets", "specs">>
Tables == {LoadOrder[k] : k \in 1 .. Len(LoadOrder)}
Counted == {"attributes", "specs"}

VARIABLES
    job,         \* what this run was started with
    pc,          \* where init_elf is
    turn,        \* the strategy init_elf is at, an index of Strategies
    version,     \* stream.version
    orig,        \* orig_version of the attempt under way
    relocations, \* how often process_relocations has been applied
    rewritten,   \* the segments are those of fix_program_segments
    dumped,      \* is_dumped, with the base in image_base
    asked,       \* the prompts that were shown
    tables,      \* whose data a table holds: none, the last attempt's, stale
    modules,     \* whose entries the module map has
    found,       \* the strategy that is reported
    scanned,     \* locate_code_gen_modules_in_dump was called
    outcome      \* "none" until init_elf returns

vars == <<job, pc, turn, version, orig, relocations, rewritten, dumped,
          asked, tables, modules, found, scanned, outcome>>

image == <<relocations, rewritten, dumped>>
search == <<turn, orig, tables, modules, found>>

TypeOK ==
    /\ job \in Jobs
    /\ pc \in {"new", "properties", "dump", "search", "refine", "init", "retry",
               "convert", "done"}
    /\ turn \in 1 .. Len(Strategies)
    /\ version \in Nat /\ orig \in Nat
    /\ relocations \in Nat
    /\ rewritten \in BOOLEAN /\ dumped \in BOOLEAN /\ scanned \in BOOLEAN
    /\ asked \in SUBSET {"base", "addresses"}
    /\ tables \in [Tables -> {"none", "last", "stale"}]
    /\ modules \in SUBSET {"last", "stale"}
    /\ found \in Known \cup {"none"}
    /\ outcome \in {"none", "ok", "error"}

Init ==
    /\ job \in Jobs
    /\ pc = "new" /\ turn = 1
    /\ version = 0 /\ orig = 0
    /\ relocations = 0 /\ rewritten = FALSE /\ dumped = FALSE
    /\ asked = {} /\ tables = [t \in Tables |-> "none"] /\ modules = {}
    /\ found = "none" /\ scanned = FALSE /\ outcome = "none"

Fail ==
    /\ pc' = "done" /\ outcome' = "error"

-----------------------------------------------------------------------------
(***************************************************************************)
(* Elf::load.  It may fail before the relocations (no PT_DYNAMIC) or while *)
(* it applies them; `d` is is_dumped and `ok` whether it returns Ok.       *)
(***************************************************************************)
LoadIgnoringDumps(d, ok) ==                                         \* mutant
    /\ rewritten' = d
    /\ relocations' \in {relocations, relocations + 1}
    /\ ok => relocations' = relocations + 1

Load(d, ok) ==
    /\ rewritten' = d
    /\ relocations' \in IF d THEN {relocations} ELSE {relocations, relocations + 1}
    /\ ok /\ ~d => relocations' = relocations + 1

(* Elf::new: the result of the load is ignored. *)
New ==
    /\ pc = "new"
    /\ \E ok \in BOOLEAN : Load(FALSE, ok)
    /\ pc' = "properties"
    /\ UNCHANGED <<job, version, dumped, asked, scanned, outcome, search>>

SetProperties ==
    /\ pc = "properties"
    /\ version' = job.version
    /\ pc' = "dump"
    /\ UNCHANGED <<job, asked, scanned, outcome, image, search>>

(* Case 1 of the comment in init_elf: the file is treated as a dump. *)
OffersRewrite == job.force \/ (~job.base /\ job.dump)

NotADump ==
    /\ pc = "dump"
    /\ ~OffersRewrite
    /\ pc' = "search"
    /\ UNCHANGED <<job, version, asked, scanned, outcome, image, search>>

(* runtime_base.or_else(prompt_dump_address), the prompt's answer being an *)
(* address or nothing.                                                     *)
AskForBase(b) ==
    /\ asked' = asked \cup IF job.base THEN {} ELSE {"base"}
    /\ job.base => b

TreatAsDump ==
    /\ pc = "dump"
    /\ OffersRewrite
    /\ \E b \in BOOLEAN : AskForBase(b) /\ dumped' = b
    /\ \/ /\ ~dumped' \/ job.keep
          /\ pc' = "search"
          /\ UNCHANGED <<relocations, rewritten, outcome>>
       \/ /\ dumped' /\ ~job.keep
          /\ \E ok \in BOOLEAN :
               /\ Load(TRUE, ok)
               /\ IF ok THEN pc' = "search" /\ UNCHANGED outcome ELSE Fail
    /\ UNCHANGED <<job, version, scanned, search>>

-----------------------------------------------------------------------------
(***************************************************************************)
(* The strategies.  Each looks for a pair of addresses; the pattern search *)
(* of a 32-bit ARM image has none in any other.                            *)
(***************************************************************************)
Here == Strategies[turn]
NothingIsLast == FALSE                                              \* mutant
IsLast == Here = "manual"

(* A base makes the name lookup possible, so nobody is asked. *)
NobodyAsked == FALSE                                                \* mutant
GoesOnWithoutRegistrations == job.base \/ dumped

Candidate ==
    /\ pc = "search"
    /\ Here = "manual" => ~GoesOnWithoutRegistrations
    /\ asked' = asked \cup IF Here = "manual" THEN {"addresses"} ELSE {}
    /\ orig' = version
    /\ pc' = "refine"
    /\ UNCHANGED <<job, turn, version, tables, modules, found, scanned,
                   outcome, image>>

NoCandidate ==
    /\ pc = "search"
    /\ ~IsLast
    /\ turn' = turn + 1
    /\ UNCHANGED <<job, pc, version, orig, tables, modules, found, asked,
                   scanned, outcome, image>>

(* The prompt reads end of file. *)
NoAnswer ==
    /\ pc = "search"
    /\ Here = "manual" /\ ~GoesOnWithoutRegistrations
    /\ asked' = asked \cup {"addresses"}
    /\ Fail
    /\ UNCHANGED <<job, version, scanned, image, search>>

Unregistered ==
    /\ pc = "search"
    /\ Here = "manual" /\ GoesOnWithoutRegistrations
    /\ pc' = "convert"
    /\ UNCHANGED <<job, version, asked, scanned, outcome, image, search>>

(***************************************************************************)
(* init_with_auto_plus: correct the version by the counts the structure    *)
(* shows, call init, and once more as version 29 if the image was a 31.    *)
(***************************************************************************)
Signs == {"many generics", "many wrappers", "no interop"}

Refined(v, shown) ==
    CASE v = 310 /\ "many generics" \notin shown -> 290
      [] v = 290 /\ "many generics" \in shown -> 291
      [] v = 270 /\ "many wrappers" \in shown -> 271
      [] v = 244 /\ "many wrappers" \in shown -> 245
      [] v = 242 /\ "no interop" \in shown -> 243
      [] OTHER -> v

Refine ==
    /\ pc = "refine"
    /\ \/ UNCHANGED version                     \* the address is not mapped
       \/ \E shown \in SUBSET Signs : version' = Refined(version, shown)
    /\ pc' = "init"
    /\ UNCHANGED <<job, asked, scanned, outcome, image, search>>

(* The tables init replaces when it gets past the first n of LoadOrder and *)
(* the structure has positive counts for `counted`.                        *)
Replaced(v, n, counted) ==
    {t \in {LoadOrder[k] : k \in 1 .. n} :
        /\ t \in Counted => t \in counted
        /\ t = "attributes" => v < 270}

(* A failure ends init after any table, the last one perhaps half read; in *)
(* the tolerant variant only the registrations and the types end it.       *)
Stops(n) == job.codm => n = 0 \/ (n < Len(LoadOrder) /\ LoadOrder[n + 1] = "types")
ToleratesAll == IF job.codm THEN Tables ELSE {}                     \* mutant
Tolerated == IF job.codm THEN Tables \ {"types"} ELSE {}

Aged(t) == IF tables[t] = "none" THEN "none" ELSE "stale"
AgedModules == IF modules = {} THEN {} ELSE {"stale"}

LoadedBy(written) == [t \in Tables |-> IF t \in written THEN "last" ELSE Aged(t)]

(* load_code_gen_modules inserts and never clears: entries of earlier      *)
(* attempts stay unless one of the same name replaces them.                *)
ModulesAfter(v) ==
    {AgedModules} \cup IF v < 242 THEN {} ELSE {{"last"}, {"last"} \cup AgedModules}

InitFails(v) ==
    /\ \/ \E n \in 0 .. Len(LoadOrder), counted \in SUBSET Counted :
            /\ Stops(n)
            /\ \E missed \in SUBSET Tolerated :
                 tables' = LoadedBy(Replaced(v, n, counted) \ missed)
            /\ modules' = AgedModules
       \/ \E counted \in SUBSET Counted, missed \in SUBSET Tolerated :
            /\ v >= 242                          \* one of the modules is not mapped
            /\ tables' = LoadedBy(Replaced(v, Len(LoadOrder), counted) \ missed)
            /\ modules' \in ModulesAfter(v)
    /\ UNCHANGED <<job, asked, scanned, image>>

InitSucceeds(v) ==
    /\ \E counted \in SUBSET Counted, missed \in SUBSET Tolerated :
         tables' = LoadedBy(Replaced(v, Len(LoadOrder), counted) \ missed)
    /\ modules' \in ModulesAfter(v)
    /\ found' = Here
    /\ orig' = 0
    /\ pc' = "convert"
    /\ UNCHANGED <<job, turn, version, asked, scanned, outcome, image>>

MayRetry == orig = 310 /\ version # 290

RetryAsOld ==
    /\ pc = "init" /\ MayRetry
    /\ InitFails(version)
    /\ version' = 290
    /\ pc' = "retry"
    /\ UNCHANGED <<turn, orig, found, outcome>>

(* The next strategy goes on with whatever this one has left behind. *)
GiveUp ==
    /\ pc = "retry" \/ (pc = "init" /\ ~MayRetry)
    /\ InitFails(version)
    /\ IF IsLast THEN Fail /\ UNCHANGED turn
       ELSE pc' = "search" /\ turn' = turn + 1 /\ UNCHANGED outcome
    /\ orig' = 0
    /\ UNCHANGED <<version, found>>

Succeed ==
    /\ pc \in {"init", "retry"}
    /\ InitSucceeds(version)

(* from_elf copies the tables; a base and no modules start the lookup by   *)
(* name in the dump.                                                       *)
LooksUpNames == (job.base \/ dumped) /\ modules = {}

Convert ==
    /\ pc = "convert"
    /\ scanned' = LooksUpNames
    /\ pc' = "done" /\ outcome' = "ok"
    /\ UNCHANGED <<job, version, asked, image, search>>

Next ==
    \/ New \/ SetProperties \/ NotADump \/ TreatAsDump
    \/ Candidate \/ NoCandidate \/ NoAnswer \/ Unregistered
    \/ Refine \/ RetryAsOld \/ GiveUp \/ Succeed \/ Convert

Spec == Init /\ [][Next]_vars

-----------------------------------------------------------------------------
(* Relocations are applied at most once to an image, however often it is   *)
(* loaded: "Re-loading here would run process_relocations a SECOND time".  *)
RelocatedOnce == relocations <= 1

(* A base given on the command line keeps the mapping of the file unless   *)
(* the rewrite is asked for with --force-dump: a hybrid dump whose sections *)
(* were rewritten loses the metadata registration.                         *)
HybridKeepsMapping == rewritten => job.force \/ ~job.base

(* A run that was given its base is never stopped at a prompt: under nohup *)
(* "the prompt reads EOF and the whole run dies".                          *)
NobodyWaits == job.base => asked = {}

(* With a base and no rewrite there is no way to fail: every strategy may  *)
(* come to nothing and the tables are still handed on.                     *)
BaseNeverDies == job.base /\ ~job.force => outcome # "error"

(* What is handed on was read by the strategy that is reported: no table   *)
(* that init always replaces is left from a candidate that failed.         *)
WinnersTables ==
    outcome = "ok" /\ found # "none" =>
        /\ tables["types"] = "last"
        /\ ~job.codm => tables["offsets"] = "last"

(* When no registration is found and the run goes on, the methods are      *)
(* looked up by name ("that lookup runs once the metadata's assembly names *)
(* are known ..., so continue").                                           *)
LookedUpInstead == outcome = "ok" /\ found = "none" => scanned
=============================================================================
