--------------------------- MODULE ElfInitProofs ---------------------------
(***************************************************************************)
(* What init_elf promises, for every set of jobs: one invariant about the  *)
(* image (how often it is relocated, when it is rewritten, who is asked)   *)
(* and one about the tables that are handed on.                            *)
(***************************************************************************)
EXTENDS ElfInit, TLAPS

LEMMA Lengths == Len(Strategies) = 4 /\ Len(LoadOrder) = 4
BY DEF Strategies, LoadOrder

(* Before the image is constructed nothing is relocated, and a pair of     *)
(* addresses is typed in only by a run without a base.                     *)
ImageInv ==
    /\ job \in JobType
    /\ turn \in 1 .. 4
    /\ relocations \in Nat
    /\ pc = "new" => relocations = 0
    /\ RelocatedOnce
    /\ HybridKeepsMapping
    /\ NobodyWaits
    /\ pc \in {"refine", "init", "retry"} /\ turn = 4 => ~job.base
    /\ BaseNeverDies

(* A strategy is reported only after the last call of init returned.       *)
TablesInv ==
    found # "none" =>
        /\ pc \in {"convert", "done"}
        /\ tables["types"] = "last"
        /\ ~job.codm => tables["offsets"] = "last"

LEMMA ImageInit == Init => ImageInv
BY JobsAssumption, Lengths
   DEF Init, ImageInv, RelocatedOnce, HybridKeepsMapping, NobodyWaits, BaseNeverDies

(* An invocation of init changes nothing about the image. *)
LEMMA InitKeepsImage ==
    ASSUME NEW v, InitFails(v) \/ InitSucceeds(v)
    PROVE  UNCHANGED <<job, asked, relocations, rewritten, dumped>>
BY DEF InitFails, InitSucceeds, image

LEMMA ImageStep == ImageInv /\ [Next]_vars => ImageInv'
<1> SUFFICES ASSUME ImageInv, [Next]_vars PROVE ImageInv'
    OBVIOUS
<1> USE Lengths DEF ImageInv, RelocatedOnce, HybridKeepsMapping, NobodyWaits, BaseNeverDies
<1>1. CASE New
    BY <1>1 DEF New, Load, search
<1>2. CASE SetProperties
    BY <1>2 DEF SetProperties, image, search
<1>3. CASE NotADump
    BY <1>3 DEF NotADump, image, search
<1>4. CASE TreatAsDump
    <2>1. /\ pc = "dump" /\ (job.force \/ ~job.base)
          /\ UNCHANGED <<job, turn>>
          /\ job.base => asked' = asked
        BY <1>4 DEF TreatAsDump, OffersRewrite, AskForBase, search
    <2>2. /\ relocations' = relocations
          /\ pc' \in {"search", "done"}
        BY <1>4 DEF TreatAsDump, Load, Fail
    <2>3. job.force \/ ~job.base
        BY <2>1
    <2> QED BY <2>1, <2>2, <2>3
<1>5. CASE Candidate
    <2>1. turn = 4 => Here = "manual"
        BY DEF Here, Strategies
    <2>2. Here = "manual" => turn = 4
        BY DEF Here, Strategies
    <2> QED BY <1>5, <2>1, <2>2 DEF Candidate, GoesOnWithoutRegistrations, image
<1>6. CASE NoCandidate
    <2>1. turn # 4
        BY <1>6 DEF NoCandidate, IsLast, Here, Strategies
    <2> QED BY <1>6, <2>1 DEF NoCandidate, image
<1>7. CASE NoAnswer
    BY <1>7 DEF NoAnswer, GoesOnWithoutRegistrations, Fail, image, search
<1>8. CASE Unregistered
    BY <1>8 DEF Unregistered, image, search
<1>9. CASE Refine
    BY <1>9 DEF Refine, image, search
<1>10. CASE RetryAsOld
    <2>1. UNCHANGED <<job, asked, relocations, rewritten, dumped>>
        BY <1>10, InitKeepsImage DEF RetryAsOld
    <2> QED BY <1>10, <2>1 DEF RetryAsOld
<1>11. CASE GiveUp
    <2>1. UNCHANGED <<job, asked, relocations, rewritten, dumped>>
        BY <1>11, InitKeepsImage DEF GiveUp
    <2>2. pc \in {"init", "retry"}
        BY <1>11 DEF GiveUp
    <2>3. Here = "manual" <=> turn = 4
        BY DEF Here, Strategies
    <2>4. CASE Here = "manual"
        BY <1>11, <2>1, <2>2, <2>3, <2>4 DEF IsLast, GiveUp, Fail
    <2>5. CASE Here # "manual"
        BY <1>11, <2>1, <2>2, <2>3, <2>5 DEF IsLast, GiveUp
    <2> QED BY <2>4, <2>5
<1>12. CASE Succeed
    <2>1. UNCHANGED <<job, asked, relocations, rewritten, dumped>>
        BY <1>12, InitKeepsImage DEF Succeed
    <2>2. pc' = "convert" /\ UNCHANGED <<turn, outcome>>
        BY <1>12 DEF Succeed, InitSucceeds
    <2> QED BY <1>12, <2>1, <2>2 DEF Succeed
<1>13. CASE Convert
    BY <1>13 DEF Convert, image, search
<1>14. CASE UNCHANGED vars
    BY <1>14 DEF vars
<1> QED BY <1>1, <1>2, <1>3, <1>4, <1>5, <1>6, <1>7, <1>8, <1>9, <1>10, <1>11, <1>12,
           <1>13, <1>14 DEF Next

(* init replaces the types and the offsets, whatever the structure counts. *)
LEMMA AlwaysReplaced ==
    ASSUME NEW v, NEW counted
    PROVE  {"types", "offsets"} \subseteq Replaced(v, Len(LoadOrder), counted)
<1>1. LoadOrder[2] = "types" /\ LoadOrder[3] = "offsets" /\ 2 \in 1 .. 4 /\ 3 \in 1 .. 4
    BY DEF LoadOrder
<1> QED BY <1>1, Lengths DEF Replaced, Counted

LEMMA WinnerLoaded ==
    ASSUME NEW v, InitSucceeds(v)
    PROVE  tables'["types"] = "last" /\ (~job.codm => tables'["offsets"] = "last")
<1>1. PICK counted \in SUBSET Counted, missed \in SUBSET Tolerated :
          tables' = LoadedBy(Replaced(v, Len(LoadOrder), counted) \ missed)
    BY DEF InitSucceeds
<1>2. "types" \in Tables /\ "offsets" \in Tables
    <2>1. LoadOrder[2] = "types" /\ LoadOrder[3] = "offsets" /\ 2 \in 1 .. 4 /\ 3 \in 1 .. 4
        BY DEF LoadOrder
    <2> QED BY <2>1, Lengths DEF Tables
<1>3. "types" \notin missed /\ (~job.codm => "offsets" \notin missed)
    BY <1>1 DEF Tolerated
<1> QED BY <1>1, <1>2, <1>3, AlwaysReplaced DEF LoadedBy

LEMMA TablesStep == TablesInv /\ [Next]_vars => TablesInv'
<1> SUFFICES ASSUME TablesInv, [Next]_vars PROVE TablesInv'
    OBVIOUS
<1>1. CASE Succeed
    <2>1. UNCHANGED job /\ pc' = "convert"
        BY <1>1 DEF Succeed, InitSucceeds
    <2>2. tables'["types"] = "last" /\ (~job.codm => tables'["offsets"] = "last")
        BY <1>1, WinnerLoaded DEF Succeed
    <2> QED BY <2>1, <2>2 DEF TablesInv
<1>2. CASE RetryAsOld \/ GiveUp
    <2>1. found' = found /\ pc \in {"init", "retry"}
        BY <1>2 DEF RetryAsOld, GiveUp
    <2> QED BY <2>1 DEF TablesInv
<1>3. CASE ~(Succeed \/ RetryAsOld \/ GiveUp)
    <2>1. UNCHANGED <<job, tables, found>>
        BY <1>3 DEF Next, New, SetProperties, NotADump, TreatAsDump, Candidate, NoCandidate,
                    NoAnswer, Unregistered, Refine, Convert, search, vars
    <2>2. pc \in {"convert", "done"} => pc' \in {"convert", "done"}
        BY <1>3 DEF Next, New, SetProperties, NotADump, TreatAsDump, Candidate, NoCandidate,
                    NoAnswer, Unregistered, Refine, Convert, Fail, vars
    <2> QED BY <2>1, <2>2 DEF TablesInv
<1> QED BY <1>1, <1>2, <1>3

-----------------------------------------------------------------------------
(* Relocations are applied at most once, whatever the switches and the     *)
(* file; a file given with its base keeps its mapping, is never waited for *)
(* at a prompt and never ends without a result.                            *)
THEOREM ImageSafe ==
    Spec => [](RelocatedOnce /\ HybridKeepsMapping /\ NobodyWaits /\ BaseNeverDies)
<1>1. ImageInv => RelocatedOnce /\ HybridKeepsMapping /\ NobodyWaits /\ BaseNeverDies
    BY DEF ImageInv
<1> QED BY <1>1, ImageInit, ImageStep, PTL DEF Spec

(* The types and the offsets that are handed on were read by the strategy  *)
(* that is reported.                                                       *)
THEOREM WinnersTablesAlways == Spec => []WinnersTables
<1>1. Init => TablesInv
    BY DEF Init, TablesInv
<1>2. TablesInv => WinnersTables
    BY DEF TablesInv, WinnersTables
<1> QED BY <1>1, <1>2, TablesStep, PTL DEF Spec

(* A file given with its base and not to be rewritten never ends without a *)
(* result, whatever the strategies find.                                   *)
THEOREM BaseNeverDiesAlways == Spec => []BaseNeverDies
<1>1. ImageInv => BaseNeverDies
    BY DEF ImageInv
<1> QED BY <1>1, ImageInit, ImageStep, PTL DEF Spec

-----------------------------------------------------------------------------
LEMMA RefinedIsVersion ==
    ASSUME NEW v \in Nat, NEW shown
    PROVE  Refined(v, shown) \in Nat
BY DEF Refined

(* Tables and modules change together, in an invocation of init only.      *)
Loads == {"none", "last", "stale"}

LEMMA InitKeepsTypes ==
    ASSUME TypeOK, NEW v, InitFails(v) \/ InitSucceeds(v)
    PROVE  tables' \in [Tables -> Loads] /\ modules' \in SUBSET {"last", "stale"}
<1>1. ASSUME NEW W PROVE LoadedBy(W) \in [Tables -> Loads]
    <2>1. \A t \in Tables : Aged(t) \in Loads
        BY DEF Aged, Loads
    <2> QED BY <2>1 DEF LoadedBy, Loads
<1>2. AgedModules \in SUBSET {"last", "stale"}
    BY DEF AgedModules
<1>3. ModulesAfter(v) \subseteq SUBSET {"last", "stale"}
    BY <1>2 DEF ModulesAfter
<1>4. CASE InitFails(v)
    <2>1. \E W : tables' = LoadedBy(W)
        BY <1>4 DEF InitFails
    <2>2. modules' = AgedModules \/ modules' \in ModulesAfter(v)
        BY <1>4 DEF InitFails
    <2> QED BY <1>1, <1>2, <1>3, <2>1, <2>2
<1>5. CASE InitSucceeds(v)
    <2>1. \E W : tables' = LoadedBy(W)
        BY <1>5 DEF InitSucceeds
    <2>2. modules' \in ModulesAfter(v)
        BY <1>5 DEF InitSucceeds
    <2> QED BY <1>1, <1>3, <2>1, <2>2
<1> QED BY <1>4, <1>5

LEMMA TypeStep == TypeOK /\ [Next]_vars => TypeOK'
<1> SUFFICES ASSUME TypeOK, [Next]_vars PROVE TypeOK'
    OBVIOUS
<1> USE Lengths DEF TypeOK
<1>1. CASE New
    <2>1. \E ok \in BOOLEAN : Load(FALSE, ok)
        BY <1>1 DEF New
    <2>2. rewritten' = FALSE
        BY <2>1, Zenon DEF Load
    <2>3. dumped' = dumped /\ scanned' = scanned
        BY <1>1, Zenon DEF New
    <2>4. rewritten' \in BOOLEAN /\ dumped' \in BOOLEAN /\ scanned' \in BOOLEAN
        BY <2>2, <2>3, Zenon
    <2>5. relocations' \in Nat
        BY <2>1 DEF Load
    <2> QED BY <1>1, <2>4, <2>5 DEF New, search
<1>2. CASE SetProperties
    BY <1>2, JobsAssumption DEF SetProperties, JobType, image, search
<1>3. CASE NotADump
    BY <1>3 DEF NotADump, image, search
<1>4. CASE TreatAsDump
    <2>1. \E b \in BOOLEAN : AskForBase(b) /\ dumped' = b
        BY <1>4 DEF TreatAsDump
    <2>2. dumped' \in BOOLEAN
        BY <2>1, Zenon
    <2>3. asked' \in SUBSET {"base", "addresses"}
        BY <2>1 DEF AskForBase
    <2>4. /\ relocations' \in Nat /\ pc' \in {"search", "done"}
          /\ outcome' \in {"none", "ok", "error"}
        BY <1>4 DEF TreatAsDump, Load, Fail
    <2>5. rewritten' \in BOOLEAN
        BY <1>4, Zenon DEF TreatAsDump, Load
    <2>6. scanned' \in BOOLEAN
        BY <1>4, Zenon DEF TreatAsDump
    <2> QED BY <1>4, <2>2, <2>3, <2>4, <2>5, <2>6 DEF TreatAsDump, search
<1>5. CASE Candidate \/ NoCandidate
    <2>1. Strategies = <<"section", "symbols", "arm32", "manual">>
        BY DEF Strategies
    <2>2. CASE Candidate
        <3>1. UNCHANGED <<job, version, rewritten, dumped, scanned, outcome>>
            BY <2>2 DEF Candidate, image
        <3> QED BY <2>2, <3>1 DEF Candidate, image
    <2>3. CASE NoCandidate
        BY <2>1, <2>3 DEF NoCandidate, IsLast, Here, image
    <2> QED BY <1>5, <2>2, <2>3
<1>6. CASE NoAnswer \/ Unregistered
    BY <1>6 DEF NoAnswer, Unregistered, Fail, image, search
<1>7. CASE Refine
    BY <1>7, RefinedIsVersion DEF Refine, image, search
<1>8. CASE RetryAsOld
    <2>1. InitFails(version) /\ version' = 290 /\ pc' = "retry"
          /\ UNCHANGED <<turn, orig, found, outcome>>
        BY <1>8 DEF RetryAsOld
    <2>2. UNCHANGED <<job, asked, scanned, relocations, rewritten, dumped>>
        BY <2>1 DEF InitFails, image
    <2> QED BY <2>1, <2>2, InitKeepsTypes DEF Loads
<1>9. CASE GiveUp
    <2>1. InitFails(version) /\ orig' = 0 /\ UNCHANGED <<version, found>>
        BY <1>9 DEF GiveUp
    <2>2. UNCHANGED <<job, asked, scanned, relocations, rewritten, dumped>>
        BY <2>1 DEF InitFails, image
    <2>3. /\ pc' \in {"done", "search"} /\ outcome' \in {"none", "ok", "error"}
          /\ turn' \in 1 .. Len(Strategies)
        BY <1>9 DEF GiveUp, Fail, IsLast, Here, Strategies
    <2> QED BY <2>1, <2>2, <2>3, InitKeepsTypes DEF Loads
<1>10. CASE Succeed
    <2>1. InitSucceeds(version)
        BY <1>10 DEF Succeed
    <2>2. /\ UNCHANGED <<job, turn, version, asked, scanned, outcome, relocations, rewritten, dumped>>
          /\ found' = Here /\ orig' = 0 /\ pc' = "convert"
        BY <2>1 DEF InitSucceeds, image
    <2>3. Here \in Known
        BY DEF Here, Known
    <2> QED BY <2>1, <2>2, <2>3, InitKeepsTypes DEF Loads
<1>11. CASE Convert
    BY <1>11 DEF Convert, LooksUpNames, image, search
<1>12. CASE UNCHANGED vars
    BY <1>12 DEF vars
<1> QED BY <1>1, <1>2, <1>3, <1>4, <1>5, <1>6, <1>7, <1>8, <1>9, <1>10, <1>11, <1>12 DEF Next

(* The state keeps its type: the search names one of its four strategies   *)
(* at every step, and a table's data is of the last attempt or an older.   *)
THEOREM ElfInitTypes == Spec => []TypeOK
<1>1. Init => TypeOK
    <2> SUFFICES ASSUME Init PROVE TypeOK
        OBVIOUS
    <2>1. rewritten \in BOOLEAN /\ dumped \in BOOLEAN /\ scanned \in BOOLEAN
        BY Zenon DEF Init
    <2> QED BY <2>1, Lengths DEF Init, TypeOK
<1> QED BY <1>1, TypeStep, PTL DEF Spec
=============================================================================
