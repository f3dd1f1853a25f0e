---------------------------- MODULE RecoveryPool ----------------------------
(***************************************************************************)
(* The whole-binary native pseudo-C# pass, decompile_methods_to_csharp of  *)
(* src/recovery/csharp.rs: a rayon pool renders the methods of one binary  *)
(* in parallel, every worker running lift -> passes -> verify -> render on *)
(* one method at a time.  The workers share four process-wide registries   *)
(* (lambda bodies, pointer usage, grades, fallback counters) and keep two  *)
(* thread-locals (the verifier's ledger and its "graded" marker).  After   *)
(* the join the driver resolves the pointers every user agrees on and      *)
(* rewrites the texts.                                                     *)
(*                                                                         *)
(* A process may run the pass more than once (the crate is a library):     *)
(* StartRun begins the next run.  The process-wide registries, the         *)
(* environment and the cached flags survive from one run to the next.      *)
(*                                                                         *)
(* Abstractions.  A method's machine code is what the pass can tell apart  *)
(* about it: a record of prog.  A body is its stamp, the lambda each       *)
(* delegate construction was folded to, and one line of pointer tokens.    *)
(* Only the ILR_ANNOTATE gate of the verifier is modelled (ILR_VERIFY and  *)
(* ILR_CONFORM, its debugging twins, are unset).                           *)
(***************************************************************************)
EXTENDS Naturals, Sequences, FiniteSets

CONSTANTS
    Workers,        \* threads of the rayon pool
    Methods,        \* RVAs of the methods of the binaries
    Types,          \* declaring type names
    Ptrs,           \* GOT addends no table can name
    Addrs,          \* native instruction addresses
    LambdaNames,    \* bare metadata names of generated lambdas, <M>b__N_K
    Programs,       \* the binaries a run may be given
    TimeLimit,      \* ILR_TIME_LIMIT is set: deadlines may fire
    MaxRuns,        \* bound: runs of one process
    NoMethod, NoType, NoName   \* the absent method, type and lambda name

(***************************************************************************)
(* What one method of a binary looks like to the pass.                     *)
(***************************************************************************)
NativeMethod ==
    [ size     : {"empty", "fits", "tooLarge"},
      readable : BOOLEAN,
      lift     : {"unsupported", "thunk", "normal"},
      erased   : SUBSET Addrs,   \* instructions a pass removes and ledgers
      lost     : SUBSET Addrs,   \* instructions the final IR does not cover
      render   : {"stmts", "return", "nothing"},
      type     : Types,
      ptrs     : Seq(Ptrs),      \* unnamed pointers of its one text line
      lambda   : LambdaNames \cup {NoName},
      simple   : BOOLEAN,        \* single-expression body: registrable
      arity    : Nat,            \* its parameters
      typed    : BOOLEAN,        \* a delegate on it names a known delegate type
      refs     : SUBSET Methods ] \* lambdas it constructs delegates for

ASSUME WorkersAssumption == IsFiniteSet(Workers)
ASSUME MethodsAssumption == IsFiniteSet(Methods) /\ NoMethod \notin Methods
ASSUME TypesAssumption == NoType \notin Types
ASSUME NamesAssumption == NoName \notin LambdaNames
ASSUME ProgramsAssumption == \A p \in Programs : p \in [Methods -> NativeMethod]
ASSUME FlagsAssumption == TimeLimit \in BOOLEAN /\ MaxRuns \in Nat \ {0}

VARIABLES
    phase,        \* the driver: "idle", "render", "rewrite", "done"
    runs,         \* runs started so far in this process
    prog,         \* the binary of the current run
    annotate,     \* config.annotate_recovery of the current run
    envAnnotate,  \* ILR_ANNOTATE is in the process environment
    flagCache,    \* env_flags::flag("ILR_ANNOTATE"): "unset", "on", "off"
    todo,         \* methods no worker has claimed
    at,           \* the method a worker is on
    pc,           \* where a worker is in it
    graded,       \* thread-local GRADED
    ledger,       \* thread-local LEDGER
    refsLeft,     \* constructions the worker has still to look up
    folds,        \* what the looked-up ones were folded to
    ptrsLeft,     \* pointers the worker has still to record
    registry,     \* LAMBDA_BODIES: bare name -> the lambda registered last
    annotations,  \* ANNOTATIONS: RVA -> grade
    ptrUsers,     \* PTR_USAGE: addend -> declaring types
    resolved,     \* the result of ptr_resolution::resolve
    unrewritten,  \* texts the parallel replacement has still to visit
    census,       \* FALLBACK
    results       \* RVA -> emitted text

driverVars == <<phase, runs, prog, annotate, envAnnotate>>
workerVars == <<at, pc, graded, ledger, refsLeft, folds, ptrsLeft>>
sharedVars == <<flagCache, registry, annotations, ptrUsers, census>>
joinVars   == <<resolved, unrewritten>>
vars == <<driverVars, workerVars, sharedVars, joinVars, todo, results>>

-----------------------------------------------------------------------------
(* Values.                                                                 *)

Grades == {"flagged", "unverified"}
Counters == {"attempted", "tooLarge", "unreadable", "unsupported", "emptyBody"}
NoLambda == [run |-> 0, method |-> NoMethod, arity |-> 0]
Lambdas == {NoLambda} \cup [run : 1..MaxRuns, method : Methods, arity : Nat]
Token == [ptr : Ptrs, type : Types \cup {NoType}]
Line == Seq(Token)

Text == [ kind  : {"pending", "none", "marker", "body"},
          stamp : Grades \cup {"none"},
          folds : [Methods -> Lambdas],
          line  : Line ]

NoFolds == [m \in Methods |-> NoLambda]
Plain(kind) == [kind |-> kind, stamp |-> "none", folds |-> NoFolds, line |-> << >>]

\* The text line field_annotation prints: every pointer still unnamed.
Unnamed(ps) == [i \in DOMAIN ps |-> [ptr |-> ps[i], type |-> NoType]]

\* is_lambda_method /\ extract_lambda_body(..).is_some()
Registrable(b) == b.lambda # NoName /\ b.simple

\* VerifyReport::is_clean: every instruction the final IR does not cover was
\* erased by a pass that said so.
IsClean(b, erasures) == b.lost \subseteq erasures

Init ==
    /\ phase = "idle" /\ runs = 0
    /\ prog \in Programs /\ annotate = FALSE /\ envAnnotate = FALSE
    /\ flagCache = "unset"
    /\ todo = {}
    /\ at = [w \in Workers |-> NoMethod]
    /\ pc = [w \in Workers |-> "free"]
    /\ graded = [w \in Workers |-> FALSE]
    /\ ledger = [w \in Workers |-> {}]
    /\ refsLeft = [w \in Workers |-> {}]
    /\ folds = [w \in Workers |-> NoFolds]
    /\ ptrsLeft = [w \in Workers |-> << >>]
    /\ registry = [n \in LambdaNames |-> NoLambda]
    /\ annotations = [m \in Methods |-> "none"]
    /\ ptrUsers = [p \in Ptrs |-> {}]
    /\ resolved = [p \in Ptrs |-> NoType]
    /\ unrewritten = {}
    /\ census = [c \in Counters |-> 0]
    /\ results = [m \in Methods |-> Plain("pending")]

-----------------------------------------------------------------------------
(* The driver, up to the parallel walk.                                    *)

\* decompile_methods_to_csharp up to par_iter: the annotate gate is put into
\* the environment when the run asks for it (and never taken out), the pointer
\* registry is initialised.  No other process-wide state is reset.
StartRun(p, a) ==
    /\ phase \in {"idle", "done"} /\ runs < MaxRuns
    /\ phase' = "render" /\ runs' = runs + 1
    /\ prog' = p /\ annotate' = a
    /\ envAnnotate' = (envAnnotate \/ a)
    /\ ptrUsers' = [q \in Ptrs |-> {}]
    /\ todo' = Methods
    /\ results' = [m \in Methods |-> Plain("pending")]
    /\ resolved' = [q \in Ptrs |-> NoType]
    /\ UNCHANGED <<workerVars, flagCache, registry, annotations, census, unrewritten>>

-----------------------------------------------------------------------------
(* A worker on one method.                                                 *)

BumpDown(c) == [census EXCEPT !["attempted"] = @ - 1, ![c] = @ + 1]   \* mutant
BumpOnly(c) == [census EXCEPT ![c] = @ + 1]                        \* mutant
Bump(c) == [census EXCEPT !["attempted"] = @ + 1, ![c] = @ + 1]

RetryEmpty(m) == IF prog[m].size = "empty" THEN todo ELSE todo \ {m} \* mutant
Unclaimed(m) == todo \ {m}

Finish(w, text) ==
    /\ results' = [results EXCEPT ![at[w]] = text]
    /\ at' = [at EXCEPT ![w] = NoMethod]
    /\ pc' = [pc EXCEPT ![w] = "free"]

\* The size probe and the byte read.  A method without native bytes gets no
\* text at all; a skipped one gets a marker; the others clear the thread's
\* graded marker and enter the pipeline.
Claim(w, m) ==
    LET b == prog[m]
        settled(text) == /\ results' = [results EXCEPT ![m] = text]
                         /\ UNCHANGED <<at, pc, graded>>
    IN /\ phase = "render" /\ pc[w] = "free" /\ m \in todo
       /\ todo' = Unclaimed(m)
       /\ \/ /\ b.size = "empty"
             /\ settled(Plain("none")) /\ UNCHANGED census
          \/ /\ b.size = "tooLarge"
             /\ settled(Plain("marker")) /\ census' = Bump("tooLarge")
          \/ /\ b.size = "fits" /\ ~b.readable
             /\ settled(Plain("marker")) /\ census' = Bump("unreadable")
          \/ /\ b.size = "fits" /\ b.readable
             /\ census' = [census EXCEPT !["attempted"] = @ + 1]
             /\ graded' = [graded EXCEPT ![w] = FALSE]
             /\ at' = [at EXCEPT ![w] = m]
             /\ pc' = [pc EXCEPT ![w] = "lift"]
             /\ UNCHANGED results
       /\ UNCHANGED <<driverVars, joinVars, flagCache, registry, annotations,
                      ptrUsers, ledger, refsLeft, folds, ptrsLeft>>

\* env_flags::flag: the first reader of a name fixes its answer for good.
ReadFlag == IF flagCache # "unset" THEN flagCache
            ELSE IF envAnnotate THEN "on" ELSE "off"
VerifyOn == ReadFlag = "on"

\* "Verifier ledger must never leak excuses between methods on the same worker
\* thread": verify::ledger_clear.
LeakyLedger(w) == ledger[w]                                        \* mutant
FreshLedger(w) == IF VerifyOn THEN {} ELSE ledger[w]

\* recover_ir_deadline, entry to lift: read the gate, drop the ledger of the
\* thread's previous method, lift.  An unliftable method is a marker; a
\* one-branch thunk is trusted and skips the passes and the verifier.
Lift(w) ==
    LET b == prog[at[w]]
    IN /\ pc[w] = "lift"
       /\ flagCache' = ReadFlag
       /\ ledger' = [ledger EXCEPT ![w] = FreshLedger(w)]
       /\ \/ /\ b.lift = "unsupported"
             /\ census' = [census EXCEPT !["unsupported"] = @ + 1]
             /\ Finish(w, Plain("marker"))
             /\ UNCHANGED graded
          \/ /\ b.lift = "thunk"
             /\ graded' = [graded EXCEPT ![w] = @ \/ VerifyOn]
             /\ pc' = [pc EXCEPT ![w] = "label"]
             /\ UNCHANGED <<census, at, results>>
          \/ /\ b.lift = "normal"
             /\ pc' = [pc EXCEPT ![w] = "passes"]
             /\ UNCHANGED <<census, at, results, graded>>
       /\ UNCHANGED <<driverVars, joinVars, todo, registry, annotations,
                      ptrUsers, refsLeft, folds, ptrsLeft>>

\* The optimisation passes: what they erase on purpose goes into the ledger.
Optimise(w) ==
    /\ pc[w] = "passes"
    /\ ledger' = [ledger EXCEPT ![w] = @ \cup prog[at[w]].erased]
    /\ pc' = [pc EXCEPT ![w] = "verify"]
    /\ UNCHANGED <<driverVars, joinVars, sharedVars, todo, results,
                   at, graded, refsLeft, folds, ptrsLeft>>

\* The deadline is checked between the stages up to the optimisation loop; past
\* it there is no IR, hence a marker.  The passes before the check have noted
\* some of their erasures.
LateDeadlineStages == {"passes", "label"}                          \* mutant
DeadlineStages == {"passes"}

Deadline(w) ==
    /\ TimeLimit /\ pc[w] \in DeadlineStages
    /\ \E noted \in SUBSET prog[at[w]].erased :
          ledger' = [ledger EXCEPT ![w] = @ \cup noted]
    /\ census' = [census EXCEPT !["unsupported"] = @ + 1]
    /\ Finish(w, Plain("marker"))
    /\ UNCHANGED <<driverVars, joinVars, todo, flagCache, registry, annotations,
                   ptrUsers, graded, refsLeft, folds, ptrsLeft>>

\* verify_and_log: grade against the ledger; only a non-clean grade is stored.
Verify(w) ==
    /\ pc[w] = "verify"
    /\ IF VerifyOn
       THEN /\ graded' = [graded EXCEPT ![w] = TRUE]
            /\ annotations' = IF IsClean(prog[at[w]], ledger[w]) THEN annotations
                              ELSE [annotations EXCEPT ![at[w]] = "flagged"]
       ELSE UNCHANGED <<graded, annotations>>
    /\ pc' = [pc EXCEPT ![w] = "label"]
    /\ UNCHANGED <<driverVars, joinVars, todo, results, flagCache, registry,
                   ptrUsers, census, at, ledger, refsLeft, folds, ptrsLeft>>

\* Back in the driver's closure: an IR that never met the verifier is stamped
\* "not verified" when this run annotates.
Label(w) ==
    /\ pc[w] = "label"
    /\ annotations' = IF annotate /\ ~graded[w]
                      THEN [annotations EXCEPT ![at[w]] = "unverified"]
                      ELSE annotations
    /\ pc' = [pc EXCEPT ![w] = "register"]
    /\ UNCHANGED <<driverVars, joinVars, todo, results, flagCache, registry, ptrUsers,
                   census, at, graded, ledger, refsLeft, folds, ptrsLeft>>

\* register_lambda_body: a generated lambda files its body under its bare
\* metadata name, over whatever is filed there.
RegisterLambda(w) ==
    LET b == prog[at[w]]
    IN /\ pc[w] = "register"
       /\ registry' = IF Registrable(b)
                      THEN [registry EXCEPT ![b.lambda] =
                               [run |-> runs, method |-> at[w], arity |-> b.arity]]
                      ELSE registry
       /\ refsLeft' = [refsLeft EXCEPT ![w] = b.refs]
       /\ folds' = [folds EXCEPT ![w] = NoFolds]
       /\ ptrsLeft' = [ptrsLeft EXCEPT ![w] = b.ptrs]
       /\ pc' = [pc EXCEPT ![w] = "fold"]
       /\ UNCHANGED <<driverVars, joinVars, todo, results, flagCache, annotations,
                      ptrUsers, census, at, graded, ledger>>

LastUser(p, t) == {t}                                              \* mutant
AddUser(p, t) == ptrUsers[p] \cup {t}

\* ptr_resolution::record_usage, one call per unnamed pointer printed.
RecordUsage(w) ==
    /\ pc[w] = "fold" /\ ptrsLeft[w] # << >>
    /\ LET p == Head(ptrsLeft[w])
       IN ptrUsers' = [ptrUsers EXCEPT ![p] = AddUser(p, prog[at[w]].type)]
    /\ ptrsLeft' = [ptrsLeft EXCEPT ![w] = Tail(@)]
    /\ UNCHANGED <<driverVars, joinVars, todo, results, flagCache, registry,
                   annotations, census, at, pc, graded, ledger, refsLeft, folds>>

\* "The arity gate": a known delegate type states its arity, the lossy object
\* spelling does not.
AnyArity(found, l) == found # NoLambda                             \* mutant
Accepts(found, l) ==
    found # NoLambda /\ (prog[l].typed => found.arity = prog[l].arity)

\* lambda_inline::registered_lambda for one delegate construction: the body on
\* file under the bare name, if the arity gate accepts it.
FoldLambda(w, l) ==
    LET name == prog[l].lambda
        found == IF name = NoName THEN NoLambda ELSE registry[name]
    IN /\ pc[w] = "fold" /\ ptrsLeft[w] = << >> /\ l \in refsLeft[w]
       /\ refsLeft' = [refsLeft EXCEPT ![w] = @ \ {l}]
       /\ folds' = IF Accepts(found, l)
                   THEN [folds EXCEPT ![w] = [@ EXCEPT ![l] = found]]
                   ELSE folds
       /\ UNCHANGED <<driverVars, joinVars, sharedVars, todo, results,
                      at, pc, graded, ledger, ptrsLeft>>

\* The end of the renderer: print the header with the stored grade.  A body
\* without statements counts as empty; it prints the marker only when it is
\* not genuinely a lone return.
Emit(w) ==
    LET m == at[w]
        b == prog[m]
    IN /\ pc[w] = "fold" /\ refsLeft[w] = {} /\ ptrsLeft[w] = << >>
       /\ census' = IF b.render = "stmts" THEN census
                    ELSE [census EXCEPT !["emptyBody"] = @ + 1]
       /\ Finish(w, [kind  |-> IF b.render = "nothing" THEN "marker" ELSE "body",
                     stamp |-> annotations[m],
                     folds |-> folds[w],
                     line  |-> Unnamed(b.ptrs)])
       /\ UNCHANGED <<driverVars, joinVars, todo, flagCache, registry, annotations,
                      ptrUsers, graded, ledger, refsLeft, folds, ptrsLeft>>

-----------------------------------------------------------------------------
(* The driver, after the join.                                             *)

AllClaimed == phase = "render" /\ todo = {}                         \* mutant
Joined == phase = "render" /\ todo = {} /\ \A w \in Workers : pc[w] = "free"

\* The one type that uses a pointer, if there is one.
SomeUser(p) == ptrUsers[p]                                         \* mutant
SoleUser(p) == {t \in Types : ptrUsers[p] = {t}}

\* ptr_resolution::resolve: take the map, keep the addends one type uses.
ResolvePtrs ==
    LET answer == [p \in Ptrs |-> IF SoleUser(p) = {} THEN NoType
                                  ELSE CHOOSE t \in SoleUser(p) : TRUE]
    IN /\ Joined
       /\ resolved' = answer
       /\ ptrUsers' = [p \in Ptrs |-> {}]
       /\ IF \A p \in Ptrs : answer[p] = NoType
          THEN phase' = "done" /\ unrewritten' = {}
          ELSE phase' = "rewrite" /\ unrewritten' = Methods
       /\ UNCHANGED <<workerVars, runs, prog, annotate, envAnnotate, flagCache, registry,
                      annotations, census, todo, results>>

\* apply_replacements_with_tables on a line: replace from the left and stop at
\* the first pointer the table does not name.
Replace(line) ==
    [i \in DOMAIN line |->
        IF \A j \in 1..i : resolved[line[j].ptr] # NoType
        THEN [line[i] EXCEPT !.type = resolved[line[i].ptr]]
        ELSE line[i]]

RewriteText(m) ==
    /\ phase = "rewrite" /\ m \in unrewritten
    /\ unrewritten' = unrewritten \ {m}
    /\ results' = [results EXCEPT ![m].line = Replace(@)]
    /\ UNCHANGED <<driverVars, workerVars, sharedVars, resolved, todo>>

SomeRewritten == unrewritten # Methods                             \* mutant
AllRewritten == unrewritten = {}

Return ==
    /\ phase = "rewrite" /\ AllRewritten
    /\ phase' = "done"
    /\ UNCHANGED <<runs, prog, annotate, envAnnotate, workerVars, sharedVars,
                   joinVars, todo, results>>

\* The process has made its last run.
Exited == phase = "done" /\ runs = MaxRuns /\ UNCHANGED vars

-----------------------------------------------------------------------------
WorkerStep(w) ==
    \/ \E m \in Methods : Claim(w, m)
    \/ Lift(w) \/ Optimise(w) \/ Deadline(w) \/ Verify(w) \/ Label(w)
    \/ RegisterLambda(w)
    \/ \E l \in Methods : FoldLambda(w, l)
    \/ RecordUsage(w) \/ Emit(w)

Driver ==
    \/ \E p \in Programs, a \in BOOLEAN : StartRun(p, a)
    \/ ResolvePtrs \/ Return

Rewriting == \E m \in Methods : RewriteText(m)

Next == (\E w \in Workers : WorkerStep(w)) \/ Driver \/ Rewriting \/ Exited

Spec == Init /\ [][Next]_vars

\* Every pool thread that has work runs, the driver's code runs on, and the
\* parallel replacement visits every text.
Fairness ==
    /\ \A w \in Workers : WF_vars(WorkerStep(w))
    /\ WF_vars(Driver) /\ WF_vars(Rewriting)

FairSpec == Spec /\ Fairness
-----------------------------------------------------------------------------
(* Properties.                                                             *)

\* The shape of every variable, by owner.
DriverTypes ==
    /\ phase \in {"idle", "render", "rewrite", "done"}
    /\ runs \in 0..MaxRuns
    /\ prog \in Programs
    /\ annotate \in BOOLEAN /\ envAnnotate \in BOOLEAN
Stages == {"free", "lift", "passes", "verify", "label", "register", "fold"}
WorkerTypes ==
    /\ at \in [Workers -> Methods \cup {NoMethod}]
    /\ pc \in [Workers -> Stages]
    /\ graded \in [Workers -> BOOLEAN]
    /\ ledger \in [Workers -> SUBSET Addrs]
    /\ refsLeft \in [Workers -> SUBSET Methods]
    /\ folds \in [Workers -> [Methods -> Lambdas]]
    /\ ptrsLeft \in [Workers -> Seq(Ptrs)]
SharedTypes ==
    /\ flagCache \in {"unset", "on", "off"}
    /\ registry \in [LambdaNames -> Lambdas]
    /\ annotations \in [Methods -> Grades \cup {"none"}]
    /\ ptrUsers \in [Ptrs -> SUBSET Types]
    /\ census \in [Counters -> Nat]
TextTypes ==
    /\ todo \in SUBSET Methods
    /\ resolved \in [Ptrs -> Types \cup {NoType}]
    /\ unrewritten \in SUBSET Methods
    /\ results \in [Methods -> Text]
TypeOK == DriverTypes /\ WorkerTypes /\ SharedTypes /\ TextTypes

\* The grade a method earns by its own code alone.
OwnGrade(m) ==
    LET b == prog[m]
    IN IF b.lift = "thunk" \/ IsClean(b, b.erased) THEN "none" ELSE "flagged"

\* In the first run of a process an emitted body carries the grade of its own
\* method: no ledger entry, graded marker or annotation of another method, and
\* no order of the workers, can change it; a run without annotation prints no
\* grade.
StampIsOwnGrade ==
    runs = 1 => \A m \in Methods : results[m].kind = "body" =>
        results[m].stamp = IF annotate THEN OwnGrade(m) ELSE "none"

\* A pointer is printed as typeof(T) only if every method of the binary that
\* printed that pointer is declared by T.
NamedOnlyIfAllAgree ==
    \A m, n \in Methods :
        \A i \in DOMAIN results[m].line : \A j \in DOMAIN results[n].line :
            LET a == results[m].line[i]
                b == results[n].line[j]
            IN a.ptr = b.ptr /\ a.type # NoType => prog[n].type = a.type

\* When the pass returns, a pointer that leads its line is named in all the
\* bodies it leads or in none: no text missed the parallel replacement.
RewrittenTogether ==
    phase = "done" => \A m, n \in Methods :
        LET a == results[m].line
            b == results[n].line
        IN a # << >> /\ b # << >> /\ Head(a).ptr = Head(b).ptr
              => Head(a).type = Head(b).type

\* In the first run the fallback census adds up: every attempted method is in
\* a worker's hands or has a text, and each counted fallback is a marker or a
\* body without statements.
CensusAddsUp ==
    runs = 1 =>
        LET texts == {m \in Methods : results[m].kind \in {"marker", "body"}}
            busy == {w \in Workers : pc[w] # "free"}
            short == {m \in texts : \/ results[m].kind = "marker"
                                    \/ prog[m].render # "stmts"}
        IN /\ census["attempted"] = Cardinality(texts) + Cardinality(busy)
           /\ census["tooLarge"] + census["unreadable"] + census["unsupported"]
                + census["emptyBody"] = Cardinality(short)

\* In the first run the banner's count of flagged methods, read when the pass
\* returns, is the number of bodies that carry a grade line.
BannerCountsStamps ==
    phase = "done" /\ runs = 1 =>
        Cardinality({m \in Methods : annotations[m] # "none"})
          = Cardinality({m \in Methods : results[m].stamp # "none"})

\* In the first run a construction is only ever folded to a registrable lambda
\* of the referenced bare name and, where the delegate type states it, arity.
FoldIsNamesake ==
    runs = 1 => \A m, l \in Methods :
        LET f == results[m].folds[l]
        IN f # NoLambda => /\ prog[f.method].lambda = prog[l].lambda
                           /\ prog[l].typed => prog[f.method].arity = prog[l].arity
                           /\ prog[f.method].simple

\* No two workers ever hold the same method, and a method in a worker's hands
\* has no text yet: each text is written by one worker.
OneWorkerPerMethod ==
    /\ \A v, w \in Workers : at[v] = at[w] /\ at[v] # NoMethod => v = w
    /\ \A w \in Workers : at[w] # NoMethod =>
          at[w] \notin todo /\ results[at[w]].kind = "pending"

\* Every started run returns, with a text for every method.
RunReturns == phase = "render" ~> phase = "done"
AllSettled == phase \in {"rewrite", "done"} =>
                 \A m \in Methods : results[m].kind # "pending"

\* The pool implements the table: whatever the workers do, each text is
\* settled once and afterwards only has its agreed pointers named.
declaring == [m \in Methods |-> prog[m].type]
Table == INSTANCE DumpTable WITH stage <- phase, table <- results, names <- resolved
ImplementsTable == Table!Spec

-----------------------------------------------------------------------------
(* What a comment of the repository says of the pass, and the code does    *)
(* not do.                                                                 *)

\* csharp.rs on the grade line: "Absent for clean methods".
CleanBodiesCarryNoGrade ==
    \A m \in Methods : results[m].stamp = "flagged" => OwnGrade(m) = "flagged"
=============================================================================
