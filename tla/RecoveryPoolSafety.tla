------------------------- MODULE RecoveryPoolSafety -------------------------
(***************************************************************************)
(* Safety theorems about RecoveryPool.  Each one names the inductive       *)
(* invariant it rests on, in conjuncts that say what a worker or the       *)
(* driver knows at each stage.                                             *)
(***************************************************************************)
EXTENDS RecoveryPool, FiniteSetTheorems, SequenceTheorems, TLAPS

-----------------------------------------------------------------------------
(* Type correctness.                                                       *)

\* A worker that is not free is on a method of a run under way.
Placed ==
    /\ \A w \in Workers : pc[w] # "free" => at[w] \in Methods /\ phase = "render"
    /\ \A w \in Workers : pc[w] = "free" => at[w] = NoMethod
    /\ phase # "idle" => runs \in 1..MaxRuns

TypeInv == TypeOK /\ Placed

LEMMA BodyType ==
    ASSUME prog \in Programs, NEW m \in Methods
    PROVE  prog[m] \in NativeMethod
BY ProgramsAssumption

LEMMA UnnamedType ==
    ASSUME NEW ps \in Seq(Ptrs)
    PROVE  Unnamed(ps) \in Line
<1>1. Unnamed(ps) \in [1..Len(ps) -> Token]
  BY LenProperties DEF Unnamed, Token
<1>. QED BY <1>1, LenProperties, SeqDef DEF Line

LEMMA ReplaceType ==
    ASSUME NEW line \in Line, resolved \in [Ptrs -> Types \cup {NoType}]
    PROVE  Replace(line) \in Line
<1>1. line \in [1..Len(line) -> Token] /\ Len(line) \in Nat
  BY LenProperties DEF Line
<1>2. Replace(line) \in [1..Len(line) -> Token]
  BY <1>1 DEF Replace, Token
<1>. QED BY <1>1, <1>2, SeqDef DEF Line

LEMMA PlainType ==
    ASSUME NEW k \in {"pending", "none", "marker", "body"}
    PROVE  Plain(k) \in Text
BY DEF Plain, Text, NoFolds, Lambdas, Line, Grades

LEMMA InitType == Init => TypeInv
<1>. SUFFICES ASSUME Init PROVE TypeInv OBVIOUS
<1>1. NoFolds \in [Methods -> Lambdas] BY DEF NoFolds, Lambdas
<1>2. Plain("pending") \in Text BY PlainType
<1>3. NoLambda \in Lambdas BY DEF Lambdas
<1>4. << >> \in Seq(Ptrs) OBVIOUS
<1>5. DriverTypes
  <2>1. annotate \in BOOLEAN /\ envAnnotate \in BOOLEAN BY Zenon DEF Init
  <2>2. phase = "idle" /\ runs \in 0..MaxRuns /\ prog \in Programs
    BY FlagsAssumption DEF Init
  <2>. QED BY <2>1, <2>2 DEF DriverTypes
<1>6. WorkerTypes BY <1>1, <1>4 DEF Init, WorkerTypes, Stages
<1>7. SharedTypes BY <1>3 DEF Init, SharedTypes, Grades, Counters
<1>8. TextTypes BY <1>2 DEF Init, TextTypes
<1>9. Placed BY DEF Init, Placed
<1>. QED BY <1>5, <1>6, <1>7, <1>8, <1>9 DEF TypeInv, TypeOK

\* What an action leaves alone keeps its shape.
LEMMA SameDriver ==
    ASSUME DriverTypes, UNCHANGED driverVars PROVE DriverTypes'
BY Zenon DEF DriverTypes, driverVars

LEMMA FinishType ==
    ASSUME TypeInv, NEW w \in Workers, pc[w] # "free", NEW text \in Text, Finish(w, text)
    PROVE  /\ results' \in [Methods -> Text]
           /\ at' \in [Workers -> Methods \cup {NoMethod}]
           /\ at'[w] = NoMethod /\ pc'[w] = "free"
           /\ pc' \in [Workers -> Stages]
           /\ \A v \in Workers \ {w} : at'[v] = at[v] /\ pc'[v] = pc[v]
BY DEF Finish, TypeInv, TypeOK, WorkerTypes, TextTypes, Placed, Stages

LEMMA ClaimType ==
    ASSUME TypeInv, NEW w \in Workers, NEW m \in Methods, Claim(w, m)
    PROVE  TypeInv'
<1>. USE DEF TypeInv, TypeOK
<1>1. Plain("none") \in Text /\ Plain("marker") \in Text BY PlainType
<1>2. DriverTypes' BY SameDriver DEF Claim
<1>3. WorkerTypes' BY DEF Claim, WorkerTypes, Stages
<1>4. SharedTypes' BY DEF Claim, SharedTypes, Bump, Counters
<1>5. TextTypes' BY <1>1 DEF Claim, TextTypes, Unclaimed, joinVars
<1>6. Placed'
  BY MethodsAssumption DEF Claim, WorkerTypes, Placed, driverVars, Stages
<1>. QED BY <1>2, <1>3, <1>4, <1>5, <1>6

LEMMA LiftType ==
    ASSUME TypeInv, NEW w \in Workers, Lift(w)
    PROVE  TypeInv'
<1>. USE DEF TypeInv, TypeOK
<1>1. Plain("marker") \in Text BY PlainType
<1>2. ReadFlag \in {"on", "off"} BY DEF ReadFlag, SharedTypes
<1>3. DriverTypes' BY SameDriver DEF Lift
<1>4. WorkerTypes'
  BY DEF Lift, Finish, WorkerTypes, FreshLedger, Stages
<1>5. SharedTypes' BY <1>2 DEF Lift, SharedTypes, Counters
<1>6. TextTypes' BY <1>1 DEF Lift, Finish, TextTypes, joinVars
<1>7. Placed'
  BY DEF Lift, Finish, WorkerTypes, Placed, driverVars, Stages
<1>. QED BY <1>3, <1>4, <1>5, <1>6, <1>7

LEMMA OptimiseType ==
    ASSUME TypeInv, NEW w \in Workers, Optimise(w)
    PROVE  TypeInv'
<1>. USE DEF TypeInv, TypeOK
<1>1. at[w] \in Methods BY DEF Optimise, Placed
<1>2. prog[at[w]].erased \in SUBSET Addrs
  BY <1>1, BodyType DEF DriverTypes, NativeMethod
<1>3. DriverTypes' BY SameDriver DEF Optimise
<1>4. WorkerTypes' BY <1>2 DEF Optimise, WorkerTypes, Stages
<1>5. SharedTypes' BY DEF Optimise, SharedTypes, sharedVars
<1>6. TextTypes' BY DEF Optimise, TextTypes, joinVars
<1>7. Placed' BY DEF Optimise, WorkerTypes, Placed, driverVars, Stages
<1>. QED BY <1>3, <1>4, <1>5, <1>6, <1>7

LEMMA DeadlineType ==
    ASSUME TypeInv, NEW w \in Workers, Deadline(w)
    PROVE  TypeInv'
<1>. USE DEF TypeInv, TypeOK
<1>1. Plain("marker") \in Text BY PlainType
<1>2. DriverTypes' BY SameDriver DEF Deadline
<1>3. WorkerTypes'
  <2>1. at[w] \in Methods BY DEF Deadline, DeadlineStages, Placed
  <2>2. prog[at[w]].erased \in SUBSET Addrs
    BY <2>1, BodyType DEF DriverTypes, NativeMethod
  <2>3. ledger' \in [Workers -> SUBSET Addrs]
    BY <2>2 DEF Deadline, WorkerTypes
  <2>. QED BY <2>3 DEF Deadline, Finish, WorkerTypes, Stages
<1>4. SharedTypes' BY DEF Deadline, SharedTypes, Counters
<1>5. TextTypes' BY <1>1 DEF Deadline, Finish, TextTypes, joinVars
<1>6. Placed'
  BY DEF Deadline, DeadlineStages, Finish, WorkerTypes, Placed, driverVars, Stages
<1>. QED BY <1>2, <1>3, <1>4, <1>5, <1>6

LEMMA VerifyType ==
    ASSUME TypeInv, NEW w \in Workers, Verify(w)
    PROVE  TypeInv'
<1>. USE DEF TypeInv, TypeOK
<1>1. DriverTypes' BY SameDriver DEF Verify
<1>2. WorkerTypes' BY DEF Verify, WorkerTypes, Stages
<1>3. SharedTypes' BY DEF Verify, SharedTypes, Grades
<1>4. TextTypes' BY DEF Verify, TextTypes, joinVars
<1>5. Placed' BY DEF Verify, WorkerTypes, Placed, driverVars, Stages
<1>. QED BY <1>1, <1>2, <1>3, <1>4, <1>5

LEMMA LabelType ==
    ASSUME TypeInv, NEW w \in Workers, Label(w)
    PROVE  TypeInv'
<1>. USE DEF TypeInv, TypeOK
<1>1. DriverTypes' BY SameDriver DEF Label
<1>2. WorkerTypes' BY DEF Label, WorkerTypes, Stages
<1>3. SharedTypes' BY DEF Label, SharedTypes, Grades
<1>4. TextTypes' BY DEF Label, TextTypes, joinVars
<1>5. Placed' BY DEF Label, WorkerTypes, Placed, driverVars, Stages
<1>. QED BY <1>1, <1>2, <1>3, <1>4, <1>5

LEMMA RegisterLambdaType ==
    ASSUME TypeInv, NEW w \in Workers, RegisterLambda(w)
    PROVE  TypeInv'
<1>. USE DEF TypeInv, TypeOK
<1>1. at[w] \in Methods /\ phase # "idle" BY DEF RegisterLambda, Placed
<1>2. prog[at[w]] \in NativeMethod BY <1>1, BodyType DEF DriverTypes
<1>3. [run |-> runs, method |-> at[w], arity |-> prog[at[w]].arity] \in Lambdas
  BY <1>1, <1>2 DEF Placed, NativeMethod, Lambdas
<1>4. DriverTypes' BY SameDriver DEF RegisterLambda
<1>5. NoFolds \in [Methods -> Lambdas] BY DEF NoFolds, Lambdas
<1>6. WorkerTypes'
  BY <1>2, <1>5 DEF RegisterLambda, WorkerTypes, Stages, NativeMethod
<1>7. SharedTypes'
  BY <1>3 DEF RegisterLambda, SharedTypes
<1>8. TextTypes' BY DEF RegisterLambda, TextTypes, joinVars
<1>9. Placed' BY DEF RegisterLambda, WorkerTypes, Placed, driverVars, Stages
<1>. QED BY <1>4, <1>6, <1>7, <1>8, <1>9

LEMMA FoldLambdaType ==
    ASSUME TypeInv, NEW w \in Workers, NEW l \in Methods, FoldLambda(w, l)
    PROVE  TypeInv'
<1>. USE DEF TypeInv, TypeOK
<1>1. prog[l].lambda \in LambdaNames \cup {NoName}
  BY BodyType DEF DriverTypes, NativeMethod
<1>2. DriverTypes' BY SameDriver DEF FoldLambda
<1>3. WorkerTypes'
  <2> DEFINE found == IF prog[l].lambda = NoName THEN NoLambda
                      ELSE registry[prog[l].lambda]
  <2>1. found \in Lambdas BY <1>1 DEF SharedTypes, Lambdas
  <2>2. folds' = folds \/ folds' = [folds EXCEPT ![w] = [@ EXCEPT ![l] = found]]
    BY DEF FoldLambda
  <2>. HIDE DEF found
  <2>3. folds[w] \in [Methods -> Lambdas] BY DEF WorkerTypes
  <2>4. [folds[w] EXCEPT ![l] = found] \in [Methods -> Lambdas] BY <2>1, <2>3
  <2>5. folds' \in [Workers -> [Methods -> Lambdas]] BY <2>2, <2>4 DEF WorkerTypes
  <2>. QED BY <2>5 DEF FoldLambda, WorkerTypes
<1>4. SharedTypes' BY DEF FoldLambda, SharedTypes, sharedVars
<1>5. TextTypes' BY DEF FoldLambda, TextTypes, joinVars
<1>6. Placed' BY DEF FoldLambda, WorkerTypes, Placed, driverVars
<1>. QED BY <1>2, <1>3, <1>4, <1>5, <1>6

LEMMA RecordUsageType ==
    ASSUME TypeInv, NEW w \in Workers, RecordUsage(w)
    PROVE  TypeInv'
<1>. USE DEF TypeInv, TypeOK
<1>1. prog[at[w]].type \in Types
  BY BodyType DEF RecordUsage, Placed, DriverTypes, NativeMethod
<1>2. ptrsLeft[w] \in Seq(Ptrs) /\ ptrsLeft[w] # << >>
  BY DEF RecordUsage, WorkerTypes
<1>3. Head(ptrsLeft[w]) \in Ptrs /\ Tail(ptrsLeft[w]) \in Seq(Ptrs)
  BY <1>2, HeadTailProperties
<1>4. DriverTypes' BY SameDriver DEF RecordUsage
<1>5. WorkerTypes' BY <1>3 DEF RecordUsage, WorkerTypes
<1>6. SharedTypes' BY <1>1, <1>3 DEF RecordUsage, AddUser, SharedTypes
<1>7. TextTypes' BY DEF RecordUsage, TextTypes, joinVars
<1>8. Placed' BY DEF RecordUsage, WorkerTypes, Placed, driverVars
<1>. QED BY <1>4, <1>5, <1>6, <1>7, <1>8

\* The text Emit writes.
EmittedText(w) ==
    [kind  |-> IF prog[at[w]].render = "nothing" THEN "marker" ELSE "body",
     stamp |-> annotations[at[w]],
     folds |-> folds[w],
     line  |-> Unnamed(prog[at[w]].ptrs)]

LEMMA EmittedTextType ==
    ASSUME TypeInv, NEW w \in Workers, pc[w] = "fold"
    PROVE  EmittedText(w) \in Text
<1>. USE DEF TypeInv, TypeOK
<1>1. at[w] \in Methods BY DEF Placed
<1>2. Unnamed(prog[at[w]].ptrs) \in Line
  BY <1>1, BodyType, UnnamedType DEF DriverTypes, NativeMethod
<1>. QED BY <1>1, <1>2 DEF EmittedText, Text, SharedTypes, WorkerTypes

LEMMA EmitType ==
    ASSUME TypeInv, NEW w \in Workers, Emit(w)
    PROVE  TypeInv'
<1>. USE DEF TypeInv, TypeOK
<1>3. EmittedText(w) \in Text BY EmittedTextType DEF Emit
<1>4. Finish(w, EmittedText(w)) BY DEF Emit, EmittedText
<1>5. DriverTypes' BY SameDriver DEF Emit
<1>6. WorkerTypes' BY <1>3, <1>4, FinishType DEF Emit, WorkerTypes
<1>7. SharedTypes' BY DEF Emit, SharedTypes, Counters
<1>8. TextTypes'
  BY <1>3, <1>4, FinishType DEF Emit, TextTypes, joinVars
<1>9. Placed'
  BY <1>3, <1>4, FinishType DEF Emit, WorkerTypes, Placed, driverVars
<1>. QED BY <1>5, <1>6, <1>7, <1>8, <1>9

LEMMA StartRunType ==
    ASSUME TypeInv, NEW p \in Programs, NEW a \in BOOLEAN, StartRun(p, a)
    PROVE  TypeInv'
<1>. USE DEF TypeInv, TypeOK
<1>1. Plain("pending") \in Text BY PlainType
<1>2. DriverTypes'
  <2>1. annotate' \in BOOLEAN /\ envAnnotate' \in BOOLEAN
    BY Zenon DEF StartRun, DriverTypes
  <2>2. phase' = "render" /\ runs' \in 0..MaxRuns /\ prog' \in Programs
    BY FlagsAssumption DEF StartRun, DriverTypes
  <2>. QED BY <2>1, <2>2 DEF DriverTypes
<1>3. WorkerTypes' BY DEF StartRun, WorkerTypes, workerVars
<1>4. SharedTypes' BY DEF StartRun, SharedTypes
<1>5. TextTypes' BY <1>1 DEF StartRun, TextTypes
<1>6. Placed'
  BY FlagsAssumption DEF StartRun, DriverTypes, Placed, workerVars
<1>. QED BY <1>2, <1>3, <1>4, <1>5, <1>6

LEMMA ResolvePtrsType ==
    ASSUME TypeInv, ResolvePtrs
    PROVE  TypeInv'
<1>. USE DEF TypeInv, TypeOK
<1>1. phase' \in {"rewrite", "done"} /\ phase = "render"
  BY DEF ResolvePtrs, Joined
<1>2. DriverTypes'
  <2>1. annotate' \in BOOLEAN /\ envAnnotate' \in BOOLEAN
    BY Zenon DEF ResolvePtrs, DriverTypes
  <2>2. runs' \in 0..MaxRuns /\ prog' \in Programs
    BY DEF ResolvePtrs, DriverTypes
  <2>. QED BY <1>1, <2>1, <2>2 DEF DriverTypes
<1>3. WorkerTypes' BY DEF ResolvePtrs, WorkerTypes, workerVars
<1>4. SharedTypes' BY DEF ResolvePtrs, SharedTypes
<1>5. resolved' \in [Ptrs -> Types \cup {NoType}]
  <2>1. \A q \in Ptrs : SoleUser(q) # {} =>
           (CHOOSE t \in SoleUser(q) : TRUE) \in Types
    BY DEF SoleUser
  <2>. QED BY <2>1 DEF ResolvePtrs
<1>6. TextTypes' BY <1>5 DEF ResolvePtrs, TextTypes
<1>7. Placed' BY <1>1 DEF ResolvePtrs, Joined, Placed, workerVars
<1>. QED BY <1>2, <1>3, <1>4, <1>6, <1>7

LEMMA RewriteTextType ==
    ASSUME TypeInv, NEW m \in Methods, RewriteText(m)
    PROVE  TypeInv'
<1>. USE DEF TypeInv, TypeOK
<1>1. Replace(results[m].line) \in Line
  BY ReplaceType DEF TextTypes, Text
<1>2. [results[m] EXCEPT !.line = Replace(@)] \in Text
  BY <1>1 DEF TextTypes, Text
<1>3. DriverTypes' BY SameDriver DEF RewriteText
<1>4. WorkerTypes' BY DEF RewriteText, WorkerTypes, workerVars
<1>5. SharedTypes' BY DEF RewriteText, SharedTypes, sharedVars
<1>6. TextTypes' BY <1>2 DEF RewriteText, TextTypes
<1>7. Placed' BY DEF RewriteText, Placed, workerVars, driverVars
<1>. QED BY <1>3, <1>4, <1>5, <1>6, <1>7

LEMMA ReturnType ==
    ASSUME TypeInv, Return
    PROVE  TypeInv'
<1>. USE DEF TypeInv, TypeOK
<1>1. DriverTypes'
  <2>1. annotate' \in BOOLEAN /\ envAnnotate' \in BOOLEAN
    BY Zenon DEF Return, DriverTypes
  <2>. QED BY <2>1 DEF Return, DriverTypes
<1>2. WorkerTypes' BY DEF Return, WorkerTypes, workerVars
<1>3. SharedTypes' BY DEF Return, SharedTypes, sharedVars
<1>4. TextTypes' BY DEF Return, TextTypes, joinVars
<1>5. Placed' BY DEF Return, Placed, workerVars
<1>. QED BY <1>1, <1>2, <1>3, <1>4, <1>5

LEMMA StutterType ==
    ASSUME TypeInv, UNCHANGED vars
    PROVE  TypeInv'
<1>. USE DEF TypeInv, TypeOK, vars
<1>1. DriverTypes' BY SameDriver
<1>2. WorkerTypes' BY DEF WorkerTypes, workerVars
<1>3. SharedTypes' BY DEF SharedTypes, sharedVars
<1>4. TextTypes' BY DEF TextTypes, joinVars
<1>5. Placed' BY DEF Placed, driverVars, workerVars
<1>. QED BY <1>1, <1>2, <1>3, <1>4, <1>5

LEMMA WorkerStepType ==
    ASSUME TypeInv, NEW w \in Workers, WorkerStep(w)
    PROVE  TypeInv'
BY ClaimType, LiftType, OptimiseType, DeadlineType, VerifyType, LabelType,
   RegisterLambdaType, FoldLambdaType, RecordUsageType, EmitType DEF WorkerStep

LEMMA TypeStep == TypeInv /\ [Next]_vars => TypeInv'
<1>. SUFFICES ASSUME TypeInv, [Next]_vars PROVE TypeInv' OBVIOUS
<1>1. CASE \E w \in Workers : WorkerStep(w) BY <1>1, WorkerStepType
<1>2. CASE Driver BY <1>2, StartRunType, ResolvePtrsType, ReturnType DEF Driver
<1>3. CASE Rewriting BY <1>3, RewriteTextType DEF Rewriting
<1>4. CASE Exited BY <1>4, StutterType DEF Exited
<1>5. CASE UNCHANGED vars BY <1>5, StutterType
<1>. QED BY <1>1, <1>2, <1>3, <1>4, <1>5 DEF Next

\* Every variable keeps its shape in every run of every process, and a worker
\* that is not free is on a method of the run under way.
THEOREM TypeInvariant == Spec => []TypeInv
<1>. QED BY InitType, TypeStep, PTL DEF Spec

\* The declared shapes hold for every pool, binary and number of runs.
THEOREM TypeCorrect == Spec => []TypeOK
<1>1. TypeInv => TypeOK BY DEF TypeInv
<1>. QED BY <1>1, TypeInvariant, PTL

-----------------------------------------------------------------------------
(* Every method is settled once, by one worker.                            *)

\* A method of the run is unclaimed, in the hands of one worker, or settled.
Accounted ==
    /\ OneWorkerPerMethod
    /\ \A m \in todo : results[m].kind = "pending"
    /\ phase = "render" => \A m \in Methods :
          results[m].kind = "pending" =>
              m \in todo \/ \E w \in Workers : at[w] = m
    /\ AllSettled

LEMMA AccountedInit == Init => Accounted
BY DEF Init, Accounted, OneWorkerPerMethod, AllSettled

\* A worker that settles its method.
LEMMA AccountedFinish ==
    ASSUME TypeInv, Accounted, NEW w \in Workers, pc[w] # "free",
           NEW text \in Text, text.kind # "pending", Finish(w, text),
           UNCHANGED <<driverVars, todo>>
    PROVE  Accounted'
<1>. USE DEF TypeInv, TypeOK
<1>1. at[w] \in Methods /\ phase = "render" /\ phase' = "render"
  BY DEF Placed, driverVars
<1>2. OneWorkerPerMethod'
  BY <1>1, MethodsAssumption
  DEF Accounted, OneWorkerPerMethod, Finish, WorkerTypes, TextTypes
<1>3. \A m \in todo' : results'[m].kind = "pending"
  BY <1>1, MethodsAssumption
  DEF Accounted, OneWorkerPerMethod, Finish, WorkerTypes, TextTypes
<1>4. \A m \in Methods : results'[m].kind = "pending" =>
          m \in todo' \/ \E v \in Workers : at'[v] = m
  BY <1>1 DEF Accounted, Finish, WorkerTypes, TextTypes
<1>. QED BY <1>1, <1>2, <1>3, <1>4 DEF Accounted, AllSettled

\* A step that leaves every method where it was.
LEMMA AccountedSame ==
    ASSUME Accounted, UNCHANGED <<driverVars, at, todo, results>>
    PROVE  Accounted'
BY DEF Accounted, OneWorkerPerMethod, AllSettled, driverVars

LEMMA AccountedClaim ==
    ASSUME TypeInv, Accounted, NEW w \in Workers, NEW m \in Methods, Claim(w, m)
    PROVE  Accounted'
<1>. USE DEF TypeInv, TypeOK
<1>1. phase = "render" /\ phase' = "render" /\ at[w] = NoMethod /\ m \in todo
  BY DEF Claim, Placed, driverVars
<1>2. todo' = todo \ {m} BY DEF Claim, Unclaimed
<1>3. CASE UNCHANGED at /\ \E k \in {"none", "marker"} :
              results' = [results EXCEPT ![m] = Plain(k)]
  BY <1>1, <1>2, <1>3
  DEF Accounted, OneWorkerPerMethod, AllSettled, WorkerTypes, TextTypes, Plain
<1>4. CASE results' = results /\ at' = [at EXCEPT ![w] = m]
  BY <1>1, <1>2, <1>4, MethodsAssumption
  DEF Accounted, OneWorkerPerMethod, AllSettled, WorkerTypes, TextTypes
<1>. QED BY <1>3, <1>4 DEF Claim

LEMMA AccountedWorker ==
    ASSUME TypeInv, Accounted, NEW w \in Workers, WorkerStep(w)
    PROVE  Accounted'
<1>. USE DEF Stages
<1>0. Plain("marker") \in Text /\ Plain("marker").kind # "pending"
  BY PlainType DEF Plain
<1>1. ASSUME NEW m \in Methods, Claim(w, m) PROVE Accounted'
  BY <1>1, AccountedClaim
<1>2. CASE Lift(w)
  <2>1. CASE Finish(w, Plain("marker"))
    BY <1>0, <1>2, <2>1, AccountedFinish DEF Lift
  <2>2. CASE UNCHANGED <<at, results>>
    BY <1>2, <2>2, AccountedSame DEF Lift
  <2>. QED BY <1>2, <2>1, <2>2 DEF Lift
<1>3. CASE Optimise(w) BY <1>3, AccountedSame DEF Optimise
<1>4. CASE Deadline(w)
  BY <1>0, <1>4, AccountedFinish DEF Deadline, DeadlineStages
<1>5. CASE Verify(w) BY <1>5, AccountedSame DEF Verify
<1>6. CASE Label(w) BY <1>6, AccountedSame DEF Label
<1>7. CASE RegisterLambda(w) BY <1>7, AccountedSame DEF RegisterLambda
<1>8. ASSUME NEW l \in Methods, FoldLambda(w, l) PROVE Accounted'
  BY <1>8, AccountedSame DEF FoldLambda
<1>9. CASE RecordUsage(w) BY <1>9, AccountedSame DEF RecordUsage
<1>10. CASE Emit(w)
  <2>1. EmittedText(w) \in Text BY <1>10, EmittedTextType DEF Emit
  <2>2. EmittedText(w).kind # "pending" BY DEF EmittedText
  <2>3. Finish(w, EmittedText(w)) BY <1>10 DEF Emit, EmittedText
  <2>. QED BY <1>10, <2>1, <2>2, <2>3, AccountedFinish DEF Emit
<1>. QED
  BY <1>1, <1>2, <1>3, <1>4, <1>5, <1>6, <1>7, <1>8, <1>9, <1>10 DEF WorkerStep

LEMMA AccountedStep == TypeInv /\ Accounted /\ [Next]_vars => Accounted'
<1>. SUFFICES ASSUME TypeInv, Accounted, [Next]_vars PROVE Accounted' OBVIOUS
<1>. USE DEF TypeInv, TypeOK
<1>1. CASE \E w \in Workers : WorkerStep(w) BY <1>1, AccountedWorker
<1>2. ASSUME NEW p \in Programs, NEW a \in BOOLEAN, StartRun(p, a)
      PROVE  Accounted'
  <2>1. \A w \in Workers : at[w] = NoMethod
    BY <1>2 DEF StartRun, Placed
  <2>. QED
    BY <1>2, <2>1
    DEF StartRun, Accounted, OneWorkerPerMethod, AllSettled, workerVars, Plain
<1>3. CASE ResolvePtrs
  <2>1. \A m \in Methods : results[m].kind # "pending"
    BY <1>3, MethodsAssumption DEF ResolvePtrs, Joined, Accounted, Placed
  <2>. QED
    BY <1>3, <2>1
    DEF ResolvePtrs, Joined, Accounted, OneWorkerPerMethod, AllSettled, workerVars
<1>4. ASSUME NEW m \in Methods, RewriteText(m) PROVE Accounted'
  <2>1. \A n \in Methods : results'[n].kind = results[n].kind
    BY <1>4 DEF RewriteText, TextTypes, Text
  <2>. QED
    BY <1>4, <2>1
    DEF RewriteText, Accounted, OneWorkerPerMethod, AllSettled, workerVars,
        driverVars, WorkerTypes
<1>5. CASE Return
  BY <1>5 DEF Return, Accounted, OneWorkerPerMethod, AllSettled, workerVars
<1>6. CASE UNCHANGED vars BY <1>6, AccountedSame DEF vars, workerVars
<1>. QED
  BY <1>1, <1>2, <1>3, <1>4, <1>5, <1>6 DEF Next, Driver, Rewriting, Exited

LEMMA AccountedInvariant == Spec => []Accounted
<1>. QED BY AccountedInit, AccountedStep, TypeInvariant, PTL DEF Spec

\* Two workers never hold the same method and none holds a settled one.
THEOREM Exclusive == Spec => []OneWorkerPerMethod
<1>1. Accounted => OneWorkerPerMethod BY DEF Accounted
<1>. QED BY <1>1, AccountedInvariant, PTL

\* Past the join no method is without a text.
THEOREM Settled == Spec => []AllSettled
<1>1. Accounted => AllSettled BY DEF Accounted
<1>. QED BY <1>1, AccountedInvariant, PTL

-----------------------------------------------------------------------------
(* A pointer is named only if all its users agree on the type.             *)

\* While the pool runs, every pointer of a settled text has its method's type
\* on record, and every pointer of a method being rendered is on record or
\* still to be recorded.
Recorded ==
    phase = "render" =>
        /\ \A m \in Methods : \A i \in DOMAIN results[m].line :
              /\ results[m].line[i].type = NoType
              /\ prog[m].type \in ptrUsers[results[m].line[i].ptr]
        /\ \A w \in Workers : pc[w] = "fold" =>
              \A i \in DOMAIN prog[at[w]].ptrs :
                  \/ prog[at[w]].type \in ptrUsers[prog[at[w]].ptrs[i]]
                  \/ \E j \in DOMAIN ptrsLeft[w] :
                         ptrsLeft[w][j] = prog[at[w]].ptrs[i]

\* After the join a token is unnamed or carries the agreed name, and the agreed
\* name is the type of every method that prints the pointer.
Agreed ==
    phase \in {"rewrite", "done"} =>
        \A m \in Methods : \A i \in DOMAIN results[m].line :
            LET t == results[m].line[i]
            IN /\ t.type \in {NoType, resolved[t.ptr]}
               /\ resolved[t.ptr] # NoType => resolved[t.ptr] = prog[m].type

LEMMA LineTokens ==
    ASSUME NEW line \in Line, NEW i \in DOMAIN line
    PROVE  line[i] \in Token /\ line[i].ptr \in Ptrs
<1>1. line \in [1..Len(line) -> Token] BY LenProperties DEF Line
<1>. QED BY <1>1 DEF Token

LEMMA BodyPtrs ==
    ASSUME prog \in Programs, NEW m \in Methods, NEW i \in DOMAIN prog[m].ptrs
    PROVE  prog[m].ptrs[i] \in Ptrs
<1>1. prog[m].ptrs \in Seq(Ptrs) BY BodyType DEF NativeMethod
<1>. QED BY <1>1, LenProperties, ElementOfSeq

PtrInv == /\ phase = "idle" => \A m \in Methods : results[m].line = << >>
          /\ Recorded /\ Agreed

LEMMA PtrInit == Init => PtrInv
BY DEF Init, PtrInv, Recorded, Agreed, Plain

\* A step of a worker that settles no text, records nothing and leaves the
\* renderers of the pool where they were.
LEMMA PtrSame ==
    ASSUME PtrInv, TypeInv, NEW w \in Workers, UNCHANGED <<driverVars, ptrUsers, ptrsLeft, resolved>>,
           results' = results \/ \E m \in Methods, k \in {"none", "marker"} :
                                      results' = [results EXCEPT ![m] = Plain(k)],
           \A v \in Workers : pc'[v] = "fold" => pc[v] = "fold" /\ at'[v] = at[v]
    PROVE  PtrInv'
<1>. USE DEF TypeInv, TypeOK
<1>1. \A m \in Methods : \/ results'[m].line = results[m].line
                         \/ results'[m].line = << >>
  BY DEF Plain, TextTypes
<1>2. Recorded'
  BY <1>1 DEF PtrInv, Recorded, driverVars
<1>3. Agreed'
  BY <1>1 DEF PtrInv, Agreed, driverVars
<1>. QED BY <1>1, <1>2, <1>3 DEF PtrInv, driverVars

LEMMA PtrWorker ==
    ASSUME TypeInv, PtrInv, NEW w \in Workers, WorkerStep(w)
    PROVE  PtrInv'
<1>. USE DEF TypeInv, TypeOK, Stages
<1>1. ASSUME NEW m \in Methods, Claim(w, m) PROVE PtrInv'
  <2>1. \A v \in Workers : pc'[v] = "fold" => pc[v] = "fold" /\ at'[v] = at[v]
    BY <1>1 DEF Claim, WorkerTypes
  <2>. QED BY <1>1, <2>1, PtrSame DEF Claim, joinVars
<1>2. CASE Lift(w)
  <2>1. \A v \in Workers : pc'[v] = "fold" => pc[v] = "fold" /\ at'[v] = at[v]
    BY <1>2 DEF Lift, Finish, WorkerTypes
  <2>2. at[w] \in Methods BY <1>2 DEF Lift, Placed
  <2>. QED BY <1>2, <2>1, <2>2, PtrSame DEF Lift, Finish, joinVars
<1>3. CASE Optimise(w)
  BY <1>3, PtrSame DEF Optimise, WorkerTypes, joinVars, sharedVars
<1>4. CASE Deadline(w)
  <2>1. \A v \in Workers : pc'[v] = "fold" => pc[v] = "fold" /\ at'[v] = at[v]
    BY <1>4 DEF Deadline, Finish, WorkerTypes
  <2>2. at[w] \in Methods BY <1>4 DEF Deadline, DeadlineStages, Placed
  <2>. QED BY <1>4, <2>1, <2>2, PtrSame DEF Deadline, Finish, joinVars
<1>5. CASE Verify(w) BY <1>5, PtrSame DEF Verify, WorkerTypes, joinVars
<1>6. CASE Label(w) BY <1>6, PtrSame DEF Label, WorkerTypes, joinVars
<1>7. CASE RegisterLambda(w)
  <2>1. phase = "render" BY <1>7 DEF RegisterLambda, Placed
  <2>2. Recorded'
    BY <1>7, <2>1
    DEF RegisterLambda, PtrInv, Recorded, driverVars, WorkerTypes
  <2>. QED BY <1>7, <2>1, <2>2 DEF RegisterLambda, PtrInv, Agreed, driverVars
<1>8. ASSUME NEW l \in Methods, FoldLambda(w, l) PROVE PtrInv'
  BY <1>8, PtrSame DEF FoldLambda, joinVars, sharedVars
<1>9. CASE RecordUsage(w)
  <2> DEFINE p == Head(ptrsLeft[w])
  <2>1. phase = "render" /\ phase' = "render" /\ at' = at /\ pc' = pc /\ prog' = prog
    BY <1>9 DEF RecordUsage, Placed, driverVars
  <2>2. ptrsLeft[w] \in Seq(Ptrs) /\ ptrsLeft[w] # << >>
    BY <1>9 DEF RecordUsage, WorkerTypes
  <2>3. p = ptrsLeft[w][1] /\ p \in Ptrs
    BY <2>2, HeadTailProperties
  <2>4. \A j \in DOMAIN ptrsLeft[w] : j = 1 \/
           (j - 1 \in DOMAIN Tail(ptrsLeft[w]) /\ Tail(ptrsLeft[w])[j - 1] = ptrsLeft[w][j])
    BY <2>2, HeadTailProperties
  <2>5. ptrsLeft' = [ptrsLeft EXCEPT ![w] = Tail(ptrsLeft[w])]
    BY <1>9 DEF RecordUsage
  <2>6. /\ \A q \in Ptrs : ptrUsers[q] \subseteq ptrUsers'[q]
        /\ prog[at[w]].type \in ptrUsers'[p]
    BY <1>9, <2>3 DEF RecordUsage, AddUser, SharedTypes
  <2>7. results' = results /\ \A m \in Methods : results[m].line \in Line
    BY <1>9 DEF RecordUsage, TextTypes, Text
  <2>8. \A m \in Methods : \A i \in DOMAIN results[m].line : results[m].line[i].ptr \in Ptrs
    BY <2>7, LineTokens
  <2>9. \A v \in Workers : pc[v] = "fold" =>
           \A i \in DOMAIN prog[at[v]].ptrs : prog[at[v]].ptrs[i] \in Ptrs
    BY BodyPtrs DEF Placed, DriverTypes
  <2>10. ASSUME NEW v \in Workers, pc[v] = "fold", NEW i \in DOMAIN prog[at[v]].ptrs
         PROVE \/ prog[at[v]].type \in ptrUsers'[prog[at[v]].ptrs[i]]
               \/ \E j \in DOMAIN ptrsLeft'[v] : ptrsLeft'[v][j] = prog[at[v]].ptrs[i]
    <3>1. CASE v = w
      <4>1. CASE prog[at[w]].type \in ptrUsers[prog[at[w]].ptrs[i]]
        BY <2>1, <2>6, <2>9, <2>10, <3>1, <4>1
      <4>2. ASSUME NEW j \in DOMAIN ptrsLeft[w], ptrsLeft[w][j] = prog[at[w]].ptrs[i]
            PROVE \/ prog[at[w]].type \in ptrUsers'[prog[at[w]].ptrs[i]]
                  \/ \E k \in DOMAIN ptrsLeft'[w] :
                         ptrsLeft'[w][k] = prog[at[w]].ptrs[i]
        <5>1. ptrsLeft'[w] = Tail(ptrsLeft[w]) BY <2>5 DEF WorkerTypes
        <5>2. CASE j = 1 BY <2>3, <2>6, <4>2, <5>2
        <5>3. CASE j # 1 BY <2>4, <4>2, <5>1, <5>3
        <5>. QED BY <5>2, <5>3
      <4>. QED BY <2>1, <2>10, <3>1, <4>1, <4>2 DEF PtrInv, Recorded
    <3>2. CASE v # w
      <4>1. ptrsLeft'[v] = ptrsLeft[v] BY <2>5, <3>2 DEF WorkerTypes
      <4>2. prog[at[v]].ptrs[i] \in Ptrs BY <2>9, <2>10
      <4>3. \/ prog[at[v]].type \in ptrUsers[prog[at[v]].ptrs[i]]
            \/ \E j \in DOMAIN ptrsLeft[v] : ptrsLeft[v][j] = prog[at[v]].ptrs[i]
        BY <2>1, <2>10 DEF PtrInv, Recorded
      <4>. QED BY <2>6, <4>1, <4>2, <4>3
    <3>. QED BY <3>1, <3>2
  <2>11. Recorded'
    BY <2>1, <2>6, <2>7, <2>8, <2>10 DEF PtrInv, Recorded
  <2>. QED BY <2>1, <2>11 DEF PtrInv, Agreed
<1>10. CASE Emit(w)
  <2>1. /\ at[w] \in Methods /\ phase = "render" /\ phase' = "render"
        /\ pc[w] = "fold" /\ ptrsLeft[w] = << >>
        /\ results' = [results EXCEPT ![at[w]] = EmittedText(w)]
        /\ UNCHANGED <<prog, ptrUsers, ptrsLeft>>
    BY <1>10 DEF Emit, Finish, EmittedText, Placed, driverVars
  <2>2. \A i \in DOMAIN prog[at[w]].ptrs :
           prog[at[w]].type \in ptrUsers[prog[at[w]].ptrs[i]]
    BY <2>1 DEF PtrInv, Recorded
  <2>3. \A i \in DOMAIN EmittedText(w).line :
           /\ i \in DOMAIN prog[at[w]].ptrs
           /\ EmittedText(w).line[i].type = NoType
           /\ EmittedText(w).line[i].ptr = prog[at[w]].ptrs[i]
    BY DEF EmittedText, Unnamed
  <2>4. \A v \in Workers : pc'[v] = "fold" => pc[v] = "fold" /\ at'[v] = at[v]
    BY <1>10 DEF Emit, Finish, WorkerTypes
  <2>5. Recorded'
    BY <2>1, <2>2, <2>3, <2>4 DEF PtrInv, Recorded, TextTypes
  <2>. QED BY <2>1, <2>5 DEF PtrInv, Agreed
<1>. QED
  BY <1>1, <1>2, <1>3, <1>4, <1>5, <1>6, <1>7, <1>8, <1>9, <1>10 DEF WorkerStep

LEMMA PtrStep == TypeInv /\ PtrInv /\ [Next]_vars => PtrInv'
<1>. SUFFICES ASSUME TypeInv, PtrInv, [Next]_vars PROVE PtrInv' OBVIOUS
<1>. USE DEF TypeInv, TypeOK
<1>1. CASE \E w \in Workers : WorkerStep(w) BY <1>1, PtrWorker
<1>2. ASSUME NEW p \in Programs, NEW a \in BOOLEAN, StartRun(p, a) PROVE PtrInv'
  <2>1. \A w \in Workers : pc'[w] # "fold"
    BY <1>2 DEF StartRun, Placed, WorkerTypes, Stages, workerVars
  <2>2. \A m \in Methods : results'[m].line = << >> BY <1>2 DEF StartRun, Plain
  <2>. QED BY <1>2, <2>1, <2>2 DEF StartRun, PtrInv, Recorded, Agreed
<1>3. CASE ResolvePtrs
  <2>1. phase = "render" /\ phase' \in {"rewrite", "done"}
    BY <1>3 DEF ResolvePtrs, Joined
  <2>2. \A p \in Ptrs : resolved'[p] # NoType => ptrUsers[p] = {resolved'[p]}
    <3>1. \A p \in Ptrs : SoleUser(p) # {} =>
             (CHOOSE t \in SoleUser(p) : TRUE) \in SoleUser(p)
      OBVIOUS
    <3>2. \A p \in Ptrs : \A t \in SoleUser(p) : ptrUsers[p] = {t} BY DEF SoleUser
    <3>. QED BY <1>3, <3>1, <3>2 DEF ResolvePtrs
  <2>3. \A m \in Methods : \A i \in DOMAIN results[m].line :
           results[m].line[i].ptr \in Ptrs
    BY LineTokens DEF TextTypes, Text
  <2>4. ASSUME NEW m \in Methods, NEW i \in DOMAIN results[m].line
        PROVE  LET t == results[m].line[i]
               IN /\ t.type = NoType
                  /\ resolved'[t.ptr] # NoType => resolved'[t.ptr] = prog[m].type
    BY <2>1, <2>2, <2>3 DEF PtrInv, Recorded
  <2>5. results' = results /\ prog' = prog BY <1>3 DEF ResolvePtrs
  <2>6. Agreed' BY <2>4, <2>5 DEF Agreed
  <2>. QED BY <2>1, <2>6 DEF PtrInv, Recorded
<1>4. ASSUME NEW m \in Methods, RewriteText(m) PROVE PtrInv'
  <2>1. \A n \in Methods : \A i \in DOMAIN results'[n].line :
           /\ i \in DOMAIN results[n].line
           /\ results'[n].line[i].ptr = results[n].line[i].ptr
           /\ results'[n].line[i].type
                \in {results[n].line[i].type, resolved[results[n].line[i].ptr]}
    <3>1. \A n \in Methods : results[n].line \in Line BY DEF TextTypes, Text
    <3>2. results'[m].line = Replace(results[m].line)
      BY <1>4 DEF RewriteText, TextTypes, Text
    <3>3. \A n \in Methods : n # m => results'[n].line = results[n].line
      BY <1>4 DEF RewriteText, TextTypes, Text
    <3>4. \A line \in Line : \A i \in DOMAIN Replace(line) :
             /\ i \in DOMAIN line
             /\ Replace(line)[i].ptr = line[i].ptr
             /\ Replace(line)[i].type \in {line[i].type, resolved[line[i].ptr]}
      BY LineTokens DEF Replace, Token
    <3>. QED BY <3>1, <3>2, <3>3, <3>4
  <2>2. Agreed'
    BY <1>4, <2>1 DEF RewriteText, PtrInv, Agreed, driverVars
  <2>. QED BY <1>4, <2>2 DEF RewriteText, PtrInv, Recorded, driverVars
<1>5. CASE Return
  BY <1>5 DEF Return, PtrInv, Recorded, Agreed, joinVars
<1>6. CASE UNCHANGED vars
  BY <1>6
  DEF vars, driverVars, workerVars, sharedVars, joinVars, PtrInv, Recorded, Agreed
<1>. QED
  BY <1>1, <1>2, <1>3, <1>4, <1>5, <1>6 DEF Next, Driver, Rewriting, Exited

LEMMA PtrInvariant == Spec => []PtrInv
<1>. QED BY PtrInit, PtrStep, TypeInvariant, PTL DEF Spec

\* A pointer is printed as typeof(T) only if every method that printed it is
\* declared by T, however the workers interleave record_usage.
THEOREM NamedByAgreement == Spec => []NamedOnlyIfAllAgree
<1>1. TypeInv /\ PtrInv => NamedOnlyIfAllAgree
  <2>. SUFFICES ASSUME TypeInv, PtrInv PROVE NamedOnlyIfAllAgree OBVIOUS
  <2>1. CASE phase = "idle" BY <2>1 DEF PtrInv, NamedOnlyIfAllAgree
  <2>2. CASE phase = "render"
    BY <2>2 DEF PtrInv, Recorded, NamedOnlyIfAllAgree
  <2>3. CASE phase \in {"rewrite", "done"}
    BY <2>3 DEF PtrInv, Agreed, NamedOnlyIfAllAgree
  <2>. QED BY <2>1, <2>2, <2>3 DEF TypeInv, TypeOK, DriverTypes
<1>. QED BY <1>1, TypeInvariant, PtrInvariant, PTL

-----------------------------------------------------------------------------
(* The texts are rewritten together.                                       *)

HeadNamed(m) ==
    LET line == results[m].line
    IN line # << >> => line[1].type = resolved[line[1].ptr]

\* After the join a text that has been visited, or needs no visit, names the
\* pointer at its head if it has a name.
Visited ==
    /\ phase \in {"rewrite", "done"} => \A m \in Methods \ unrewritten : HeadNamed(m)
    /\ phase = "done" => unrewritten = {}

LEMMA VisitedStep ==
    TypeInv /\ TypeInv' /\ PtrInv /\ Visited /\ [Next]_vars => Visited'
<1>. SUFFICES ASSUME TypeInv, TypeInv', PtrInv, Visited, [Next]_vars PROVE Visited' OBVIOUS
<1>0. \A m \in Methods : results[m].line # << >> => 1 \in DOMAIN results[m].line
  BY LenProperties DEF TypeInv, TypeOK, TextTypes, Text, Line
<1>1. CASE \E w \in Workers : WorkerStep(w)
  <2>1. phase' = "render"
    BY <1>1
    DEF WorkerStep, Claim, Lift, Optimise, Deadline, DeadlineStages, Verify, Label,
        RegisterLambda, FoldLambda, RecordUsage, Emit, TypeInv, Placed, driverVars
  <2>. QED BY <2>1 DEF Visited
<1>2. ASSUME NEW p \in Programs, NEW a \in BOOLEAN, StartRun(p, a) PROVE Visited'
  BY <1>2 DEF StartRun, Visited
<1>3. CASE ResolvePtrs
  <2>1. CASE unrewritten' = Methods /\ phase' = "rewrite" BY <2>1 DEF Visited
  <2>2. CASE /\ unrewritten' = {} /\ phase' = "done"
             /\ \A p \in Ptrs : resolved'[p] = NoType
    <3>1. results' = results /\ phase = "render" BY <1>3 DEF ResolvePtrs, Joined
    <3>2. \A m \in Methods : \A i \in DOMAIN results[m].line :
             results[m].line[i].ptr \in Ptrs
      BY LineTokens DEF TypeInv, TypeOK, TextTypes, Text
    <3>3. \A m \in Methods : results[m].line # << >> =>
             /\ results[m].line[1].type = NoType
             /\ resolved'[results[m].line[1].ptr] = NoType
      BY <1>0, <2>2, <3>1, <3>2 DEF PtrInv, Recorded
    <3>4. \A m \in Methods : HeadNamed(m)' BY <3>1, <3>3 DEF HeadNamed
    <3>. QED BY <2>2, <3>4 DEF Visited
  <2>. QED BY <1>3, <2>1, <2>2 DEF ResolvePtrs
<1>4. ASSUME NEW m \in Methods, RewriteText(m) PROVE Visited'
  <2>1. /\ phase = "rewrite" /\ phase' = "rewrite" /\ resolved' = resolved
        /\ unrewritten' = unrewritten \ {m}
    BY <1>4 DEF RewriteText, driverVars
  <2>2. \A n \in Methods \ {m} : results'[n] = results[n]
    BY <1>4 DEF RewriteText, TypeInv, TypeOK, TextTypes
  <2>3. results'[m].line = Replace(results[m].line)
    BY <1>4 DEF RewriteText, TypeInv, TypeOK, TextTypes, Text
  <2>4. results[m].line \in Line BY DEF TypeInv, TypeOK, TextTypes, Text
  <2>5. HeadNamed(m)'
    <3>. SUFFICES ASSUME results'[m].line # << >>
         PROVE  results'[m].line[1].type = resolved[results'[m].line[1].ptr]
      BY <2>1 DEF HeadNamed
    <3>1. results'[m].line \in Line BY DEF TypeInv, TypeOK, TextTypes, Text
    <3>2. 1 \in DOMAIN results'[m].line BY <3>1, LenProperties DEF Line
    <3>3. DOMAIN results'[m].line = DOMAIN results[m].line BY <2>3 DEF Replace
    <3>4. results[m].line[1] \in Token BY <2>4, <3>2, <3>3, LineTokens
    <3>5. results[m].line[1].type \in {NoType, resolved[results[m].line[1].ptr]}
      BY <2>1, <3>2, <3>3 DEF PtrInv, Agreed
    <3>6. results'[m].line[1] =
             IF resolved[results[m].line[1].ptr] # NoType
             THEN [results[m].line[1] EXCEPT !.type = resolved[results[m].line[1].ptr]]
             ELSE results[m].line[1]
      BY <2>3, <3>2, <3>3 DEF Replace
    <3>. QED BY <3>4, <3>5, <3>6 DEF Token
  <2>6. \A n \in Methods \ unrewritten' : HeadNamed(n)'
    BY <2>1, <2>2, <2>5 DEF Visited, HeadNamed
  <2>. QED BY <2>1, <2>6 DEF Visited
<1>5. CASE Return
  BY <1>5 DEF Return, AllRewritten, Visited, HeadNamed, joinVars
<1>6. CASE UNCHANGED vars
  BY <1>6 DEF vars, driverVars, joinVars, Visited, HeadNamed
<1>. QED
  BY <1>1, <1>2, <1>3, <1>4, <1>5, <1>6 DEF Next, Driver, Rewriting, Exited

\* When the pass returns, a pointer that leads its line is named in all the
\* texts it leads or in none, in whatever order the replacement visited them.
THEOREM NamedTogether == Spec => []RewrittenTogether
<1>1. Init => Visited BY DEF Init, Visited
<1>2. TypeInv /\ Visited => RewrittenTogether
  <2>. SUFFICES ASSUME TypeInv, Visited, phase = "done", NEW m \in Methods, NEW n \in Methods,
                       results[m].line # << >>, results[n].line # << >>,
                       Head(results[m].line).ptr = Head(results[n].line).ptr
                PROVE  Head(results[m].line).type = Head(results[n].line).type
    BY DEF RewrittenTogether
  <2>1. HeadNamed(m) /\ HeadNamed(n) BY DEF Visited
  <2>2. results[m].line \in Line /\ results[n].line \in Line
    BY DEF TypeInv, TypeOK, TextTypes, Text
  <2>3. /\ Head(results[m].line) = results[m].line[1]
        /\ Head(results[n].line) = results[n].line[1]
    BY <2>2, HeadTailProperties DEF Line
  <2>. QED BY <2>1, <2>3 DEF HeadNamed
<1>. QED BY <1>1, <1>2, VisitedStep, TypeInvariant, PtrInvariant, PTL DEF Spec

-----------------------------------------------------------------------------
(* Every step of the pool is a step of the table or leaves it alone.       *)

LEMMA TableStutters ==
    ASSUME UNCHANGED <<phase, prog, results, resolved>> PROVE UNCHANGED Table!vars
BY DEF Table!vars, declaring

LEMMA TableSettles ==
    ASSUME TypeInv, NEW m \in Methods, NEW text \in Text, phase = "render",
           results[m].kind = "pending", text.kind # "pending",
           \A i \in DOMAIN text.line : text.line[i].type = NoType,
           results' = [results EXCEPT ![m] = text],
           UNCHANGED <<phase, prog, resolved>>
    PROVE  Table!Next
<1>1. results'[m] = text /\ \A n \in Methods \ {m} : results'[n] = results[n]
  BY DEF TypeInv, TypeOK, TextTypes
<1>2. declaring' = declaring BY DEF declaring
<1>3. Table!Settle(m) BY <1>1, <1>2 DEF Table!Settle, Table!Pending
<1>. QED BY <1>3 DEF Table!Next

\* What a worker settles, and that its method had no text.
LEMMA TableFinish ==
    ASSUME TypeInv, Accounted, NEW w \in Workers, pc[w] # "free",
           NEW text \in Text, text.kind # "pending",
           \A i \in DOMAIN text.line : text.line[i].type = NoType,
           Finish(w, text), UNCHANGED <<driverVars, joinVars>>
    PROVE  Table!Next
<1>1. at[w] \in Methods /\ phase = "render" BY DEF TypeInv, Placed
<1>2. results[at[w]].kind = "pending"
  BY <1>1, MethodsAssumption DEF Accounted, OneWorkerPerMethod
<1>. QED BY <1>1, <1>2, TableSettles DEF Finish, driverVars, joinVars

LEMMA TableWorker ==
    ASSUME TypeInv, Accounted, NEW w \in Workers, WorkerStep(w)
    PROVE  [Table!Next]_(Table!vars)
<1>. USE DEF Stages
<1>0. \A k \in {"none", "marker"} :
         /\ Plain(k) \in Text /\ Plain(k).kind # "pending"
         /\ \A i \in DOMAIN Plain(k).line : Plain(k).line[i].type = NoType
  BY PlainType DEF Plain
<1>1. ASSUME NEW m \in Methods, Claim(w, m) PROVE [Table!Next]_(Table!vars)
  <2>1. /\ phase = "render" /\ results[m].kind = "pending"
        /\ UNCHANGED <<phase, prog, resolved>>
    BY <1>1 DEF Claim, Accounted, driverVars, joinVars
  <2>2. CASE results' = results BY <2>1, <2>2, TableStutters
  <2>3. ASSUME NEW k \in {"none", "marker"}, results' = [results EXCEPT ![m] = Plain(k)]
        PROVE  Table!Next
    BY <1>0, <2>1, <2>3, TableSettles
  <2>. QED BY <1>1, <2>2, <2>3 DEF Claim
<1>2. CASE Lift(w)
  <2>1. CASE Finish(w, Plain("marker")) BY <1>0, <1>2, <2>1, TableFinish DEF Lift
  <2>2. CASE UNCHANGED results
    BY <1>2, <2>2, TableStutters DEF Lift, driverVars, joinVars
  <2>. QED BY <1>2, <2>1, <2>2 DEF Lift
<1>3. CASE Optimise(w) BY <1>3, TableStutters DEF Optimise, driverVars, joinVars
<1>4. CASE Deadline(w) BY <1>0, <1>4, TableFinish DEF Deadline, DeadlineStages
<1>5. CASE Verify(w) BY <1>5, TableStutters DEF Verify, driverVars, joinVars
<1>6. CASE Label(w) BY <1>6, TableStutters DEF Label, driverVars, joinVars
<1>7. CASE RegisterLambda(w)
  BY <1>7, TableStutters DEF RegisterLambda, driverVars, joinVars
<1>8. ASSUME NEW l \in Methods, FoldLambda(w, l) PROVE [Table!Next]_(Table!vars)
  BY <1>8, TableStutters DEF FoldLambda, driverVars, joinVars
<1>9. CASE RecordUsage(w) BY <1>9, TableStutters DEF RecordUsage, driverVars, joinVars
<1>10. CASE Emit(w)
  <2>1. EmittedText(w) \in Text BY <1>10, EmittedTextType DEF Emit
  <2>2. /\ EmittedText(w).kind # "pending"
        /\ \A i \in DOMAIN EmittedText(w).line : EmittedText(w).line[i].type = NoType
    BY DEF EmittedText, Unnamed
  <2>3. Finish(w, EmittedText(w)) BY <1>10 DEF Emit, EmittedText
  <2>. QED BY <1>10, <2>1, <2>2, <2>3, TableFinish DEF Emit
<1>. QED
  BY <1>1, <1>2, <1>3, <1>4, <1>5, <1>6, <1>7, <1>8, <1>9, <1>10 DEF WorkerStep

LEMMA DeclaringType == TypeInv => declaring \in [Methods -> Types]
<1>. SUFFICES ASSUME TypeInv PROVE declaring \in [Methods -> Types] OBVIOUS
<1>1. \A m \in Methods : prog[m].type \in Types
  BY BodyType DEF TypeInv, TypeOK, DriverTypes, NativeMethod
<1>. QED BY <1>1 DEF declaring

LEMMA TableInit == Init => Table!Init
<1>. SUFFICES ASSUME Init PROVE Table!Init OBVIOUS
<1>1. declaring \in [Methods -> Types] BY InitType, DeclaringType
<1>. QED
  BY <1>1 DEF Init, Plain, Table!Init, Table!AllPending, Table!Pending, Table!NothingNamed

LEMMA TableStep ==
    TypeInv /\ TypeInv' /\ Accounted /\ PtrInv /\ PtrInv' /\ [Next]_vars
        => [Table!Next]_(Table!vars)
<1>. SUFFICES ASSUME TypeInv, TypeInv', Accounted, PtrInv, PtrInv', [Next]_vars
              PROVE  [Table!Next]_(Table!vars)
  OBVIOUS
<1>1. CASE \E w \in Workers : WorkerStep(w) BY <1>1, TableWorker
<1>2. ASSUME NEW p \in Programs, NEW a \in BOOLEAN, StartRun(p, a) PROVE Table!Next
  <2>0. \A m \in Methods : prog'[m].type \in Types
    BY <1>2, ProgramsAssumption DEF StartRun, NativeMethod
  <2>1. declaring' \in [Methods -> Types] BY <2>0 DEF declaring
  <2>2. Table!Open
    BY <1>2, <2>1
    DEF StartRun, Plain, Table!Open, Table!AllPending, Table!Pending, Table!NothingNamed
  <2>. QED BY <2>2 DEF Table!Next
<1>3. CASE ResolvePtrs
  <2>1. /\ phase = "render" /\ phase' \in {"rewrite", "done"}
        /\ results' = results /\ prog' = prog
    BY <1>3 DEF ResolvePtrs, Joined
  <2>2. \A m \in Methods : results[m].kind # "pending"
    BY <1>3, MethodsAssumption DEF ResolvePtrs, Joined, Accounted, TypeInv, Placed
  <2>3. \A m \in Methods : \A i \in DOMAIN results[m].line :
           resolved'[results[m].line[i].ptr] \in {NoType, declaring[m]}
    BY <2>1 DEF PtrInv, Agreed, declaring
  <2>4. declaring' = declaring BY <2>1 DEF declaring
  <2>5. Table!Agree BY <2>1, <2>2, <2>3, <2>4 DEF Table!Agree, Table!Pending
  <2>. QED BY <2>5 DEF Table!Next
<1>4. ASSUME NEW m \in Methods, RewriteText(m) PROVE Table!Next
  <2>1. /\ phase = "rewrite" /\ results' = [results EXCEPT ![m].line = Replace(@)]
        /\ UNCHANGED <<phase, prog, resolved>>
    BY <1>4 DEF RewriteText, driverVars
  <2>2. results \in [Methods -> Text] BY DEF TypeInv, TypeOK, TextTypes
  <2>3. \A n \in Methods \ {m} : results'[n] = results[n] BY <2>1, <2>2
  <2>4. /\ results'[m].kind = results[m].kind /\ results'[m].stamp = results[m].stamp
        /\ results'[m].folds = results[m].folds
        /\ results'[m].line = Replace(results[m].line)
    BY <2>1, <2>2 DEF Text
  <2>5. results[m].line \in Line BY <2>2 DEF Text
  <2>6. /\ DOMAIN results'[m].line = DOMAIN results[m].line
        /\ \A i \in DOMAIN results[m].line :
              /\ results'[m].line[i].ptr = results[m].line[i].ptr
              /\ results'[m].line[i].type
                    \in {results[m].line[i].type, resolved[results[m].line[i].ptr]}
    BY <2>4, <2>5, LineTokens DEF Replace, Token
  <2>7. declaring' = declaring BY <2>1 DEF declaring
  <2>8. Table!Rename(m) BY <2>1, <2>3, <2>4, <2>6, <2>7 DEF Table!Rename
  <2>. QED BY <2>8 DEF Table!Next
<1>5. CASE Return
  <2>1. Table!Publish BY <1>5 DEF Return, joinVars, Table!Publish, declaring
  <2>. QED BY <2>1 DEF Table!Next
<1>6. CASE UNCHANGED vars BY <1>6, TableStutters DEF vars, driverVars, joinVars
<1>. QED
  BY <1>1, <1>2, <1>3, <1>4, <1>5, <1>6 DEF Next, Driver, Rewriting, Exited

\* Whatever the workers do, each text is settled once and afterwards only has
\* its agreed pointers named.
THEOREM PoolImplementsTable == Spec => ImplementsTable
<1>. QED
  BY TableInit, TableStep, TypeInvariant, AccountedInvariant, PtrInvariant, PTL
  DEF Spec, ImplementsTable, Table!Spec

-----------------------------------------------------------------------------
(***************************************************************************)
(* What holds of the first run of a process, before the registries that    *)
(* outlive a run hold anything of an earlier binary.  Each invariant is    *)
(* guarded by runs = 1; the step to a second run discharges it.  That it   *)
(* must is seen where CleanBodiesCarryNoGrade fails.                       *)
(***************************************************************************)
(* Before the first run nothing is on file.                                *)

Fresh ==
    /\ runs = 0 => /\ phase = "idle"
                   /\ envAnnotate = FALSE /\ flagCache = "unset"
                   /\ \A m \in Methods : annotations[m] = "none"
                   /\ \A n \in LambdaNames : registry[n] = NoLambda
    /\ phase = "idle" => runs = 0

LEMMA FreshInit == Init => Fresh
BY DEF Init, Fresh

LEMMA FreshStep == TypeInv /\ Fresh /\ [Next]_vars => Fresh'
<1>. SUFFICES ASSUME TypeInv, Fresh, [Next]_vars PROVE Fresh' OBVIOUS
<1>. USE DEF TypeInv, TypeOK, DriverTypes
<1>1. CASE \E w \in Workers : WorkerStep(w)
  <2>1. PICK w \in Workers : WorkerStep(w) BY <1>1
  <2>2. phase # "idle" /\ UNCHANGED driverVars
    BY <2>1
    DEF WorkerStep, Claim, Lift, Optimise, Deadline, DeadlineStages, Verify, Label,
        RegisterLambda, FoldLambda, RecordUsage, Emit, Placed
  <2>. QED BY <2>2 DEF Fresh, driverVars
<1>2. ASSUME NEW p \in Programs, NEW a \in BOOLEAN, StartRun(p, a) PROVE Fresh'
  BY <1>2 DEF StartRun, Fresh
<1>3. CASE ResolvePtrs BY <1>3 DEF ResolvePtrs, Joined, Fresh
<1>4. ASSUME NEW m \in Methods, RewriteText(m) PROVE Fresh'
  BY <1>4 DEF RewriteText, Fresh, driverVars
<1>5. CASE Return BY <1>5 DEF Return, Fresh
<1>6. CASE UNCHANGED vars BY <1>6 DEF vars, driverVars, sharedVars, Fresh
<1>. QED
  BY <1>1, <1>2, <1>3, <1>4, <1>5, <1>6 DEF Next, Driver, Rewriting, Exited

LEMMA FreshInvariant == Spec => []Fresh
<1>. QED BY FreshInit, FreshStep, TypeInvariant, PTL DEF Spec

-----------------------------------------------------------------------------
(* Grades.                                                                 *)

\* What this run prints over method m.
Due(m) == IF annotate THEN OwnGrade(m) ELSE "none"

Rendering == {"label", "register", "fold"}

\* What a worker knows: in the passes its ledger holds only erasures of its
\* own method; past the verifier the annotation is final.
Informed(w) ==
    /\ pc[w] \in {"passes", "verify"} => prog[at[w]].lift = "normal"
    /\ pc[w] = "passes" /\ annotate => ledger[w] = {}
    /\ pc[w] = "verify" /\ annotate => ledger[w] = prog[at[w]].erased
    /\ pc[w] = "label" /\ annotate => graded[w]
    /\ pc[w] \in Rendering => annotations[at[w]] = Due(at[w])

\* The gate answers what the run asked for.
Gate == IF annotate THEN "on" ELSE "off"

GradeInv ==
    runs = 1 =>
        /\ envAnnotate = annotate
        /\ flagCache \in {"unset", Gate}
        /\ \A m \in Methods : annotations[m] \in {"none", Due(m)}
        /\ \A m \in Methods : results[m].kind = "body" => results[m].stamp = Due(m)
        /\ \A w \in Workers : Informed(w)

LEMMA GradeInit == Init => GradeInv
BY DEF Init, GradeInv

LEMMA GateRead ==
    ASSUME TypeInv, GradeInv, runs = 1
    PROVE  ReadFlag = Gate /\ (VerifyOn <=> annotate)
<1>1. annotate \in BOOLEAN BY DEF TypeInv, TypeOK, DriverTypes
<1>2. ReadFlag = Gate BY <1>1 DEF ReadFlag, GradeInv, Gate
<1>. QED BY <1>2 DEF VerifyOn, Gate

\* A step of one worker that only moves annotations to their due grade and
\* keeps that worker informed keeps the invariant.
LEMMA GradeKept ==
    ASSUME TypeInv, GradeInv, runs = 1, NEW w \in Workers, UNCHANGED driverVars,
           flagCache' \in {flagCache, Gate},
           \A m \in Methods : annotations'[m] \in {annotations[m], Due(m)},
           \A m \in Methods : results'[m].kind = "body" =>
               results'[m] = results[m] \/ results'[m].stamp = Due(m),
           \A v \in Workers \ {w} :
               /\ at'[v] = at[v] /\ pc'[v] = pc[v]
               /\ ledger'[v] = ledger[v] /\ graded'[v] = graded[v],
           Informed(w)'
    PROVE  GradeInv'
<1>1. \A m \in Methods : Due(m)' = Due(m) BY DEF Due, OwnGrade, driverVars
<1>2. Gate' = Gate /\ envAnnotate' = annotate' BY DEF Gate, GradeInv, driverVars
<1>3. \A v \in Workers : Informed(v)'
  <2>. SUFFICES ASSUME NEW v \in Workers \ {w} PROVE Informed(v)' OBVIOUS
  <2>1. Informed(v) BY DEF GradeInv
  <2>2. pc[v] # "free" => at[v] \in Methods BY DEF TypeInv, Placed
  <2>3. pc[v] \in Rendering => annotations'[at[v]] = Due(at[v])
    BY <2>1, <2>2 DEF Informed, Rendering
  <2>4. pc[v] \in Rendering => Due(at[v])' = Due(at[v])
    BY <1>1, <2>2 DEF Rendering, Due, OwnGrade, driverVars
  <2>. QED BY <2>1, <2>3, <2>4 DEF Informed, driverVars
<1>4. flagCache' \in {"unset", Gate} BY DEF GradeInv
<1>5. \A m \in Methods : annotations'[m] \in {"none", Due(m)} BY DEF GradeInv
<1>6. \A m \in Methods : results'[m].kind = "body" => results'[m].stamp = Due(m)
  BY DEF GradeInv
<1>. QED BY <1>1, <1>2, <1>3, <1>4, <1>5, <1>6 DEF GradeInv

\* A worker that settles its method without reaching the renderer.
LEMMA GradeMarked ==
    ASSUME TypeInv, GradeInv, runs = 1, NEW w \in Workers, UNCHANGED driverVars,
           at[w] \in Methods, Finish(w, Plain("marker")),
           flagCache' \in {flagCache, Gate}, annotations' = annotations, graded' = graded,
           \A v \in Workers \ {w} : ledger'[v] = ledger[v]
    PROVE  GradeInv'
<1>. USE DEF TypeInv, TypeOK
<1>1. \A m \in Methods : results'[m].kind = "body" => results'[m] = results[m]
  BY DEF Finish, Plain, TextTypes
<1>2. \A v \in Workers \ {w} : at'[v] = at[v] /\ pc'[v] = pc[v]
  BY DEF Finish, WorkerTypes
<1>3. pc'[w] = "free" BY DEF Finish, WorkerTypes
<1>4. Informed(w)' BY <1>3 DEF Informed, Rendering
<1>. QED BY <1>1, <1>2, <1>4, GradeKept

LEMMA GradeLift ==
    ASSUME TypeInv, GradeInv, runs = 1, NEW w \in Workers, Lift(w)
    PROVE  GradeInv'
<1>. USE DEF TypeInv, TypeOK, WorkerTypes
<1>1. /\ at[w] \in Methods /\ pc[w] = "lift" /\ UNCHANGED driverVars
      /\ annotations' = annotations
  BY DEF Lift, Placed
<1>2. flagCache' = Gate BY GateRead DEF Lift
<1>3. ledger' = [ledger EXCEPT ![w] = IF annotate THEN {} ELSE ledger[w]]
  BY GateRead DEF Lift, FreshLedger
<1>4. CASE prog[at[w]].lift = "unsupported" /\ Finish(w, Plain("marker")) /\ graded' = graded
  BY <1>1, <1>2, <1>3, <1>4, GradeMarked
<1>5. CASE /\ prog[at[w]].lift = "thunk" /\ results' = results /\ at' = at
           /\ graded' = [graded EXCEPT ![w] = @ \/ VerifyOn]
           /\ pc' = [pc EXCEPT ![w] = "label"]
  <2>1. Due(at[w]) = "none" BY <1>5 DEF Due, OwnGrade
  <2>2. annotations[at[w]] = Due(at[w]) BY <1>1, <2>1 DEF GradeInv
  <2>3. annotate => graded'[w] BY <1>5, GateRead
  <2>4. Due(at[w])' = Due(at[w]) BY <1>1, <1>5 DEF Due, OwnGrade, driverVars
  <2>5. pc'[w] = "label" /\ annotations'[at'[w]] = Due(at[w])' /\ at'[w] = at[w]
    BY <1>1, <1>5, <2>2, <2>4
  <2>6. Informed(w)'
    BY <1>1, <2>3, <2>4, <2>5 DEF Informed, driverVars, Due, OwnGrade
  <2>. QED BY <1>1, <1>2, <1>3, <1>5, <2>6, GradeKept
<1>6. CASE /\ prog[at[w]].lift = "normal" /\ UNCHANGED <<at, results, graded>>
           /\ pc' = [pc EXCEPT ![w] = "passes"]
  <2>1. pc'[w] = "passes" /\ annotate = annotate' /\ prog' = prog
    BY <1>1, <1>6 DEF driverVars
  <2>2. annotate => ledger'[w] = {} BY <1>3
  <2>3. Informed(w)' BY <1>6, <2>1, <2>2 DEF Informed, Rendering
  <2>. QED BY <1>1, <1>2, <1>3, <1>6, <2>3, GradeKept
<1>. QED BY <1>4, <1>5, <1>6 DEF Lift

LEMMA GradeVerify ==
    ASSUME TypeInv, GradeInv, runs = 1, NEW w \in Workers, Verify(w)
    PROVE  GradeInv'
<1>. USE DEF TypeInv, TypeOK, WorkerTypes
<1>1. /\ at[w] \in Methods /\ pc[w] = "verify" /\ UNCHANGED driverVars
      /\ UNCHANGED <<at, results, flagCache, ledger>>
      /\ pc' = [pc EXCEPT ![w] = "label"]
  BY DEF Verify, Placed
<1>2. Informed(w) BY DEF GradeInv
<1>3. annotate \in BOOLEAN BY DEF DriverTypes
<1>4. Due(at[w])' = Due(at[w]) BY <1>1 DEF Due, OwnGrade, driverVars
<1>5. CASE annotate
  <2>1. /\ graded' = [graded EXCEPT ![w] = TRUE]
        /\ annotations' = IF IsClean(prog[at[w]], prog[at[w]].erased) THEN annotations
                          ELSE [annotations EXCEPT ![at[w]] = "flagged"]
    BY <1>1, <1>2, <1>5, GateRead DEF Verify, Informed
  <2>2. Due(at[w]) = IF IsClean(prog[at[w]], prog[at[w]].erased) THEN "none" ELSE "flagged"
    BY <1>1, <1>2, <1>5 DEF Due, OwnGrade, Informed
  <2>3. annotations'[at[w]] = Due(at[w])
        /\ \A m \in Methods : m # at[w] => annotations'[m] = annotations[m]
    BY <1>1, <2>1, <2>2 DEF GradeInv, SharedTypes
  <2>4. graded'[w] /\ pc'[w] = "label" /\ at'[w] = at[w] BY <1>1, <2>1
  <2>5. Informed(w)' BY <1>4, <2>3, <2>4 DEF Informed, Due, OwnGrade
  <2>6. \A m \in Methods : annotations'[m] \in {annotations[m], Due(m)} BY <2>3
  <2>. QED BY <1>1, <2>1, <2>5, <2>6, GradeKept
<1>6. CASE ~annotate
  <2>1. UNCHANGED <<graded, annotations>> BY <1>6, GateRead DEF Verify
  <2>2. annotations[at[w]] = Due(at[w]) BY <1>1, <1>6 DEF GradeInv, Due
  <2>3. pc'[w] = "label" /\ at'[w] = at[w] /\ ~annotate' BY <1>1, <1>6 DEF driverVars
  <2>4. Informed(w)' BY <1>4, <2>1, <2>2, <2>3 DEF Informed, Due, OwnGrade
  <2>. QED BY <1>1, <2>1, <2>4, GradeKept
<1>. QED BY <1>3, <1>5, <1>6

\* A step of a worker between the verifier and the end of the renderer.
LEMMA GradeRendering ==
    ASSUME TypeInv, GradeInv, runs = 1, NEW w \in Workers, UNCHANGED driverVars,
           UNCHANGED <<at, results, flagCache, annotations, graded, ledger>>,
           pc[w] \in Rendering, pc' = [pc EXCEPT ![w] = pc'[w]], pc'[w] \in {"register", "fold"}
    PROVE  GradeInv'
<1>1. at[w] \in Methods BY DEF TypeInv, Placed, Rendering
<1>2. Informed(w) BY DEF GradeInv
<1>3. Due(at[w])' = Due(at[w]) BY DEF Due, OwnGrade, driverVars
<1>4. Informed(w)' BY <1>2, <1>3 DEF Informed, Due, OwnGrade, Rendering
<1>. QED BY <1>4, GradeKept DEF TypeInv, TypeOK, WorkerTypes

LEMMA GradeWorker ==
    ASSUME TypeInv, GradeInv, runs = 1, NEW w \in Workers, WorkerStep(w)
    PROVE  GradeInv'
<1>. USE DEF TypeInv, TypeOK, WorkerTypes
<1>0. annotate \in BOOLEAN /\ Informed(w) BY DEF DriverTypes, GradeInv
<1>1. ASSUME NEW m \in Methods, Claim(w, m) PROVE GradeInv'
  <2>1. \A n \in Methods : results'[n].kind = "body" => results'[n] = results[n]
    BY <1>1 DEF Claim, Plain, TextTypes
  <2>2. pc'[w] \in {"free", "lift"} BY <1>1 DEF Claim
  <2>3. Informed(w)' BY <2>2 DEF Informed, Rendering
  <2>. QED BY <1>1, <2>1, <2>3, GradeKept DEF Claim
<1>2. CASE Lift(w) BY <1>2, GradeLift
<1>3. CASE Optimise(w)
  <2>1. /\ pc'[w] = "verify" /\ UNCHANGED <<driverVars, results, flagCache, annotations,
                                            at, graded>>
        /\ ledger'[w] = ledger[w] \cup prog[at[w]].erased /\ pc[w] = "passes"
    BY <1>3 DEF Optimise, sharedVars
  <2>2. Informed(w)' BY <1>0, <2>1 DEF Informed, Rendering, driverVars
  <2>. QED BY <1>3, <2>1, <2>2, GradeKept DEF Optimise
<1>4. CASE Deadline(w)
  BY <1>4, GradeMarked DEF Deadline, DeadlineStages, Placed
<1>5. CASE Verify(w) BY <1>5, GradeVerify
<1>6. CASE Label(w)
  <2>1. annotations' = annotations BY <1>0, <1>6 DEF Label, Informed
  <2>. QED BY <1>6, <2>1, GradeRendering DEF Label, Rendering
<1>7. CASE RegisterLambda(w)
  BY <1>7, GradeRendering DEF RegisterLambda, Rendering
<1>8. ASSUME NEW l \in Methods, FoldLambda(w, l) PROVE GradeInv'
  BY <1>8, GradeRendering DEF FoldLambda, Rendering, sharedVars
<1>9. CASE RecordUsage(w)
  BY <1>9, GradeRendering DEF RecordUsage, Rendering
<1>10. CASE Emit(w)
  <2>1. /\ at[w] \in Methods /\ pc[w] = "fold" /\ UNCHANGED driverVars
        /\ results' = [results EXCEPT ![at[w]] = EmittedText(w)]
        /\ pc' = [pc EXCEPT ![w] = "free"] /\ at' = [at EXCEPT ![w] = NoMethod]
        /\ UNCHANGED <<flagCache, annotations, graded, ledger>>
    BY <1>10 DEF Emit, Finish, EmittedText, Placed
  <2>2. EmittedText(w).stamp = Due(at[w])
    BY <1>0, <2>1 DEF EmittedText, Informed, Rendering
  <2>3. \A m \in Methods : results'[m] = results[m] \/ results'[m].stamp = Due(m)
    BY <2>1, <2>2 DEF TextTypes
  <2>4. pc'[w] = "free" BY <2>1
  <2>5. Informed(w)' BY <2>4 DEF Informed, Rendering
  <2>. QED BY <2>1, <2>3, <2>5, GradeKept
<1>. QED
  BY <1>1, <1>2, <1>3, <1>4, <1>5, <1>6, <1>7, <1>8, <1>9, <1>10 DEF WorkerStep

\* StartRun begins the first run from a fresh process, or a later one.
LEMMA GradeStart ==
    ASSUME TypeInv, Fresh, GradeInv, NEW p \in Programs, NEW a \in BOOLEAN, StartRun(p, a)
    PROVE  GradeInv'
<1>. USE DEF TypeInv, TypeOK
<1>. SUFFICES ASSUME runs' = 1 PROVE GradeInv' BY DEF GradeInv
<1>1. runs = 0 BY DEF StartRun, DriverTypes
<1>2. /\ envAnnotate = FALSE /\ flagCache = "unset" /\ phase = "idle"
      /\ \A m \in Methods : annotations[m] = "none"
  BY <1>1 DEF Fresh
<1>3. annotate' = a /\ envAnnotate' = a BY <1>2 DEF StartRun
<1>4. \A w \in Workers : pc'[w] = "free" /\ ~(pc'[w] \in {"passes", "verify"})
  BY <1>2 DEF StartRun, Placed, workerVars
<1>5. \A w \in Workers : Informed(w)' BY <1>4 DEF Informed, Rendering
<1>6. \A m \in Methods : results'[m].kind = "pending" BY DEF StartRun, Plain
<1>7. \A m \in Methods : annotations'[m] = "none" BY <1>2 DEF StartRun
<1>8. flagCache' = "unset" BY <1>2 DEF StartRun
<1>. QED BY <1>3, <1>5, <1>6, <1>7, <1>8 DEF GradeInv

\* The driver's steps after the join touch neither grades nor stamps.
LEMMA GradeJoined ==
    ASSUME TypeInv, GradeInv, UNCHANGED <<runs, prog, annotate, envAnnotate, workerVars>>,
           UNCHANGED <<flagCache, annotations>>,
           \A m \in Methods : /\ results'[m].kind = results[m].kind
                              /\ results'[m].stamp = results[m].stamp
    PROVE  GradeInv'
<1>. SUFFICES ASSUME runs = 1 PROVE GradeInv' BY DEF GradeInv
<1>1. \A m \in Methods : Due(m)' = Due(m) BY DEF Due, OwnGrade
<1>2. Gate' = Gate BY DEF Gate
<1>3. ASSUME NEW w \in Workers PROVE Informed(w)'
  BY DEF GradeInv, Informed, Due, OwnGrade, workerVars
<1>. QED BY <1>1, <1>2, <1>3 DEF GradeInv

LEMMA GradeStep == TypeInv /\ Fresh /\ GradeInv /\ [Next]_vars => GradeInv'
<1>. SUFFICES ASSUME TypeInv, Fresh, GradeInv, [Next]_vars PROVE GradeInv' OBVIOUS
<1>. USE DEF TypeInv, TypeOK
<1>1. CASE \E w \in Workers : WorkerStep(w)
  <2>1. PICK w \in Workers : WorkerStep(w) BY <1>1
  <2>2. UNCHANGED runs
    BY <2>1
    DEF WorkerStep, Claim, Lift, Optimise, Deadline, Verify, Label, RegisterLambda,
        FoldLambda, RecordUsage, Emit, driverVars
  <2>. QED BY <2>1, <2>2, GradeWorker DEF GradeInv
<1>2. ASSUME NEW p \in Programs, NEW a \in BOOLEAN, StartRun(p, a) PROVE GradeInv'
  BY <1>2, GradeStart
<1>3. CASE ResolvePtrs BY <1>3, GradeJoined DEF ResolvePtrs
<1>4. ASSUME NEW m \in Methods, RewriteText(m) PROVE GradeInv'
  BY <1>4, GradeJoined DEF RewriteText, TextTypes, Text, driverVars, sharedVars
<1>5. CASE Return BY <1>5, GradeJoined DEF Return, sharedVars
<1>6. CASE UNCHANGED vars BY <1>6, GradeJoined DEF vars, driverVars, sharedVars
<1>. QED
  BY <1>1, <1>2, <1>3, <1>4, <1>5, <1>6 DEF Next, Driver, Rewriting, Exited

LEMMA GradeInvariant == Spec => []GradeInv
<1>. QED BY GradeInit, GradeStep, TypeInvariant, FreshInvariant, PTL DEF Spec

\* In the first run an emitted body carries the grade its own code earns, in
\* every order of the workers: the per-method ledger_clear and graded marker
\* isolate the methods a thread renders one after the other.
THEOREM OwnGradeStamped == Spec => []StampIsOwnGrade
<1>1. GradeInv => StampIsOwnGrade BY DEF GradeInv, StampIsOwnGrade, Due
<1>. QED BY <1>1, GradeInvariant, PTL

-----------------------------------------------------------------------------
(* The banner counts what the texts carry.                                 *)

\* A grade on file is printed, or its method is still being rendered.
StampInv ==
    runs = 1 => \A m \in Methods :
        /\ results[m].stamp # "none" => annotations[m] # "none"
        /\ results[m].kind = "pending" => results[m].stamp = "none"
        /\ annotations[m] # "none" =>
              \/ results[m].stamp # "none"
              \/ \E w \in Workers : at[w] = m /\ pc[w] \in Rendering

LEMMA StampInit == Init => StampInv
BY DEF Init, StampInv

\* A step that prints nothing new: no text gains a stamp, renderers stay in the
\* renderer, and an annotation changes only for a method being rendered.
LEMMA StampKept ==
    ASSUME StampInv, runs = 1, UNCHANGED driverVars,
           \A m \in Methods :
               /\ results'[m].stamp = results[m].stamp
               /\ results'[m].kind = "pending" => results[m].kind = "pending",
           \A v \in Workers : pc[v] \in Rendering =>
               at'[v] = at[v] /\ pc'[v] \in Rendering,
           \A m \in Methods :
               \/ annotations'[m] = annotations[m]
               \/ /\ annotations'[m] # "none"
                  /\ \E w \in Workers : at'[w] = m /\ pc'[w] \in Rendering
    PROVE  StampInv'
<1>. SUFFICES ASSUME NEW m \in Methods
              PROVE  /\ results'[m].stamp # "none" => annotations'[m] # "none"
                     /\ results'[m].kind = "pending" => results'[m].stamp = "none"
                     /\ annotations'[m] # "none" =>
                           \/ results'[m].stamp # "none"
                           \/ \E w \in Workers : at'[w] = m /\ pc'[w] \in Rendering
  BY DEF StampInv
<1>1. results[m].stamp # "none" => annotations[m] # "none" BY DEF StampInv
<1>2. results[m].kind = "pending" => results[m].stamp = "none" BY DEF StampInv
<1>3. \/ annotations[m] = "none"
      \/ results[m].stamp # "none"
      \/ \E w \in Workers : at[w] = m /\ pc[w] \in Rendering
  BY DEF StampInv
<1>. QED BY <1>1, <1>2, <1>3

\* A worker that settles its method short of the verifier.
LEMMA StampMarked ==
    ASSUME TypeInv, Accounted, StampInv, runs = 1, NEW w \in Workers, UNCHANGED driverVars,
           pc[w] \in {"lift", "passes"}, Finish(w, Plain("marker")), annotations' = annotations
    PROVE  StampInv'
<1>. USE DEF TypeInv, TypeOK, WorkerTypes, Rendering
<1>1. at[w] \in Methods /\ at[w] # NoMethod BY MethodsAssumption DEF Placed
<1>2. \A v \in Workers : at[v] = at[w] => v = w
  BY <1>1 DEF Accounted, OneWorkerPerMethod
<1>3. results[at[w]].stamp = "none"
  BY <1>1 DEF Accounted, OneWorkerPerMethod, StampInv
<1>4. annotations[at[w]] = "none" BY <1>1, <1>2, <1>3 DEF StampInv
<1>5. \A m \in Methods : results'[m].stamp = results[m].stamp
                         /\ (results'[m].kind = "pending" => results[m].kind = "pending")
  BY <1>1, <1>3 DEF Finish, Plain, TextTypes
<1>6. \A v \in Workers : pc[v] \in Rendering => at'[v] = at[v] /\ pc'[v] \in Rendering
  BY DEF Finish
<1>. QED BY <1>5, <1>6, StampKept

LEMMA StampWorker ==
    ASSUME TypeInv, Accounted, GradeInv, StampInv, runs = 1,
           NEW w \in Workers, WorkerStep(w)
    PROVE  StampInv'
<1>. USE DEF TypeInv, TypeOK, WorkerTypes, Rendering
<1>1. ASSUME NEW m \in Methods, Claim(w, m) PROVE StampInv'
  <2>1. results[m].stamp = "none" /\ pc[w] = "free" /\ at[w] = NoMethod
    BY <1>1 DEF Claim, Accounted, StampInv, Placed
  <2>2. \A n \in Methods : results'[n].stamp = results[n].stamp
                           /\ (results'[n].kind = "pending" => results[n].kind = "pending")
    <3>1. \/ results' = results
          \/ \E k \in {"none", "marker"} : results' = [results EXCEPT ![m] = Plain(k)]
      BY <1>1 DEF Claim
    <3>2. CASE results' = results BY <3>2
    <3>3. ASSUME NEW k \in {"none", "marker"}, results' = [results EXCEPT ![m] = Plain(k)]
          PROVE  \A n \in Methods : results'[n].stamp = results[n].stamp
                      /\ (results'[n].kind = "pending" => results[n].kind = "pending")
      <4>1. Plain(k).stamp = "none" /\ Plain(k).kind = k BY DEF Plain
      <4>2. \A n \in Methods : results'[n] = IF n = m THEN Plain(k) ELSE results[n]
        BY <3>3 DEF TextTypes
      <4>. QED BY <2>1, <3>3, <4>1, <4>2
    <3>. QED BY <3>1, <3>2, <3>3
  <2>3. \A v \in Workers : pc[v] \in Rendering => at'[v] = at[v] /\ pc'[v] \in Rendering
    BY <1>1, <2>1 DEF Claim
  <2>. QED BY <1>1, <2>2, <2>3, StampKept DEF Claim
<1>2. CASE Lift(w)
  <2>1. CASE Finish(w, Plain("marker"))
    BY <1>2, <2>1, StampMarked DEF Lift
  <2>2. CASE UNCHANGED <<at, results>> /\ \E k \in Stages : pc' = [pc EXCEPT ![w] = k]
    <3>1. \A v \in Workers : pc[v] \in Rendering => at'[v] = at[v] /\ pc'[v] \in Rendering
      BY <1>2, <2>2 DEF Lift
    <3>. QED BY <1>2, <2>2, <3>1, StampKept DEF Lift
  <2>. QED BY <1>2, <2>1, <2>2 DEF Lift, Stages
<1>3. CASE Optimise(w)
  BY <1>3 DEF Optimise, StampInv, driverVars, sharedVars
<1>4. CASE Deadline(w)
  BY <1>4, StampMarked DEF Deadline, DeadlineStages
<1>5. CASE Verify(w)
  <2>1. /\ pc'[w] = "label" /\ UNCHANGED <<at, results, driverVars>>
        /\ \A v \in Workers : pc[v] \in Rendering => pc'[v] \in Rendering
    BY <1>5 DEF Verify
  <2>2. \A m \in Methods : \/ annotations'[m] = annotations[m]
                           \/ m = at[w] /\ annotations'[m] = "flagged"
    <3>1. \/ annotations' = annotations
          \/ annotations' = [annotations EXCEPT ![at[w]] = "flagged"]
      <4>1. CASE VerifyOn BY <1>5, <4>1 DEF Verify
      <4>2. CASE ~VerifyOn BY <1>5, <4>2 DEF Verify
      <4>. QED BY <4>1, <4>2
    <3>. QED BY <3>1 DEF SharedTypes
  <2>. QED BY <2>1, <2>2, StampKept
<1>6. CASE Label(w)
  <2>1. annotations' = annotations
    BY <1>6 DEF Label, GradeInv, Informed, DriverTypes
  <2>. QED BY <1>6, <2>1 DEF Label, StampInv, driverVars
<1>7. CASE RegisterLambda(w) BY <1>7 DEF RegisterLambda, StampInv, driverVars
<1>8. ASSUME NEW l \in Methods, FoldLambda(w, l) PROVE StampInv'
  BY <1>8 DEF FoldLambda, StampInv, driverVars, sharedVars
<1>9. CASE RecordUsage(w) BY <1>9 DEF RecordUsage, StampInv, driverVars
<1>10. CASE Emit(w)
  <2>1. /\ at[w] \in Methods /\ UNCHANGED <<runs, annotations>>
        /\ results' = [results EXCEPT ![at[w]] = EmittedText(w)]
        /\ \A v \in Workers : v # w => at'[v] = at[v] /\ pc'[v] = pc[v]
    BY <1>10 DEF Emit, Finish, EmittedText, Placed, driverVars
  <2>2. EmittedText(w).stamp = annotations[at[w]] /\ EmittedText(w).kind # "pending"
    BY DEF EmittedText
  <2>3. results'[at[w]] = EmittedText(w)
        /\ \A m \in Methods : m # at[w] => results'[m] = results[m]
    BY <2>1 DEF TextTypes
  <2>. SUFFICES ASSUME NEW m \in Methods
                PROVE  /\ results'[m].stamp # "none" => annotations[m] # "none"
                       /\ results'[m].kind = "pending" => results'[m].stamp = "none"
                       /\ annotations[m] # "none" =>
                             \/ results'[m].stamp # "none"
                             \/ \E v \in Workers : at'[v] = m /\ pc'[v] \in Rendering
    BY <2>1 DEF StampInv
  <2>4. CASE m = at[w] BY <2>2, <2>3, <2>4
  <2>5. CASE m # at[w]
    <3>1. results'[m] = results[m] BY <2>3, <2>5
    <3>2. \A v \in Workers : at[v] = m => v # w BY <2>5
    <3>3. /\ results[m].stamp # "none" => annotations[m] # "none"
          /\ results[m].kind = "pending" => results[m].stamp = "none"
          /\ annotations[m] # "none" =>
                \/ results[m].stamp # "none"
                \/ \E v \in Workers : at[v] = m /\ pc[v] \in Rendering
      BY DEF StampInv
    <3>4. \A v \in Workers : at[v] = m /\ pc[v] \in Rendering =>
             at'[v] = m /\ pc'[v] \in Rendering
      BY <2>1, <3>2
    <3>. QED BY <3>1, <3>3, <3>4
  <2>. QED BY <2>4, <2>5
<1>. QED
  BY <1>1, <1>2, <1>3, <1>4, <1>5, <1>6, <1>7, <1>8, <1>9, <1>10 DEF WorkerStep

LEMMA StampStep ==
    TypeInv /\ Accounted /\ Fresh /\ GradeInv /\ StampInv /\ [Next]_vars => StampInv'
<1>. SUFFICES ASSUME TypeInv, Accounted, Fresh, GradeInv, StampInv, [Next]_vars
              PROVE  StampInv'
  OBVIOUS
<1>. USE DEF TypeInv, TypeOK
<1>1. CASE \E w \in Workers : WorkerStep(w)
  <2>1. PICK w \in Workers : WorkerStep(w) BY <1>1
  <2>2. UNCHANGED runs
    BY <2>1
    DEF WorkerStep, Claim, Lift, Optimise, Deadline, Verify, Label, RegisterLambda,
        FoldLambda, RecordUsage, Emit, driverVars
  <2>. QED BY <2>1, <2>2, StampWorker DEF StampInv
<1>2. ASSUME NEW p \in Programs, NEW a \in BOOLEAN, StartRun(p, a) PROVE StampInv'
  BY <1>2 DEF StartRun, StampInv, Fresh, Plain, DriverTypes
<1>3. CASE ResolvePtrs BY <1>3 DEF ResolvePtrs, StampInv, workerVars
<1>4. ASSUME NEW m \in Methods, RewriteText(m) PROVE StampInv'
  <2>1. \A n \in Methods : /\ results'[n].kind = results[n].kind
                           /\ results'[n].stamp = results[n].stamp
    BY <1>4 DEF RewriteText, TextTypes, Text
  <2>. QED
    BY <1>4, <2>1 DEF RewriteText, StampInv, driverVars, workerVars, sharedVars
<1>5. CASE Return BY <1>5 DEF Return, StampInv, workerVars, sharedVars
<1>6. CASE UNCHANGED vars
  BY <1>6 DEF vars, driverVars, workerVars, sharedVars, StampInv
<1>. QED
  BY <1>1, <1>2, <1>3, <1>4, <1>5, <1>6 DEF Next, Driver, Rewriting, Exited

LEMMA StampInvariant == Spec => []StampInv
<1>. QED
  BY StampInit, StampStep, TypeInvariant, AccountedInvariant, FreshInvariant,
     GradeInvariant, PTL DEF Spec

\* When the first run returns, the methods with a grade on file are exactly the
\* ones whose text prints one, so the banner's count is the number of grade
\* lines.
THEOREM BannerExact == Spec => []BannerCountsStamps
<1>1. TypeInv /\ StampInv => BannerCountsStamps
  <2>. SUFFICES ASSUME TypeInv, StampInv, phase = "done", runs = 1
                PROVE  {m \in Methods : annotations[m] # "none"}
                         = {m \in Methods : results[m].stamp # "none"}
    BY DEF BannerCountsStamps
  <2>1. \A w \in Workers : pc[w] = "free" BY DEF TypeInv, Placed
  <2>. QED BY <2>1 DEF StampInv, Rendering
<1>. QED BY <1>1, TypeInvariant, StampInvariant, PTL

-----------------------------------------------------------------------------
(* A fold is a namesake.                                                   *)

Namesake(f, l) ==
    f # NoLambda => /\ prog[f.method].lambda = prog[l].lambda
                    /\ prog[l].typed => prog[f.method].arity = prog[l].arity
                    /\ prog[f.method].simple

\* What is on file under a bare name is a registrable lambda of that name, and
\* what was folded, in a worker's hands or in a text, passed the arity gate.
FoldInv ==
    runs = 1 =>
        /\ \A n \in LambdaNames :
              LET found == registry[n]
              IN found # NoLambda => /\ prog[found.method].lambda = n
                                     /\ prog[found.method].arity = found.arity
                                     /\ prog[found.method].simple
        /\ \A w \in Workers : pc[w] = "fold" => \A l \in Methods : Namesake(folds[w][l], l)
        /\ \A m, l \in Methods : Namesake(results[m].folds[l], l)

LEMMA FoldInit == Init => FoldInv
BY DEF Init, FoldInv

\* A step that files nothing, folds nothing and prints a text without folds.
LEMMA FoldKept ==
    ASSUME FoldInv, runs = 1, UNCHANGED <<driverVars, registry, folds>>,
           \A v \in Workers : pc'[v] = "fold" => pc[v] = "fold",
           \A m \in Methods : results'[m].folds \in {results[m].folds, NoFolds}
    PROVE  FoldInv'
<1>1. \A m, l \in Methods : Namesake(results'[m].folds[l], l)
  <2>1. \A l \in Methods : Namesake(NoFolds[l], l) BY DEF NoFolds, Namesake
  <2>. QED BY <2>1 DEF FoldInv
<1>. QED BY <1>1 DEF FoldInv, Namesake, driverVars

LEMMA FoldWorker ==
    ASSUME TypeInv, FoldInv, runs = 1, NEW w \in Workers, WorkerStep(w)
    PROVE  FoldInv'
<1>. USE DEF TypeInv, TypeOK, WorkerTypes, TextTypes
<1>0. \A k : Plain(k).folds = NoFolds BY DEF Plain
<1>1. ASSUME NEW m \in Methods, Claim(w, m) PROVE FoldInv'
  <2>1. \A n \in Methods : results'[n].folds \in {results[n].folds, NoFolds}
    BY <1>0, <1>1 DEF Claim
  <2>. QED BY <1>1, <2>1, FoldKept DEF Claim
<1>2. CASE Lift(w)
  <2>1. \A n \in Methods : results'[n].folds \in {results[n].folds, NoFolds}
    BY <1>0, <1>2 DEF Lift, Finish
  <2>2. \A v \in Workers : pc'[v] = "fold" => pc[v] = "fold"
    BY <1>2 DEF Lift, Finish
  <2>. QED BY <1>2, <2>1, <2>2, FoldKept DEF Lift
<1>3. CASE Optimise(w) BY <1>3, FoldKept DEF Optimise, sharedVars
<1>4. CASE Deadline(w)
  <2>1. \A n \in Methods : results'[n].folds \in {results[n].folds, NoFolds}
    BY <1>0, <1>4 DEF Deadline, Finish
  <2>. QED BY <1>4, <2>1, FoldKept DEF Deadline, Finish
<1>5. CASE Verify(w) BY <1>5, FoldKept DEF Verify
<1>6. CASE Label(w) BY <1>6, FoldKept DEF Label
<1>7. CASE RegisterLambda(w)
  <2>. DEFINE b == prog[at[w]]
  <2>1. at[w] \in Methods BY <1>7 DEF RegisterLambda, Placed
  <2>2. b \in NativeMethod BY <2>1, BodyType DEF DriverTypes
  <2>3. UNCHANGED <<driverVars, results>> BY <1>7 DEF RegisterLambda
  <2>4. ASSUME NEW n \in LambdaNames, registry'[n] # NoLambda
        PROVE  /\ prog[registry'[n].method].lambda = n
               /\ prog[registry'[n].method].arity = registry'[n].arity
               /\ prog[registry'[n].method].simple
    <3>1. CASE registry'[n] = registry[n] BY <2>4, <3>1 DEF FoldInv
    <3>2. CASE registry'[n] # registry[n]
      <4>1. /\ Registrable(b) /\ n = b.lambda
            /\ registry'[n] = [run |-> runs, method |-> at[w], arity |-> b.arity]
        BY <1>7, <3>2 DEF RegisterLambda, SharedTypes
      <4>. QED BY <4>1 DEF Registrable
    <3>. QED BY <3>1, <3>2
  <2>5. \A v \in Workers : pc'[v] = "fold" => \A l \in Methods : Namesake(folds'[v][l], l)
    BY <1>7 DEF RegisterLambda, FoldInv, Namesake, NoFolds
  <2>. QED BY <2>3, <2>4, <2>5 DEF FoldInv, Namesake, driverVars
<1>8. ASSUME NEW l \in Methods, FoldLambda(w, l) PROVE FoldInv'
  <2>. DEFINE name == prog[l].lambda
              found == IF name = NoName THEN NoLambda ELSE registry[name]
  <2>1. /\ UNCHANGED <<driverVars, registry, results, pc>>
        /\ pc[w] = "fold"
        /\ folds' = IF Accepts(found, l)
                    THEN [folds EXCEPT ![w] = [@ EXCEPT ![l] = found]]
                    ELSE folds
    BY <1>8 DEF FoldLambda, sharedVars
  <2>2. prog[l] \in NativeMethod BY BodyType DEF DriverTypes
  <2>3. Accepts(found, l) => Namesake(found, l)
    <3>. SUFFICES ASSUME Accepts(found, l) PROVE Namesake(found, l) OBVIOUS
    <3>1. name \in LambdaNames /\ found = registry[name] BY <2>2 DEF NativeMethod, Accepts
    <3>. QED BY <3>1 DEF FoldInv, Accepts, Namesake
  <2>4. \A v \in Workers, k \in Methods :
           \/ folds'[v][k] = folds[v][k]
           \/ k = l /\ folds'[v][k] = found /\ Accepts(found, l)
    BY <2>1
  <2>5. \A v \in Workers : pc[v] = "fold" => \A k \in Methods : Namesake(folds'[v][k], k)
    BY <2>3, <2>4 DEF FoldInv
  <2>. HIDE DEF found
  <2>6. \A v \in Workers : pc'[v] = "fold" =>
           \A k \in Methods : Namesake(folds[v][k], k)'
    BY <2>1, <2>5 DEF Namesake, driverVars
  <2>7. \A m, k \in Methods : Namesake(results[m].folds[k], k)'
    BY <2>1 DEF FoldInv, Namesake, driverVars
  <2>. QED BY <2>1, <2>6, <2>7 DEF FoldInv, driverVars
<1>9. CASE RecordUsage(w) BY <1>9, FoldKept DEF RecordUsage
<1>10. CASE Emit(w)
  <2>1. /\ at[w] \in Methods /\ pc[w] = "fold"
        /\ results' = [results EXCEPT ![at[w]] = EmittedText(w)]
        /\ UNCHANGED <<driverVars, registry, folds>>
        /\ \A v \in Workers : pc'[v] = "fold" => pc[v] = "fold"
    BY <1>10 DEF Emit, Finish, EmittedText, Placed
  <2>2. \A m, l \in Methods : Namesake(results'[m].folds[l], l)
    BY <2>1 DEF EmittedText, FoldInv
  <2>. QED BY <2>1, <2>2 DEF FoldInv, Namesake, driverVars
<1>. QED
  BY <1>1, <1>2, <1>3, <1>4, <1>5, <1>6, <1>7, <1>8, <1>9, <1>10 DEF WorkerStep

LEMMA FoldStep == TypeInv /\ Fresh /\ FoldInv /\ [Next]_vars => FoldInv'
<1>. SUFFICES ASSUME TypeInv, Fresh, FoldInv, [Next]_vars PROVE FoldInv' OBVIOUS
<1>. USE DEF TypeInv, TypeOK
<1>1. CASE \E w \in Workers : WorkerStep(w)
  <2>1. PICK w \in Workers : WorkerStep(w) BY <1>1
  <2>2. UNCHANGED runs
    BY <2>1
    DEF WorkerStep, Claim, Lift, Optimise, Deadline, Verify, Label, RegisterLambda,
        FoldLambda, RecordUsage, Emit, driverVars
  <2>. QED BY <2>1, <2>2, FoldWorker DEF FoldInv
<1>2. ASSUME NEW p \in Programs, NEW a \in BOOLEAN, StartRun(p, a) PROVE FoldInv'
  <2>1. runs' = 1 => \A n \in LambdaNames : registry'[n] = NoLambda
    BY <1>2 DEF StartRun, Fresh, DriverTypes
  <2>2. \A m, l \in Methods : results'[m].folds[l] = NoLambda
    BY <1>2 DEF StartRun, Plain, NoFolds
  <2>3. \A w \in Workers : pc'[w] # "fold"
    BY <1>2 DEF StartRun, workerVars, Placed, WorkerTypes
  <2>. QED BY <2>1, <2>2, <2>3 DEF FoldInv, Namesake
<1>3. CASE ResolvePtrs BY <1>3 DEF ResolvePtrs, FoldInv, Namesake, workerVars
<1>4. ASSUME NEW m \in Methods, RewriteText(m) PROVE FoldInv'
  <2>1. \A n \in Methods : results'[n].folds = results[n].folds
    BY <1>4 DEF RewriteText, TextTypes, Text
  <2>. QED
    BY <1>4, <2>1
    DEF RewriteText, FoldInv, Namesake, driverVars, workerVars, sharedVars
<1>5. CASE Return BY <1>5 DEF Return, FoldInv, Namesake, workerVars, sharedVars
<1>6. CASE UNCHANGED vars
  BY <1>6 DEF vars, driverVars, workerVars, sharedVars, FoldInv, Namesake
<1>. QED
  BY <1>1, <1>2, <1>3, <1>4, <1>5, <1>6 DEF Next, Driver, Rewriting, Exited

\* In the first run a construction is folded only to a lambda of its own bare
\* name and, where the delegate type states it, arity, whichever worker files
\* or overwrites a body in between.
THEOREM FoldedToNamesakes == Spec => []FoldIsNamesake
<1>1. FoldInv => FoldIsNamesake BY DEF FoldInv, Namesake, FoldIsNamesake
<1>. QED BY <1>1, FoldInit, FoldStep, TypeInvariant, FreshInvariant, PTL DEF Spec

-----------------------------------------------------------------------------
(* The fallback census.                                                    *)

Texts == {m \in Methods : results[m].kind \in {"marker", "body"}}
Busy == {w \in Workers : pc[w] # "free"}
Short == {m \in Texts : results[m].kind = "marker" \/ prog[m].render # "stmts"}
Fallbacks ==
    census["tooLarge"] + census["unreadable"] + census["unsupported"] + census["emptyBody"]
Balanced ==
    /\ census["attempted"] = Cardinality(Texts) + Cardinality(Busy)
    /\ Fallbacks = Cardinality(Short)

CensusInv == /\ runs = 0 => \A c \in Counters : census[c] = 0
             /\ runs = 1 => Balanced

LEMMA Countable ==
    /\ IsFiniteSet(Texts) /\ Cardinality(Texts) \in Nat
    /\ IsFiniteSet(Busy) /\ Cardinality(Busy) \in Nat
    /\ IsFiniteSet(Short) /\ Cardinality(Short) \in Nat
<1>1. IsFiniteSet(Texts) BY MethodsAssumption, FS_Subset DEF Texts
<1>2. IsFiniteSet(Busy) BY WorkersAssumption, FS_Subset DEF Busy
<1>3. IsFiniteSet(Short) BY <1>1, FS_Subset DEF Short
<1>. QED BY <1>1, <1>2, <1>3, FS_CardinalityType

\* A pending method gets its text.
LEMMA TextCounted ==
    ASSUME results \in [Methods -> Text], NEW m \in Methods, NEW text,
           results[m].kind = "pending", text.kind \in {"marker", "body"},
           results' = [results EXCEPT ![m] = text], prog' = prog
    PROVE  /\ Cardinality(Texts') = Cardinality(Texts) + 1
           /\ Cardinality(Short') =
                 IF text.kind = "marker" \/ prog[m].render # "stmts"
                 THEN Cardinality(Short) + 1 ELSE Cardinality(Short)
<1>1. m \notin Texts /\ Texts' = Texts \cup {m} BY DEF Texts
<1>2. m \notin Short BY <1>1 DEF Short
<1>3. Short' = IF text.kind = "marker" \/ prog[m].render # "stmts"
               THEN Short \cup {m} ELSE Short
  BY <1>1 DEF Short, Texts
<1>. QED BY <1>1, <1>2, <1>3, Countable, FS_AddElement

LEMMA WorkerFreed ==
    ASSUME pc \in [Workers -> Stages], NEW w \in Workers, pc[w] # "free",
           pc' = [pc EXCEPT ![w] = "free"]
    PROVE  Cardinality(Busy') = Cardinality(Busy) - 1
<1>1. w \in Busy /\ Busy' = Busy \ {w} BY DEF Busy
<1>. QED BY <1>1, Countable, FS_RemoveElement

\* A step that counts nothing, settles nothing and frees nobody.
LEMMA CensusKept ==
    ASSUME Balanced, UNCHANGED <<prog, census>>,
           \A m \in Methods : results'[m].kind = results[m].kind,
           \A v \in Workers : pc'[v] = "free" <=> pc[v] = "free"
    PROVE  Balanced'
<1>1. Texts' = Texts BY DEF Texts
<1>2. Short' = Short BY <1>1 DEF Short, Texts
<1>3. Busy' = Busy BY DEF Busy
<1>. QED BY <1>1, <1>2, <1>3 DEF Balanced, Fallbacks

\* A worker that settles its method with a marker and counts it.
LEMMA CensusMarked ==
    ASSUME TypeInv, Accounted, Balanced, NEW w \in Workers, pc[w] # "free",
           UNCHANGED driverVars, Finish(w, Plain("marker")),
           census' = [census EXCEPT !["unsupported"] = @ + 1]
    PROVE  Balanced'
<1>. USE DEF TypeInv, TypeOK, WorkerTypes, TextTypes, SharedTypes, Counters
<1>1. at[w] \in Methods /\ results[at[w]].kind = "pending"
  BY MethodsAssumption DEF Placed, Accounted, OneWorkerPerMethod
<1>2. /\ Cardinality(Texts') = Cardinality(Texts) + 1
      /\ Cardinality(Short') = Cardinality(Short) + 1
  <2>1. Plain("marker").kind = "marker" BY DEF Plain
  <2>2. results' = [results EXCEPT ![at[w]] = Plain("marker")] /\ prog' = prog
    BY DEF Finish, driverVars
  <2>. QED BY <1>1, <2>1, <2>2, TextCounted
<1>3. Cardinality(Busy') = Cardinality(Busy) - 1 BY WorkerFreed DEF Finish
<1>4. census'["attempted"] = census["attempted"] /\ Fallbacks' = Fallbacks + 1
  BY DEF Fallbacks
<1>. QED BY <1>2, <1>3, <1>4, Countable DEF Balanced

LEMMA CensusClaim ==
    ASSUME TypeInv, Accounted, Balanced, NEW w \in Workers, NEW m \in Methods, Claim(w, m)
    PROVE  Balanced'
<1>. USE DEF TypeInv, TypeOK, WorkerTypes, TextTypes, SharedTypes, Counters
<1>1. /\ results[m].kind = "pending" /\ pc[w] = "free" /\ prog' = prog
  BY DEF Claim, Accounted, driverVars
<1>2. CASE results' = [results EXCEPT ![m] = Plain("none")] /\ UNCHANGED <<pc, census>>
  <2>1. Texts' = Texts BY <1>1, <1>2 DEF Texts, Plain
  <2>2. Short' = Short BY <1>1, <1>2, <2>1 DEF Short, Texts, Plain
  <2>3. Busy' = Busy BY <1>2 DEF Busy
  <2>. QED BY <1>2, <2>1, <2>2, <2>3 DEF Balanced, Fallbacks
<1>3. ASSUME NEW c \in {"tooLarge", "unreadable"},
             results' = [results EXCEPT ![m] = Plain("marker")],
             census' = Bump(c), pc' = pc
      PROVE  Balanced'
  <2>1. /\ Cardinality(Texts') = Cardinality(Texts) + 1
        /\ Cardinality(Short') = Cardinality(Short) + 1
    <3>1. Plain("marker").kind = "marker" BY DEF Plain
    <3>. QED BY <1>1, <1>3, <3>1, TextCounted
  <2>2. Busy' = Busy BY <1>3 DEF Busy
  <2>3. census'["attempted"] = census["attempted"] + 1 /\ Fallbacks' = Fallbacks + 1
    <3>0. /\ census["attempted"] \in Nat /\ census["tooLarge"] \in Nat
          /\ census["unreadable"] \in Nat /\ census["unsupported"] \in Nat
          /\ census["emptyBody"] \in Nat
      OBVIOUS
    <3>1. /\ census'["attempted"] = census["attempted"] + 1
          /\ census'["unsupported"] = census["unsupported"]
          /\ census'["emptyBody"] = census["emptyBody"]
      BY <1>3 DEF Bump
    <3>2. CASE c = "tooLarge"
      <4>1. census'["tooLarge"] = census["tooLarge"] + 1
            /\ census'["unreadable"] = census["unreadable"]
        BY <1>3, <3>2 DEF Bump
      <4>. QED BY <3>0, <3>1, <4>1 DEF Fallbacks
    <3>3. CASE c = "unreadable"
      <4>1. census'["unreadable"] = census["unreadable"] + 1
            /\ census'["tooLarge"] = census["tooLarge"]
        BY <1>3, <3>3 DEF Bump
      <4>. QED BY <3>0, <3>1, <4>1 DEF Fallbacks
    <3>. QED BY <3>1, <3>2, <3>3
  <2>. QED BY <2>1, <2>2, <2>3, Countable DEF Balanced
<1>4. CASE /\ census' = [census EXCEPT !["attempted"] = @ + 1]
           /\ pc' = [pc EXCEPT ![w] = "lift"] /\ results' = results
  <2>1. w \notin Busy /\ Busy' = Busy \cup {w} BY <1>1, <1>4 DEF Busy
  <2>2. Cardinality(Busy') = Cardinality(Busy) + 1 BY <2>1, Countable, FS_AddElement
  <2>3. Texts' = Texts BY <1>4 DEF Texts
  <2>4. Short' = Short BY <1>1, <1>4, <2>3 DEF Short
  <2>5. census'["attempted"] = census["attempted"] + 1 /\ Fallbacks' = Fallbacks
    BY <1>4 DEF Fallbacks
  <2>. QED BY <2>2, <2>3, <2>4, <2>5, Countable DEF Balanced
<1>. QED BY <1>2, <1>3, <1>4 DEF Claim

LEMMA CensusWorker ==
    ASSUME TypeInv, Accounted, Balanced, NEW w \in Workers, WorkerStep(w)
    PROVE  Balanced'
<1>. USE DEF TypeInv, TypeOK, WorkerTypes
<1>1. ASSUME NEW m \in Methods, Claim(w, m) PROVE Balanced' BY <1>1, CensusClaim
<1>2. CASE Lift(w)
  <2>1. CASE /\ Finish(w, Plain("marker"))
             /\ census' = [census EXCEPT !["unsupported"] = @ + 1]
    BY <1>2, <2>1, CensusMarked DEF Lift
  <2>2. CASE /\ UNCHANGED <<results, census>>
             /\ \E k \in {"label", "passes"} : pc' = [pc EXCEPT ![w] = k]
    BY <1>2, <2>2, CensusKept DEF Lift, driverVars
  <2>. QED BY <1>2, <2>1, <2>2 DEF Lift
<1>3. CASE Optimise(w) BY <1>3, CensusKept DEF Optimise, sharedVars, driverVars
<1>4. CASE Deadline(w) BY <1>4, CensusMarked DEF Deadline, DeadlineStages
<1>5. CASE Verify(w) BY <1>5, CensusKept DEF Verify, driverVars
<1>6. CASE Label(w) BY <1>6, CensusKept DEF Label, driverVars
<1>7. CASE RegisterLambda(w) BY <1>7, CensusKept DEF RegisterLambda, driverVars
<1>8. ASSUME NEW l \in Methods, FoldLambda(w, l) PROVE Balanced'
  BY <1>8, CensusKept DEF FoldLambda, sharedVars, driverVars
<1>9. CASE RecordUsage(w) BY <1>9, CensusKept DEF RecordUsage, driverVars
<1>10. CASE Emit(w)
  <2>. DEFINE m == at[w]
              none == prog[m].render = "stmts"
  <2>1. m \in Methods /\ pc[w] # "free" /\ results[m].kind = "pending"
    BY <1>10, MethodsAssumption DEF Emit, Placed, Accounted, OneWorkerPerMethod
  <2>2. /\ prog' = prog /\ pc' = [pc EXCEPT ![w] = "free"]
        /\ results' = [results EXCEPT ![m] = EmittedText(w)]
    BY <1>10 DEF Emit, Finish, EmittedText, driverVars
  <2>3. /\ EmittedText(w).kind \in {"marker", "body"}
        /\ none => EmittedText(w).kind = "body"
    BY DEF EmittedText
  <2>4. /\ Cardinality(Texts') = Cardinality(Texts) + 1
        /\ Cardinality(Short') = IF none THEN Cardinality(Short) ELSE Cardinality(Short) + 1
    BY <2>1, <2>2, <2>3, TextCounted DEF TextTypes
  <2>5. Cardinality(Busy') = Cardinality(Busy) - 1 BY <2>1, <2>2, WorkerFreed
  <2>6. /\ census'["attempted"] = census["attempted"]
        /\ Fallbacks' = IF none THEN Fallbacks ELSE Fallbacks + 1
    BY <1>10 DEF Emit, Fallbacks, SharedTypes, Counters
  <2>. QED BY <2>4, <2>5, <2>6, Countable DEF Balanced
<1>. QED
  BY <1>1, <1>2, <1>3, <1>4, <1>5, <1>6, <1>7, <1>8, <1>9, <1>10 DEF WorkerStep

LEMMA CensusStep == TypeInv /\ Accounted /\ CensusInv /\ [Next]_vars => CensusInv'
<1>. SUFFICES ASSUME TypeInv, Accounted, CensusInv, [Next]_vars PROVE CensusInv' OBVIOUS
<1>. USE DEF TypeInv, TypeOK
<1>1. CASE \E w \in Workers : WorkerStep(w)
  <2>1. PICK w \in Workers : WorkerStep(w) BY <1>1
  <2>2. UNCHANGED runs
    BY <2>1
    DEF WorkerStep, Claim, Lift, Optimise, Deadline, Verify, Label, RegisterLambda,
        FoldLambda, RecordUsage, Emit, driverVars
  <2>3. runs # 0
    <3>1. phase = "render"
      BY <2>1
      DEF WorkerStep, Claim, Lift, Optimise, Deadline, DeadlineStages, Verify, Label,
          RegisterLambda, FoldLambda, RecordUsage, Emit, Placed
    <3>. QED BY <3>1, FlagsAssumption DEF Placed
  <2>. QED BY <2>1, <2>2, <2>3, CensusWorker DEF CensusInv
<1>2. ASSUME NEW p \in Programs, NEW a \in BOOLEAN, StartRun(p, a) PROVE CensusInv'
  <2>1. runs \in Nat /\ runs' = runs + 1 /\ census' = census
    BY <1>2 DEF StartRun, DriverTypes
  <2>2. CASE runs = 0
    <3>1. Texts' = {} BY <1>2 DEF StartRun, Texts, Plain
    <3>2. Short' = {} BY <3>1 DEF Short
    <3>3. Busy' = {} BY <1>2 DEF StartRun, Busy, Placed, workerVars
    <3>4. census'["attempted"] = 0 /\ Fallbacks' = 0
      BY <2>1, <2>2 DEF CensusInv, Fallbacks, Counters
    <3>. QED BY <2>1, <2>2, <3>1, <3>2, <3>3, <3>4, FS_EmptySet DEF CensusInv, Balanced
  <2>. QED BY <2>1, <2>2 DEF CensusInv
<1>3. CASE ResolvePtrs
  BY <1>3, CensusKept DEF ResolvePtrs, CensusInv, workerVars
<1>4. ASSUME NEW m \in Methods, RewriteText(m) PROVE CensusInv'
  <2>1. \A n \in Methods : results'[n].kind = results[n].kind
    BY <1>4 DEF RewriteText, TextTypes, Text
  <2>. QED
    BY <1>4, <2>1, CensusKept
    DEF RewriteText, CensusInv, driverVars, workerVars, sharedVars
<1>5. CASE Return BY <1>5, CensusKept DEF Return, CensusInv, workerVars, sharedVars
<1>6. CASE UNCHANGED vars
  BY <1>6, CensusKept DEF vars, driverVars, workerVars, sharedVars, CensusInv
<1>. QED
  BY <1>1, <1>2, <1>3, <1>4, <1>5, <1>6 DEF Next, Driver, Rewriting, Exited

\* In the first run the banner's numbers add up at every moment: attempted
\* methods are in a worker's hands or have a text, and every counted fallback
\* is one marker or one body without statements.
THEOREM CensusBalanced == Spec => []CensusAddsUp
<1>1. Init => CensusInv BY DEF Init, CensusInv
<1>2. CensusInv => CensusAddsUp
  BY DEF CensusInv, CensusAddsUp, Balanced, Fallbacks, Texts, Busy, Short
<1>. QED BY <1>1, <1>2, CensusStep, TypeInvariant, AccountedInvariant, PTL DEF Spec
=============================================================================
