--------------------------- MODULE DetGateProofs ---------------------------
(***************************************************************************)
(* The determinism gate sees no difference but in folded lambdas.  The     *)
(* argument is that what a text says, its folds aside, is a function of    *)
(* the binary: Own up to the join, Final after it.  What the workers share *)
(* on the way there, the users of a pointer, is compared with what the     *)
(* binary alone determines (Users).                                        *)
(*                                                                         *)
(* A deadline is a race with the clock, so the theorem is about processes  *)
(* without one (ILR_TIME_LIMIT unset, the default).                        *)
(***************************************************************************)
EXTENDS DetGate, RecoveryPoolSafety

-----------------------------------------------------------------------------
(* What the binary alone determines.                                       *)

\* The method reaches the renderer.
Prints(m) ==
    /\ prog[m].size = "fits" /\ prog[m].readable
    /\ prog[m].lift # "unsupported"

PrintsPtr(m, p) == Prints(m) /\ \E i \in DOMAIN prog[m].ptrs : prog[m].ptrs[i] = p

Users(p) == {prog[m].type : m \in {n \in Methods : PrintsPtr(n, p)}}

Name(p) ==
    LET sole == {t \in Types : Users(p) = {t}}
    IN IF sole = {} THEN NoType ELSE CHOOSE t \in sole : TRUE

\* A text without its folds.
Shown(text) == [text EXCEPT !.folds = NoFolds]

\* What a method's text shows when its worker has settled it.
Own(m) ==
    IF Prints(m)
    THEN [kind  |-> IF prog[m].render = "nothing" THEN "marker" ELSE "body",
          stamp |-> OwnGrade(m), folds |-> NoFolds, line |-> Unnamed(prog[m].ptrs)]
    ELSE Plain(IF prog[m].size = "empty" THEN "none" ELSE "marker")

Named(line) ==
    [i \in DOMAIN line |->
        IF \A j \in 1..i : Name(line[j].ptr) # NoType
        THEN [line[i] EXCEPT !.type = Name(line[i].ptr)]
        ELSE line[i]]

\* What it shows when the pass returns.
Final(m) == [Own(m) EXCEPT !.line = Named(@)]

-----------------------------------------------------------------------------
(* The invariant of one process.                                           *)

\* A worker past the lift is on a method that prints, and has been only on
\* pointers of that method.
OnPrinting(w) ==
    /\ pc[w] = "lift" => prog[at[w]].size = "fits" /\ prog[at[w]].readable
    /\ pc[w] \in Stages \ {"free", "lift"} => Prints(at[w])
    /\ pc[w] = "fold" => \A j \in DOMAIN ptrsLeft[w] :
          \E i \in DOMAIN prog[at[w]].ptrs : prog[at[w]].ptrs[i] = ptrsLeft[w][j]

Rendered ==
    phase = "render" =>
        /\ \A m \in Methods : results[m].kind # "pending" => Shown(results[m]) = Own(m)
        /\ \A w \in Workers : OnPrinting(w)
        /\ \A p \in Ptrs : ptrUsers[p] \subseteq Users(p)

NamesAreTheBinarys ==
    phase \in {"rewrite", "done"} =>
        /\ \A p \in Ptrs : resolved[p] = Name(p)
        /\ \A m \in Methods :
              Shown(results[m]) = IF m \in unrewritten THEN Own(m) ELSE Final(m)
        /\ phase = "done" => unrewritten = {}

ShownInv ==
    runs = 1 => annotate /\ Rendered /\ NamesAreTheBinarys

\* Whatever is a function of the binary stays while the binary stays.
LEMMA SameBinary ==
    ASSUME prog' = prog
    PROVE  /\ \A m : (Prints(m)' <=> Prints(m)) /\ Own(m)' = Own(m) /\ Final(m)' = Final(m)
           /\ \A p : Users(p)' = Users(p) /\ Name(p)' = Name(p)
<1>1. \A m : Prints(m)' <=> Prints(m) BY DEF Prints
<1>2. \A p : Users(p)' = Users(p) BY <1>1 DEF Users, PrintsPtr
<1>3. \A p : Name(p)' = Name(p) BY <1>2 DEF Name
<1>4. \A m : Own(m)' = Own(m) BY <1>1 DEF Own, OwnGrade, IsClean
<1>5. \A m : Final(m)' = Final(m) BY <1>3, <1>4 DEF Final, Named
<1>. QED BY <1>1, <1>2, <1>3, <1>4, <1>5

\* A step of one worker that settles methods as the binary says.
LEMMA ShownKept ==
    ASSUME TypeInv, ShownInv, runs = 1, phase = "render", NEW w \in Workers,
           UNCHANGED driverVars,
           \A p \in Ptrs : ptrUsers'[p] \subseteq Users(p),
           \A m \in Methods : \/ results'[m] = results[m]
                              \/ Shown(results'[m]) = Own(m),
           \A v \in Workers \ {w} :
               at'[v] = at[v] /\ pc'[v] = pc[v] /\ ptrsLeft'[v] = ptrsLeft[v],
           OnPrinting(w)'
    PROVE  ShownInv'
<1>1. prog' = prog /\ phase' = "render" /\ runs' = 1 /\ annotate' = annotate
  BY DEF driverVars
<1>2. annotate /\ Rendered BY DEF ShownInv
<1>3. \A m \in Methods : results'[m].kind # "pending" => Shown(results'[m]) = Own(m)'
  BY <1>1, <1>2, SameBinary DEF Rendered
<1>4. \A v \in Workers : OnPrinting(v)'
  <2>. SUFFICES ASSUME NEW v \in Workers \ {w} PROVE OnPrinting(v)' OBVIOUS
  <2>1. OnPrinting(v) BY <1>2 DEF Rendered
  <2>2. Prints(at[v]) => Prints(at[v])' BY <1>1 DEF Prints
  <2>. QED BY <1>1, <2>1, <2>2 DEF OnPrinting
<1>5. \A p \in Ptrs : ptrUsers'[p] \subseteq Users(p)' BY <1>1, SameBinary
<1>6. Rendered' BY <1>3, <1>4, <1>5 DEF Rendered
<1>. QED BY <1>1, <1>2, <1>6 DEF ShownInv, NamesAreTheBinarys

LEMMA PlainShown ==
    ASSUME NEW k, NEW m, ~Prints(m), k = IF prog[m].size = "empty" THEN "none" ELSE "marker"
    PROVE  Shown(Plain(k)) = Own(m)
BY DEF Shown, Plain, Own, NoFolds

LEMMA EmittedShown ==
    ASSUME NEW w \in Workers, Prints(at[w]), annotations[at[w]] = OwnGrade(at[w])
    PROVE  Shown(EmittedText(w)) = Own(at[w])
BY DEF Shown, EmittedText, Own

LEMMA ShownWorker ==
    ASSUME TypeInv, GradeInv, ShownInv, runs = 1, ~TimeLimit,
           NEW w \in Workers, WorkerStep(w)
    PROVE  ShownInv'
<1>. USE DEF TypeInv, TypeOK, WorkerTypes, TextTypes, Stages
<1>0. /\ phase = "render" /\ annotate /\ Rendered /\ OnPrinting(w) /\ Informed(w)
      /\ \A p \in Ptrs : ptrUsers[p] \subseteq Users(p)
  <2>1. phase = "render"
    BY DEF WorkerStep, Claim, Lift, Optimise, Deadline, DeadlineStages, Verify, Label,
           RegisterLambda, FoldLambda, RecordUsage, Emit, Placed
  <2>. QED BY <2>1 DEF ShownInv, Rendered, GradeInv
<1>1. ASSUME NEW m \in Methods, Claim(w, m) PROVE ShownInv'
  <2>1. UNCHANGED driverVars /\ UNCHANGED <<ptrUsers, ptrsLeft>> BY <1>1 DEF Claim
  <2>2. CASE /\ prog[m].size = "fits" /\ prog[m].readable /\ results' = results
             /\ at' = [at EXCEPT ![w] = m] /\ pc' = [pc EXCEPT ![w] = "lift"]
    <3>1. OnPrinting(w)' BY <2>1, <2>2 DEF OnPrinting, driverVars
    <3>. QED BY <1>0, <2>1, <2>2, <3>1, ShownKept
  <2>3. ASSUME NEW k \in {"none", "marker"}, results' = [results EXCEPT ![m] = Plain(k)],
               UNCHANGED <<at, pc>>, ~Prints(m),
               k = IF prog[m].size = "empty" THEN "none" ELSE "marker"
        PROVE  ShownInv'
    <3>1. Shown(results'[m]) = Own(m) BY <2>3, PlainShown
    <3>2. \A n \in Methods \ {m} : results'[n] = results[n] BY <2>3
    <3>3. pc'[w] = "free" BY <1>1, <2>3 DEF Claim
    <3>4. OnPrinting(w)' BY <3>3 DEF OnPrinting
    <3>. QED BY <1>0, <2>1, <2>3, <3>1, <3>2, <3>4, ShownKept
  <2>4. prog[m].size = "empty" /\ results' = [results EXCEPT ![m] = Plain("none")]
          /\ UNCHANGED <<at, pc>> => ShownInv'
    BY <2>3 DEF Prints
  <2>5. (prog[m].size = "tooLarge" \/ (prog[m].size = "fits" /\ ~prog[m].readable))
          /\ results' = [results EXCEPT ![m] = Plain("marker")]
          /\ UNCHANGED <<at, pc>> => ShownInv'
    BY <2>3 DEF Prints
  <2>. QED BY <1>1, <2>2, <2>4, <2>5 DEF Claim
<1>2. CASE Lift(w)
  <2>1. /\ UNCHANGED driverVars /\ UNCHANGED <<ptrUsers, ptrsLeft>>
        /\ at[w] \in Methods /\ pc[w] = "lift"
        /\ prog[at[w]].size = "fits" /\ prog[at[w]].readable
    BY <1>0, <1>2 DEF Lift, Placed, OnPrinting
  <2>2. CASE prog[at[w]].lift = "unsupported" /\ Finish(w, Plain("marker"))
    <3>1. ~Prints(at[w]) BY <2>2 DEF Prints
    <3>2. results' = [results EXCEPT ![at[w]] = Plain("marker")] /\ pc'[w] = "free"
          /\ \A v \in Workers \ {w} : at'[v] = at[v] /\ pc'[v] = pc[v]
      BY <2>2 DEF Finish
    <3>3. Shown(results'[at[w]]) = Own(at[w]) BY <2>1, <3>1, <3>2, PlainShown
    <3>4. \A n \in Methods \ {at[w]} : results'[n] = results[n] BY <3>2
    <3>5. OnPrinting(w)' BY <3>2 DEF OnPrinting
    <3>. QED BY <1>0, <2>1, <3>2, <3>3, <3>4, <3>5, ShownKept
  <2>3. CASE /\ prog[at[w]].lift # "unsupported" /\ UNCHANGED <<at, results>>
             /\ \E s \in {"label", "passes"} : pc' = [pc EXCEPT ![w] = s]
    <3>1. Prints(at[w]) /\ prog' = prog BY <2>1, <2>3 DEF Prints, driverVars
    <3>2. Prints(at[w])' BY <2>3, <3>1 DEF Prints
    <3>3. OnPrinting(w)' BY <2>3, <3>2 DEF OnPrinting
    <3>. QED BY <1>0, <2>1, <2>3, <3>3, ShownKept
  <2>. QED BY <1>2, <2>2, <2>3 DEF Lift
<1>3. ASSUME pc[w] \notin {"free", "lift"}, pc' = [pc EXCEPT ![w] = pc'[w]],
             UNCHANGED driverVars, UNCHANGED <<at, results>>,
             \A p \in Ptrs : ptrUsers'[p] \subseteq Users(p),
             \A v \in Workers \ {w} : ptrsLeft'[v] = ptrsLeft[v],
             pc'[w] # "lift",
             pc'[w] = "fold" => \A j \in DOMAIN ptrsLeft'[w] :
                \E i \in DOMAIN prog[at[w]].ptrs : prog[at[w]].ptrs[i] = ptrsLeft'[w][j]
      PROVE  ShownInv'
  <2>1. Prints(at[w]) /\ prog' = prog BY <1>0, <1>3 DEF OnPrinting, driverVars
  <2>2. Prints(at[w])' BY <1>3, <2>1 DEF Prints
  <2>3. OnPrinting(w)' BY <1>3, <2>1, <2>2 DEF OnPrinting
  <2>. QED BY <1>0, <1>3, <2>3, ShownKept
<1>4. CASE Optimise(w) \/ Verify(w) \/ Label(w)
  BY <1>0, <1>3, <1>4 DEF Optimise, Verify, Label, sharedVars
<1>5. CASE Deadline(w) BY <1>5 DEF Deadline
<1>6. CASE RegisterLambda(w)
  <2>1. ptrsLeft'[w] = prog[at[w]].ptrs BY <1>6 DEF RegisterLambda
  <2>. QED BY <1>0, <1>3, <1>6, <2>1 DEF RegisterLambda
<1>7. ASSUME NEW l \in Methods, FoldLambda(w, l) PROVE ShownInv'
  <2>1. pc[w] = "fold" /\ UNCHANGED <<driverVars, at, pc, results, ptrUsers, ptrsLeft>>
    BY <1>7 DEF FoldLambda, sharedVars
  <2>. QED BY <1>0, <1>3, <2>1 DEF OnPrinting
<1>8. CASE RecordUsage(w)
  <2> DEFINE p == Head(ptrsLeft[w])
  <2>1. /\ pc[w] = "fold" /\ UNCHANGED <<driverVars, at, pc, results>>
        /\ at[w] \in Methods /\ ptrsLeft[w] # << >> /\ ptrsLeft[w] \in Seq(Ptrs)
        /\ ptrUsers' = [ptrUsers EXCEPT ![p] = ptrUsers[p] \cup {prog[at[w]].type}]
        /\ ptrsLeft' = [ptrsLeft EXCEPT ![w] = Tail(ptrsLeft[w])]
    BY <1>8 DEF RecordUsage, AddUser, Placed
  <2>2. 1 \in DOMAIN ptrsLeft[w] /\ p = ptrsLeft[w][1] /\ p \in Ptrs
    BY <2>1, HeadTailProperties, LenProperties
  <2>3. \A j \in DOMAIN Tail(ptrsLeft[w]) : /\ j + 1 \in DOMAIN ptrsLeft[w]
                                            /\ Tail(ptrsLeft[w])[j] = ptrsLeft[w][j + 1]
    BY <2>1, HeadTailProperties, LenProperties
  <2>4. Prints(at[w]) /\ \E i \in DOMAIN prog[at[w]].ptrs : prog[at[w]].ptrs[i] = p
    BY <1>0, <2>1, <2>2 DEF OnPrinting
  <2>5. prog[at[w]].type \in Users(p) BY <2>1, <2>4 DEF Users, PrintsPtr
  <2>6. \A q \in Ptrs : ptrUsers'[q] \subseteq Users(q)
    BY <1>0, <2>1, <2>2, <2>5 DEF SharedTypes
  <2>7. \A j \in DOMAIN ptrsLeft'[w] :
           \E i \in DOMAIN prog[at[w]].ptrs : prog[at[w]].ptrs[i] = ptrsLeft'[w][j]
    <3>1. ptrsLeft'[w] = Tail(ptrsLeft[w]) BY <2>1
    <3>2. \A j \in DOMAIN ptrsLeft[w] :
             \E i \in DOMAIN prog[at[w]].ptrs : prog[at[w]].ptrs[i] = ptrsLeft[w][j]
      BY <1>0, <2>1 DEF OnPrinting
    <3>. QED BY <2>3, <3>1, <3>2
  <2>. QED BY <1>0, <1>3, <2>1, <2>6, <2>7
<1>9. CASE Emit(w)
  <2>1. /\ at[w] \in Methods /\ pc[w] = "fold" /\ UNCHANGED driverVars
        /\ UNCHANGED <<ptrUsers, ptrsLeft>>
        /\ results' = [results EXCEPT ![at[w]] = EmittedText(w)]
        /\ pc' = [pc EXCEPT ![w] = "free"] /\ at' = [at EXCEPT ![w] = NoMethod]
    BY <1>9 DEF Emit, Finish, EmittedText, Placed
  <2>2. Prints(at[w]) BY <1>0, <2>1 DEF OnPrinting
  <2>3. annotations[at[w]] = OwnGrade(at[w]) BY <1>0, <2>1 DEF Informed, Rendering, Due
  <2>4. \A m \in Methods : results'[m] = results[m] \/ Shown(results'[m]) = Own(m)
    BY <2>1, <2>2, <2>3, EmittedShown
  <2>5. pc'[w] = "free" BY <2>1
  <2>6. OnPrinting(w)' BY <2>5 DEF OnPrinting
  <2>. QED BY <1>0, <2>1, <2>4, <2>6, ShownKept
<1>. QED
  BY <1>1, <1>2, <1>4, <1>5, <1>6, <1>7, <1>8, <1>9 DEF WorkerStep

-----------------------------------------------------------------------------
(* The join.                                                               *)

LEMMA ShownText ==
    ASSUME TypeInv, NEW m \in Methods
    PROVE  /\ Shown(results[m]).kind = results[m].kind
           /\ Shown(results[m]).stamp = results[m].stamp
           /\ Shown(results[m]).folds = NoFolds
           /\ Shown(results[m]).line = results[m].line
           /\ results[m].line \in Line
BY DEF Shown, TypeInv, TypeOK, TextTypes, Text

\* Nothing is named in a line when nothing has a name.
LEMMA NothingNamed ==
    ASSUME NEW line \in Line, \A p \in Ptrs : Name(p) = NoType
    PROVE  Named(line) = line
<1>1. line \in [1..Len(line) -> Token] /\ Len(line) \in Nat
  BY LenProperties DEF Line
<1>2. ASSUME NEW i \in 1..Len(line) PROVE Named(line)[i] = line[i]
  <2>1. 1 \in 1..i /\ 1 \in DOMAIN line BY <1>1
  <2>2. Name(line[1].ptr) = NoType BY <2>1, LineTokens
  <2>. QED BY <1>1, <2>1, <2>2 DEF Named
<1>3. DOMAIN Named(line) = 1..Len(line) BY <1>1 DEF Named
<1>4. Named(line) = [i \in 1..Len(line) |-> Named(line)[i]] BY <1>3 DEF Named
<1>5. line = [i \in 1..Len(line) |-> line[i]] BY <1>1
<1>. QED BY <1>2, <1>4, <1>5

\* The replacement names what the binary says.
LEMMA ReplaceNames ==
    ASSUME NEW line \in Line, \A p \in Ptrs : resolved[p] = Name(p)
    PROVE  Replace(line) = Named(line)
<1>1. \A i \in DOMAIN line : resolved[line[i].ptr] = Name(line[i].ptr)
  BY LineTokens
<1>2. DOMAIN line = 1..Len(line) /\ Len(line) \in Nat BY LenProperties DEF Line
<1>3. \A i \in DOMAIN line : \A j \in 1..i : j \in DOMAIN line BY <1>2
<1>4. \A i \in DOMAIN line :
         (\A j \in 1..i : resolved[line[j].ptr] # NoType)
            <=> (\A j \in 1..i : Name(line[j].ptr) # NoType)
  BY <1>1, <1>3
<1>. QED BY <1>1, <1>4 DEF Replace, Named

LEMMA OwnLine ==
    ASSUME TypeInv, NEW m \in Methods
    PROVE  /\ Own(m).line \in Line
           /\ Prints(m) => Own(m).line = Unnamed(prog[m].ptrs)
<1>1. prog[m].ptrs \in Seq(Ptrs)
  BY BodyType DEF TypeInv, TypeOK, DriverTypes, NativeMethod
<1>. QED BY <1>1, UnnamedType DEF Own, Plain, Line

\* The final text of a method with a text of its own.
LEMMA FinalParts ==
    ASSUME TypeInv, NEW m \in Methods
    PROVE  Final(m) = [kind |-> Own(m).kind, stamp |-> Own(m).stamp,
                       folds |-> NoFolds, line |-> Named(Own(m).line)]
BY DEF Final, Own, Plain

LEMMA ShownJoin ==
    ASSUME TypeInv, Accounted, PtrInv, ShownInv, runs = 1, ResolvePtrs
    PROVE  ShownInv'
<1>. USE DEF TypeInv, TypeOK
<1>1. /\ phase = "render" /\ annotate /\ Rendered /\ Recorded
      /\ prog' = prog /\ results' = results /\ runs' = 1 /\ annotate' = annotate
  BY DEF ResolvePtrs, Joined, ShownInv, PtrInv
<1>2. \A m \in Methods : results[m].kind # "pending"
  BY MethodsAssumption DEF ResolvePtrs, Joined, Accounted, Placed
<1>3. \A m \in Methods : Shown(results[m]) = Own(m) BY <1>1, <1>2 DEF Rendered
<1>4. ASSUME NEW p \in Ptrs PROVE ptrUsers[p] = Users(p)
  <2>1. ASSUME NEW m \in Methods, PrintsPtr(m, p) PROVE prog[m].type \in ptrUsers[p]
    <3>1. PICK i \in DOMAIN prog[m].ptrs : prog[m].ptrs[i] = p BY <2>1 DEF PrintsPtr
    <3>2. results[m].line = Unnamed(prog[m].ptrs)
      BY <1>3, <2>1, OwnLine, ShownText DEF PrintsPtr
    <3>3. i \in DOMAIN results[m].line /\ results[m].line[i].ptr = p
      BY <3>1, <3>2 DEF Unnamed
    <3>. QED BY <1>1, <3>3 DEF Recorded
  <2>2. Users(p) \subseteq ptrUsers[p] BY <2>1 DEF Users
  <2>. QED BY <1>1, <2>2 DEF Rendered
<1>5. \A p \in Ptrs : resolved'[p] = Name(p)
  BY <1>4 DEF ResolvePtrs, Name, SoleUser
<1>6. \A p \in Ptrs : resolved'[p] = Name(p)' BY <1>1, <1>5, SameBinary
<1>7. CASE phase' = "rewrite" /\ unrewritten' = Methods
  <2>1. \A m \in Methods : Shown(results'[m]) = Own(m)' BY <1>1, <1>3, SameBinary
  <2>2. Rendered' BY <1>7 DEF Rendered
  <2>. QED BY <1>1, <1>6, <1>7, <2>1, <2>2 DEF ShownInv, NamesAreTheBinarys
<1>8. CASE /\ phase' = "done" /\ unrewritten' = {}
           /\ \A p \in Ptrs : resolved'[p] = NoType
  <2>1. \A p \in Ptrs : Name(p) = NoType BY <1>5, <1>8
  <2>2. ASSUME NEW m \in Methods PROVE Shown(results[m]) = Final(m)
    <3>1. Named(Own(m).line) = Own(m).line BY <2>1, NothingNamed, OwnLine
    <3>2. Final(m) = Own(m) BY <3>1 DEF Final, Own, Plain
    <3>. QED BY <1>3, <3>2
  <2>3. \A m \in Methods : Shown(results'[m]) = Final(m)' BY <1>1, <2>2, SameBinary
  <2>4. Rendered' BY <1>8 DEF Rendered
  <2>. QED BY <1>1, <1>6, <1>8, <2>3, <2>4 DEF ShownInv, NamesAreTheBinarys
<1>. QED BY <1>7, <1>8 DEF ResolvePtrs

LEMMA ShownRewrite ==
    ASSUME TypeInv, ShownInv, runs = 1, NEW m \in Methods, RewriteText(m)
    PROVE  ShownInv'
<1>1. /\ phase = "rewrite" /\ UNCHANGED <<driverVars, resolved>>
      /\ m \in unrewritten /\ unrewritten' = unrewritten \ {m}
      /\ results' = [results EXCEPT ![m].line = Replace(@)]
  BY DEF RewriteText
<1>2. prog' = prog /\ runs' = runs /\ phase' = phase /\ annotate' = annotate
  BY <1>1 DEF driverVars
<1>3. /\ annotate /\ \A p \in Ptrs : resolved[p] = Name(p)
      /\ \A n \in Methods :
            Shown(results[n]) = IF n \in unrewritten THEN Own(n) ELSE Final(n)
  BY <1>1 DEF ShownInv, NamesAreTheBinarys
<1>4. \A n \in Methods \ {m} : results'[n] = results[n]
  BY <1>1 DEF TypeInv, TypeOK, TextTypes
<1>5. Shown(results'[m]) = Final(m)
  <2>1. Shown(results[m]) = Own(m) BY <1>1, <1>3
  <2>2. /\ results[m].kind = Own(m).kind /\ results[m].stamp = Own(m).stamp
        /\ results[m].line = Own(m).line
    BY <2>1, ShownText
  <2>3. Replace(results[m].line) = Named(Own(m).line)
    BY <1>3, <2>2, OwnLine, ReplaceNames
  <2>4. results'[m] = [results[m] EXCEPT !.line = Named(Own(m).line)]
    BY <1>1, <2>3 DEF TypeInv, TypeOK, TextTypes
  <2>5. Shown(results'[m]) = [kind |-> results[m].kind, stamp |-> results[m].stamp,
                              folds |-> NoFolds, line |-> Named(Own(m).line)]
    <3>1. results[m] \in Text BY DEF TypeInv, TypeOK, TextTypes
    <3>2. results'[m] = [kind |-> results[m].kind, stamp |-> results[m].stamp,
                         folds |-> results[m].folds, line |-> Named(Own(m).line)]
      BY <2>4, <3>1 DEF Text
    <3>. QED BY <3>2 DEF Shown
  <2>. QED BY <2>2, <2>5, FinalParts
<1>6. \A n \in Methods :
         Shown(results'[n]) = IF n \in unrewritten' THEN Own(n)' ELSE Final(n)'
  BY <1>1, <1>2, <1>3, <1>4, <1>5, SameBinary
<1>7. \A p \in Ptrs : resolved'[p] = Name(p)' BY <1>1, <1>2, <1>3, SameBinary
<1>. QED BY <1>1, <1>2, <1>3, <1>6, <1>7 DEF ShownInv, NamesAreTheBinarys, Rendered

LEMMA ShownStart ==
    ASSUME TypeInv, Fresh, NEW p \in Programs, NEW a \in BOOLEAN, StartRun(p, a),
           annotate' = (runs' > 0)
    PROVE  ShownInv'
<1>. SUFFICES ASSUME runs' = 1 PROVE ShownInv' BY DEF ShownInv
<1>0. runs' > 0 OBVIOUS
<1>1. phase' = "render" /\ annotate' BY <1>0, Zenon DEF StartRun
<1>2. \A m \in Methods : results'[m].kind = "pending" BY DEF StartRun, Plain
<1>3. \A w \in Workers : pc'[w] = "free"
  BY DEF StartRun, TypeInv, TypeOK, WorkerTypes, Placed, workerVars
<1>4. \A w \in Workers : OnPrinting(w)' BY <1>3 DEF OnPrinting
<1>5. \A q \in Ptrs : ptrUsers'[q] \subseteq Users(q)' BY DEF StartRun
<1>6. Rendered' BY <1>2, <1>4, <1>5 DEF Rendered
<1>. QED BY <1>1, <1>6 DEF ShownInv, NamesAreTheBinarys

LEMMA ShownSame ==
    ASSUME ShownInv,
           UNCHANGED <<phase, runs, prog, annotate, results, resolved, unrewritten,
                       at, pc, ptrsLeft, ptrUsers>>
    PROVE  ShownInv'
<1>. SUFFICES ASSUME runs = 1 PROVE ShownInv' BY DEF ShownInv
<1>1. annotate /\ Rendered /\ NamesAreTheBinarys BY DEF ShownInv
<1>2. annotate' BY <1>1, Zenon
<1>3. NamesAreTheBinarys' BY <1>1, SameBinary DEF NamesAreTheBinarys
<1>4. \A w \in Workers : OnPrinting(w) => OnPrinting(w)' BY SameBinary DEF OnPrinting
<1>5. Rendered' BY <1>1, <1>4, SameBinary DEF Rendered
<1>. QED BY <1>2, <1>3, <1>5 DEF ShownInv

LEMMA ShownStep ==
    ASSUME TypeInv, Accounted, Fresh, GradeInv, PtrInv, ShownInv, ~TimeLimit,
           [Next]_vars, annotate' = (runs' > 0)
    PROVE  ShownInv'
<1>1. ASSUME NEW p \in Programs, NEW a \in BOOLEAN, StartRun(p, a) PROVE ShownInv'
  BY <1>1, ShownStart
<1>2. CASE runs # 1 /\ ~\E p \in Programs, a \in BOOLEAN : StartRun(p, a)
  <2>1. runs' = runs
    BY <1>2
    DEF Next, WorkerStep, Claim, Lift, Optimise, Deadline, Verify, Label, RegisterLambda,
        FoldLambda, RecordUsage, Emit, Driver, ResolvePtrs, Return, Rewriting, RewriteText,
        Exited, vars, driverVars
  <2>. QED BY <1>2, <2>1 DEF ShownInv
<1>3. CASE runs = 1
  <2>1. CASE \E w \in Workers : WorkerStep(w) BY <1>3, <2>1, ShownWorker
  <2>2. CASE ResolvePtrs BY <1>3, <2>2, ShownJoin
  <2>3. ASSUME NEW m \in Methods, RewriteText(m) PROVE ShownInv'
    BY <1>3, <2>3, ShownRewrite
  <2>4. CASE Return
    <3>1. UNCHANGED <<prog, runs, annotate, results, resolved, unrewritten>>
          /\ phase = "rewrite" /\ phase' = "done" /\ unrewritten = {}
      BY <2>4 DEF Return, AllRewritten, joinVars
    <3>2. NamesAreTheBinarys' BY <1>3, <3>1, SameBinary DEF ShownInv, NamesAreTheBinarys
    <3>3. Rendered' BY <3>1 DEF Rendered
    <3>4. annotate BY <1>3 DEF ShownInv
    <3>5. annotate' BY <3>1, <3>4, Zenon
    <3>. QED BY <3>2, <3>3, <3>5 DEF ShownInv
  <2>5. CASE UNCHANGED vars
    BY <2>5, ShownSame DEF vars, driverVars, workerVars, sharedVars, joinVars
  <2>. QED
    BY <1>1, <2>1, <2>2, <2>3, <2>4, <2>5 DEF Next, Driver, Rewriting, Exited
<1>. QED
  BY <1>1, <1>2, <1>3

-----------------------------------------------------------------------------
(* Two processes.                                                          *)

\* The first process has left what the binary says.
Left == manifest # << >> => \A m \in Methods : Shown(manifest[m]) = Final(m)

GateInv ==
    /\ TypeInv /\ Accounted /\ Fresh /\ GradeInv /\ PtrInv /\ ShownInv
    /\ runs \in {0, 1} /\ Left

LEMMA GateStart == GateInit => GateInv
<1>. SUFFICES ASSUME GateInit PROVE GateInv OBVIOUS
<1>1. Init /\ manifest = << >> /\ runs = 0 BY DEF GateInit, Init
<1>2. ShownInv BY <1>1 DEF ShownInv
<1>. QED
  BY <1>1, <1>2, InitType, AccountedInit, FreshInit, GradeInit, PtrInit
  DEF GateInv, Left

\* The second process starts with a memory of its own.
LEMMA SecondStarts ==
    ASSUME GateInv, SecondProcess
    PROVE  GateInv'
<1>. USE DEF GateInv, TypeInv, TypeOK
<1>1. /\ phase = "done" /\ phase' = "idle" /\ runs' = 0 /\ prog' = prog
      /\ manifest' = results /\ UNCHANGED <<todo, at, pc>>
      /\ results' = [m \in Methods |-> Plain("pending")]
  BY DEF SecondProcess
<1>2. \A w \in Workers : pc[w] = "free" /\ at[w] = NoMethod
  BY <1>1 DEF Placed, WorkerTypes
<1>3. TypeInv'
  <2>1. NoFolds \in [Methods -> Lambdas] /\ NoLambda \in Lambdas
    BY DEF NoFolds, Lambdas
  <2>2. Plain("pending") \in Text BY PlainType
  <2>3. DriverTypes'
    <3>1. annotate' \in BOOLEAN /\ envAnnotate' \in BOOLEAN BY Zenon DEF SecondProcess
    <3>2. runs' \in 0..MaxRuns BY <1>1, FlagsAssumption
    <3>. QED BY <1>1, <3>1, <3>2 DEF DriverTypes
  <2>4. WorkerTypes'
    BY <2>1 DEF SecondProcess, WorkerTypes
  <2>5. SharedTypes' BY <2>1 DEF SecondProcess, SharedTypes, Grades, Counters
  <2>6. TextTypes' BY <2>2 DEF SecondProcess, TextTypes
  <2>7. Placed' BY <1>1, <1>2 DEF Placed
  <2>. QED BY <2>3, <2>4, <2>5, <2>6, <2>7
<1>4. Accounted'
  <2>1. \A w \in Workers : at'[w] = NoMethod BY <1>1, <1>2
  <2>2. \A m \in todo' : results'[m].kind = "pending" BY <1>1 DEF Plain, TextTypes
  <2>. QED BY <1>1, <2>1, <2>2 DEF Accounted, OneWorkerPerMethod, AllSettled
<1>5. Fresh' BY <1>1 DEF SecondProcess, Fresh
<1>6. GradeInv' /\ ShownInv' BY <1>1 DEF GradeInv, ShownInv
<1>7. PtrInv' BY <1>1 DEF PtrInv, Recorded, Agreed, Plain
<1>8. Left'
  <2>1. runs = 1 BY <1>1 DEF Placed
  <2>2. \A m \in Methods : Shown(results[m]) = Final(m)
    BY <1>1, <2>1 DEF ShownInv, NamesAreTheBinarys
  <2>. QED BY <1>1, <2>2, SameBinary DEF Left
<1>. QED BY <1>1, <1>3, <1>4, <1>5, <1>6, <1>7, <1>8

LEMMA GateStep == ASSUME ~TimeLimit PROVE GateInv /\ [GateNext]_gateVars => GateInv'
<1>. SUFFICES ASSUME GateInv, [GateNext]_gateVars PROVE GateInv' OBVIOUS
<1>1. CASE SecondProcess BY <1>1, SecondStarts
<1>2. CASE /\ [Next]_vars /\ runs' \in {0, 1} /\ prog' = prog /\ manifest' = manifest
           /\ ShownInv'
  <2>1. Left' BY <1>2, SameBinary DEF GateInv, Left
  <2>. QED
    BY <1>2, <2>1, TypeStep, AccountedStep, FreshStep, GradeStep, PtrStep DEF GateInv
<1>3. CASE ProcessStep
  <2>1. runs' \in 0..MaxRuns /\ runs' <= 1
    BY <1>3, TypeStep DEF ProcessStep, GateInv, TypeInv, TypeOK, DriverTypes
  <2>2. runs' \in {0, 1} BY <2>1, FlagsAssumption
  <2>3. ShownInv' BY <1>3, ShownStep DEF ProcessStep, GateInv
  <2>. QED BY <1>2, <1>3, <2>2, <2>3 DEF ProcessStep
<1>4. CASE UNCHANGED gateVars
  <2>1. UNCHANGED vars /\ manifest' = manifest BY <1>4 DEF gateVars
  <2>2. runs' = runs /\ prog' = prog BY <2>1 DEF vars, driverVars
  <2>3. ShownInv'
    BY <2>1, ShownSame DEF GateInv, vars, driverVars, workerVars, sharedVars, joinVars
  <2>. QED BY <1>2, <2>1, <2>2, <2>3 DEF GateInv
<1>. QED BY <1>1, <1>3, <1>4 DEF GateNext

\* Two runs of the pass over one binary, in processes of their own and without
\* a deadline, give every method the same kind of text, the same grade and the
\* same pointer names, however each pool schedules its workers.
THEOREM OnlyFoldsDiffer ==
    ASSUME ~TimeLimit
    PROVE  GateSpec => []SameButForFolds
<1>1. GateInv => SameButForFolds
  <2>. SUFFICES ASSUME GateInv, phase = "done", manifest # << >>, NEW m \in Methods
                PROVE  [results[m] EXCEPT !.folds = NoFolds]
                          = [manifest[m] EXCEPT !.folds = NoFolds]
    BY DEF SameButForFolds, Compared
  <2>1. runs = 1 BY DEF GateInv, TypeInv, Placed
  <2>2. Shown(results[m]) = Final(m)
    BY <2>1 DEF GateInv, ShownInv, NamesAreTheBinarys
  <2>3. Shown(manifest[m]) = Final(m) BY DEF GateInv, Left
  <2>. QED BY <2>2, <2>3 DEF Shown
<1>. QED BY <1>1, GateStart, GateStep, PTL DEF GateSpec
=============================================================================
