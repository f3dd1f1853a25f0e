--------------------------- MODULE DeadCodeProofs ---------------------------
(***************************************************************************)
(* Removing dead definitions keeps every read, for every listing, number   *)
(* of blocks and number of rounds: theorem ReadsAlwaysKept.                *)
(*                                                                         *)
(* `bound` holds, in front of every instruction, locals on which the two   *)
(* listings still agree: it covers what is read, is closed backwards over  *)
(* what is left (Cover, Joined), and nothing was removed whose result it   *)
(* holds behind the place (Thinned).  Liveness stays within it, because a  *)
(* walk adds no more than the closure has (Within); when the fixpoint is   *)
(* reached, the traced sets are such a closure themselves for the listing  *)
(* without what is dead by them (Traced, Ends, Starts, Settled), and they  *)
(* become the next `bound`.                                                *)
(*                                                                         *)
(* The fixpoint is reached after a number of sweeps that the listing       *)
(* bounds (EnoughSweepsAlways), and no set of definitions that feeds only  *)
(* itself survives the last walk (NothingDeadIsEverLeft).                  *)
(***************************************************************************)
EXTENDS DeadCode, FlowProofs

Cover ==
    \A b \in Blocks : \A i \in 1 .. Size(b) :
        /\ list[b][i].reads \subseteq bound[b][i]
        /\ bound[b][i + 1] \ {list[b][i].dst} \subseteq bound[b][i]

Joined ==
    \A b \in Blocks : \A s \in Targets(prog.succ, b) : bound[s][1] \subseteq bound[b][Size(b) + 1]

Thinned ==
    \A b \in Blocks : \A i \in 1 .. Size(b) :
        \/ list[b][i] = prog.code[b][i]
        \/ list[b][i] = Nop /\ prog.code[b][i].dst \notin bound[b][i + 1]

Counted ==
    pc = "count" => /\ bound = Everywhere(ReadIn(list)) /\ trace = Everywhere({})
                    /\ livein = Nothing /\ liveout = Nothing /\ changed

Within ==
    /\ \A b \in Blocks : livein[b] \subseteq bound[b][1] /\ liveout[b] \subseteq bound[b][Size(b) + 1]
    /\ \A b \in Blocks : \A i \in 1 .. Size(b) + 1 : trace[b][i] \subseteq bound[b][i]

Converged == pc \in {"collect", "strip"} \/ (pc = "sweep" /\ ~changed)

(* What the walk under way, or the last one, has traced. *)
Passed(b, i) == b > blk \/ (b = blk /\ i > pos)

Traced ==
    \A b \in Blocks : \A i \in 1 .. Size(b) :
        Converged \/ (pc = "walk" /\ Passed(b, i)) =>
            trace[b][i] = LiveBefore(list[b][i], trace[b][i + 1])

Ends == Converged \/ pc = "walk" => \A b \in Blocks : trace[b][Size(b) + 1] = liveout[b]

Starts ==
    \A b \in Blocks : Converged \/ (pc = "walk" /\ b > blk) => trace[b][1] = livein[b]

Walking == pc \in {"walk", "collect"} => live = trace[blk][pos + 1]

Settled == Converged \/ (pc = "walk" /\ ~changed) => \A b \in Blocks : Behind(b) = liveout[b]

Picked ==
    \A b \in Blocks : \A i \in 1 .. Size(b) :
        pc \in {"collect", "strip"} =>
            (<<b, i>> \in dead <=>
                (pc = "strip" \/ Passed(b, i)) /\ IsDead(list[b][i], trace[b][i + 1]))

Agreed ==
    IF at = NoBlock THEN holds = carries
    ELSE /\ pc = "done"
         /\ \A v \in bound[at][next] : v \in holds <=> v \in carries

Sound == ~capped /\ SelfFree

Closure == Cover /\ Joined /\ Thinned
Analysis == Within /\ Traced /\ Ends /\ Starts /\ Walking /\ Settled /\ Picked

IInv == TypeOK /\ (Sound => Closure /\ Counted /\ Analysis /\ Agreed)

-----------------------------------------------------------------------------
LEMMA Shapes ==
    ASSUME TypeOK
    PROVE  /\ N \in Nat \ {0}
           /\ \A b \in Blocks : Size(b) \in Nat /\ prog.code[b] \in [1 .. Size(b) -> Insns]
           /\ \A b \in Blocks : Targets(prog.succ, b) \subseteq Blocks
<1>1. prog.code \in [Blocks -> Seq(Insns)] /\ prog.succ \in [Blocks -> Seq(Blocks)]
  BY DEF TypeOK, Programs
<1>2. ASSUME NEW b \in Blocks PROVE Size(b) \in Nat /\ prog.code[b] \in [1 .. Size(b) -> Insns]
  <2>1. prog.code[b] \in Seq(Insns)
    BY <1>1
  <2> QED BY <2>1 DEF Size
<1>3. ASSUME NEW b \in Blocks PROVE Targets(prog.succ, b) \subseteq Blocks
  <2>1. prog.succ[b] \in Seq(Blocks)
    BY <1>1
  <2> QED BY <2>1 DEF Targets
<1> QED BY <1>2, <1>3, NAssumption

LEMMA NopIsInsn == Nop \in Insns /\ Nop.dst = NoLocal /\ Nop.reads = {} /\ Nop.op \notin Removable
  BY DEF Nop, Insns, Ops, Removable

LEMMA LiveBeforeType ==
    ASSUME NEW insn \in Insns, NEW after \in SUBSET Locals
    PROVE  LiveBefore(insn, after) \in SUBSET Locals
<1>1. insn.reads \in SUBSET Locals
  BY DEF Insns
<1> QED BY <1>1 DEF LiveBefore

LEMMA WithoutType ==
    ASSUME TypeOK, NEW S
    PROVE  /\ DOMAIN Without(S) = Blocks
           /\ \A b \in Blocks : Without(S)[b] \in [1 .. Size(b) -> Insns]
  BY NopIsInsn DEF Without, TypeOK

LEMMA EverywhereType ==
    ASSUME NEW S \in SUBSET Locals
    PROVE  /\ DOMAIN Everywhere(S) = Blocks
           /\ \A b \in Blocks : Everywhere(S)[b] \in [1 .. Size(b) + 1 -> SUBSET Locals]
  BY DEF Everywhere

LEMMA ReadInType == \A code : ReadIn(code) \in SUBSET Locals
  BY DEF ReadIn

LEMMA InitInv == Init => IInv
<1> SUFFICES ASSUME Init PROVE IInv
  OBVIOUS
<1>1. prog \in Programs
  BY ListingsAssumption DEF Init
<1>2. \A b \in Blocks : Size(b) \in Nat /\ prog.code[b] \in [1 .. Size(b) -> Insns]
  <2> TAKE b \in Blocks
  <2>1. prog.code[b] \in Seq(Insns)
    BY <1>1 DEF Programs
  <2> QED BY <2>1 DEF Size
<1>3. 0 \in Blocks /\ N \in Nat \ {0}
  BY NAssumption DEF Blocks
<1>4. TypeOK
  <2>1. /\ DOMAIN list = Blocks /\ \A b \in Blocks : list[b] \in [1 .. Size(b) -> Insns]
    BY <1>1, <1>2 DEF Init, Programs
  <2>2. /\ DOMAIN trace = Blocks /\ DOMAIN bound = Blocks
        /\ \A b \in Blocks : {trace[b], bound[b]} \subseteq [1 .. Size(b) + 1 -> SUBSET Locals]
    BY EverywhereType, ReadInType DEF Init
  <2>3. livein \in LiveSets /\ liveout \in LiveSets
    BY DEF Init, Nothing, LiveSets
  <2>4. blk \in Blocks /\ pos \in 0 .. Size(blk)
    BY <1>2, <1>3 DEF Init
  <2>5. rounds \in 0 .. MaxRounds /\ sweeps \in 0 .. MaxSweeps
    BY BoundsAssumption DEF Init
  <2> QED BY <1>1, <2>1, <2>2, <2>3, <2>4, <2>5 DEF TypeOK, Init
<1>5. \A b \in Blocks : \A i \in 1 .. Size(b) + 1 : bound[b][i] = ReadIn(list)
  BY DEF Init, Everywhere
<1>6. \A b \in Blocks : \A i \in 1 .. Size(b) : i \in 1 .. Size(b) + 1 /\ i + 1 \in 1 .. Size(b) + 1
  BY <1>2
<1>7. Cover
  <2> SUFFICES ASSUME NEW b \in Blocks, NEW i \in 1 .. Size(b)
               PROVE  list[b][i].reads \subseteq ReadIn(list)
    BY <1>5, <1>6 DEF Cover
  <2>1. list[b][i].reads \in SUBSET Locals
    BY <1>4 DEF TypeOK, Insns
  <2>2. <<b, i>> \in Places
    BY DEF Places
  <2> QED BY <2>1, <2>2 DEF ReadIn
<1>8. Joined
  <2>1. \A b \in Blocks : 1 \in 1 .. Size(b) + 1 /\ Size(b) + 1 \in 1 .. Size(b) + 1
    BY <1>2
  <2> QED BY <1>5, <2>1, <1>4, Shapes DEF Joined
<1>9. Thinned /\ Counted
  BY DEF Thinned, Counted, Init
<1>10. Within
  BY <1>3, <1>2 DEF Within, Init, Nothing, Everywhere
<1>11. Traced /\ Ends /\ Starts /\ Walking /\ Settled /\ Picked /\ Agreed
  BY DEF Traced, Ends, Starts, Walking, Settled, Picked, Agreed, Converged, Init
<1> QED BY <1>4, <1>7, <1>8, <1>9, <1>10, <1>11 DEF IInv, Closure, Analysis


-----------------------------------------------------------------------------
(* Typing is kept by every step. *)
LEMMA TypeStep ==
    ASSUME TypeOK, [Next]_vars
    PROVE  TypeOK'
<1> USE Shapes
<1>1. \A b \in Blocks : LiveSets # {} /\ Behind(b) \in SUBSET Locals
  BY DEF TypeOK, LiveSets, Behind
<1>2. CASE CountRound
  <2>1. DOMAIN list' = Blocks /\ \A b \in Blocks : list'[b] \in [1 .. Size(b) -> Insns]
    BY <1>2, WithoutType DEF CountRound
  <2>2. DOMAIN bound' = Blocks /\ \A b \in Blocks : bound'[b] \in [1 .. Size(b) + 1 -> SUBSET Locals]
    BY <1>2, EverywhereType, ReadInType DEF CountRound
  <2>3. rounds' \in 0 .. MaxRounds
    BY <1>2, BoundsAssumption DEF CountRound, RoundsLeft, TypeOK
  <2>4. prog' = prog
    BY <1>2 DEF CountRound
  <2>5. \A b : Size(b)' = Size(b)
    BY <2>4 DEF Size
  <2>6. Places' = Places
    BY <2>4, <2>5 DEF Places
  <2> QED BY <1>2, <2>1, <2>2, <2>3, <2>4, <2>5, <2>6 DEF CountRound, TypeOK, fixpoint, walk, run
<1>3. CASE CountDone
  BY <1>3 DEF CountDone, TypeOK, fixpoint, walk, run, Size, Places
<1>4. CASE Sweep
  <2>1. /\ liveout' \in LiveSets /\ changed' \in BOOLEAN
        /\ sweeps' \in 0 .. MaxSweeps
    BY <1>1, <1>4, BoundsAssumption DEF Sweep, TypeOK, LiveSets
  <2>2. N - 1 \in Blocks
    BY DEF Blocks
  <2>3. blk' \in Blocks /\ pos' \in 0 .. Size(blk') /\ live' \subseteq Locals
    BY <1>1, <1>4, <2>2 DEF Sweep, WalkFrom
  <2>4. DOMAIN trace' = Blocks /\ \A b \in Blocks : trace'[b] \in [1 .. Size(b) + 1 -> SUBSET Locals]
    <3>1. \A b \in Blocks : trace[b] \in [1 .. Size(b) + 1 -> SUBSET Locals] /\ liveout'[b] \in SUBSET Locals
      BY <2>1 DEF TypeOK, LiveSets
    <3> QED BY <1>4, <3>1 DEF Sweep
  <2>5. prog' = prog /\ \A b : Size(b)' = Size(b)
    BY <1>4 DEF Sweep, Size
  <2>6. Places' = Places
    BY <2>5 DEF Places
  <2>7. /\ pc' = "walk"
        /\ UNCHANGED <<prog, list, rounds, livein, dead, capped, bound, run>>
    BY <1>4 DEF Sweep
  <2> QED BY <2>1, <2>3, <2>4, <2>5, <2>6, <2>7 DEF TypeOK, run
<1>5. CASE Walk
  <2>1. pos \in 1 .. Size(blk) /\ blk \in Blocks /\ list[blk][pos] \in Insns
    BY <1>5 DEF Walk, TypeOK
  <2>2. live' \in SUBSET Locals
    BY <1>5, <2>1, LiveBeforeType DEF Walk, TypeOK
  <2>3. DOMAIN trace' = Blocks /\ \A b \in Blocks : trace'[b] \in [1 .. Size(b) + 1 -> SUBSET Locals]
    <3>1. \A b \in Blocks : trace[b] \in [1 .. Size(b) + 1 -> SUBSET Locals]
      BY DEF TypeOK
    <3>2. DOMAIN trace = Blocks /\ trace' = [trace EXCEPT ![blk][pos] = live']
      BY <1>5 DEF Walk, TypeOK
    <3> QED BY <2>2, <3>1, <3>2
  <2>4. pos' \in 0 .. Size(blk)
    BY <1>5, <2>1 DEF Walk
  <2>5. prog' = prog /\ \A b : Size(b)' = Size(b)
    BY <1>5 DEF Walk, Size
  <2>6. Places' = Places
    BY <2>5 DEF Places
  <2> QED BY <1>5, <2>2, <2>3, <2>4, <2>5, <2>6 DEF Walk, TypeOK, run
<1>6. CASE WalkDone
  <2>1. livein' \in LiveSets /\ changed' \in BOOLEAN
    BY <1>6 DEF WalkDone, TypeOK, LiveSets
  <2>2. blk # 0 => blk - 1 \in Blocks
    BY DEF TypeOK, Blocks
  <2>3. prog' = prog /\ \A b : Size(b)' = Size(b)
    BY <1>6 DEF WalkDone, Size
  <2>4. blk' \in Blocks /\ pos' \in 0 .. Size(blk') /\ live' \subseteq Locals
    BY <1>6, <2>2 DEF WalkDone, WalkFrom, TypeOK, LiveSets, walk
  <2>5. Places' = Places
    BY <2>3 DEF Places
  <2>6. pc' \in {"count", "sweep", "walk", "collect", "strip", "done"}
    BY <1>6 DEF WalkDone
  <2> QED BY <1>6, <2>1, <2>3, <2>4, <2>5, <2>6 DEF WalkDone, TypeOK, run
<1>7. CASE StartCollecting
  <2>1. N - 1 \in Blocks
    BY DEF Blocks
  <2>2. blk' \in Blocks /\ pos' \in 0 .. Size(blk') /\ live' \subseteq Locals
    BY <1>7, <2>1 DEF StartCollecting, WalkFrom, TypeOK, LiveSets
  <2>3. prog' = prog /\ \A b : Size(b)' = Size(b)
    BY <1>7 DEF StartCollecting, Size
  <2> QED BY <1>7, <2>2, <2>3 DEF StartCollecting, TypeOK, fixpoint, run
<1>8. CASE Collect
  <2>1. pos \in 1 .. Size(blk) /\ blk \in Blocks /\ list[blk][pos] \in Insns
    BY <1>8 DEF Collect, TypeOK
  <2>2. live' \in SUBSET Locals
    BY <1>8, <2>1, LiveBeforeType DEF Collect, TypeOK
  <2>3. pos' \in 0 .. Size(blk)
    BY <1>8, <2>1 DEF Collect
  <2>4. <<blk, pos>> \in Places
    BY <2>1 DEF Places
  <2>5. dead' \subseteq Places
    BY <1>8, <2>4 DEF Collect, TypeOK
  <2>6. prog' = prog /\ \A b : Size(b)' = Size(b)
    BY <1>8 DEF Collect, Size
  <2>7. Places' = Places
    BY <2>6 DEF Places
  <2> QED BY <1>8, <2>2, <2>3, <2>5, <2>6, <2>7 DEF Collect, TypeOK, fixpoint, run
<1>9. CASE CollectDone
  <2>1. blk # 0 => blk - 1 \in Blocks
    BY DEF TypeOK, Blocks
  <2>2. prog' = prog /\ \A b : Size(b)' = Size(b)
    BY <1>9 DEF CollectDone, Size
  <2>3. blk' \in Blocks /\ pos' \in 0 .. Size(blk') /\ live' \subseteq Locals
    BY <1>9, <2>1 DEF CollectDone, WalkFrom, TypeOK, LiveSets, walk
  <2>4. Places' = Places
    BY <2>2 DEF Places
  <2>5. pc' \in {"count", "sweep", "walk", "collect", "strip", "done"}
    BY <1>9 DEF CollectDone
  <2> QED BY <1>9, <2>2, <2>3, <2>4, <2>5 DEF CollectDone, TypeOK, fixpoint, run
<1>10. CASE Strip
  <2>1. DOMAIN list' = Blocks /\ \A b \in Blocks : list'[b] \in [1 .. Size(b) -> Insns]
    BY <1>10, WithoutType DEF Strip
  <2>2. DOMAIN trace' = Blocks /\ \A b \in Blocks : trace'[b] \in [1 .. Size(b) + 1 -> SUBSET Locals]
    BY <1>10, EverywhereType DEF Strip
  <2>3. livein' \in LiveSets /\ liveout' \in LiveSets /\ sweeps' \in 0 .. MaxSweeps
    BY <1>10, BoundsAssumption DEF Strip, Nothing, LiveSets
  <2>4. prog' = prog /\ \A b : Size(b)' = Size(b)
    BY <1>10 DEF Strip, Size
  <2>5. Places' = Places
    BY <2>4 DEF Places
  <2>6. bound' = trace /\ changed' = TRUE /\ pc' = "sweep"
    BY <1>10 DEF Strip
  <2> QED BY <1>10, <2>1, <2>2, <2>3, <2>4, <2>5, <2>6 DEF Strip, TypeOK, walk, run
<1>11. CASE Finish
  BY <1>11 DEF Finish, TypeOK, fixpoint, walk, run, Size, Places
<1>12. CASE Start
  <2>1. 0 \in Blocks
    BY DEF Blocks
  <2>2. holds' \subseteq Locals /\ carries' \subseteq Locals /\ tagged' \in BOOLEAN
    BY <1>12 DEF Start, TypeOK
  <2>3. next' = 1 /\ at' = 0 /\ next' \in 1 .. Size(at') + 1
    BY <1>12, <2>1 DEF Start
  <2> QED BY <1>12, <2>1, <2>2, <2>3 DEF Start, TypeOK, passes, fixpoint, walk, Size, Places
<1>13. CASE Execute
  <2>1. Was.dst \in Locals \cup {NoLocal} /\ Is.dst \in Locals \cup {NoLocal}
    <3>1. at \in Blocks /\ next \in 1 .. Size(at)
      BY <1>13 DEF Execute, InBlock, TypeOK
    <3>2. Was \in Insns /\ Is \in Insns
      BY <3>1 DEF Was, Is, TypeOK
    <3> QED BY <3>2 DEF Insns
  <2>2. holds' \subseteq Locals /\ carries' \subseteq Locals /\ tagged' \in BOOLEAN
    BY <1>13, <2>1 DEF Execute, TypeOK, Assigned
  <2>3. next' \in Nat /\ at' = at /\ next' \in 1 .. Size(at) + 1
    BY <1>13 DEF Execute, TypeOK, InBlock
  <2> QED BY <1>13, <2>2, <2>3 DEF Execute, TypeOK, passes, fixpoint, walk, Size, Places
<1>14. CASE Follow
  <2>1. at' \in Blocks /\ next' = 1 /\ next' \in 1 .. Size(at') + 1
    BY <1>14 DEF Follow, TypeOK
  <2> QED BY <1>14, <2>1 DEF Follow, TypeOK, passes, fixpoint, walk, Size, Places
<1>15. CASE UNCHANGED vars
  BY <1>15 DEF vars, TypeOK, Size, Places
<1> QED
  BY <1>2, <1>3, <1>4, <1>5, <1>6, <1>7, <1>8, <1>9, <1>10, <1>11, <1>12, <1>13, <1>14, <1>15
  DEF Next


-----------------------------------------------------------------------------
LEMMA Indices ==
    ASSUME TypeOK
    PROVE  /\ \A b \in Blocks : \A i \in 1 .. Size(b) :
                 i \in 1 .. Size(b) + 1 /\ i + 1 \in 1 .. Size(b) + 1
           /\ \A b \in Blocks : 1 \in 1 .. Size(b) + 1 /\ Size(b) + 1 \in 1 .. Size(b) + 1
  BY Shapes

(* A walk that has no more than the bound behind an instruction has no     *)
(* more than the bound in front of it.                                     *)
LEMMA LiveStays ==
    ASSUME Cover, NEW b \in Blocks, NEW i \in 1 .. Size(b),
           NEW after, after \subseteq bound[b][i + 1]
    PROVE  LiveBefore(list[b][i], after) \subseteq bound[b][i]
<1>1. /\ list[b][i].reads \subseteq bound[b][i]
      /\ bound[b][i + 1] \ {list[b][i].dst} \subseteq bound[b][i]
  BY DEF Cover
<1> QED BY <1>1 DEF LiveBefore, IsDead

LEMMA BehindStays ==
    ASSUME TypeOK, Joined, Within, NEW b \in Blocks
    PROVE  Behind(b) \subseteq bound[b][Size(b) + 1]
<1>1. \A s \in Targets(prog.succ, b) : s \in Blocks /\ livein[s] \subseteq bound[s][1]
  BY Shapes DEF Within
<1> QED BY <1>1 DEF Behind, Joined

(* A listing, a bound and a graph that stay keep the closure.              *)
LEMMA ClosureStays ==
    ASSUME Closure, prog' = prog, list' = list, bound' = bound
    PROVE  Closure'
<1>1. \A b : Size(b)' = Size(b)
  BY DEF Size
<1>2. \A b : Targets(prog.succ, b)' = Targets(prog.succ, b)
  BY DEF Targets
<1> QED BY <1>1, <1>2 DEF Closure, Cover, Joined, Thinned

(* The run has not begun while a pass is at work.                          *)
LEMMA NotYetRunning ==
    ASSUME Agreed, pc # "done", at' = at, holds' = holds, carries' = carries
    PROVE  Agreed'
  BY DEF Agreed

LEMMA CountRoundStep ==
    ASSUME TypeOK, TypeOK', Closure, Counted, Analysis, Agreed, CountRound
    PROVE  Closure' /\ Counted' /\ Analysis' /\ Agreed'
<1>1. /\ pc = "count" /\ pc' = "count" /\ prog' = prog
      /\ list' = Without(UnreadPlaces) /\ bound' = Everywhere(ReadIn(list'))
      /\ UNCHANGED <<sweeps, changed, livein, liveout, trace, blk, pos, live, dead, at, holds, carries>>
  BY DEF CountRound, fixpoint, walk, run
<1>2. \A b : Size(b)' = Size(b) /\ Targets(prog.succ, b)' = Targets(prog.succ, b)
  BY <1>1 DEF Size, Targets
<1> DEFINE R == ReadIn(list')
<1>3. \A b \in Blocks : \A i \in 1 .. Size(b) + 1 : bound'[b][i] = R
  BY <1>1 DEF Everywhere
<1>4. \A b \in Blocks : \A i \in 1 .. Size(b) + 1 : bound[b][i] = ReadIn(list)
  <2>1. bound = Everywhere(ReadIn(list))
    BY <1>1 DEF Counted
  <2> QED BY <2>1 DEF Everywhere
<1>5. \A b \in Blocks : \A i \in 1 .. Size(b) :
          list'[b][i] = IF <<b, i>> \in UnreadPlaces THEN Nop ELSE list[b][i]
  BY <1>1 DEF Without
<1>6. \A b \in Blocks : \A i \in 1 .. Size(b) : list'[b][i].reads \subseteq R
  <2> TAKE b \in Blocks
  <2> TAKE i \in 1 .. Size(b)
  <2>1. list'[b][i].reads \in SUBSET Locals
    BY <1>1, <1>2 DEF TypeOK, Insns
  <2>2. <<b, i>> \in Places
    BY DEF Places
  <2> QED BY <2>1, <2>2 DEF ReadIn
<1>7. Cover'
  BY <1>2, <1>3, <1>6, Indices DEF Cover
<1>8. Joined'
  BY <1>2, <1>3, Indices, Shapes DEF Joined
<1>9. R \subseteq ReadIn(list)
  <2> SUFFICES ASSUME NEW v \in R PROVE v \in ReadIn(list)
    OBVIOUS
  <2>1. PICK p \in Places : v \in list'[p[1]][p[2]].reads
    BY DEF ReadIn
  <2>2. p[1] \in Blocks /\ p[2] \in 1 .. Size(p[1])
    BY DEF Places
  <2>3. v \in list[p[1]][p[2]].reads
    BY <1>5, <2>1, <2>2, NopIsInsn
  <2> QED BY <2>1, <2>3 DEF ReadIn
<1>10. Thinned'
  <2> SUFFICES ASSUME NEW b \in Blocks, NEW i \in 1 .. Size(b)
               PROVE  \/ list'[b][i] = prog.code[b][i]
                      \/ list'[b][i] = Nop /\ prog.code[b][i].dst \notin R
    BY <1>1, <1>2, <1>3, Indices DEF Thinned
  <2>1. CASE <<b, i>> \in UnreadPlaces
    <3>1. <<b, i>> \in Places /\ Unread(<<b, i>>) /\ list'[b][i] = Nop
      BY <1>5, <2>1 DEF UnreadPlaces
    <3>2. list[b][i] = prog.code[b][i]
      BY <3>1, NopIsInsn DEF Closure, Thinned, Unread, Insn
    <3>3. ASSUME prog.code[b][i].dst \in R PROVE FALSE
      <4> DEFINE v == list[b][i].dst
      <4>1. PICK q \in Places : v \in list'[q[1]][q[2]].reads
        BY <3>2, <3>3 DEF ReadIn
      <4>2. q[1] \in Blocks /\ q[2] \in 1 .. Size(q[1])
        BY DEF Places
      <4>3. q \notin UnreadPlaces /\ v \in list[q[1]][q[2]].reads
        <5>1. q = <<q[1], q[2]>>
          BY DEF Places
        <5> QED BY <1>5, <4>1, <4>2, <5>1, NopIsInsn
      <4>4. q # <<b, i>>
        BY <2>1, <4>3
      <4> QED BY <3>1, <4>3, <4>4 DEF Unread, Insn, Mentions
    <3> QED BY <3>1, <3>3
  <2>2. CASE <<b, i>> \notin UnreadPlaces
    <3>1. \/ list[b][i] = prog.code[b][i]
          \/ list[b][i] = Nop /\ prog.code[b][i].dst \notin ReadIn(list)
      BY <1>4, Indices DEF Closure, Thinned
    <3> QED BY <1>5, <1>9, <2>2, <3>1
  <2> QED BY <2>1, <2>2
<1>11. trace = Everywhere({}) /\ livein = Nothing /\ liveout = Nothing
  BY <1>1 DEF Counted
<1>12. Counted'
  <2>1. \A S : Everywhere(S)' = Everywhere(S)
    BY <1>2 DEF Everywhere
  <2>2. Nothing' = Nothing
    BY DEF Nothing
  <2>3. Places' = Places
    BY <1>2 DEF Places
  <2>4. (bound = Everywhere(ReadIn(list)))'
    BY <1>1, <1>2, <2>3 DEF Everywhere, ReadIn
  <2>5. (trace = Everywhere({}))'
    BY <1>1, <1>2, <1>11 DEF Everywhere
  <2> QED BY <1>1, <1>11, <2>2, <2>4, <2>5 DEF Counted
<1>13. Within'
  <2>1. \A b \in Blocks : livein'[b] = {} /\ liveout'[b] = {}
    BY <1>1, <1>11 DEF Nothing
  <2>2. \A b \in Blocks : \A i \in 1 .. Size(b) + 1 : trace'[b][i] = {}
    BY <1>1, <1>11 DEF Everywhere
  <2> QED BY <1>2, <2>1, <2>2 DEF Within
<1>14. Analysis'
  BY <1>1, <1>13 DEF Analysis, Converged, Traced, Ends, Starts, Walking, Settled, Picked
<1> QED BY <1>1, <1>7, <1>8, <1>10, <1>12, <1>14, NotYetRunning DEF Closure

LEMMA CountDoneStep ==
    ASSUME TypeOK, Closure, Counted, Analysis, Agreed, CountDone
    PROVE  Closure' /\ Counted' /\ Analysis' /\ Agreed'
<1>1. /\ pc = "count" /\ pc' = "sweep" /\ changed
      /\ UNCHANGED <<prog, list, bound, changed, livein, liveout, trace, blk, pos, live, dead, at, holds, carries>>
  BY DEF CountDone, fixpoint, walk, run, Counted
<1>2. \A b : Size(b)' = Size(b)
  BY <1>1 DEF Size
<1>3. Within'
  BY <1>1, <1>2 DEF Analysis, Within
<1>4. Analysis'
  BY <1>1, <1>3 DEF Analysis, Converged, Traced, Ends, Starts, Walking, Settled, Picked
<1> QED BY <1>1, <1>4, ClosureStays, NotYetRunning DEF Counted

LEMMA SweepStep ==
    ASSUME TypeOK, Closure, Counted, Analysis, Agreed, Sweep
    PROVE  Closure' /\ Counted' /\ Analysis' /\ Agreed'
<1>1. /\ pc = "sweep" /\ pc' = "walk"
      /\ UNCHANGED <<prog, list, bound, livein, dead, at, holds, carries>>
      /\ liveout' = [b \in Blocks |-> Behind(b)]
      /\ trace' = [b \in Blocks |-> [trace[b] EXCEPT ![Size(b) + 1] = liveout'[b]]]
      /\ blk' = N - 1 /\ pos' = Size(N - 1) /\ live' = liveout'[N - 1]
  BY DEF Sweep, WalkFrom, run
<1>2. /\ \A b : Size(b)' = Size(b)
      /\ \A b : Behind(b)' = Behind(b)
  BY <1>1 DEF Size, Behind, Targets
<1>3. N - 1 \in Blocks /\ \A b \in Blocks : Size(b) \in Nat /\ b <= N - 1
  BY Shapes DEF Blocks
<1>4. \A b \in Blocks : trace'[b][Size(b) + 1] = liveout'[b]
  <2> TAKE b \in Blocks
  <2>1. DOMAIN trace[b] = 1 .. Size(b) + 1
    BY DEF TypeOK
  <2> QED BY <1>1, <1>3, <2>1
<1>5. \A b \in Blocks : \A i \in 1 .. Size(b) : trace'[b][i] = trace[b][i]
  <2> TAKE b \in Blocks
  <2>1. DOMAIN trace[b] = 1 .. Size(b) + 1
    BY DEF TypeOK
  <2> QED BY <1>1, <1>3, <2>1
<1>6. Within'
  <2>1. \A b \in Blocks : liveout'[b] \subseteq bound[b][Size(b) + 1]
    BY <1>1, BehindStays DEF Closure, Analysis
  <2>2. ASSUME NEW b \in Blocks, NEW i \in 1 .. Size(b) + 1
        PROVE  trace'[b][i] \subseteq bound[b][i]
    <3>1. CASE i = Size(b) + 1
      BY <1>4, <2>1, <3>1
    <3>2. CASE i # Size(b) + 1
      <4>1. i \in 1 .. Size(b)
        BY <1>3, <3>2
      <4> QED BY <1>5, <4>1 DEF Analysis, Within
    <3> QED BY <3>1, <3>2
  <2> QED BY <1>1, <1>2, <2>1, <2>2 DEF Analysis, Within
<1>7. \A b \in Blocks : ~(b > N - 1)
  BY <1>3 DEF Blocks
<1>8. Traced'
  <2>1. ASSUME NEW b \in Blocks, NEW i \in 1 .. Size(b) PROVE ~Passed(b, i)'
    BY <1>1, <1>2, <1>3, <1>7 DEF Passed
  <2> QED BY <1>1, <1>2, <2>1 DEF Traced, Converged
<1>9. Ends' /\ Starts' /\ Walking' /\ Settled' /\ Picked'
  BY <1>1, <1>2, <1>3, <1>4, <1>7 DEF Ends, Starts, Walking, Settled, Picked, Converged
<1> QED BY <1>1, <1>6, <1>8, <1>9, ClosureStays, NotYetRunning DEF Counted, Analysis

LEMMA WalkStep ==
    ASSUME TypeOK, TypeOK', Closure, Counted, Analysis, Agreed, Walk
    PROVE  Closure' /\ Counted' /\ Analysis' /\ Agreed'
<1>1. /\ pc = "walk" /\ pc' = "walk" /\ pos > 0 /\ pos' = pos - 1
      /\ UNCHANGED <<prog, list, bound, changed, livein, liveout, blk, dead, at, holds, carries>>
      /\ live' = LiveBefore(list[blk][pos], live)
      /\ trace' = [trace EXCEPT ![blk][pos] = live']
  BY DEF Walk, run
<1>2. /\ \A b : Size(b)' = Size(b)
      /\ \A b : Behind(b)' = Behind(b)
  BY <1>1 DEF Size, Behind, Targets
<1>3. blk \in Blocks /\ pos \in 1 .. Size(blk) /\ \A b \in Blocks : Size(b) \in Nat
  BY <1>1, Shapes DEF TypeOK
<1>4. live = trace[blk][pos + 1] /\ live \subseteq bound[blk][pos + 1]
  <2>1. live = trace[blk][pos + 1]
    BY <1>1 DEF Analysis, Walking
  <2>2. pos + 1 \in 1 .. Size(blk) + 1
    BY <1>3
  <2> QED BY <1>3, <2>1, <2>2 DEF Analysis, Within
<1>5. live' \subseteq bound[blk][pos]
  BY <1>1, <1>3, <1>4, LiveStays DEF Closure
<1>6. \A b \in Blocks : \A i \in 1 .. Size(b) + 1 :
          trace'[b][i] = IF b = blk /\ i = pos THEN live' ELSE trace[b][i]
  <2> TAKE b \in Blocks
  <2>1. DOMAIN trace = Blocks /\ DOMAIN trace[b] = 1 .. Size(b) + 1
    BY DEF TypeOK
  <2> QED BY <1>1, <1>3, <2>1
<1>7. Within'
  <2>1. \A b \in Blocks : \A i \in 1 .. Size(b) + 1 : trace'[b][i] \subseteq bound[b][i]
    BY <1>5, <1>6 DEF Analysis, Within
  <2> QED BY <1>1, <1>2, <2>1 DEF Analysis, Within
<1>8. Traced'
  <2> SUFFICES ASSUME NEW b \in Blocks, NEW i \in 1 .. Size(b), b > blk \/ (b = blk /\ i > pos - 1)
               PROVE  trace'[b][i] = LiveBefore(list[b][i], trace'[b][i + 1])
    BY <1>1, <1>2 DEF Traced, Converged, Passed
  <2>1. i \in 1 .. Size(b) + 1 /\ i + 1 \in 1 .. Size(b) + 1
    BY <1>3
  <2>2. CASE b = blk /\ i = pos
    <3>1. trace'[b][i + 1] = trace[b][i + 1] /\ trace'[b][i] = live'
      BY <1>3, <1>6, <2>1, <2>2
    <3> QED BY <1>1, <1>4, <2>2, <3>1
  <2>3. CASE ~(b = blk /\ i = pos)
    <3>1. b > blk \/ (b = blk /\ i > pos)
      BY <1>3, <2>3
    <3>2. trace[b][i] = LiveBefore(list[b][i], trace[b][i + 1])
      BY <1>1, <3>1 DEF Analysis, Traced, Passed
    <3>3. trace'[b][i + 1] = trace[b][i + 1] /\ trace'[b][i] = trace[b][i]
      <4>1. ~(b = blk /\ i + 1 = pos)
        BY <1>3, <3>1 DEF Blocks
      <4> QED BY <1>6, <2>1, <2>3, <4>1
    <3> QED BY <3>2, <3>3
  <2> QED BY <2>2, <2>3
<1>9. Ends'
  <2>1. \A b \in Blocks : Size(b) + 1 \in 1 .. Size(b) + 1 /\ ~(b = blk /\ Size(b) + 1 = pos)
    BY <1>3
  <2>2. \A b \in Blocks : trace'[b][Size(b) + 1] = trace[b][Size(b) + 1]
    BY <1>6, <2>1
  <2> QED BY <1>1, <1>2, <2>2 DEF Ends, Analysis
<1>10. Starts'
  <2>1. ASSUME NEW b \in Blocks, b > blk PROVE trace'[b][1] = livein[b]
    <3>1. 1 \in 1 .. Size(b) + 1 /\ b # blk
      BY <1>3, <2>1 DEF Blocks
    <3> QED BY <1>1, <1>6, <2>1, <3>1 DEF Analysis, Starts
  <2> QED BY <1>1, <2>1 DEF Starts, Converged
<1>11. Walking'
  <2>1. trace'[blk][pos] = live'
    BY <1>3, <1>6, Indices
  <2> QED BY <1>1, <1>3, <2>1 DEF Walking
<1>12. Settled' /\ Picked'
  BY <1>1, <1>2 DEF Analysis, Settled, Picked, Converged
<1> QED BY <1>1, <1>7, <1>8, <1>9, <1>10, <1>11, <1>12, ClosureStays, NotYetRunning DEF Counted, Analysis

LEMMA WalkDoneStep ==
    ASSUME TypeOK, TypeOK', Closure, Counted, Analysis, Agreed, WalkDone
    PROVE  Closure' /\ Counted' /\ Analysis' /\ Agreed'
<1>1. /\ pc = "walk" /\ pos = 0
      /\ UNCHANGED <<prog, list, bound, liveout, trace, dead, at, holds, carries>>
      /\ livein' = [livein EXCEPT ![blk] = live]
      /\ changed' = (changed \/ Moved)
      /\ \/ blk = 0 /\ pc' = "sweep" /\ blk' = blk /\ pos' = pos /\ live' = live
         \/ /\ blk # 0 /\ pc' = "walk"
            /\ blk' = blk - 1 /\ pos' = Size(blk - 1) /\ live' = liveout[blk - 1]
  BY DEF WalkDone, WalkFrom, walk, run
<1>2. \A b : Size(b)' = Size(b)
  BY <1>1 DEF Size
<1>3. blk \in Blocks /\ blk \in Int /\ (blk # 0 => blk - 1 \in Blocks) /\ \A b \in Blocks : Size(b) \in Nat /\ b \in Int
  <2>1. blk \in Blocks
    BY DEF TypeOK
  <2>2. \A b \in Blocks : Size(b) \in Nat
    BY Shapes
  <2>3. blk \in Int /\ (blk # 0 => blk - 1 \in Blocks) /\ Blocks \subseteq Int
    BY <2>1, Shapes DEF Blocks
  <2> QED BY <2>1, <2>2, <2>3
<1>4. live = trace[blk][1] /\ live \subseteq bound[blk][1]
  <2>1. live = trace[blk][1]
    BY <1>1 DEF Analysis, Walking
  <2> QED BY <1>3, <2>1, Indices DEF Analysis, Within
<1>5. \A b \in Blocks : livein'[b] = IF b = blk THEN live ELSE livein[b]
  BY <1>1 DEF TypeOK, LiveSets
<1>6. Within'
  BY <1>1, <1>2, <1>4, <1>5 DEF Analysis, Within
<1>7. ASSUME NEW b \in Blocks, NEW i \in 1 .. Size(b), (Converged \/ (pc = "walk" /\ Passed(b, i)))'
      PROVE  Passed(b, i)
  <2>1. b > blk \/ (b = blk /\ i > 0)
    BY <1>1, <1>2, <1>3, <1>7 DEF Passed, Converged, Blocks
  <2> QED BY <1>1, <2>1 DEF Passed
<1>8. Traced'
  BY <1>1, <1>2, <1>7 DEF Analysis, Traced
<1>9. Ends'
  BY <1>1, <1>2 DEF Analysis, Ends
<1>10. Starts'
  <2> SUFFICES ASSUME NEW b \in Blocks, Converged' \/ (pc' = "walk" /\ b > blk')
               PROVE  trace[b][1] = livein'[b]
    BY <1>1 DEF Starts
  <2>1. b = blk \/ b > blk
    BY <1>1, <1>3 DEF Converged, Blocks
  <2> QED BY <1>1, <1>4, <1>5, <2>1 DEF Analysis, Starts
<1>11. Walking'
  <2>1. CASE blk = 0
    BY <1>1, <2>1 DEF Walking
  <2>2. CASE blk # 0
    <3>1. trace[blk - 1][Size(blk - 1) + 1] = liveout[blk - 1]
      BY <1>1, <1>3, <2>2 DEF Analysis, Ends
    <3> QED BY <1>1, <2>2, <3>1 DEF Walking
  <2> QED BY <2>1, <2>2
<1>12. Settled'
  <2> SUFFICES ASSUME ~changed' PROVE \A b \in Blocks : Behind(b)' = liveout[b]
    BY <1>1 DEF Settled, Converged
  <2>1. ~changed /\ livein' = livein
    BY <1>1, <1>3 DEF Moved, TypeOK, LiveSets
  <2>2. \A b : Behind(b)' = Behind(b)
    BY <1>1, <2>1 DEF Behind, Targets
  <2> QED BY <1>1, <2>1, <2>2 DEF Analysis, Settled
<1>13. Picked'
  BY <1>1, <1>2 DEF Picked
<1> QED BY <1>1, <1>6, <1>8, <1>9, <1>10, <1>11, <1>12, <1>13, ClosureStays, NotYetRunning DEF Counted, Analysis

LEMMA StartCollectingStep ==
    ASSUME TypeOK, Closure, Counted, Analysis, Agreed, StartCollecting, ~capped'
    PROVE  Closure' /\ Counted' /\ Analysis' /\ Agreed'
<1>1. /\ pc = "sweep" /\ pc' = "collect" /\ ~changed
      /\ UNCHANGED <<prog, list, bound, changed, livein, liveout, trace, at, holds, carries>>
      /\ blk' = N - 1 /\ pos' = Size(N - 1) /\ live' = liveout[N - 1] /\ dead' = {}
  BY DEF StartCollecting, WalkFrom, fixpoint, run
<1>2. /\ \A b : Size(b)' = Size(b)
      /\ \A b : Behind(b)' = Behind(b)
  BY <1>1 DEF Size, Behind, Targets
<1>3. N - 1 \in Blocks /\ \A b \in Blocks : Size(b) \in Nat /\ ~(b > N - 1)
  BY Shapes DEF Blocks
<1>4. Within' /\ Traced' /\ Starts' /\ Settled'
  BY <1>1, <1>2 DEF Analysis, Within, Traced, Starts, Settled, Converged
<1>5. Ends'
  BY <1>1, <1>2 DEF Analysis, Ends, Converged
<1>6. Walking'
  BY <1>1, <1>3 DEF Analysis, Ends, Converged, Walking
<1>7. Picked'
  <2>1. ASSUME NEW b \in Blocks, NEW i \in 1 .. Size(b) PROVE ~Passed(b, i)'
    BY <1>1, <1>3 DEF Passed
  <2> QED BY <1>1, <1>2, <2>1 DEF Picked
<1> QED BY <1>1, <1>4, <1>5, <1>6, <1>7, ClosureStays, NotYetRunning DEF Counted, Analysis

LEMMA CollectStep ==
    ASSUME TypeOK, Closure, Counted, Analysis, Agreed, Collect
    PROVE  Closure' /\ Counted' /\ Analysis' /\ Agreed'
<1>1. /\ pc = "collect" /\ pc' = "collect" /\ pos > 0 /\ pos' = pos - 1
      /\ UNCHANGED <<prog, list, bound, changed, livein, liveout, trace, blk, at, holds, carries>>
      /\ live' = LiveBefore(list[blk][pos], live)
      /\ dead' = IF IsDead(list[blk][pos], live) THEN dead \cup {<<blk, pos>>} ELSE dead
  BY DEF Collect, fixpoint, run
<1>2. /\ \A b : Size(b)' = Size(b)
      /\ \A b : Behind(b)' = Behind(b)
  BY <1>1 DEF Size, Behind, Targets
<1>3. blk \in Blocks /\ pos \in 1 .. Size(blk)
  BY <1>1, Shapes DEF TypeOK
<1>4. Within' /\ Traced' /\ Starts' /\ Settled' /\ Ends'
  BY <1>1, <1>2 DEF Analysis, Within, Traced, Starts, Settled, Ends, Converged
<1>5. live = trace[blk][pos + 1]
  BY <1>1 DEF Analysis, Walking
<1>6. Walking'
  <2>1. trace[blk][pos] = LiveBefore(list[blk][pos], trace[blk][pos + 1])
    BY <1>1, <1>3 DEF Analysis, Traced, Converged
  <2> QED BY <1>1, <1>3, <1>5, <2>1 DEF Walking
<1>7. Picked'
  <2> SUFFICES ASSUME NEW b \in Blocks, NEW i \in 1 .. Size(b)
               PROVE  <<b, i>> \in dead' <=>
                        (b > blk \/ (b = blk /\ i > pos - 1)) /\ IsDead(list[b][i], trace[b][i + 1])
    BY <1>1, <1>2 DEF Picked, Passed
  <2>1. <<b, i>> \in dead <=> Passed(b, i) /\ IsDead(list[b][i], trace[b][i + 1])
    BY <1>1 DEF Analysis, Picked
  <2>2. CASE b = blk /\ i = pos
    <3>1. ~Passed(b, i) /\ i > pos - 1
      BY <1>3, <2>2 DEF Passed, Blocks
    <3> QED BY <1>1, <1>5, <2>1, <2>2, <3>1
  <2>3. CASE ~(b = blk /\ i = pos)
    <3>1. b > blk \/ (b = blk /\ i > pos - 1) <=> Passed(b, i)
      BY <1>3, <2>3 DEF Passed
    <3>2. <<b, i>> \in dead' <=> <<b, i>> \in dead
      BY <1>1, <2>3
    <3> QED BY <2>1, <3>1, <3>2
  <2> QED BY <2>2, <2>3
<1> QED BY <1>1, <1>4, <1>6, <1>7, ClosureStays, NotYetRunning DEF Counted, Analysis

LEMMA CollectDoneStep ==
    ASSUME TypeOK, Closure, Counted, Analysis, Agreed, CollectDone
    PROVE  Closure' /\ Counted' /\ Analysis' /\ Agreed'
<1>1. /\ pc = "collect" /\ pos = 0
      /\ UNCHANGED <<prog, list, bound, changed, livein, liveout, trace, dead, at, holds, carries>>
      /\ \/ blk = 0 /\ pc' = "strip" /\ blk' = blk /\ pos' = pos /\ live' = live
         \/ /\ blk # 0 /\ pc' = "collect"
            /\ blk' = blk - 1 /\ pos' = Size(blk - 1) /\ live' = liveout[blk - 1]
  BY DEF CollectDone, WalkFrom, fixpoint, walk, run
<1>2. /\ \A b : Size(b)' = Size(b)
      /\ \A b : Behind(b)' = Behind(b)
  BY <1>1 DEF Size, Behind, Targets
<1>3. /\ blk \in Blocks /\ blk \in Int /\ (blk # 0 => blk - 1 \in Blocks)
      /\ \A b \in Blocks : Size(b) \in Nat /\ b \in Nat
  BY Shapes DEF TypeOK, Blocks
<1>4. Within' /\ Traced' /\ Starts' /\ Settled'
  BY <1>1, <1>2 DEF Analysis, Within, Traced, Starts, Settled, Converged
<1>5. Ends'
  BY <1>1, <1>2 DEF Analysis, Ends, Converged
<1>6. Walking'
  <2>1. CASE blk = 0
    BY <1>1, <2>1 DEF Walking
  <2>2. CASE blk # 0
    <3>1. trace[blk - 1][Size(blk - 1) + 1] = liveout[blk - 1]
      BY <1>1, <1>3, <2>2 DEF Analysis, Ends, Converged
    <3> QED BY <1>1, <2>2, <3>1 DEF Walking
  <2> QED BY <2>1, <2>2
<1>7. Picked'
  <2> SUFFICES ASSUME NEW b \in Blocks, NEW i \in 1 .. Size(b)
               PROVE  <<b, i>> \in dead <=>
                        (pc' = "strip" \/ Passed(b, i)') /\ IsDead(list[b][i], trace[b][i + 1])
    BY <1>1, <1>2 DEF Picked
  <2>1. <<b, i>> \in dead <=> Passed(b, i) /\ IsDead(list[b][i], trace[b][i + 1])
    BY <1>1 DEF Analysis, Picked
  <2>2. CASE blk = 0
    <3>1. Passed(b, i) /\ pc' = "strip"
      BY <1>1, <1>3, <2>2 DEF Passed
    <3> QED BY <2>1, <3>1
  <2>3. CASE blk # 0
    <3>1. Passed(b, i)' <=> Passed(b, i)
      BY <1>1, <1>3, <2>3 DEF Passed
    <3> QED BY <1>1, <2>1, <2>3, <3>1
  <2> QED BY <2>2, <2>3
<1> QED BY <1>1, <1>4, <1>5, <1>6, <1>7, ClosureStays, NotYetRunning DEF Counted, Analysis

LEMMA StripStep ==
    ASSUME TypeOK, TypeOK', Closure, Counted, Analysis, Agreed, SelfFree, Strip
    PROVE  Closure' /\ Counted' /\ Analysis' /\ Agreed'
<1>1. /\ pc = "strip" /\ pc' = "sweep" /\ changed'
      /\ list' = Without(dead) /\ bound' = trace
      /\ livein' = Nothing /\ liveout' = Nothing /\ trace' = Everywhere({})
      /\ UNCHANGED <<prog, blk, pos, live, dead, at, holds, carries>>
  BY DEF Strip, walk, run
<1>2. \A b : Size(b)' = Size(b) /\ Targets(prog.succ, b)' = Targets(prog.succ, b)
  BY <1>1 DEF Size, Targets
<1>3. \A b \in Blocks : \A i \in 1 .. Size(b) :
          /\ list'[b][i] = IF <<b, i>> \in dead THEN Nop ELSE list[b][i]
          /\ <<b, i>> \in dead <=> IsDead(list[b][i], trace[b][i + 1])
          /\ trace[b][i] = LiveBefore(list[b][i], trace[b][i + 1])
          /\ trace[b][i + 1] \subseteq bound[b][i + 1]
  BY <1>1, Indices DEF Without, Analysis, Picked, Traced, Converged, Within
<1>4. \A b \in Blocks : \A i \in 1 .. Size(b) : list[b][i].dst \notin list[b][i].reads
  <2> TAKE b \in Blocks
  <2> TAKE i \in 1 .. Size(b)
  <2>1. <<b, i>> \in Places
    BY DEF Places
  <2>2. prog.code[b][i].dst \notin prog.code[b][i].reads
    BY <2>1 DEF SelfFree
  <2> QED BY <2>2, NopIsInsn DEF Closure, Thinned
<1>5. Cover'
  <2> SUFFICES ASSUME NEW b \in Blocks, NEW i \in 1 .. Size(b)
               PROVE  /\ list'[b][i].reads \subseteq trace[b][i]
                      /\ trace[b][i + 1] \ {list'[b][i].dst} \subseteq trace[b][i]
    BY <1>1, <1>2 DEF Cover
  <2>1. CASE <<b, i>> \in dead
    <3>1. list'[b][i] = Nop /\ trace[b][i] = trace[b][i + 1]
      BY <1>3, <2>1 DEF LiveBefore
    <3> QED BY <3>1, NopIsInsn
  <2>2. CASE <<b, i>> \notin dead
    <3>1. ~IsDead(list[b][i], trace[b][i + 1]) /\ list'[b][i] = list[b][i]
      BY <1>3, <2>2
    <3>2. trace[b][i] = (trace[b][i + 1] \cup list[b][i].reads) \ {list[b][i].dst}
      BY <1>3, <3>1 DEF LiveBefore
    <3> QED BY <1>4, <3>1, <3>2
  <2> QED BY <2>1, <2>2
<1>6. Joined'
  <2> SUFFICES ASSUME NEW b \in Blocks, NEW s \in Targets(prog.succ, b)
               PROVE  trace[s][1] \subseteq trace[b][Size(b) + 1]
    BY <1>1, <1>2 DEF Joined
  <2>1. s \in Blocks /\ trace[s][1] = livein[s]
    BY <1>1, Shapes DEF Analysis, Starts, Converged
  <2>2. trace[b][Size(b) + 1] = Behind(b)
    BY <1>1 DEF Analysis, Ends, Settled, Converged
  <2> QED BY <2>1, <2>2 DEF Behind
<1>7. Thinned'
  <2> SUFFICES ASSUME NEW b \in Blocks, NEW i \in 1 .. Size(b)
               PROVE  \/ list'[b][i] = prog.code[b][i]
                      \/ list'[b][i] = Nop /\ prog.code[b][i].dst \notin trace[b][i + 1]
    BY <1>1, <1>2 DEF Thinned
  <2>1. CASE <<b, i>> \in dead
    <3>1. list[b][i] = prog.code[b][i]
      BY <1>3, <2>1, NopIsInsn DEF IsDead, Closure, Thinned
    <3> QED BY <1>3, <2>1, <3>1 DEF IsDead
  <2>2. CASE <<b, i>> \notin dead
    BY <1>3, <2>2 DEF Closure, Thinned
  <2> QED BY <2>1, <2>2
<1>8. Within'
  <2>1. \A b \in Blocks : livein'[b] = {} /\ liveout'[b] = {}
    BY <1>1 DEF Nothing
  <2>2. \A b \in Blocks : \A i \in 1 .. Size(b) + 1 : trace'[b][i] = {}
    BY <1>1 DEF Everywhere
  <2> QED BY <1>2, <2>1, <2>2 DEF Within
<1>9. Analysis'
  BY <1>1, <1>8 DEF Analysis, Converged, Traced, Ends, Starts, Walking, Settled, Picked
<1> QED BY <1>1, <1>5, <1>6, <1>7, <1>9, NotYetRunning DEF Closure, Counted

LEMMA FinishStep ==
    ASSUME TypeOK, Closure, Counted, Analysis, Agreed, Finish
    PROVE  Closure' /\ Counted' /\ Analysis' /\ Agreed'
<1>1. /\ pc = "strip" /\ pc' = "done"
      /\ UNCHANGED <<prog, list, bound, changed, livein, liveout, trace, blk, pos, live, dead, at, holds, carries>>
  BY DEF Finish, fixpoint, walk, run
<1>2. \A b : Size(b)' = Size(b)
  BY <1>1 DEF Size
<1>3. Within'
  BY <1>1, <1>2 DEF Analysis, Within
<1>4. Analysis'
  BY <1>1, <1>3 DEF Analysis, Converged, Traced, Ends, Starts, Walking, Settled, Picked
<1> QED BY <1>1, <1>4, ClosureStays, NotYetRunning DEF Counted

(* The run does not touch what the passes left. *)
LEMMA RunStep ==
    ASSUME TypeOK, Closure, Counted, Analysis, UNCHANGED passes
    PROVE  Closure' /\ Counted' /\ Analysis'
<1>1. UNCHANGED <<prog, list, pc, bound, changed, livein, liveout, trace, blk, pos, live, dead>>
  BY DEF passes, fixpoint, walk
<1>2. /\ \A b : Size(b)' = Size(b)
      /\ \A b : Behind(b)' = Behind(b)
  BY <1>1 DEF Size, Behind, Targets
<1>3. Within' /\ Traced' /\ Starts' /\ Settled' /\ Ends' /\ Walking' /\ Picked'
  BY <1>1, <1>2 DEF Analysis, Within, Traced, Starts, Settled, Ends, Walking, Picked, Converged, Passed
<1>4. Counted'
  <2>1. Places' = Places
    BY <1>2, <1>1 DEF Places
  <2>2. \A S : Everywhere(S)' = Everywhere(S)
    BY <1>2 DEF Everywhere
  <2>3. ReadIn(list)' = ReadIn(list)
    BY <1>1, <2>1 DEF ReadIn
  <2> QED BY <1>1, <1>2, <2>3 DEF Counted, Everywhere, Nothing
<1> QED BY <1>1, <1>3, <1>4, ClosureStays DEF Analysis

LEMMA StartStep ==
    ASSUME Agreed, Start
    PROVE  Agreed'
<1>1. at' # NoBlock /\ pc' = "done" /\ holds' = carries'
  BY DEF Start, passes, NoBlock, Agreed
<1> QED BY <1>1 DEF Agreed

LEMMA ExecuteStep ==
    ASSUME TypeOK, Closure, Agreed, Execute
    PROVE  Agreed'
<1>1. PICK pick \in BOOLEAN : /\ holds' = Assigned(holds, Was, pick)
                              /\ carries' = Assigned(carries, Is, pick)
  BY DEF Execute
<1>2. /\ at \in Blocks /\ next \in 1 .. Size(at) /\ at' = at /\ next' = next + 1
      /\ at # NoBlock /\ prog' = prog /\ bound' = bound /\ pc' = pc
  BY DEF Execute, InBlock, TypeOK, passes
<1>3. pc = "done" /\ \A v \in bound[at][next] : v \in holds <=> v \in carries
  BY <1>2 DEF Agreed
<1>4. Is.reads \subseteq bound[at][next] /\ bound[at][next + 1] \ {Is.dst} \subseteq bound[at][next]
  BY <1>2 DEF Closure, Cover, Is
<1>5. Is = Was \/ (Is = Nop /\ Was.dst \notin bound[at][next + 1])
  BY <1>2 DEF Closure, Thinned, Is, Was
<1>6. bound[at][next + 1] \subseteq Locals
  BY <1>2, Indices DEF TypeOK
<1>7. ASSUME NEW v \in bound[at][next + 1] PROVE v \in holds' <=> v \in carries'
  <2>1. v \in Locals /\ v # NoLocal
    BY <1>6, LocalsAssumption
  <2>2. CASE Is = Nop /\ Was.dst \notin bound[at][next + 1]
    <3>1. carries' = carries /\ v \in bound[at][next] /\ v # Was.dst
      BY <1>1, <1>4, <2>1, <2>2, NopIsInsn DEF Assigned
    <3> QED BY <1>1, <1>3, <3>1 DEF Assigned
  <2>3. CASE Is = Was
    <3>1. Is.reads \cap holds # {} <=> Is.reads \cap carries # {}
      BY <1>3, <1>4
    <3>2. v # Is.dst => (v \in holds <=> v \in carries)
      BY <1>3, <1>4
    <3> QED BY <1>1, <2>1, <2>3, <3>1, <3>2 DEF Assigned
  <2> QED BY <1>5, <2>2, <2>3
<1> QED BY <1>2, <1>3, <1>7 DEF Agreed

LEMMA FollowStep ==
    ASSUME TypeOK, Closure, Agreed, Follow
    PROVE  Agreed'
<1>1. /\ at \in Blocks /\ at # NoBlock /\ next = Size(at) + 1 /\ at' \in Targets(prog.succ, at)
      /\ next' = 1 /\ prog' = prog /\ bound' = bound /\ pc' = pc /\ holds' = holds /\ carries' = carries
  BY DEF Follow, TypeOK, passes
<1>2. bound[at'][1] \subseteq bound[at][next]
  BY <1>1 DEF Closure, Joined
<1>3. at' # NoBlock
  BY <1>1, Shapes DEF Blocks, NoBlock
<1> QED BY <1>1, <1>2, <1>3 DEF Agreed

-----------------------------------------------------------------------------
LEMMA NextInv == IInv /\ [Next]_vars => IInv'
<1> SUFFICES ASSUME IInv, [Next]_vars PROVE IInv'
  OBVIOUS
<1>1. TypeOK /\ TypeOK'
  BY TypeStep DEF IInv
<1> SUFFICES ASSUME Sound' PROVE Closure' /\ Counted' /\ Analysis' /\ Agreed'
  BY <1>1 DEF IInv
<1>2. Sound
  <2>1. prog' = prog
    BY DEF Next, vars, CountRound, CountDone, Sweep, Walk, WalkDone, StartCollecting, Collect,
           CollectDone, Strip, Finish, Start, Execute, Follow, passes
  <2>2. capped => capped'
    BY DEF Next, vars, CountRound, CountDone, Sweep, Walk, WalkDone, StartCollecting, Collect,
           CollectDone, Strip, Finish, Start, Execute, Follow, passes
  <2>3. SelfFree' => SelfFree
    BY <2>1 DEF SelfFree, Places, Size
  <2> QED BY <2>2, <2>3 DEF Sound
<1>3. Closure /\ Counted /\ Analysis /\ Agreed /\ SelfFree /\ ~capped'
  BY <1>2 DEF IInv, Sound
<1>4. CASE UNCHANGED vars
  <2>1. UNCHANGED passes /\ UNCHANGED run
    BY <1>4 DEF vars, passes, run, fixpoint, walk
  <2>2. Agreed'
    BY <1>3, <2>1 DEF Agreed, passes, run
  <2> QED BY <1>1, <1>3, <2>1, <2>2, RunStep
<1>5. CASE Start \/ Execute \/ Follow
  <2>1. UNCHANGED passes
    BY <1>5 DEF Start, Execute, Follow
  <2> QED BY <1>1, <1>3, <1>5, <2>1, RunStep, StartStep, ExecuteStep, FollowStep
<1>6. CASE CountRound
  BY <1>1, <1>3, <1>6, CountRoundStep
<1>7. CASE CountDone
  BY <1>1, <1>3, <1>7, CountDoneStep
<1>8. CASE Sweep
  BY <1>1, <1>3, <1>8, SweepStep
<1>9. CASE Walk
  BY <1>1, <1>3, <1>9, WalkStep
<1>10. CASE WalkDone
  BY <1>1, <1>3, <1>10, WalkDoneStep
<1>11. CASE StartCollecting
  BY <1>1, <1>3, <1>11, StartCollectingStep
<1>12. CASE Collect
  BY <1>1, <1>3, <1>12, CollectStep
<1>13. CASE CollectDone
  BY <1>1, <1>3, <1>13, CollectDoneStep
<1>14. CASE Strip
  BY <1>1, <1>3, <1>14, StripStep
<1>15. CASE Finish
  BY <1>1, <1>3, <1>15, FinishStep
<1> QED
  BY <1>4, <1>5, <1>6, <1>7, <1>8, <1>9, <1>10, <1>11, <1>12, <1>13, <1>14, <1>15 DEF Next

(* Between two listings of which one has lost its dead definitions, every  *)
(* read sees the same value on every path: passes.rs:383 and :492, unless  *)
(* the fixpoint was cut off or an instruction reads what it writes.        *)
THEOREM ReadsAlwaysKept == Spec => []ReadsKept
<1>1. IInv => ReadsKept
  <2> SUFFICES ASSUME IInv, Sound, InBlock, NEW v \in Is.reads
               PROVE  v \in holds <=> v \in carries
    BY DEF ReadsKept, ReadAgrees, Sound
  <2>1. at \in Blocks /\ next \in 1 .. Size(at) /\ at # NoBlock
    BY DEF IInv, TypeOK, InBlock
  <2>2. v \in bound[at][next]
    BY <2>1 DEF IInv, Closure, Cover, Is
  <2> QED BY <2>1, <2>2 DEF IInv, Agreed
<1> QED BY <1>1, InitInv, NextInv, PTL DEF Spec

(* Every variable of the passes and of the run keeps its type.             *)
THEOREM Typed == Spec => []TypeOK
<1>1. IInv => TypeOK
  BY DEF IInv
<1> QED BY <1>1, InitInv, NextInv, PTL DEF Spec

-----------------------------------------------------------------------------
(***************************************************************************)
(* How many sweeps the fixpoint takes.                                     *)
(***************************************************************************)
(* What is known to be live into the blocks. *)
LiveFacts(L) == {f \in Blocks \X Locals : f[2] \in L[f[1]]}
Known == Cardinality(LiveFacts(livein))

Exact(b, i) == trace[b][i] = LiveBefore(list[b][i], trace[b][i + 1])

(* The sets only grow, in whatever order the blocks are walked. *)
Rising ==
    /\ \A b \in Blocks : \A i \in 1 .. Size(b) :
          trace[b][i] \subseteq LiveBefore(list[b][i], trace[b][i + 1])
    /\ \A b \in Blocks : /\ trace[b][Size(b) + 1] = liveout[b]
                         /\ livein[b] \subseteq trace[b][1]
                         /\ liveout[b] \subseteq Behind(b)
    /\ pc = "walk" => live = trace[blk][pos + 1]
    /\ pc = "count" => /\ sweeps = 0
                       /\ trace = Everywhere({}) /\ livein = Nothing /\ liveout = Nothing

Walked ==
    /\ \A b \in Blocks : \A i \in 1 .. Size(b) :
          (pc = "sweep" /\ sweeps # 0) \/ (pc = "walk" /\ Passed(b, i)) => Exact(b, i)
    /\ \A b \in Blocks :
          (pc = "sweep" /\ sweeps # 0) \/ (pc = "walk" /\ b > blk) => trace[b][1] = livein[b]

Behinds == \A b \in Blocks : liveout[b] = Behind(b)
Still ==
    /\ Behinds
    /\ \A b \in Blocks : \A i \in 1 .. Size(b) : Exact(b, i)
    /\ \A b \in Blocks : trace[b][1] = livein[b]

(* Every sweep has found something but for the last two: after one that    *)
(* has not, the next changes nothing and is the last.                      *)
Sweeping ==
    /\ sweeps <= Known + 2
    /\ pc = "walk" => sweeps # 0
    /\ pc = "sweep" => \/ sweeps <= Known
                       \/ sweeps <= Known + 1 /\ Still
                       \/ ~changed
    /\ pc = "walk" => \/ sweeps <= Known
                      \/ sweeps <= Known + 1 /\ Behinds
                      \/ Still /\ ~changed

GrowInv == Rising /\ Walked /\ Sweeping

LEMMA LiveMonotone ==
    ASSUME NEW insn, NEW A, NEW B, A \subseteq B
    PROVE  LiveBefore(insn, A) \subseteq LiveBefore(insn, B)
  BY DEF LiveBefore, IsDead

LEMMA FactsBound ==
    ASSUME NEW L \in LiveSets
    PROVE  /\ IsFiniteSet(LiveFacts(L)) /\ Cardinality(LiveFacts(L)) \in Nat
           /\ Cardinality(Locals) \in Nat
           /\ Cardinality(LiveFacts(L)) <= N * Cardinality(Locals)
<1>1. IsFiniteSet(Blocks) /\ Cardinality(Blocks) = N /\ IsFiniteSet(Locals)
  BY BlocksFinite, LocalsAssumption
<1>2. IsFiniteSet(Blocks \X Locals) /\ Cardinality(Blocks \X Locals) = N * Cardinality(Locals)
  BY <1>1, FS_Product
<1>3. LiveFacts(L) \subseteq Blocks \X Locals
  BY DEF LiveFacts
<1> QED BY <1>1, <1>2, <1>3, FS_Subset, FS_CardinalityType

LEMMA KnownBound ==
    /\ TypeOK => Known \in Nat
    /\ TypeOK' => Known' \in Nat
  BY FactsBound DEF Known, TypeOK

(* When a block learns of a local, there is a fact more. *)
LEMMA KnownGrows ==
    ASSUME TypeOK, TypeOK', NEW b \in Blocks, livein[b] \subseteq livein'[b],
           livein' = [livein EXCEPT ![b] = livein'[b]]
    PROVE  IF livein'[b] = livein[b] THEN livein' = livein /\ Known' = Known
           ELSE Known' >= Known + 1
<1>1. livein \in LiveSets /\ livein' \in LiveSets
  BY DEF TypeOK
<1>2. CASE livein'[b] = livein[b]
  <2>1. livein' = livein
    BY <1>1, <1>2 DEF LiveSets
  <2> QED BY <1>2, <2>1 DEF Known, LiveFacts
<1>3. CASE livein'[b] # livein[b]
  <2> DEFINE old == LiveFacts(livein)
             new == LiveFacts(livein')
  <2>1. old \subseteq new /\ old # new
    <3>1. PICK v \in livein'[b] : v \notin livein[b]
      BY <1>3
    <3>2. <<b, v>> \in new /\ <<b, v>> \notin old
      BY <1>1, <3>1 DEF LiveFacts, LiveSets
    <3>3. \A c \in Blocks : livein[c] \subseteq livein'[c]
      BY <1>1 DEF LiveSets
    <3> QED BY <3>2, <3>3 DEF LiveFacts
  <2>2. IsFiniteSet(new) /\ Cardinality(new) \in Nat /\ Cardinality(old) \in Nat
    BY <1>1, FactsBound
  <2> HIDE DEF old, new
  <2>3. Cardinality(old) <= Cardinality(new) /\ Cardinality(old) # Cardinality(new)
    BY <2>1, <2>2, FS_Subset
  <2>4. Cardinality(new) >= Cardinality(old) + 1
    BY <2>2, <2>3
  <2> QED BY <1>3, <2>4 DEF Known, old, new
<1> QED BY <1>2, <1>3

LEMMA GrowInit == Init => GrowInv
<1> SUFFICES ASSUME Init PROVE GrowInv
  OBVIOUS
<1>1. TypeOK /\ pc = "count" /\ sweeps = 0
  BY InitInv DEF IInv, Init
<1>2. \A b \in Blocks : livein[b] = {} /\ liveout[b] = {}
                        /\ \A i \in 1 .. Size(b) + 1 : trace[b][i] = {}
  BY DEF Init, Nothing, Everywhere
<1>3. Rising
  BY <1>1, <1>2, Indices DEF Rising, Init
<1>4. Known \in Nat
  BY <1>1, KnownBound
<1> QED BY <1>1, <1>3, <1>4 DEF GrowInv, Walked, Sweeping

LEMMA GrowPasses ==
    ASSUME GrowInv, UNCHANGED passes
    PROVE  GrowInv'
<1>1. UNCHANGED <<prog, list, pc, sweeps, changed, livein, liveout, trace, blk, pos, live>>
  BY DEF passes, fixpoint, walk
<1>2. /\ \A b : Size(b)' = Size(b) /\ Behind(b)' = Behind(b)
      /\ \A b, i : (Exact(b, i)' <=> Exact(b, i)) /\ (Passed(b, i)' <=> Passed(b, i))
      /\ Known' = Known
  BY <1>1 DEF Size, Behind, Targets, Exact, Passed, Known, LiveFacts
<1>3. Rising'
  <2>1. \A S : Everywhere(S)' = Everywhere(S)
    BY <1>2 DEF Everywhere
  <2> QED BY <1>1, <1>2, <2>1 DEF GrowInv, Rising, Nothing
<1>4. (Still' <=> Still) /\ (Behinds' <=> Behinds)
  BY <1>1, <1>2 DEF Still, Behinds
<1> QED BY <1>1, <1>2, <1>3, <1>4 DEF GrowInv, Walked, Sweeping

(* The steps behind the fixpoint leave its sets alone. *)
LEMMA GrowBehind ==
    ASSUME GrowInv, UNCHANGED <<prog, list, fixpoint>>, pc' \notin {"count", "sweep", "walk"}
    PROVE  GrowInv'
<1>1. UNCHANGED <<prog, list, sweeps, changed, livein, liveout, trace>>
  BY DEF fixpoint
<1>2. \A b : Size(b)' = Size(b) /\ Behind(b)' = Behind(b)
  BY <1>1 DEF Size, Behind, Targets
<1>3. Known' = Known
  BY <1>1 DEF Known, LiveFacts
<1>4. Rising'
  BY <1>1, <1>2 DEF GrowInv, Rising
<1> QED BY <1>1, <1>3, <1>4 DEF GrowInv, Walked, Sweeping

(* The listing changes only when the analysis begins again. *)
LEMMA GrowFresh ==
    ASSUME TypeOK, TypeOK', pc' \in {"count", "sweep"}, sweeps' = 0, UNCHANGED prog,
           trace' = Everywhere({}), livein' = Nothing, liveout' = Nothing
    PROVE  GrowInv'
<1>1. \A b : Size(b)' = Size(b) /\ Everywhere({})' = Everywhere({}) /\ Nothing' = Nothing
  BY DEF Size, Everywhere, Nothing
<1>2. \A b \in Blocks : livein'[b] = {} /\ liveout'[b] = {}
                        /\ \A i \in 1 .. Size(b) + 1 : trace'[b][i] = {}
  BY DEF Nothing, Everywhere
<1>3. Rising'
  BY <1>1, <1>2, Indices DEF Rising
<1>4. PICK k \in Nat : k = Known'
  BY KnownBound
<1>5. sweeps' <= Known' + 2 /\ sweeps' <= Known'
  <2>1. 0 <= k /\ 0 <= k + 2
    OBVIOUS
  <2>2. sweeps' <= k /\ sweeps' <= k + 2
    BY <2>1
  <2> QED BY <1>4, <2>2
<1>6. Sweeping'
  BY <1>5 DEF Sweeping
<1>7. Walked'
  BY DEF Walked
<1> QED BY <1>3, <1>6, <1>7 DEF GrowInv

LEMMA GrowSweep ==
    ASSUME TypeOK, TypeOK', GrowInv, Sweep
    PROVE  GrowInv'
<1>1. /\ pc = "sweep" /\ changed /\ sweeps' = sweeps + 1 /\ pc' = "walk"
      /\ liveout' = [b \in Blocks |-> Behind(b)]
      /\ changed' = (liveout' # liveout)
      /\ trace' = [b \in Blocks |-> [trace[b] EXCEPT ![Size(b) + 1] = liveout'[b]]]
      /\ blk' = N - 1 /\ pos' = Size(N - 1) /\ live' = liveout'[N - 1]
      /\ UNCHANGED <<prog, list, livein>>
  BY DEF Sweep, WalkFrom
<1>2. /\ \A b : Size(b)' = Size(b) /\ Behind(b)' = Behind(b)
      /\ Known' = Known /\ sweeps \in Nat
  BY <1>1 DEF Size, Behind, Targets, Known, LiveFacts, TypeOK
<1>0. Known \in Nat
  BY KnownBound
<1>3. /\ \A b \in Blocks : Size(b) \in Nat /\ trace[b] \in [1 .. Size(b) + 1 -> SUBSET Locals]
      /\ N - 1 \in Blocks
  <2>1. N - 1 \in Blocks
    BY Shapes DEF Blocks
  <2>2. \A b \in Blocks : Size(b) \in Nat
    BY Shapes
  <2>3. \A b \in Blocks : trace[b] \in [1 .. Size(b) + 1 -> SUBSET Locals]
    BY DEF TypeOK
  <2> QED BY <2>1, <2>2, <2>3
<1>4. \A b \in Blocks : liveout[b] \subseteq liveout'[b] /\ liveout'[b] = Behind(b)
  BY <1>1 DEF GrowInv, Rising
<1>5. \A b \in Blocks : /\ trace'[b][Size(b) + 1] = liveout'[b]
                        /\ \A i \in 1 .. Size(b) : trace'[b][i] = trace[b][i]
                        /\ \A i \in 1 .. Size(b) + 1 : trace[b][i] \subseteq trace'[b][i]
  BY <1>1, <1>3, <1>4 DEF GrowInv, Rising
<1>6. Rising'
  <2>1. ASSUME NEW b \in Blocks, NEW i \in 1 .. Size(b)
        PROVE  trace'[b][i] \subseteq LiveBefore(list[b][i], trace'[b][i + 1])
    <3>1. trace[b][i + 1] \subseteq trace'[b][i + 1]
      BY <1>5, Indices
    <3>2. LiveBefore(list[b][i], trace[b][i + 1]) \subseteq LiveBefore(list[b][i], trace'[b][i + 1])
      BY <3>1, LiveMonotone
    <3> QED BY <1>5, <3>2 DEF GrowInv, Rising
  <2>2. \A b \in Blocks : livein[b] \subseteq trace'[b][1]
    BY <1>5, Indices DEF GrowInv, Rising
  <2>3. live' = trace'[blk'][pos' + 1]
    BY <1>1, <1>3, <1>5
  <2> QED BY <1>1, <1>2, <1>4, <1>5, <2>1, <2>2, <2>3 DEF Rising
<1>7. Walked'
  <2> SUFFICES ASSUME NEW b \in Blocks
               PROVE  ~(b > blk') /\ \A i \in 1 .. Size(b) : ~Passed(b, i)'
    BY <1>1, <1>2 DEF Walked
  <2>1. b \in Nat /\ b <= N - 1 /\ N \in Nat
    BY Shapes DEF Blocks
  <2> QED BY <1>1, <1>3, <2>1 DEF Passed
<1>8. Behinds'
  BY <1>2, <1>4 DEF Behinds
<1>9. CASE sweeps <= Known
  <2>1. sweeps' # 0 /\ sweeps' <= Known' + 1 /\ sweeps' <= Known' + 2
    BY <1>0, <1>1, <1>2, <1>9
  <2>2. Sweeping'
    BY <1>1, <1>8, <2>1 DEF Sweeping
  <2> QED BY <1>6, <1>7, <2>2 DEF GrowInv
<1>10. CASE sweeps <= Known + 1 /\ Still
  <2>1. liveout' = liveout
    BY <1>1, <1>4, <1>10 DEF TypeOK, LiveSets, Still, Behinds
  <2>2. \A b \in Blocks : \A i \in 1 .. Size(b) + 1 : trace'[b][i] = trace[b][i]
    BY <1>1, <1>3, <2>1 DEF GrowInv, Rising
  <2>3. Still'
    BY <1>1, <1>2, <1>8, <1>10, <2>2, Indices DEF Still, Exact
  <2>4. sweeps' # 0 /\ sweeps' <= Known' + 2
    BY <1>0, <1>1, <1>2, <1>10
  <2>5. Sweeping'
    BY <1>1, <2>1, <2>3, <2>4 DEF Sweeping
  <2> QED BY <1>6, <1>7, <2>5 DEF GrowInv
<1> QED BY <1>1, <1>9, <1>10 DEF GrowInv, Sweeping

LEMMA GrowWalk ==
    ASSUME TypeOK, TypeOK', GrowInv, Walk
    PROVE  GrowInv'
<1>1. /\ pc = "walk" /\ pc' = "walk" /\ pos \in 1 .. Size(blk) /\ blk \in Blocks
      /\ live' = LiveBefore(list[blk][pos], trace[blk][pos + 1])
      /\ trace' = [trace EXCEPT ![blk][pos] = live']
      /\ pos' = pos - 1
      /\ UNCHANGED <<prog, list, sweeps, changed, livein, liveout, blk>>
  BY DEF Walk, TypeOK, GrowInv, Rising
<1>2. /\ \A b : Size(b)' = Size(b) /\ Behind(b)' = Behind(b)
      /\ Known' = Known
  BY <1>1 DEF Size, Behind, Targets, Known, LiveFacts
<1>3. /\ \A b \in Blocks : Size(b) \in Nat /\ trace[b] \in [1 .. Size(b) + 1 -> SUBSET Locals]
      /\ DOMAIN trace = Blocks
  BY Shapes DEF TypeOK
<1>4. /\ \A b \in Blocks : \A i \in 1 .. Size(b) + 1 : b # blk \/ i # pos => trace'[b][i] = trace[b][i]
      /\ trace'[blk][pos] = live'
  BY <1>1, <1>3
<1>5. trace[blk][pos] \subseteq live' /\ pos + 1 \in 1 .. Size(blk) + 1 /\ pos + 1 # pos
  BY <1>1, <1>3 DEF GrowInv, Rising
<1>6. \A b \in Blocks : \A i \in 1 .. Size(b) + 1 : trace[b][i] \subseteq trace'[b][i]
  BY <1>4, <1>5
<1>7. Rising'
  <2>1. ASSUME NEW b \in Blocks, NEW i \in 1 .. Size(b)
        PROVE  trace'[b][i] \subseteq LiveBefore(list[b][i], trace'[b][i + 1])
    <3>1. trace[b][i + 1] \subseteq trace'[b][i + 1]
      BY <1>6, Indices
    <3>2. LiveBefore(list[b][i], trace[b][i + 1]) \subseteq LiveBefore(list[b][i], trace'[b][i + 1])
      BY <3>1, LiveMonotone
    <3>3. CASE b = blk /\ i = pos
      BY <1>1, <1>4, <3>2, <3>3
    <3>4. CASE ~(b = blk /\ i = pos)
      <4>1. trace'[b][i] = trace[b][i]
        BY <1>4, <3>4, Indices
      <4> QED BY <3>2, <4>1 DEF GrowInv, Rising
    <3> QED BY <3>3, <3>4
  <2>2. \A b \in Blocks : /\ trace'[b][Size(b) + 1] = liveout[b]
                          /\ livein[b] \subseteq trace'[b][1]
    <3> TAKE b \in Blocks
    <3>1. Size(b) + 1 \in 1 .. Size(b) + 1 /\ 1 \in 1 .. Size(b) + 1 /\ (b = blk => Size(b) + 1 # pos)
      BY <1>1, <1>3
    <3> QED BY <1>4, <1>6, <3>1 DEF GrowInv, Rising
  <2>3. live' = trace'[blk'][pos' + 1]
    BY <1>1, <1>4
  <2> QED BY <1>1, <1>2, <2>1, <2>2, <2>3 DEF GrowInv, Rising
<1>8. Walked'
  <2>1. ASSUME NEW b \in Blocks, NEW i \in 1 .. Size(b), Passed(b, i)'
        PROVE  Exact(b, i)'
    <3>0. b \in Int /\ blk \in Int /\ i \in Int /\ pos \in Int /\ i + 1 \in 1 .. Size(b) + 1
          /\ i \in 1 .. Size(b) + 1
      BY <1>1, <1>3 DEF Blocks
    <3>1. CASE b = blk /\ i = pos
      BY <1>1, <1>4, <1>5, <3>1 DEF Exact
    <3>2. CASE ~(b = blk /\ i = pos)
      <4>1. Passed(b, i)
        BY <1>1, <2>1, <3>0, <3>2 DEF Passed
      <4>2. ~(b = blk /\ i + 1 = pos)
        BY <3>0, <4>1 DEF Passed
      <4> QED BY <1>1, <1>4, <3>0, <3>2, <4>1, <4>2 DEF GrowInv, Walked, Exact
    <3> QED BY <3>1, <3>2
  <2>2. ASSUME NEW b \in Blocks, b > blk PROVE trace'[b][1] = livein[b]
    <3>1. b # blk /\ 1 \in 1 .. Size(b) + 1
      BY <1>1, <1>3, <2>2 DEF Blocks
    <3> QED BY <1>1, <1>4, <2>2, <3>1 DEF GrowInv, Walked
  <2> QED BY <1>1, <1>2, <2>1, <2>2 DEF Walked
<1>9. Behinds' <=> Behinds
  BY <1>1, <1>2 DEF Behinds
<1>10. Still => Still'
  <2> SUFFICES ASSUME Still PROVE Still'
    OBVIOUS
  <2>1. \A b \in Blocks : \A i \in 1 .. Size(b) + 1 : trace'[b][i] = trace[b][i]
    BY <1>1, <1>4 DEF Still, Exact
  <2> QED BY <1>1, <1>2, <1>9, <2>1, Indices DEF Still, Exact
<1> QED BY <1>1, <1>2, <1>7, <1>8, <1>9, <1>10 DEF GrowInv, Sweeping

LEMMA GrowWalkDone ==
    ASSUME TypeOK, TypeOK', GrowInv, WalkDone
    PROVE  GrowInv'
<1>1. /\ pc = "walk" /\ pos = 0 /\ blk \in Blocks
      /\ livein' = [livein EXCEPT ![blk] = live]
      /\ changed' = (changed \/ live # livein[blk])
      /\ IF blk = 0 THEN pc' = "sweep"
         ELSE pc' = "walk" /\ blk' = blk - 1 /\ pos' = Size(blk - 1) /\ live' = liveout[blk - 1]
      /\ UNCHANGED <<prog, list, sweeps, liveout, trace>>
  BY DEF WalkDone, WalkFrom, Moved, TypeOK
<1>2. /\ \A b : Size(b)' = Size(b)
      /\ \A b \in Blocks : Size(b) \in Nat
      /\ (blk # 0 => blk - 1 \in Blocks) /\ blk \in Int /\ Blocks \subseteq Nat
      /\ livein \in LiveSets
  <2>1. \A b : Size(b)' = Size(b)
    BY <1>1 DEF Size
  <2>2. \A b \in Blocks : Size(b) \in Nat
    BY Shapes
  <2>3. (blk # 0 => blk - 1 \in Blocks) /\ blk \in Int /\ Blocks \subseteq Nat
    BY <1>1, Shapes DEF Blocks
  <2>4. livein \in LiveSets
    BY DEF TypeOK
  <2> QED BY <2>1, <2>2, <2>3, <2>4
<1>3. live = trace[blk][1] /\ livein[blk] \subseteq live
  BY <1>1 DEF GrowInv, Rising
<1>4. livein'[blk] = live /\ \A b \in Blocks \ {blk} : livein'[b] = livein[b]
  BY <1>1, <1>2 DEF LiveSets
<1>5. \A b \in Blocks : Behind(b) \subseteq Behind(b)' /\ (livein' = livein => Behind(b)' = Behind(b))
  <2> TAKE b \in Blocks
  <2>1. Targets(prog.succ, b)' = Targets(prog.succ, b) /\ Targets(prog.succ, b) \subseteq Blocks
    BY <1>1, Shapes DEF Targets
  <2> QED BY <1>3, <1>4, <2>1 DEF Behind
<1>6. Rising'
  <2>1. pc' = "walk" => live' = trace'[blk'][pos' + 1]
    BY <1>1, <1>2 DEF GrowInv, Rising
  <2>2. pc' # "count"
    BY <1>1
  <2> QED BY <1>1, <1>2, <1>3, <1>4, <1>5, <2>1, <2>2 DEF GrowInv, Rising
<1>7. \A b \in Blocks : \A i : Exact(b, i)' <=> Exact(b, i)
  BY <1>1 DEF Exact
<1>8. \A b \in Blocks : \A i \in 1 .. Size(b) : b >= blk => Exact(b, i)
  BY <1>1, <1>2 DEF GrowInv, Walked, Passed
<1>9. \A b \in Blocks : b >= blk => trace[b][1] = livein'[b]
  BY <1>1, <1>2, <1>3, <1>4 DEF GrowInv, Walked
<1>10. Walked'
  <2>1. CASE blk = 0
    BY <1>1, <1>2, <1>7, <1>8, <1>9, <2>1 DEF Walked
  <2>2. CASE blk # 0
    <3>1. \A b \in Blocks : \A i \in 1 .. Size(b) : Passed(b, i)' => b >= blk
      BY <1>1, <1>2, <2>2 DEF Passed
    <3>2. \A b \in Blocks : b > blk' => b >= blk
      BY <1>1, <1>2, <2>2
    <3> QED BY <1>1, <1>2, <1>7, <1>8, <1>9, <2>2, <3>1, <3>2 DEF Walked
  <2> QED BY <2>1, <2>2
<1>11. /\ Known \in Nat /\ Known' \in Nat /\ sweeps \in Nat
       /\ IF live = livein[blk] THEN livein' = livein /\ Known' = Known ELSE Known' >= Known + 1
  <2>1. Known \in Nat /\ Known' \in Nat
    BY KnownBound
  <2>2. sweeps \in Nat
    BY DEF TypeOK
  <2>3. livein' = [livein EXCEPT ![blk] = livein'[blk]] /\ livein[blk] \subseteq livein'[blk]
    BY <1>1, <1>3, <1>4
  <2>4. IF livein'[blk] = livein[blk] THEN livein' = livein /\ Known' = Known
        ELSE Known' >= Known + 1
    BY <1>1, <2>3, KnownGrows
  <2> QED BY <1>4, <2>1, <2>2, <2>4
<1>12. CASE live # livein[blk]
  <2>1. ~Still
    BY <1>1, <1>3, <1>12 DEF Still
  <2>2. sweeps <= Known + 1
    BY <1>1, <1>11, <2>1 DEF GrowInv, Sweeping
  <2>3. sweeps' <= Known' /\ sweeps' <= Known' + 2 /\ sweeps' # 0
    <3>1. PICK j \in Nat, k \in Nat : j = Known /\ k = Known' /\ k >= j + 1
      BY <1>11, <1>12
    <3>2. sweeps # 0 /\ sweeps' = sweeps /\ sweeps \in Nat
      BY <1>1, <1>11 DEF GrowInv, Sweeping
    <3>3. sweeps <= j + 1
      BY <2>2, <3>1
    <3>a. k >= j + 1 /\ sweeps \in Nat
      BY <3>1, <3>2
    <3>4. sweeps <= k /\ sweeps <= k + 2
      BY <3>a, <3>3
    <3> QED BY <3>1, <3>2, <3>4
  <2>4. Sweeping'
    BY <2>3 DEF Sweeping
  <2> QED BY <1>6, <1>10, <2>4 DEF GrowInv
<1>13. CASE live = livein[blk]
  <2>1. livein' = livein /\ Known' = Known /\ (changed' <=> changed)
    BY <1>1, <1>11, <1>13 DEF TypeOK
  <2>2. Behinds' <=> Behinds
    BY <1>1, <1>5, <2>1 DEF Behinds
  <2>3. Still' <=> Still
    BY <1>1, <1>2, <1>7, <2>1, <2>2 DEF Still
  <2>4. blk = 0 /\ Behinds => Still
    <3>1. blk = 0 => \A b \in Blocks : b >= blk
      BY <1>2
    <3>2. \A b \in Blocks : b >= blk => trace[b][1] = livein[b]
      BY <1>9, <2>1
    <3> QED BY <1>8, <3>1, <3>2 DEF Still
  <2>5. sweeps # 0 /\ sweeps <= Known + 2
    BY <1>1 DEF GrowInv, Sweeping
  <2>6. \/ sweeps <= Known
        \/ sweeps <= Known + 1 /\ Behinds
        \/ Still /\ ~changed
    BY <1>1 DEF GrowInv, Sweeping
  <2>7. Sweeping'
    BY <1>1, <2>1, <2>2, <2>3, <2>4, <2>5, <2>6 DEF Sweeping
  <2> QED BY <1>6, <1>10, <2>7 DEF GrowInv
<1> QED BY <1>12, <1>13

LEMMA GrowStep == TypeOK /\ GrowInv /\ [Next]_vars => GrowInv'
<1> SUFFICES ASSUME TypeOK, GrowInv, [Next]_vars PROVE GrowInv'
  OBVIOUS
<1>1. TypeOK'
  BY TypeStep
<1>2. CASE Start \/ Execute \/ Follow \/ UNCHANGED vars
  <2>1. UNCHANGED passes
    BY <1>2 DEF Start, Execute, Follow, vars, passes, fixpoint, walk
  <2> QED BY <2>1, GrowPasses
<1>3. CASE StartCollecting \/ Collect \/ CollectDone \/ Finish
  <2>1. UNCHANGED <<prog, list, fixpoint>> /\ pc' \notin {"count", "sweep", "walk"}
    BY <1>3 DEF StartCollecting, Collect, CollectDone, Finish
  <2> QED BY <2>1, GrowBehind
<1>4. CASE CountRound \/ CountDone \/ Strip
  <2>1. /\ pc' \in {"count", "sweep"} /\ sweeps' = 0 /\ UNCHANGED prog
        /\ trace' = Everywhere({}) /\ livein' = Nothing /\ liveout' = Nothing
    BY <1>4 DEF CountRound, CountDone, Strip, fixpoint, GrowInv, Rising
  <2> QED BY <1>1, <2>1, GrowFresh
<1> QED BY <1>1, <1>2, <1>3, <1>4, GrowSweep, GrowWalk, GrowWalkDone DEF Next

(* The fixpoint of liveness_dce ends by itself after a number of sweeps    *)
(* that grows with the blocks and the locals; MAX_SWEEPS does not.         *)
THEOREM EnoughSweepsAlways == Spec => []EnoughSweeps
<1>1. Init => TypeOK /\ GrowInv
  BY InitInv, GrowInit DEF IInv
<1>2. TypeOK /\ GrowInv /\ [Next]_vars => (TypeOK /\ GrowInv)'
  BY TypeStep, GrowStep
<1>3. TypeOK /\ GrowInv => EnoughSweeps
  <2> SUFFICES ASSUME TypeOK, GrowInv PROVE EnoughSweeps
    OBVIOUS
  <2>1. sweeps <= Known + 2 /\ sweeps \in Nat
    BY DEF GrowInv, Sweeping, TypeOK
  <2>2. N * Cardinality(Locals) \in Nat /\ Known \in Nat /\ Known <= N * Cardinality(Locals)
    BY FactsBound, NAssumption DEF Known, TypeOK
  <2> DEFINE c == N * Cardinality(Locals)
  <2> HIDE DEF c
  <2>3. sweeps <= c + 2
    BY <2>1, <2>2 DEF c
  <2> QED BY <2>3 DEF EnoughSweeps, c
<1> QED BY <1>1, <1>2, <1>3, PTL DEF Spec

-----------------------------------------------------------------------------
(***************************************************************************)
(* What feeds only itself is dead.                                         *)
(*                                                                         *)
(* S is a set of definitions and T holds the places at which the result of *)
(* one of them may still be there: T is closed along the paths, and what   *)
(* reads there is of S again.                                              *)
(***************************************************************************)
Kept == {p \in Places : Insn(p).op \in Removable /\ Insn(p).dst # NoLocal}

FeedsItself(S, T) ==
    /\ S \subseteq Kept
    /\ \A p \in S : <<p[1], p[2] + 1, Insn(p).dst>> \in T
    /\ \A b \in Blocks : \A i \in 1 .. Size(b) : \A v :
          <<b, i, v>> \in T => /\ list[b][i].dst # v => <<b, i + 1, v>> \in T
                               /\ v \in list[b][i].reads => <<b, i>> \in S
    /\ \A b \in Blocks : \A s \in Targets(prog.succ, b) : \A v :
          <<b, Size(b) + 1, v>> \in T => <<s, 1, v>> \in T

(* Nothing the analysis takes for live comes from S ... *)
Clear(T) ==
    /\ \A b \in Blocks : /\ \A v \in livein[b] : <<b, 1, v>> \notin T
                         /\ \A v \in liveout[b] : <<b, Size(b) + 1, v>> \notin T
    /\ pc \in {"walk", "collect"} => \A v \in live : <<blk, pos + 1, v>> \notin T

(* ... and so what the last walk visits and keeps is not of S. *)
Visited(b, i) == pc \in {"strip", "done"} \/ (pc = "collect" /\ Passed(b, i))
NoneKept(S) ==
    \A b \in Blocks : \A i \in 1 .. Size(b) :
        Visited(b, i) /\ <<b, i>> \notin dead => <<b, i>> \notin S

FeedInv ==
    /\ \A S, T : FeedsItself(S, T) => Clear(T) /\ NoneKept(S)
    /\ pc = "count" => livein = Nothing /\ liveout = Nothing
    /\ pc = "done" => dead = {}

LEMMA WalkClear ==
    ASSUME NEW S, NEW T, FeedsItself(S, T), NEW b \in Blocks, NEW i \in 1 .. Size(b),
           NEW after, \A v \in after : <<b, i + 1, v>> \notin T
    PROVE  /\ \A v \in LiveBefore(list[b][i], after) : <<b, i, v>> \notin T
           /\ ~IsDead(list[b][i], after) => <<b, i>> \notin S
<1>1. ~IsDead(list[b][i], after) => <<b, i>> \notin S
  <2> SUFFICES ASSUME <<b, i>> \in S PROVE IsDead(list[b][i], after)
    OBVIOUS
  <2>1. list[b][i].op \in Removable /\ list[b][i].dst # NoLocal
    BY DEF FeedsItself, Kept, Insn
  <2>2. <<b, i + 1, list[b][i].dst>> \in T
    BY DEF FeedsItself, Insn
  <2> QED BY <2>1, <2>2 DEF IsDead
<1>2. ASSUME NEW v \in LiveBefore(list[b][i], after), <<b, i, v>> \in T PROVE FALSE
  <2>1. /\ list[b][i].dst # v => <<b, i + 1, v>> \in T
        /\ v \in list[b][i].reads => <<b, i>> \in S
    BY <1>2 DEF FeedsItself
  <2> QED BY <1>1, <1>2, <2>1 DEF LiveBefore, IsDead
<1> QED BY <1>1, <1>2

LEMMA FeedInit == Init => FeedInv
  BY DEF Init, FeedInv, Clear, NoneKept, Visited, Nothing

(* A listing that stays has the same sets that feed only themselves. *)
LEMMA SameFeeds ==
    ASSUME UNCHANGED <<prog, list>>
    PROVE  /\ \A b : Size(b)' = Size(b)
           /\ \A S, T : FeedsItself(S, T)' <=> FeedsItself(S, T)
<1>1. /\ \A b : Size(b)' = Size(b) /\ Targets(prog.succ, b)' = Targets(prog.succ, b)
      /\ \A p : Insn(p)' = Insn(p)
  BY DEF Size, Targets, Insn
<1>2. Places' = Places
  BY <1>1 DEF Places
<1>3. Kept' = Kept
  BY <1>1, <1>2 DEF Kept
<1> QED BY <1>1, <1>3 DEF FeedsItself

LEMMA FeedStep == TypeOK /\ FeedInv /\ [Next]_vars => FeedInv'
<1> SUFFICES ASSUME TypeOK, FeedInv, [Next]_vars PROVE FeedInv'
  OBVIOUS
<1>0. /\ \A b \in Blocks : Size(b) \in Nat /\ b \in Nat
      /\ blk \in Blocks /\ N - 1 \in Blocks /\ (blk # 0 => blk - 1 \in Blocks)
      /\ \A b \in Blocks : b <= N - 1
      /\ \A b \in Blocks : Targets(prog.succ, b) \subseteq Blocks
      /\ livein \in LiveSets /\ pos \in 0 .. Size(blk)
  BY Shapes DEF Blocks, TypeOK
<1>1. CASE CountRound \/ CountDone \/ Strip
  <2>1. pc' \in {"count", "sweep"} /\ livein' = Nothing /\ liveout' = Nothing
    BY <1>1 DEF CountRound, CountDone, Strip, fixpoint, FeedInv
  <2>2. \A b \in Blocks : livein'[b] = {} /\ liveout'[b] = {}
    BY <2>1 DEF Nothing
  <2> QED BY <2>1, <2>2 DEF FeedInv, Clear, NoneKept, Visited, Nothing
<1>2. CASE Sweep
  <2>1. /\ pc' = "walk" /\ liveout' = [b \in Blocks |-> Behind(b)]
        /\ blk' = N - 1 /\ pos' = Size(N - 1) /\ live' = liveout'[N - 1]
        /\ UNCHANGED <<prog, list, livein>>
    BY <1>2 DEF Sweep, WalkFrom
  <2> SUFFICES ASSUME NEW S, NEW T, FeedsItself(S, T) PROVE Clear(T)' /\ NoneKept(S)'
    BY <2>1, SameFeeds DEF FeedInv
  <2>2. \A b \in Blocks : \A v \in livein[b] : <<b, 1, v>> \notin T
    BY DEF FeedInv, Clear
  <2>3. ASSUME NEW b \in Blocks, NEW v \in liveout'[b] PROVE <<b, Size(b) + 1, v>> \notin T
    <3>1. PICK s \in Targets(prog.succ, b) : v \in livein[s]
      BY <2>1, <2>3 DEF Behind
    <3> QED BY <1>0, <2>2, <3>1 DEF FeedsItself
  <2> QED BY <1>0, <2>1, <2>2, <2>3, SameFeeds DEF Clear, NoneKept, Visited
<1>3. CASE Walk
  <2>1. /\ pc = "walk" /\ pc' = "walk" /\ pos \in 1 .. Size(blk) /\ pos' + 1 = pos
        /\ live' = LiveBefore(list[blk][pos], live)
        /\ UNCHANGED <<prog, list, livein, liveout, blk>>
    BY <1>0, <1>3 DEF Walk
  <2> SUFFICES ASSUME NEW S, NEW T, FeedsItself(S, T) PROVE Clear(T)' /\ NoneKept(S)'
    BY <2>1, SameFeeds DEF FeedInv
  <2>2. Clear(T)
    BY DEF FeedInv
  <2>3. \A v \in live' : <<blk, pos, v>> \notin T
    BY <1>0, <2>1, <2>2, WalkClear DEF Clear
  <2> QED BY <2>1, <2>2, <2>3, SameFeeds DEF Clear, NoneKept, Visited
<1>4. CASE WalkDone
  <2>1. /\ pc = "walk" /\ pos = 0 /\ pc' \in {"walk", "sweep"}
        /\ livein' = [livein EXCEPT ![blk] = live]
        /\ pc' = "walk" => /\ blk # 0 /\ blk' = blk - 1
                           /\ pos' = Size(blk - 1) /\ live' = liveout[blk - 1]
        /\ UNCHANGED <<prog, list, liveout>>
    BY <1>4 DEF WalkDone, WalkFrom
  <2> SUFFICES ASSUME NEW S, NEW T, FeedsItself(S, T) PROVE Clear(T)' /\ NoneKept(S)'
    BY <2>1, SameFeeds DEF FeedInv
  <2>2. Clear(T)
    BY DEF FeedInv
  <2>3. \A b \in Blocks : \A v \in livein'[b] : <<b, 1, v>> \notin T
    <3>1. livein'[blk] = live /\ \A b \in Blocks \ {blk} : livein'[b] = livein[b]
      BY <1>0, <2>1 DEF LiveSets
    <3>2. pos + 1 = 1 /\ \A v \in live : <<blk, pos + 1, v>> \notin T
      BY <2>1, <2>2 DEF Clear
    <3> QED BY <2>2, <3>1, <3>2 DEF Clear
  <2> QED BY <1>0, <2>1, <2>2, <2>3, SameFeeds DEF Clear, NoneKept, Visited
<1>5. CASE StartCollecting
  <2>1. /\ pc' = "collect" /\ blk' = N - 1 /\ pos' = Size(N - 1) /\ live' = liveout[N - 1]
        /\ UNCHANGED <<prog, list, livein, liveout>>
    BY <1>5 DEF StartCollecting, WalkFrom, fixpoint
  <2> SUFFICES ASSUME NEW S, NEW T, FeedsItself(S, T) PROVE Clear(T)' /\ NoneKept(S)'
    BY <2>1, SameFeeds DEF FeedInv
  <2>2. Clear(T)
    BY DEF FeedInv
  <2>3. NoneKept(S)'
    <3>1. \A b \in Blocks : \A i \in 1 .. Size(b) : ~Visited(b, i)'
      BY <1>0, <2>1 DEF Visited, Passed
    <3> QED BY <2>1, <3>1, SameFeeds DEF NoneKept
  <2> QED BY <1>0, <2>1, <2>2, <2>3, SameFeeds DEF Clear
<1>6. CASE Collect
  <2>1. /\ pc = "collect" /\ pc' = "collect" /\ pos \in 1 .. Size(blk)
        /\ pos' = pos - 1 /\ pos' + 1 = pos
        /\ live' = LiveBefore(list[blk][pos], live)
        /\ dead' = IF IsDead(list[blk][pos], live) THEN dead \cup {<<blk, pos>>} ELSE dead
        /\ UNCHANGED <<prog, list, livein, liveout, blk>>
    BY <1>0, <1>6 DEF Collect, fixpoint
  <2> SUFFICES ASSUME NEW S, NEW T, FeedsItself(S, T) PROVE Clear(T)' /\ NoneKept(S)'
    BY <2>1, SameFeeds DEF FeedInv
  <2>2. Clear(T) /\ NoneKept(S)
    BY DEF FeedInv
  <2>3. \A v \in live : <<blk, pos + 1, v>> \notin T
    BY <2>1, <2>2 DEF Clear
  <2>4. /\ \A v \in live' : <<blk, pos, v>> \notin T
        /\ ~IsDead(list[blk][pos], live) => <<blk, pos>> \notin S
    BY <1>0, <2>1, <2>3, WalkClear
  <2>5. NoneKept(S)'
    <3> SUFFICES ASSUME NEW b \in Blocks, NEW i \in 1 .. Size(b), Visited(b, i)',
                        <<b, i>> \notin dead'
                 PROVE  <<b, i>> \notin S
      BY SameFeeds, <2>1 DEF NoneKept
    <3>1. CASE b = blk /\ i = pos
      BY <2>1, <2>4, <3>1
    <3>2. CASE ~(b = blk /\ i = pos)
      <4>1. Passed(b, i)' /\ i \in Int /\ pos \in Int /\ pos' = pos - 1
        BY <1>0, <2>1 DEF Visited
      <4>2. Passed(b, i)
        BY <1>0, <2>1, <3>2, <4>1 DEF Passed
      <4> QED BY <2>1, <2>2, <4>2 DEF NoneKept, Visited
    <3> QED BY <3>1, <3>2
  <2> QED BY <2>1, <2>2, <2>4, <2>5, SameFeeds DEF Clear
<1>7. CASE CollectDone
  <2>1. /\ pc = "collect" /\ pos = 0
        /\ \/ blk = 0 /\ pc' = "strip"
           \/ /\ blk # 0 /\ pc' = "collect"
              /\ blk' = blk - 1 /\ pos' = Size(blk - 1) /\ live' = liveout[blk - 1]
        /\ UNCHANGED <<prog, list, livein, liveout, dead>>
    BY <1>7 DEF CollectDone, WalkFrom, fixpoint
  <2> SUFFICES ASSUME NEW S, NEW T, FeedsItself(S, T) PROVE Clear(T)' /\ NoneKept(S)'
    BY <2>1, SameFeeds DEF FeedInv
  <2>2. Clear(T) /\ NoneKept(S)
    BY DEF FeedInv
  <2>3. \A b \in Blocks : \A i \in 1 .. Size(b) : Visited(b, i)' => Visited(b, i)
    BY <1>0, <2>1 DEF Visited, Passed
  <2>4. NoneKept(S)'
    BY <2>1, <2>2, <2>3, SameFeeds DEF NoneKept
  <2> QED BY <1>0, <2>1, <2>2, <2>4, SameFeeds DEF Clear
<1>8. CASE Finish
  <2>1. pc = "strip" /\ dead = {} /\ pc' = "done" /\ UNCHANGED <<prog, list, livein, liveout, dead>>
    BY <1>8 DEF Finish, fixpoint
  <2> SUFFICES ASSUME NEW S, NEW T, FeedsItself(S, T) PROVE Clear(T)' /\ NoneKept(S)'
    BY <2>1, SameFeeds DEF FeedInv
  <2> QED BY <2>1, SameFeeds DEF FeedInv, Clear, NoneKept, Visited
<1>9. CASE Start \/ Execute \/ Follow \/ UNCHANGED vars
  <2>1. UNCHANGED <<prog, list, pc, livein, liveout, blk, pos, live, dead>>
    BY <1>9 DEF Start, Execute, Follow, vars, passes, fixpoint, walk
  <2> QED BY <2>1, SameFeeds DEF FeedInv, Clear, NoneKept, Visited, Passed, Nothing
<1> QED BY <1>1, <1>2, <1>3, <1>4, <1>5, <1>6, <1>7, <1>8, <1>9 DEF Next

(***************************************************************************)
(* The places a result reaches, as Feeds has them.                         *)
(***************************************************************************)
Writes(v, b, first, last) == \E j \in first .. last : list[b][j].dst = v
Shut(v) == {b \in Blocks : Writes(v, b, 1, Size(b))}
Entered(p) ==
    UNION {{s} \cup UNION {Targets(prog.succ, r) : r \in Reach(prog.succ, s, Shut(Insn(p).dst))} :
              s \in Targets(prog.succ, p[1])}

Comes(p, b, i) ==
    LET v == Insn(p).dst IN
    \/ p[1] = b /\ p[2] < i /\ ~Writes(v, b, p[2] + 1, i - 1)
    \/ ~Writes(v, p[1], p[2] + 1, Size(p[1])) /\ ~Writes(v, b, 1, i - 1) /\ b \in Entered(p)

LEMMA FeedsComes ==
    ASSUME NEW p, NEW q
    PROVE  Feeds(p, q) <=> Insn(p).dst \in Insn(q).reads /\ Comes(p, q[1], q[2])
  BY DEF Feeds, Comes, Writes, Shut, Entered

LEMMA EnteredOnwards ==
    ASSUME TypeOK, NEW p \in Places
    PROVE  /\ Entered(p) \subseteq Blocks
           /\ Targets(prog.succ, p[1]) \subseteq Entered(p)
           /\ \A b \in Entered(p) \ Shut(Insn(p).dst) : Targets(prog.succ, b) \subseteq Entered(p)
<1> DEFINE shut == Shut(Insn(p).dst)
<1>1. prog.succ \in Graphs /\ p[1] \in Blocks
  BY DEF TypeOK, Programs, Graphs, Places
<1>2. \A b \in Blocks : Targets(prog.succ, b) \subseteq Blocks
  BY Shapes
<1>3. \A s \in Blocks :
          /\ Reach(prog.succ, s, shut) \subseteq Blocks
          /\ {s} \ shut \subseteq Reach(prog.succ, s, shut)
          /\ \A b \in Reach(prog.succ, s, shut) :
                Targets(prog.succ, b) \ shut \subseteq Reach(prog.succ, s, shut)
  BY <1>1, ReachIsLeast
<1>4. \A b : b \in Entered(p) <=>
          \E s \in Targets(prog.succ, p[1]) :
              b = s \/ \E r \in Reach(prog.succ, s, shut) : b \in Targets(prog.succ, r)
  BY DEF Entered
<1> HIDE DEF shut
<1>5. ASSUME NEW b \in Entered(p), b \notin shut, NEW t \in Targets(prog.succ, b)
      PROVE  t \in Entered(p)
  <2>1. PICK s \in Targets(prog.succ, p[1]) :
            b = s \/ \E r \in Reach(prog.succ, s, shut) : b \in Targets(prog.succ, r)
    BY <1>4
  <2>2. b \in Reach(prog.succ, s, shut)
    BY <1>1, <1>2, <1>3, <1>5, <2>1
  <2> QED BY <1>4, <2>2
<1>6. Entered(p) \subseteq Blocks
  BY <1>1, <1>2, <1>3, <1>4
<1> QED BY <1>4, <1>5, <1>6 DEF shut

(* A set of definitions whose readers are all of it feeds only itself. *)
LEMMA ClosedFeedsItself ==
    ASSUME TypeOK, NEW S \in SUBSET Kept,
           \A p \in S : \A q \in Places : Feeds(p, q) => q \in S
    PROVE  \E T : FeedsItself(S, T)
<1> DEFINE T == {t \in Blocks \X Nat \X Locals :
                    \E p \in S : t[3] = Insn(p).dst /\ Comes(p, t[1], t[2])}
<1>1. ASSUME NEW p \in S
      PROVE  /\ p \in Places /\ p[1] \in Blocks /\ p[2] \in 1 .. Size(p[1]) /\ p = <<p[1], p[2]>>
             /\ Size(p[1]) \in Nat /\ Insn(p).dst \in Locals
  <2>1. p \in Places /\ Insn(p).dst # NoLocal
    BY DEF Kept
  <2>2. p[1] \in Blocks /\ p[2] \in 1 .. Size(p[1]) /\ p = <<p[1], p[2]>>
    BY <2>1 DEF Places
  <2>3. Insn(p) \in Insns
    BY <2>2 DEF TypeOK, Insn
  <2>4. Insn(p).dst \in Locals
    BY <2>1, <2>3 DEF Insns
  <2> QED BY <2>1, <2>2, <2>4, Shapes
<1>2. \A b \in Blocks : Size(b) \in Nat /\ Targets(prog.succ, b) \subseteq Blocks
  BY Shapes
<1>3. \A b, i, v : <<b, i, v>> \in T <=>
          /\ b \in Blocks /\ i \in Nat /\ v \in Locals
          /\ \E p \in S : v = Insn(p).dst /\ Comes(p, b, i)
  OBVIOUS
<1> HIDE DEF T
<1>4. ASSUME NEW p \in S PROVE <<p[1], p[2] + 1, Insn(p).dst>> \in T
  <2>1. p[2] + 1 \in Nat /\ p[2] < p[2] + 1
    BY <1>1
  <2>2. \A j \in p[2] + 1 .. (p[2] + 1) - 1 : FALSE
    BY <1>1
  <2>3. Comes(p, p[1], p[2] + 1)
    BY <2>1, <2>2 DEF Comes, Writes
  <2> QED BY <1>1, <1>3, <2>1, <2>3
<1>5. ASSUME NEW b \in Blocks, NEW i \in 1 .. Size(b), NEW v, <<b, i, v>> \in T
      PROVE  /\ list[b][i].dst # v => <<b, i + 1, v>> \in T
             /\ v \in list[b][i].reads => <<b, i>> \in S
  <2>1. PICK p \in S : v = Insn(p).dst /\ Comes(p, b, i)
    BY <1>3, <1>5
  <2>2. i \in Nat /\ i + 1 \in Nat /\ p[2] \in Nat /\ (p[2] < i => p[2] < i + 1)
    BY <1>1, <1>2
  <2>3. ASSUME list[b][i].dst # v PROVE Comes(p, b, i + 1)
    <3>1. ASSUME NEW first \in Nat, ~Writes(v, b, first, i - 1) PROVE ~Writes(v, b, first, (i + 1) - 1)
      <4>1. \A j \in first .. (i + 1) - 1 : j = i \/ j \in first .. i - 1
        BY <2>2
      <4> QED BY <2>3, <3>1, <4>1 DEF Writes
    <3>2. p[2] + 1 \in Nat /\ 1 \in Nat
      BY <2>2
    <3> QED BY <2>1, <2>2, <3>1, <3>2 DEF Comes
  <2>4. ASSUME v \in list[b][i].reads PROVE <<b, i>> \in S
    <3>1. <<b, i>> \in Places /\ Insn(<<b, i>>) = list[b][i]
      BY DEF Places, Insn
    <3>2. Feeds(p, <<b, i>>)
      BY <2>1, <2>4, <3>1, FeedsComes
    <3> QED BY <3>1, <3>2
  <2> QED BY <1>3, <1>5, <2>1, <2>2, <2>3, <2>4
<1>6. ASSUME NEW b \in Blocks, NEW s \in Targets(prog.succ, b), NEW v, <<b, Size(b) + 1, v>> \in T
      PROVE  <<s, 1, v>> \in T
  <2>1. PICK p \in S : v = Insn(p).dst /\ Comes(p, b, Size(b) + 1)
    BY <1>3, <1>6
  <2>2. Size(b) \in Nat /\ (Size(b) + 1) - 1 = Size(b) /\ s \in Blocks
    BY <1>2
  <2>3. ~Writes(v, s, 1, 1 - 1)
    BY DEF Writes
  <2>4. p \in Places
    BY <1>1
  <2>5. CASE p[1] = b /\ ~Writes(v, b, p[2] + 1, Size(b))
    <3>1. s \in Entered(p)
      BY <2>4, <2>5, EnteredOnwards
    <3>2. Comes(p, s, 1)
      BY <2>1, <2>3, <2>5, <3>1 DEF Comes
    <3> QED BY <1>3, <1>6, <2>1, <2>2, <3>2
  <2>6. CASE /\ ~Writes(v, p[1], p[2] + 1, Size(p[1]))
             /\ ~Writes(v, b, 1, Size(b)) /\ b \in Entered(p)
    <3>1. s \in Entered(p)
      BY <2>1, <2>4, <2>6, EnteredOnwards DEF Shut
    <3>2. Comes(p, s, 1)
      BY <2>1, <2>3, <2>6, <3>1 DEF Comes
    <3> QED BY <1>3, <1>6, <2>1, <2>2, <3>2
  <2> QED BY <2>1, <2>2, <2>5, <2>6 DEF Comes
<1>7. FeedsItself(S, T)
  BY <1>4, <1>5, <1>6 DEF FeedsItself
<1> QED BY <1>7

(* passes.rs:487: the two halves of a cycle vanish, and so does whatever   *)
(* else feeds nothing but itself, in any listing and whether or not the    *)
(* fixpoint was cut off.                                                   *)
THEOREM NothingDeadIsEverLeft == Spec => []NothingDeadIsLeft
<1>1. Init => TypeOK /\ FeedInv
  BY InitInv, FeedInit DEF IInv
<1>2. TypeOK /\ FeedInv /\ [Next]_vars => (TypeOK /\ FeedInv)'
  BY TypeStep, FeedStep
<1>3. TypeOK /\ FeedInv => NothingDeadIsLeft
  <2> DEFINE edges == {e \in Kept \X Places : Feeds(e[1], e[2])}
  <2> SUFFICES ASSUME TypeOK, FeedInv, pc = "done", NEW S \in (SUBSET Kept) \ {{}},
                      \A e \in edges : ~(e[1] \in S /\ e[2] \notin S)
               PROVE  FALSE
    BY DEF NothingDeadIsLeft, Kept
  <2>1. ASSUME NEW p \in S, NEW q \in Places, Feeds(p, q) PROVE q \in S
    <3>1. <<p, q>> \in edges
      BY <2>1
    <3> QED BY <3>1
  <2>2. PICK T : FeedsItself(S, T)
    BY <2>1, ClosedFeedsItself
  <2>3. NoneKept(S) /\ dead = {}
    BY <2>2 DEF FeedInv
  <2>4. PICK p \in S : TRUE
    OBVIOUS
  <2>5. p \in Places
    BY DEF Kept
  <2>6. p[1] \in Blocks /\ p[2] \in 1 .. Size(p[1]) /\ p = <<p[1], p[2]>>
    BY <2>5 DEF Places
  <2> QED BY <2>3, <2>6 DEF NoneKept, Visited
<1> QED BY <1>1, <1>2, <1>3, PTL DEF Spec
=============================================================================
