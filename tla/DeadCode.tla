------------------------------ MODULE DeadCode ------------------------------
(***************************************************************************)
(* What removes dead definitions from the listing that phi elimination     *)
(* leaves (recovery/passes.rs): rounds of dead_code_elimination, which     *)
(* counts how often a local is mentioned, then liveness_dce, backward      *)
(* liveness over the blocks with one more walk that collects what is dead, *)
(* and again from the start until nothing is.                              *)
(*                                                                         *)
(* A walk goes over the instructions one by one, as the loop does.  When   *)
(* the passes are done the original listing and the thinned one are run    *)
(* side by side along one path, which tags one value: one a local is       *)
(* entered with, or the result of one instruction.                         *)
(***************************************************************************)
EXTENDS Flow

CONSTANTS
    Locals,
    NoLocal,
    Listings,    \* what a run starts from: records of code and succ
    MaxRounds,   \* MAX_DCE_ROUNDS
    MaxSweeps    \* the bound of the inner fixpoint of liveness_dce

(* An instruction writes at most one local.  A copy and a computation can  *)
(* go when nobody reads the result, a call or a branch cannot.             *)
Removable == {"compute", "copy"}
Ops == Removable \cup {"nop", "call", "branch"}
Insns == [op : Ops, dst : Locals \cup {NoLocal}, reads : SUBSET Locals]
Nop == [op |-> "nop", dst |-> NoLocal, reads |-> {}]

Programs == [code : [Blocks -> Seq(Insns)], succ : [Blocks -> Seq(Blocks)]]

ASSUME ListingsAssumption == Listings \subseteq Programs
ASSUME LocalsAssumption == NoLocal \notin Locals /\ IsFiniteSet(Locals)
ASSUME BoundsAssumption == MaxRounds \in Nat /\ MaxSweeps \in Nat

VARIABLES
    prog,        \* the listing as it came
    list,        \* the listing as it is now
    pc,          \* the pass, and where it is
    rounds,      \* of dead_code_elimination
    sweeps,      \* of the fixpoint under way
    changed,     \* whether the sweep changed a set
    livein, liveout,
    blk, pos,    \* the walk: it has still to visit pos instructions of blk
    live,        \* what is live behind them
    dead,        \* what the last walk has collected
    capped,      \* a fixpoint was cut off by MaxSweeps
    trace,       \* history: what the walk had live in front of every instruction
    bound,       \* history: the last such sets by which something was removed
    at, next,    \* the run: its block, NoBlock before it, and its next instruction
    tagged,      \* whether the path has chosen its value
    holds,       \* locals with the value, in the original listing
    carries      \* and in the thinned one

fixpoint == <<sweeps, changed, livein, liveout, trace>>
walk == <<blk, pos, live>>
run == <<at, next, tagged, holds, carries>>
vars == <<prog, list, pc, rounds, sweeps, changed, livein, liveout, trace, blk, pos, live,
          dead, capped, bound, at, next, tagged, holds, carries>>

Size(b) == Len(prog.code[b])
Places == UNION {{b} \X (1 .. Size(b)) : b \in Blocks}
Insn(p) == list[p[1]][p[2]]
Without(S) ==
    [b \in Blocks |-> [i \in 1 .. Size(b) |-> IF <<b, i>> \in S THEN Nop ELSE list[b][i]]]

(* The same set in front of every instruction and behind the last. *)
Everywhere(S) == [b \in Blocks |-> [i \in 1 .. Size(b) + 1 |-> S]]
ReadIn(code) == {v \in Locals : \E p \in Places : v \in code[p[1]][p[2]].reads}
Nothing == [b \in Blocks |-> {}]

Init ==
    /\ prog \in Listings /\ list = prog.code
    /\ pc = "count" /\ rounds = 0
    /\ sweeps = 0 /\ changed = TRUE /\ livein = Nothing /\ liveout = Nothing
    /\ trace = Everywhere({}) /\ bound = Everywhere(ReadIn(prog.code))
    /\ blk = 0 /\ pos = 0 /\ live = {} /\ dead = {} /\ capped = FALSE
    /\ at = NoBlock /\ next = 0 /\ tagged = FALSE /\ holds = {} /\ carries = {}

-----------------------------------------------------------------------------
(***************************************************************************)
(* dead_code_elimination.  An instruction's own mention of its destination *)
(* is not counted; a second definition or a read of itself is.             *)
(***************************************************************************)
Mentions(insn, v) == insn.dst = v \/ v \in insn.reads
Unread(p) ==
    /\ Insn(p).op \in Removable /\ Insn(p).dst # NoLocal
    /\ Insn(p).dst \notin Insn(p).reads
    /\ \A q \in Places \ {p} : ~Mentions(Insn(q), Insn(p).dst)

UnreadPlaces == {p \in Places : Unread(p)}

OneRoundMore == rounds <= MaxRounds                                 \* mutant
RoundsLeft == rounds < MaxRounds

CountRound ==
    /\ pc = "count"
    /\ RoundsLeft /\ UnreadPlaces # {}
    /\ list' = Without(UnreadPlaces)
    /\ rounds' = rounds + 1
    /\ bound' = Everywhere(ReadIn(list'))
    /\ UNCHANGED <<prog, pc, fixpoint, walk, dead, capped, run>>

CountDone ==
    /\ pc = "count"
    /\ ~RoundsLeft \/ UnreadPlaces = {}
    /\ pc' = "sweep"
    /\ UNCHANGED <<prog, list, rounds, fixpoint, walk, dead, capped, bound, run>>

-----------------------------------------------------------------------------
(***************************************************************************)
(* liveness_dce.                                                           *)
(***************************************************************************)
IsDead(insn, after) ==
    insn.op \in Removable /\ insn.dst # NoLocal /\ insn.dst \notin after

(* A dead definition contributes nothing; one that is kept adds what it    *)
(* reads and then ends the life of what it writes.                         *)
DeadReadsToo(insn, after) == (after \cup insn.reads) \ {insn.dst}   \* mutant
LiveBefore(insn, after) ==
    IF IsDead(insn, after) THEN after ELSE (after \cup insn.reads) \ {insn.dst}

FirstSuccessor(b) == IF prog.succ[b] = << >> THEN {} ELSE livein[prog.succ[b][1]] \* mutant
Behind(b) == UNION {livein[s] : s \in Targets(prog.succ, b)}

WalkFrom(b, after) == blk' = b /\ pos' = Size(b) /\ live' = after

(* A sweep: the sets behind the blocks, then the blocks from the last. *)
Sweep ==
    /\ pc = "sweep"
    /\ changed /\ sweeps < MaxSweeps
    /\ liveout' = [b \in Blocks |-> Behind(b)]
    /\ changed' = (liveout' # liveout)
    /\ sweeps' = sweeps + 1
    /\ trace' = [b \in Blocks |-> [trace[b] EXCEPT ![Size(b) + 1] = liveout'[b]]]
    /\ pc' = "walk" /\ WalkFrom(N - 1, liveout'[N - 1])
    /\ UNCHANGED <<prog, list, rounds, livein, dead, capped, bound, run>>

Walk ==
    /\ pc = "walk" /\ pos > 0
    /\ live' = LiveBefore(list[blk][pos], live)
    /\ trace' = [trace EXCEPT ![blk][pos] = live']
    /\ pos' = pos - 1
    /\ UNCHANGED <<prog, list, pc, rounds, sweeps, changed, livein, liveout, blk, dead,
                   capped, bound, run>>

AlwaysChanged == TRUE                                               \* mutant
Moved == live # livein[blk]

WalkDone ==
    /\ pc = "walk" /\ pos = 0
    /\ livein' = [livein EXCEPT ![blk] = live]
    /\ changed' = (changed \/ Moved)
    /\ IF blk = 0 THEN pc' = "sweep" /\ UNCHANGED walk
       ELSE UNCHANGED pc /\ WalkFrom(blk - 1, liveout[blk - 1])
    /\ UNCHANGED <<prog, list, rounds, sweeps, liveout, trace, dead, capped, bound, run>>

(* "liveness converged: collect dead defs in one more backward walk" *)
StartCollecting ==
    /\ pc = "sweep"
    /\ ~changed \/ sweeps = MaxSweeps
    /\ capped' = (capped \/ changed)
    /\ dead' = {}
    /\ pc' = "collect" /\ WalkFrom(N - 1, liveout[N - 1])
    /\ UNCHANGED <<prog, list, rounds, fixpoint, bound, run>>

Collect ==
    /\ pc = "collect" /\ pos > 0
    /\ dead' = IF IsDead(list[blk][pos], live) THEN dead \cup {<<blk, pos>>} ELSE dead
    /\ live' = LiveBefore(list[blk][pos], live)
    /\ pos' = pos - 1
    /\ UNCHANGED <<prog, list, pc, rounds, fixpoint, blk, capped, bound, run>>

CollectDone ==
    /\ pc = "collect" /\ pos = 0
    /\ IF blk = 0 THEN pc' = "strip" /\ UNCHANGED walk
       ELSE UNCHANGED pc /\ WalkFrom(blk - 1, liveout[blk - 1])
    /\ UNCHANGED <<prog, list, rounds, fixpoint, dead, capped, bound, run>>

(* What was dead goes, and the analysis begins again with empty sets. *)
Strip ==
    /\ pc = "strip" /\ dead # {}
    /\ list' = Without(dead)
    /\ bound' = trace
    /\ sweeps' = 0 /\ changed' = TRUE
    /\ livein' = Nothing /\ liveout' = Nothing /\ trace' = Everywhere({})
    /\ pc' = "sweep"
    /\ UNCHANGED <<prog, rounds, walk, dead, capped, run>>

Finish ==
    /\ pc = "strip" /\ dead = {}
    /\ pc' = "done"
    /\ UNCHANGED <<prog, list, rounds, fixpoint, walk, dead, capped, bound, run>>

-----------------------------------------------------------------------------
(***************************************************************************)
(* The two listings run along one path.                                    *)
(***************************************************************************)
passes == <<prog, list, pc, rounds, fixpoint, walk, dead, capped, bound>>

Start ==
    /\ pc = "done" /\ at = NoBlock
    /\ at' = 0 /\ next' = 1
    /\ \/ UNCHANGED <<tagged, holds, carries>>
       \/ \E v \in Locals : tagged' = TRUE /\ holds' = {v} /\ carries' = {v}
    /\ UNCHANGED passes

InBlock == at # NoBlock /\ next <= Size(at)
Was == prog.code[at][next]
Is == list[at][next]

(* The locals with the tagged value after an instruction. *)
Assigned(S, insn, pick) ==
    IF insn.dst = NoLocal THEN S
    ELSE IF pick \/ (insn.op = "copy" /\ insn.reads \cap S # {})
         THEN S \cup {insn.dst} ELSE S \ {insn.dst}

Execute ==
    /\ InBlock
    /\ \E pick \in BOOLEAN :
         /\ pick => ~tagged /\ Was.dst # NoLocal /\ Was.op # "copy"
         /\ tagged' = (tagged \/ pick)
         /\ holds' = Assigned(holds, Was, pick)
         /\ carries' = Assigned(carries, Is, pick)
    /\ next' = next + 1
    /\ UNCHANGED <<passes, at>>

Follow ==
    /\ at # NoBlock /\ next = Size(at) + 1
    /\ \E t \in Targets(prog.succ, at) : at' = t
    /\ next' = 1
    /\ UNCHANGED <<passes, tagged, holds, carries>>

Next ==
    \/ CountRound \/ CountDone
    \/ Sweep \/ Walk \/ WalkDone
    \/ StartCollecting \/ Collect \/ CollectDone \/ Strip \/ Finish
    \/ Start \/ Execute \/ Follow

Spec == Init /\ [][Next]_vars

-----------------------------------------------------------------------------
LiveSets == [Blocks -> SUBSET Locals]

TypeOK ==
    /\ prog \in Programs
    /\ DOMAIN list = Blocks /\ \A b \in Blocks : list[b] \in [1 .. Size(b) -> Insns]
    /\ pc \in {"count", "sweep", "walk", "collect", "strip", "done"}
    /\ rounds \in 0 .. MaxRounds /\ sweeps \in 0 .. MaxSweeps
    /\ changed \in BOOLEAN /\ capped \in BOOLEAN /\ tagged \in BOOLEAN
    /\ livein \in LiveSets /\ liveout \in LiveSets
    /\ blk \in Blocks /\ pos \in 0 .. Size(blk)
    /\ live \subseteq Locals
    /\ dead \subseteq Places
    /\ DOMAIN trace = Blocks /\ DOMAIN bound = Blocks
    /\ \A b \in Blocks : {trace[b], bound[b]} \subseteq [1 .. Size(b) + 1 -> SUBSET Locals]
    /\ at \in Blocks \cup {NoBlock} /\ next \in Nat
    /\ at # NoBlock => next \in 1 .. Size(at) + 1
    /\ holds \subseteq Locals /\ carries \subseteq Locals

(* No instruction reads what it writes: so it is when every definition has *)
(* a version of its own, but for the copy of a phi onto itself.            *)
SelfFree == \A p \in Places : prog.code[p[1]][p[2]].dst \notin prog.code[p[1]][p[2]].reads

ReadAgrees == InBlock => \A v \in Is.reads : v \in holds <=> v \in carries

(* Whatever has been removed, in however many rounds, what is left reads   *)
(* on every path the values it read before, provided that the fixpoint was *)
(* reached and no instruction reads what it writes.                        *)
ReadsKept == ~capped /\ SelfFree => ReadAgrees

(* Without the provisos, as tests.rs:4339 has it: "Liveness DCE keeps      *)
(* values that ARE read at an exit (a return value or a store operand):    *)
(* only genuinely dead writes are dropped".                                *)
EveryReadKept == ReadAgrees

(* The result of p is read at q, on some path and before it is replaced. *)
Feeds(p, q) ==
    LET v == Insn(p).dst
        writes(b, first, last) == \E j \in first .. last : list[b][j].dst = v
        shut == {b \in Blocks : writes(b, 1, Size(b))}
        entered == UNION {{s} \cup UNION {Targets(prog.succ, r) : r \in Reach(prog.succ, s, shut)} :
                             s \in Targets(prog.succ, p[1])}
    IN  /\ v \in Insn(q).reads
        /\ \/ p[1] = q[1] /\ p[2] < q[2] /\ ~writes(p[1], p[2] + 1, q[2] - 1)
           \/ /\ ~writes(p[1], p[2] + 1, Size(p[1])) /\ ~writes(q[1], 1, q[2] - 1)
              /\ q[1] \in entered

(* passes.rs:487 "breaks the cycle and both halves vanish": no set of      *)
(* definitions that are left feeds only itself.                            *)
NothingDeadIsLeft ==
    pc = "done" /\ at = NoBlock =>
        LET kept == {p \in Places : Insn(p).op \in Removable /\ Insn(p).dst # NoLocal}
            edges == {e \in kept \X Places : Feeds(e[1], e[2])}
        IN  \A S \in (SUBSET kept) \ {{}} : \E e \in edges : e[1] \in S /\ e[2] \notin S

(* A sweep carries a read over one block, so the fixpoint needs a number   *)
(* of sweeps that grows with the listing; the cut at MaxSweeps does not.   *)
EnoughSweeps == sweeps <= N * Cardinality(Locals) + 2
=============================================================================
