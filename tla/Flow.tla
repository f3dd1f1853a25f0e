-------------------------------- MODULE Flow --------------------------------
(***************************************************************************)
(* Control-flow graphs of the recovery pipeline, and what the passes that  *)
(* walk them promise, stated by paths and without any algorithm.           *)
(*                                                                         *)
(* A graph g gives every block the sequence of its successors, as          *)
(* Cfg.successors does (recovery/cfg.rs); blocks are numbered from 0.      *)
(***************************************************************************)
EXTENDS Integers, Sequences, FiniteSets

CONSTANT N     \* the number of blocks

ASSUME NAssumption == N \in Nat \ {0}

Blocks == 0 .. N - 1
NoBlock == -1               \* Option::None

Targets(g, b) == {g[b][k] : k \in 1 .. Len(g[b])}
Preds(g, b) == {p \in Blocks : b \in Targets(g, p)}

(* preds[b] lists one entry per edge, so parallel edges count. *)
InEdges(g, b) ==
    UNION {{p} \X {k \in 1 .. Len(g[p]) : g[p][k] = b} : p \in Blocks}

(* The blocks some path from r visits without passing through `shut`. *)
Reach(g, r, shut) ==
    LET step[k \in 0 .. N] ==
          IF k = 0 THEN {r} \ shut
          ELSE LET seen == step[k - 1]
               IN  seen \cup ((UNION {Targets(g, b) : b \in seen}) \ shut)
    IN  step[N]

Reachable(g, r) == Reach(g, r, {})

Dominates(g, r, a, b) == a = b \/ b \notin Reach(g, r, {a})

SDoms(g, r, b) == {a \in Blocks : a # b /\ Dominates(g, r, a, b)}

(* Cytron's frontier: the joins where the dominance of a ends. *)
Cytron(g, r, a) ==
    {b \in Reachable(g, r) :
        /\ a \notin SDoms(g, r, b)
        /\ \E p \in Preds(g, b) \cap Reachable(g, r) : Dominates(g, r, a, p)}

(***************************************************************************)
(* What compute_from leaves behind, in closed form (module Dominators      *)
(* checks that it does): the chain `dominates` walks, and the frontiers    *)
(* of the blocks it counts as joins.                                       *)
(***************************************************************************)
IdomChain(g, r, b) == {b} \cup IF b \in Reachable(g, r) THEN SDoms(g, r, b) ELSE {}

SelfOnly(g, b) == Preds(g, b) = {b} /\ Cardinality(InEdges(g, b)) = 1
WideJoin(g, b) == Cardinality(InEdges(g, b)) > 2                 \* mutant
IsJoin(g, b) == Cardinality(InEdges(g, b)) >= 2 \/ SelfOnly(g, b)

JoinFrontier(g, r, a) ==
    {b \in Blocks :
        /\ IsJoin(g, b)
        /\ \E p \in Preds(g, b) : a \in IdomChain(g, r, p) \ (IdomChain(g, r, b) \ {b})}

(* The reversed graph of post-dominance: a virtual exit x collects the     *)
(* blocks that lead nowhere.                                               *)
Reversed(g, x) ==
    LET out(b) == IF g[b] = << >> THEN {x} ELSE Targets(g, b)
        into(t) == SelectSeq([k \in 1 .. x |-> k - 1], LAMBDA b : t \in out(b))
    IN  [t \in 0 .. x |-> into(t)]
=============================================================================
