----------------------------- MODULE Dominators -----------------------------
(***************************************************************************)
(* DominatorInfo::compute_from (recovery/dominator.rs): depth-first search *)
(* for a reverse postorder, sweeps over it that lower every block's        *)
(* immediate dominator with a two-finger walk, and the dominance           *)
(* frontiers.  Every loop iteration is a step, so that the walk is seen    *)
(* while the tree it climbs is still being corrected.                      *)
(***************************************************************************)
EXTENDS Flow

CONSTANT Rooted      \* the graphs a run starts from, with their roots

(* The root is block 0, or the virtual exit of a reversed graph. *)
ASSUME RootedAssumption ==
    Rooted \subseteq [graph : [Blocks -> Seq(Blocks)], root : Blocks]

VARIABLES
    g, entry,    \* the graph and its root
    pc,          \* where the computation is
    stack,       \* the search: blocks with the index of their next child
    visited,
    rpo,         \* blocks in reverse postorder
    idom,        \* the tree so far
    processed,   \* blocks that have a place in it
    changed,     \* whether the current sweep moved a block
    at,          \* position in rpo of the sweep
    todo,        \* predecessors the block at `at` has still to meet
    cand,        \* new_idom
    f1, f2,      \* the two fingers of intersect
    frontiers

input == <<g, entry>>
search == <<stack, visited, rpo>>
tree == <<idom, processed, changed>>
walk == <<todo, cand, f1, f2>>
vars == <<g, entry, pc, stack, visited, rpo, idom, processed, changed, at, todo,
          cand, f1, f2, frontiers>>

Stages == {"search", "sweep", "meet", "climb", "frontiers", "done", "panic"}

Init ==
    /\ \E r \in Rooted : g = r.graph /\ entry = r.root
    /\ pc = "search"
    /\ stack = << <<entry, 1>> >> /\ visited = {entry} /\ rpo = << >>
    /\ idom = [b \in Blocks |-> NoBlock] /\ processed = {entry} /\ changed = FALSE
    /\ at = 1 /\ todo = {} /\ cand = NoBlock /\ f1 = NoBlock /\ f2 = NoBlock
    /\ frontiers = [b \in Blocks |-> {}]

Smallest(S) == CHOOSE x \in S : \A y \in S : x <= y

(***************************************************************************)
(* Search.                                                                 *)
(***************************************************************************)
Top == stack[Len(stack)]
Below == SubSeq(stack, 1, Len(stack) - 1)
AlwaysUnseen(child) == TRUE                                    \* mutant
Unseen(child) == child \notin visited

Descend ==
    /\ pc = "search" /\ stack # << >> /\ Top[2] <= Len(g[Top[1]])
    /\ LET child == g[Top[1]][Top[2]]
           resumed == Append(Below, <<Top[1], Top[2] + 1>>)
       IN  /\ stack' = IF Unseen(child) THEN Append(resumed, <<child, 1>>) ELSE resumed
           /\ visited' = visited \cup {child}
    /\ UNCHANGED <<input, pc, rpo, tree, at, walk, frontiers>>

Retreat ==
    /\ pc = "search" /\ stack # << >> /\ Top[2] > Len(g[Top[1]])
    /\ rpo' = <<Top[1]>> \o rpo
    /\ stack' = Below
    /\ UNCHANGED <<input, pc, visited, tree, at, walk, frontiers>>

Order(b) ==
    IF \E k \in 1 .. Len(rpo) : rpo[k] = b
    THEN CHOOSE k \in 1 .. Len(rpo) : rpo[k] = b
    ELSE N + 1                               \* usize::MAX

StartSweeps ==
    /\ pc = "search" /\ stack = << >>
    /\ pc' = "sweep" /\ at' = 1 /\ changed' = FALSE
    /\ UNCHANGED <<input, search, idom, processed, walk, frontiers>>

(***************************************************************************)
(* Sweeps.                                                                 *)
(***************************************************************************)
AnyUsable(p) == TRUE                                           \* mutant
Usable(p) == p \in processed /\ Order(p) <= N

Hoisted == cand                                                \* mutant
Unset == NoBlock       \* new_idom starts from None at every block

PickBlock ==
    /\ pc = "sweep" /\ at <= Len(rpo)
    /\ IF rpo[at] = entry
       THEN at' = at + 1 /\ UNCHANGED <<pc, todo, cand>>
       ELSE /\ pc' = "meet" /\ cand' = Unset
            /\ todo' = {p \in Preds(g, rpo[at]) : Usable(p)}
            /\ UNCHANGED at
    /\ UNCHANGED <<input, search, tree, f1, f2, frontiers>>

(* The predecessors in block order: the first seeds new_idom, the others   *)
(* meet it.                                                                *)
NextPred ==
    /\ pc = "meet" /\ todo # {}
    /\ todo' = todo \ {Smallest(todo)}
    /\ IF cand = NoBlock
       THEN cand' = Smallest(todo) /\ UNCHANGED <<pc, f1, f2>>
       ELSE pc' = "climb" /\ f1' = cand /\ f2' = Smallest(todo) /\ UNCHANGED cand
    /\ UNCHANGED <<input, search, tree, at, frontiers>>

(* The finger further from the entry goes up; expect() aborts the program  *)
(* when there is no way up.                                                *)
Lower == IF Order(f1) > Order(f2) THEN f1 ELSE f2

Climb ==
    /\ pc = "climb" /\ f1 # f2
    /\ IF idom[Lower] = NoBlock
       THEN pc' = "panic" /\ UNCHANGED <<f1, f2>>
       ELSE /\ f1' = IF Lower = f1 THEN idom[f1] ELSE f1
            /\ f2' = IF Lower = f1 THEN f2 ELSE idom[f2]
            /\ UNCHANGED pc
    /\ UNCHANGED <<input, search, tree, at, todo, cand, frontiers>>

Met ==
    /\ pc = "climb" /\ f1 = f2
    /\ cand' = f1 /\ pc' = "meet"
    /\ UNCHANGED <<input, search, tree, at, todo, f1, f2, frontiers>>

AnyMove == cand # NoBlock                                      \* mutant
Moves == cand # NoBlock /\ idom[rpo[at]] # cand

Place ==
    /\ pc = "meet" /\ todo = {}
    /\ IF Moves
       THEN /\ idom' = [idom EXCEPT ![rpo[at]] = cand]
            /\ processed' = processed \cup {rpo[at]}
            /\ changed' = TRUE
       ELSE UNCHANGED tree
    /\ at' = at + 1 /\ pc' = "sweep"
    /\ UNCHANGED <<input, search, walk, frontiers>>

OneSweep == FALSE                                              \* mutant
Again == changed

EndSweep ==
    /\ pc = "sweep" /\ at > Len(rpo)
    /\ IF Again
       THEN at' = 1 /\ changed' = FALSE /\ UNCHANGED pc
       ELSE pc' = "frontiers" /\ UNCHANGED <<at, changed>>
    /\ UNCHANGED <<input, search, idom, processed, walk, frontiers>>

(***************************************************************************)
(* Frontiers.  A runner goes up the tree from every predecessor of a join  *)
(* to the join's immediate dominator.                                      *)
(***************************************************************************)
Chain(b) ==
    LET up[k \in 0 .. N] ==
          IF k = 0 THEN {b}
          ELSE LET below == up[k - 1] IN below \cup ({idom[x] : x \in below} \ {NoBlock})
    IN  up[N]

RunToRoot(p, b) == Chain(p)                                    \* mutant
Runners(p, b) ==
    IF idom[b] \in Chain(p) THEN Chain(p) \ Chain(idom[b]) ELSE Chain(p)

Frontiers ==
    /\ pc = "frontiers"
    /\ frontiers' = [r \in Blocks |->
          {b \in Blocks : IsJoin(g, b) /\ \E p \in Preds(g, b) : r \in Runners(p, b)}]
    /\ pc' = "done"
    /\ UNCHANGED <<input, search, tree, at, walk>>

Next ==
    \/ Descend \/ Retreat \/ StartSweeps
    \/ PickBlock \/ NextPred \/ Climb \/ Met \/ Place \/ EndSweep
    \/ Frontiers

Spec == Init /\ [][Next]_vars /\ WF_vars(Next)

-----------------------------------------------------------------------------
(* The state's type; a block is on the search stack once, so N frames do.  *)
TypeOK ==
    /\ g \in [Blocks -> Seq(Blocks)] /\ entry \in Blocks
    /\ pc \in Stages
    /\ stack \in Seq(Blocks \X Nat) /\ Len(stack) <= N
    /\ visited \subseteq Blocks /\ processed \subseteq Blocks
    /\ rpo \in Seq(Blocks)
    /\ idom \in [Blocks -> Blocks \cup {NoBlock}]
    /\ changed \in BOOLEAN
    /\ at \in Nat
    /\ todo \subseteq Blocks
    /\ {cand, f1, f2} \subseteq Blocks \cup {NoBlock}
    /\ frontiers \in [Blocks -> SUBSET Blocks]

(* expect("dominator walk before entry") never fires: a finger that has to *)
(* go up always can, also in the sweeps that climb a tree still moving.    *)
WalkStaysInTree == pc # "panic"

(* The tree is corrected from below only: while the sweeps run, no true    *)
(* dominator of a placed block is ever missing from the chain above it.    *)
ChainKeepsDominators ==
    pc \in {"sweep", "meet", "climb"} =>
        \A b \in processed : SDoms(g, entry, b) \subseteq Chain(b)

(* The finished tree names the immediate dominator of every reachable      *)
(* block but the entry, and of no other.                                   *)
TreeIsDominance ==
    pc = "done" =>
        \A b \in Blocks :
            IF b \in Reachable(g, entry) \ {entry}
            THEN /\ idom[b] \in SDoms(g, entry, b)
                 /\ SDoms(g, entry, b) \ {idom[b]} \subseteq SDoms(g, entry, idom[b])
            ELSE idom[b] = NoBlock

(* What the later passes read, the chain `dominates` walks and the         *)
(* frontiers, has the closed form of module Flow, also at blocks no path   *)
(* reaches.                                                                *)
ClosedForm ==
    pc = "done" =>
        \A b \in Blocks : /\ Chain(b) = IdomChain(g, entry, b)
                          /\ frontiers[b] = JoinFrontier(g, entry, b)

(* The runner finds Cytron's frontier at every join but the entry.         *)
JoinFrontiersAreCytron ==
    pc = "done" =>
        \A a \in Reachable(g, entry) : frontiers[a] \ {entry} = Cytron(g, entry, a) \ {entry}

(* However the graph loops, the sweeps stop correcting one another. *)
Terminates == <>(pc = "done")
=============================================================================
