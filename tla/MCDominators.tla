---------------------------- MODULE MCDominators ----------------------------
(***************************************************************************)
(* The graphs Cfg::build makes of four blocks when the first may end in a  *)
(* switch, and their reversals, rooted at the virtual exit.                *)
(***************************************************************************)
EXTENDS Dominators, TLC

(* Return; jump or fall through; conditional jump with its fallthrough. *)
Ends(n, b) ==
    {<< >>} \cup {<<t>> : t \in 0 .. n - 1}
    \cup IF b = n - 1 THEN {} ELSE {<<t, b + 1>> : t \in 0 .. n - 1}

(* The distinct case targets of a switch. *)
Cases(n) ==
    {SelectSeq([k \in 1 .. n |-> k - 1], LAMBDA b : b \in S) : S \in SUBSET (0 .. n - 1)}

BranchGraphs(n) ==
    {h \in [0 .. n - 1 -> Cases(n) \cup UNION {Ends(n, b) : b \in 0 .. n - 1}] :
        \A b \in 1 .. n - 1 : h[b] \in Ends(n, b)}

(* Block 4 is the virtual exit; in the forward graphs nothing leads to it. *)
Forward == {[graph |-> h @@ (4 :> << >>), root |-> 0] : h \in BranchGraphs(4)}
Backward == {[graph |-> Reversed(h, 4), root |-> 4] : h \in BranchGraphs(4)}
BothWays == Forward \cup Backward
=============================================================================
