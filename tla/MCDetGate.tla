----------------------------- MODULE MCDetGate ------------------------------
(***************************************************************************)
(* A binary for the determinism gate: a lambda m1, its user m2, and two    *)
(* methods that share a pointer and a shared tail with it.                 *)
(***************************************************************************)
EXTENDS DetGate, TLC

CONSTANTS m1, m2, m3, A, B, p1, p2, a1, n1

Ordinary ==
    [size |-> "fits", readable |-> TRUE, lift |-> "normal", erased |-> {},
     lost |-> {}, render |-> "stmts", type |-> A, ptrs |-> << >>,
     lambda |-> NoName, simple |-> FALSE, arity |-> 0, typed |-> TRUE,
     refs |-> {}]

Gated ==
    m1 :> [Ordinary EXCEPT !.lambda = n1, !.simple = TRUE, !.erased = {a1}, !.lost = {a1}]
    @@ m2 :> [Ordinary EXCEPT !.refs = {m1}, !.lost = {a1}, !.ptrs = <<p2, p1>>]
    @@ m3 :> [Ordinary EXCEPT !.type = B, !.ptrs = <<p1>>]

GatedBinary == {Gated}
WorkerSymmetry == Permutations(Workers)
=============================================================================
