--------------------------- MODULE MCRecoveryPool ---------------------------
(***************************************************************************)
(* Small binaries for RecoveryPool.  a1 is an address in a tail two        *)
(* methods share: the splicer lifts it into both of them.                  *)
(***************************************************************************)
EXTENDS RecoveryPool, TLC

CONSTANTS m1, m2, m3, m4, A, B, p1, p2, a1, a2, n1

\* An ordinary method of type A without lambdas, pointers or losses.
Ordinary ==
    [size |-> "fits", readable |-> TRUE, lift |-> "normal", erased |-> {},
     lost |-> {}, render |-> "stmts", type |-> A, ptrs |-> << >>,
     lambda |-> NoName, simple |-> FALSE, arity |-> 0, typed |-> TRUE,
     refs |-> {}]

Thunk == [Ordinary EXCEPT !.lift = "thunk"]

Lambda(t, n) == [Ordinary EXCEPT !.type = t, !.lambda = n, !.simple = TRUE]

\* m1 erases the shared tail on purpose, m2 loses it: only m2 is wrong.  m2
\* constructs m1's delegate and shares p1 with m3, which is of another type;
\* m4 is a two-argument lambda filed under m1's bare name, whose own delegate
\* is spelled object.
Tangled ==
    m1 :> [Lambda(A, n1) EXCEPT !.erased = {a1}, !.lost = {a1}]
    @@ m2 :> [Ordinary EXCEPT !.lost = {a1}, !.erased = {a2}, !.refs = {m1},
                              !.ptrs = <<p1>>]
    @@ m3 :> [Thunk EXCEPT !.type = B, !.ptrs = <<p2, p1>>]
    @@ m4 :> [Lambda(B, n1) EXCEPT !.arity = 2, !.typed = FALSE, !.refs = {m4},
                                   !.ptrs = <<p2>>]

\* One method per way of not being translated.
Skipped ==
    m1 :> [Ordinary EXCEPT !.size = "tooLarge"]
    @@ m2 :> [Ordinary EXCEPT !.readable = FALSE]
    @@ m3 :> [Ordinary EXCEPT !.lift = "unsupported", !.ptrs = <<p2>>]
    @@ m4 :> [Ordinary EXCEPT !.render = "nothing", !.ptrs = <<p2>>]

\* Methods with no native bytes, and bodies that are a lone return.
Hollow ==
    m1 :> [Ordinary EXCEPT !.size = "empty"]
    @@ m2 :> [Ordinary EXCEPT !.render = "return"]
    @@ m3 :> [Ordinary EXCEPT !.lost = {a1}, !.type = B, !.ptrs = <<p1>>]
    @@ m4 :> [Ordinary EXCEPT !.lost = {a1}, !.erased = {a1}, !.ptrs = <<p1, p2>>]

\* A flagged method, and in the next binary a clean one at its address.
Flagged == [m \in Methods |-> IF m = m1 THEN [Ordinary EXCEPT !.lost = {a1}] ELSE Thunk]
Clean == [m \in Methods |-> IF m = m1 THEN Ordinary ELSE Thunk]

TwoBinaries == {Flagged, Clean}
OneBinary == {Tangled}
ThreeBinaries == {Tangled, Skipped, Hollow}

=============================================================================
