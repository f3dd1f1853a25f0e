--------------------------- MODULE MCHelperRoles ---------------------------
(***************************************************************************)
(* Two methods and two addresses, the second the root of the first or not: *)
(* every body, a thin forwarder or none, and every pair of ways of writing *)
(* the calls; then every list of the dump the first may be in, and every   *)
(* guess of the statistics.                                                *)
(***************************************************************************)
EXTENDS HelperRoles

CONSTANTS t, u, m, n

(* The method m calls t once, n calls u, or t once or twice. *)
SitesOf(x, shapes) == {[target |-> x, shape |-> s] : s \in shapes}
Callers(seconds) ==
    {[x \in Methods |-> IF x = m THEN <<a>> ELSE b] : a \in SitesOf(t, Shapes), b \in seconds}

Once == {<<s>> : s \in SitesOf(t, Shapes)}
Others == {<<s>> : s \in SitesOf(u, {"cast", "words"})}
Twice == {<<r, s>> : r \in SitesOf(t, {"guarded", "words"}),
                     s \in SitesOf(t, {"box", "class", "plain"})}

OfT(x, y) == [z \in Targets |-> IF z = t THEN x ELSE y]

(* What the bodies say, of addresses no list of the dump names. *)
Bare ==
    [thin : {[x \in Targets |-> IF x = y THEN "raise" ELSE None] : y \in Targets \cup {None}},
     body : {OfT(a, b) : a \in Bodies \ {"import"}, b \in {None, "inside"}},
     root : {OfT(t, u), OfT(u, u)}, family : {OfT({}, {})}, guess : {OfT(None, None)},
     sites : Callers(Once \cup Others \cup Twice)]

(* What the lists and the statistics say of t, with and without a body. *)
Listed ==
    [thin : {OfT(None, None)},
     body : {OfT(a, None) : a \in {None, "inside", "is_inst"}}, root : {OfT(t, u)},
     family : {OfT({f}, {}) : f \in Families}
                \cup {OfT({f, "metadata_init"}, {}) : f \in {"object_new", "box_fn"}},
     guess : {OfT(None, None)}, sites : Callers(Once)]

Guessed ==
    [thin : {OfT(None, None)}, body : {OfT(a, None) : a \in {None, "inside"}},
     root : {OfT(t, u)}, family : {OfT({}, {}), OfT({"box_fn"}, {})},
     guess : {OfT(g, None) : g \in Guesses \ {None}}, sites : Callers(Once)]

AllPrograms == {p \in Bare \cup Listed \cup Guessed : Readable(p)}
=============================================================================
