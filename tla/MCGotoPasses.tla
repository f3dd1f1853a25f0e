---------------------------- MODULE MCGotoPasses ----------------------------
(***************************************************************************)
(* The trees GotoPasses is checked on.  Tests and statements are named     *)
(* apart, so that a lost, repeated or moved one is seen.                   *)
(***************************************************************************)
EXTENDS GotoPasses

MCPureTests == {"p", "q"}
MCPortable == {"0", "none"}
MCReads == {<<"T", "v">>, <<"R", "v">>, <<"Z", "v">>, <<"x", "v">>}

Whole(list) ==
    /\ Named(list, "goto") \subseteq Named(list, "label")
    /\ \A l \in {"L", "M", "N"} : Cardinality(Having(list, Label(l))) <= 1

\* The lists of n statements, the i-th one of those in choices(i).
Lists(n, choices(_)) ==
    {[i \in 1 .. n |-> choices(i)[f[i]]] : f \in [1 .. n -> DOMAIN choices(1)]}

\* Of two trees that differ in the names of the labels, one.
Ordered(list) ==
    \A i \in DOMAIN list : list[i] = Label("M") =>
        \E j \in 1 .. i - 1 : list[j] = Label("L")

Names == <<"A", "B", "C", "D", "E">>
Tests == <<"a", "b", "c", "d", "e">>

\* Jumps forwards and backwards among the statements of one list.
Flat ==
    LET choices(i) == <<Do(Names[i]), Goto("L"), Goto("M"), Label("L"), Label("M"),
                        Return("0"), Return("x"), If(Tests[i], <<Goto("L")>>, << >>)>>
    IN {list \in Lists(5, choices) :
           Whole(list) /\ Ordered(list) /\ Named(list, "label") \subseteq Named(list, "goto")}

\* A test whose arms jump to and into what follows.
Arms ==
    LET arm(n) == {<< >>, <<Goto("L")>>, <<Do(n), Goto("L")>>, <<Do(n)>>, <<Return("none")>>,
                   <<Do(n), Return("0"), Label("M"), Do("T")>>, <<Goto("M")>>, <<Label("M")>>,
                   <<If("b", <<Do(n), Goto("L")>>, << >>), Do("T")>>,
                   <<If("q", <<Goto("L")>>, << >>)>>,
                   <<If("b", <<Goto("L")>>, <<Goto("M")>>)>>}
        rest == {<< >>, <<Do("R")>>, <<Do("R"), Goto("M")>>, <<Label("M"), Do("R")>>}
        tail == {<< >>, <<Do("Z")>>, <<Return("x"), Label("M"), Do("Z")>>, <<Goto("M")>>}
    IN {list \in {<<If(c, then, else)>> \o r \o <<Label("L")>> \o z :
                     c \in {"a", "p"}, then \in arm("A"), else \in arm("B"), r \in rest, z \in tail} :
           Whole(list)}

\* A loop with jumps out of it, and a loop made of jumps in a loop.
Loops ==
    LET inside(i) == <<Do(Names[i]), Goto("L"), Goto("M"), Label("M"), Break, Continue,
                       If(Tests[i], <<Goto("L")>>, << >>), If("p", <<Continue>>, << >>),
                       If(Tests[i], <<Break>>, <<Goto("M")>>), Block(<<Do(Names[i]), Goto("L")>>)>>
        behind == {<<Label("L"), Do("Z"), Return("x")>>, <<Do("R"), Label("L")>>}
    IN {list \in {<<While(w, inner)>> \o z : w \in {"w", "p"}, z \in behind,
                     inner \in UNION {Lists(n, inside) : n \in 1 .. 3}} : Whole(list)}

\* A merge block that jumps back into the arm it is hoisted out of, where it
\* declares v, or reads it when it has been declared in front of the arm's labels.
Returning ==
    LET front == {<< >>, <<Do("E")>>, <<Var("v")>>}
        loop == {<< >>, <<Do("B")>>, <<Var("v"), Do("B")>>, <<Do("T")>>, <<Label("N")>>}
        leave == {<< >>, <<Return("0")>>, <<If("b", <<Return("0")>>, << >>)>>}
        merge == {<<Do("C")>>, <<Do("T")>>, <<Var("v")>>, <<Goto("N")>>}
    IN {list \in {<<If("a", <<Do("A"), Goto("L")>>,
                        f \o <<Label("M")>> \o l \o r \o <<Label("L")>> \o m \o <<Goto("M")>>)>> :
                     f \in front, l \in loop, r \in leave, m \in merge} : Whole(list)}

\* A guard over a block that declares what is read behind it, or does not.
Guards ==
    {<<If("a", <<Goto("L")>>, << >>)>> \o block \o leave \o <<Label("L")>> \o behind :
        block \in {<<Do("B")>>, <<Var("v")>>, <<Var("v"), Do("T")>>, <<If("b", <<Var("v")>>, << >>)>>},
        leave \in {<< >>, <<Return("0")>>, <<Return("x")>>},
        behind \in {<<Do("C")>>, <<Do("R")>>, <<Do("C"), Return("x")>>, <<If("c", <<Do("Z")>>, << >>)>>}}

\* A branch whose arms meet at a return, written with jumps.
Diamond == {<<If("a", <<Do("A"), Goto("M")>>, << >>), Do("B"), Goto("L"),
              Label("M"), Do("C"), Label("L"), Return("x")>>}

\* A jump out of two tests, with something to skip behind each of them.
Nested == {<<If("a", <<Do("A"), If("b", <<Do("B"), Goto("L")>>, << >>), Do("C")>>, << >>),
             Do("D"), Label("L"), Return("x")>>}

\* A loop behind a return that is entered in its middle.
Entered == {<<If("a", <<Do("A"), Goto("M")>>, << >>), Return("x"),
              While("w", <<Do("B"), Label("M"), Do("C")>>)>>}

MCBodies == Flat \cup Arms \cup Loops \cup Returning \cup Guards
AllPasses == {<<"remove_continues", "join_hoist", "goto_simplify", "goto_fold", "join_hoist",
               "goto_fallthrough", "dead_tail">>}
MCPipelines == AllPasses \cup {<<p>> : p \in PassNames}
=============================================================================
