----------------------------- MODULE Statements -----------------------------
(***************************************************************************)
(* The statement trees of the decompiler (Stmt in csharp.rs) as far as     *)
(* control flow goes, the places in them, and what running one shows.      *)
(*                                                                         *)
(* A statement is its kind, its name and the lists it owns.  "do" stands   *)
(* for every statement that neither jumps nor owns lists, "var" for the    *)
(* assignment that declares the local it is named after, "if" owns the     *)
(* two arms, "unless" is an if with a negated condition, "while" stands    *)
(* for the loops that test before the body, "block" for using and lock.    *)
(***************************************************************************)
EXTENDS Naturals, FiniteSets, Sequences, SequencesExt

CONSTANTS PureTests,  \* conditions whose evaluation nobody can observe
          Reads       \* <<name, local>>: what is named so reads the local

Stmt(op, id, kids) == [op |-> op, id |-> id, kids |-> kids]
Do(id) == Stmt("do", id, << >>)
Var(x) == Stmt("var", x, << >>)
Goto(l) == Stmt("goto", l, << >>)
Label(l) == Stmt("label", l, << >>)
Return(v) == Stmt("return", v, << >>)
Break == Stmt("break", "", << >>)
Continue == Stmt("continue", "", << >>)
If(c, then, else) == Stmt("if", c, <<then, else>>)
While(c, list) == Stmt("while", c, <<list>>)
Block(list) == Stmt("block", "", <<list>>)

IsIf(s) == s.op \in {"if", "unless"}
IsLabel(s) == s.op = "label"
IsTerminator(s) == s.op \in {"return", "goto", "break", "continue"}
HasLabel(list) == \E i \in DOMAIN list : IsLabel(list[i])
EndsWith(list, s) == list # << >> /\ Last(list) = s
From(list, i) == SubSeq(list, i, Len(list))

\* The list without the statements at the given positions.
Without(list, gone) ==
    FlattenSeq([i \in DOMAIN list |-> IF i \in gone THEN << >> ELSE <<list[i]>>])

\* The statement with f applied to each of its lists.
MapKids(s, f(_)) == [s EXCEPT !.kids = [k \in DOMAIN s.kids |-> f(s.kids[k])]]

-----------------------------------------------------------------------------
(* Places.  A path leads from the body to one of its lists, by the         *)
(* position of a statement and the number of one of its lists; a place is  *)
(* a path and a position, one past the end included.                       *)

ListAt(body, path) ==
    FoldLeft(LAMBDA list, step : list[step[1]].kids[step[2]], body, path)

RECURSIVE PutList(_, _, _)
PutList(body, path, list) ==
    IF path = << >> THEN list
    ELSE [body EXCEPT ![path[1][1]].kids[path[1][2]] = PutList(@, Tail(path), list)]

RECURSIVE PlacesFrom(_, _)
PlacesFrom(list, path) ==
    UNION {{<<path, i>>} \cup
           UNION {PlacesFrom(list[i].kids[k], Append(path, <<i, k>>)) :
                     k \in DOMAIN list[i].kids} : i \in DOMAIN list}

Places(body) == PlacesFrom(body, << >>)
StmtAt(body, p) == ListAt(body, p[1])[p[2]]
Having(body, s) == {p \in Places(body) : StmtAt(body, p) = s}
Refs(body, l) == Cardinality(Having(body, Goto(l)))
Named(body, op) ==
    {StmtAt(body, p).id : p \in {q \in Places(body) : StmtAt(body, q).op = op}}

ReadsAny(list, locals) ==
    \E p \in Places(list), x \in locals : <<StmtAt(list, p).id, x>> \in Reads

\* The steps of a path that enter a statement of one of the given kinds.
Entering(body, path, ops) ==
    {k \in DOMAIN path : ListAt(body, SubSeq(path, 1, k - 1))[path[k][1]].op \in ops}

-----------------------------------------------------------------------------
(* Runs.                                                                   *)

Nowhere == << << >>, 0 >>
Within(p, k) == <<Append(p[1], <<p[2], k>>), 1>>
Behind(p) == <<p[1], p[2] + 1>>

\* Where control goes from p with nothing to see: p itself when there is.
Onward(body, p) ==
    LET path == p[1]
        out(k) == <<SubSeq(path, 1, k - 1), path[k][1]>>
        loops == Entering(body, path, {"while"})
        s == StmtAt(body, p)
    IN IF p[2] > Len(ListAt(body, path))
       THEN IF path = << >> THEN p
            ELSE IF Len(path) \in loops THEN out(Len(path)) ELSE Behind(out(Len(path)))
       ELSE CASE s.op = "label" -> Behind(p)
              [] s.op = "block" \/ (s.op = "while" /\ s.id = "true") -> Within(p, 1)
              [] s.op = "goto" /\ Having(body, Label(s.id)) # {} ->
                    CHOOSE q \in Having(body, Label(s.id)) : TRUE
              [] s.op = "continue" /\ loops # {} -> out(Max(loops))
              [] s.op = "break" /\ loops # {} -> Behind(out(Max(loops)))
              [] OTHER -> p

RECURSIVE Quiet(_, _, _)
Quiet(body, p, fuel) ==
    LET q == Onward(body, p)
    IN IF q = p THEN p ELSE IF fuel = 0 THEN Nowhere ELSE Quiet(body, q, fuel - 1)

Seen(body, p) ==
    IF p = Nowhere THEN <<"hangs", "">>
    ELSE IF p[2] > Len(ListAt(body, p[1])) THEN <<"return", "none">>
    ELSE LET s == StmtAt(body, p)
         IN <<IF IsIf(s) \/ s.op = "while" THEN "test" ELSE s.op, s.id>>

Same(body, p, q) ==
    p = q \/ (Seen(body, p) = Seen(body, q) /\ Seen(body, p)[1] = "return")

\* The next place with something to see.  A pure test is nothing to see when
\* both its outcomes lead to the same place, or to a return of the same value.
RECURSIVE Settle(_, _, _)
Settle(body, p, tests) ==
    LET q == Quiet(body, p, 2 * Cardinality(Places(body)))
        arm(k) == Settle(body, Within(q, k), tests - 1)
        at == ListAt(body, q[1])
    IN IF /\ q[2] \in DOMAIN at /\ tests > 0
          /\ IsIf(at[q[2]]) /\ at[q[2]].id \in PureTests
          /\ Same(body, arm(1), arm(2))
       THEN arm(1) ELSE q

Start(body) == Settle(body, << << >>, 1 >>, 4)

\* A run that is at p goes on, v being the outcome if p is a test.
GoesOn(body, p) == Seen(body, p)[1] \in {"do", "var", "test"}
Advance(body, p, v) ==
    LET s == StmtAt(body, p)
        next == CASE s.op \in {"do", "var"} -> Behind(p)
                  [] s.op = "while" -> IF v THEN Within(p, 1) ELSE Behind(p)
                  [] s.op = "if" -> Within(p, IF v THEN 1 ELSE 2)
                  [] s.op = "unless" -> Within(p, IF v THEN 2 ELSE 1)
    IN Settle(body, next, 4)
=============================================================================
