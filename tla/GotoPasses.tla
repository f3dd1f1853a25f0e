----------------------------- MODULE GotoPasses -----------------------------
(***************************************************************************)
(* The passes over a statement tree that remove jumps                      *)
(* (recovery/reconstruct): remove_continues, join_hoist, goto_simplify,    *)
(* goto_fold, goto_fallthrough and dead_tail, followed by a run of the     *)
(* tree as it came beside a run of what the passes have made of it.        *)
(*                                                                         *)
(* goto_simplify and the lift of goto_fallthrough, whose rewrites depend   *)
(* on each other, are taken apart: one rewrite per step, list by list.     *)
(* The other passes are one step each.                                     *)
(***************************************************************************)
EXTENDS Statements

CONSTANTS Bodies,     \* the trees the passes are given
          Pipelines,  \* sequences of passes
          Portable    \* return values that read no local

PassNames == {"remove_continues", "join_hoist", "goto_simplify", "goto_fold",
              "goto_fallthrough", "dead_tail"}

ASSUME PipelinesAssumption == Pipelines \subseteq Seq(PassNames)

VARIABLES
    original,  \* the tree as it came
    body,      \* the tree as it is now
    queue,     \* passes still to run
    doing,     \* "next" pass, a stage of one, or "run"
    given,     \* the tree the current pass was given
    lists,     \* paths of the lists it has still to visit
    at,        \* goto_simplify: position in the first of them
    refs,      \* goto_simplify: its counts of the jumps to each label
    slips,     \* history: rewrites of a shape that changes what is run
    here,      \* the run of the original ...
    there      \* ... and of the body

listVars == <<given, lists, at, refs>>
runVars == <<here, there>>
vars == <<original, body, queue, doing, given, lists, at, refs, slips, here, there>>

Init ==
    /\ original \in Bodies
    /\ body = original
    /\ queue \in Pipelines
    /\ doing = "next" /\ given = original
    /\ lists = << >> /\ at = 0
    /\ refs = [l \in {} |-> 0]
    /\ slips = {}
    /\ here = Nowhere /\ there = Nowhere

-----------------------------------------------------------------------------
(* remove_continues                                                        *)

RECURSIVE Trimmed(_)
Trimmed(list) ==
    LET last(kid) == kid[Len(kid)]
        chopped(kid) == IF Len(kid) > 1 /\ last(kid) = Continue THEN Front(kid) ELSE kid
        retest(c, kid) == /\ Len(kid) > 1 /\ c \in PureTests
                          /\ last(kid) = If(c, <<Continue>>, << >>)
        loop(s) == LET kid == chopped(s.kids[1])
                   IN While(s.id, IF retest(s.id, kid) THEN Front(kid) ELSE kid)
    IN [i \in DOMAIN list |->
           MapKids(IF list[i].op = "while" THEN loop(list[i]) ELSE list[i], Trimmed)]

-----------------------------------------------------------------------------
(* join_hoist                                                              *)

RECURSIVE Terminates(_)
Terminates(list) ==
    /\ list # << >>
    /\ LET s == Last(list)
       IN IsTerminator(s) \/ (IsIf(s) /\ Terminates(s.kids[1]) /\ Terminates(s.kids[2]))

FromOtherArm(s, k, targets) ==                                          \* mutant
    {i \in DOMAIN s.kids[k] :
        IsLabel(s.kids[k][i]) /\ Refs(s.kids[3 - k], s.kids[k][i].id) > 0}

\* Positions of labels in arm k that something outside the arm jumps to.
Merges(s, k, targets) ==
    {i \in DOMAIN s.kids[k] :
        LET t == s.kids[k][i]
        IN IsLabel(t) /\ t.id \in DOMAIN targets /\ targets[t.id] > Refs(s.kids[k], t.id)}

\* What declares a local stays, and so does what reads one declared before it.
ScopeSafe(before, tail) ==
    /\ \A i \in DOMAIN tail : tail[i].op # "var"
    /\ ~ReadsAny(tail, Named(before, "var"))

\* Whether the list can be cut in front of position i and the rest moved.
Movable(list, i) ==
    /\ \E j \in i .. Len(list) : ~IsLabel(list[j])
    /\ ScopeSafe(SubSeq(list, 1, i - 1), From(list, i))

Hoistable(s, k, targets) ==
    /\ Terminates(s.kids[3 - k])
    /\ Merges(s, k, targets) # {}
    /\ Movable(s.kids[k], Min(Merges(s, k, targets)))

RECURSIVE HoistFrom(_, _, _)
HoistFrom(list, i, targets) ==
    IF i > Len(list) THEN list
    ELSE LET s == list[i]
             arms == {k \in {1, 2} : IsIf(s) /\ Hoistable(s, k, targets)}
             k == Max(arms)
             cut == Min(Merges(s, k, targets))
         IN IF arms = {} THEN HoistFrom(list, i + 1, targets)
            ELSE HoistFrom(SubSeq(list, 1, i - 1)
                             \o <<[s EXCEPT !.kids[k] = SubSeq(@, 1, cut - 1)]>>
                             \o From(s.kids[k], cut) \o From(list, i + 1), i, targets)

RECURSIVE Hoist(_, _)
Hoist(list, targets) ==
    HoistFrom([i \in DOMAIN list |-> MapKids(list[i], LAMBDA kid : Hoist(kid, targets))],
              1, targets)

\* A guard that jumps over a block no path falls out of, to the block's end.
\* What the block declares is not read behind it.
Over(list, i) ==
    LET s == list[i]
        ends == {t \in i + 1 .. Len(list) : s.kids[1] = <<Goto(list[t].id)>> /\ IsLabel(list[t])}
        block == SubSeq(list, i + 1, Min(ends) - 1)
    IN IF /\ IsIf(s) /\ s.kids[2] = << >> /\ ends # {}
          /\ Terminates(block) /\ Named(block, "label") = {}
          /\ ~ReadsAny(From(list, Min(ends) + 1), Named(block, "var"))
       THEN block ELSE << >>

Negated(s, then) ==
    Stmt(IF s.op = "if" THEN "unless" ELSE "if", s.id, <<then, << >> >>)

RECURSIVE InvertFrom(_, _)
InvertFrom(list, i) ==
    IF i > Len(list) THEN list
    ELSE LET block == Over(list, i)
         IN InvertFrom(IF block = << >> THEN list
                       ELSE SubSeq(list, 1, i - 1) \o <<Negated(list[i], block)>>
                              \o From(list, i + Len(block) + 1), i + 1)

RECURSIVE Invert(_)
Invert(list) == InvertFrom([i \in DOMAIN list |-> MapKids(list[i], Invert)], 1)

RECURSIVE Swept(_, _)
Swept(list, used) ==
    Without([i \in DOMAIN list |-> MapKids(list[i], LAMBDA kid : Swept(kid, used))],
            {i \in DOMAIN list : IsLabel(list[i]) /\ list[i].id \notin used})

DropSeenFromHere(list) ==                                               \* mutant
    Swept(list, {list[i].id : i \in {j \in DOMAIN list : list[j].op = "goto"}})

DropQuietLabels(list) == Swept(list, Named(list, "goto"))

CountHere(list) ==                                                      \* mutant
    [l \in Named(list, "goto") |-> Cardinality({i \in DOMAIN list : list[i] = Goto(l)})]

CountJumps(list) == [l \in Named(list, "goto") |-> Refs(list, l)]

RECURSIVE HoistRounds(_, _, _)
HoistRounds(list, targets, rounds) ==
    LET next == Invert(Hoist(list, targets))
    IN IF rounds = 0 \/ next = list THEN DropQuietLabels(list)
       ELSE HoistRounds(next, targets, rounds - 1)

HoistsCopies(list) ==                                                   \* mutant
    FlattenSeq([i \in DOMAIN list |->
        LET arms == {k \in {1, 2} : IsIf(list[i]) /\ Hoistable(list[i], k, CountJumps(list))}
            arm == list[i].kids[Max(arms)]
        IN <<list[i]>> \o IF arms = {} THEN << >>
              ELSE From(arm, Min(Merges(list[i], Max(arms), CountJumps(list))))])

HoistJoins(list) ==
    IF Named(list, "goto") = {} THEN list ELSE HoistRounds(list, CountJumps(list), 8)

-----------------------------------------------------------------------------
(* goto_simplify                                                           *)

Count(l) == IF l \in DOMAIN refs THEN refs[l] ELSE 0
Recount(l, n) == [k \in DOMAIN refs \cup {l} |-> IF k = l THEN n ELSE refs[k]]

Open == Head(lists)
List == ListAt(body, Open)

\* Nothing in the region leaves it, enters it, or would be caught by a loop
\* around it.  A break in a block passes for one in a loop of its own.
Loopable(region) ==
    /\ \A i \in DOMAIN region : region[i].op # "return"
    /\ \A p \in Places(region) :
          LET op == StmtAt(region, p).op
          IN /\ op \notin {"goto", "label"}
             /\ op \in {"break", "continue"} =>
                    Entering(region, p[1], {"while", "block"}) # {}

\* Labels from which the whole rest of the list is a loop.
LoopHeads(list) ==
    {i \in 1 .. Len(list) - 1 :
        /\ IsLabel(list[i]) /\ Count(list[i].id) = 1
        /\ Last(list) = Goto(list[i].id)
        /\ Loopable(SubSeq(list, i + 1, Len(list) - 1))}

Looped(list) ==
    LET i == Min(LoopHeads(list))
    IN SubSeq(list, 1, i - 1) \o <<While("true", SubSeq(list, i + 1, Len(list) - 1))>>

WithoutJumps(list, l) == Without(list, {i \in DOMAIN list : list[i] = Goto(l)})   \* mutant

RECURSIVE DropTail(_, _)
DropTail(list, l) ==
    CASE EndsWith(list, Goto(l)) -> Front(list)
      [] list # << >> /\ IsIf(Last(list)) ->
            Append(Front(list), MapKids(Last(list), LAMBDA kid : DropTail(kid, l)))
      [] OTHER -> list

DropBranchJoins(list) ==
    [i \in DOMAIN list |->
        IF i < Len(list) /\ IsIf(list[i]) /\ IsLabel(list[i + 1])
        THEN MapKids(list[i], LAMBDA kid : DropTail(kid, list[i + 1].id))
        ELSE list[i]]

\* A list is opened: a loop that closes it is wrapped, then jumps to where an
\* arm ends anyway are dropped (which refs is not told).
OpenList ==
    /\ doing = "open" /\ lists # << >>
    /\ LET wraps == LoopHeads(List) # {}
           head == List[Min(LoopHeads(List))].id
           list == IF wraps THEN Looped(List) ELSE List
           strays == {p \in Places(Last(list).kids[1]) :
                        /\ StmtAt(Last(list).kids[1], p).op \in {"break", "continue"}
                        /\ Entering(Last(list).kids[1], p[1], {"while"}) = {}}
       IN /\ body' = PutList(body, Open, DropBranchJoins(list))
          /\ refs' = IF wraps THEN Recount(head, 0) ELSE refs
          /\ slips' = slips \cup IF wraps /\ strays # {} THEN {"captured"} ELSE {}
    /\ doing' = "scan" /\ at' = 1
    /\ UNCHANGED <<original, queue, given, lists, runVars>>

\* Where the jump at position i of the list leads, when that is further on.
Target(list, i) ==
    LET found == {p \in DOMAIN list : list[p] = Label(list[i].id)}
    IN IF found = {} \/ Min(found) < i THEN 0 ELSE Min(found)

NextLabel(list, p) == Min({q \in p + 1 .. Len(list) : IsLabel(list[q])} \cup {Len(list) + 1})
ReturnsAt(list, p) == p < Len(list) /\ list[p + 1].op = "return"

\* Which rewrite the statement at position i gets.
Rule(list, i) ==
    LET p == Target(list, i)
        once == Count(list[i].id) = 1
    IN CASE list[i].op # "goto" \/ p = 0 -> "none"
         [] once /\ ReturnsAt(list, p) -> "return"
         [] ReturnsAt(list, p) /\ list[p + 1].id \in Portable -> "copy"
         [] once /\ p = Len(list) -> "trailing"
         [] once /\ IsTerminator(list[p - 1]) /\ NextLabel(list, p) > p + 1 -> "inline"
         [] OTHER -> "none"

Scanning == doing = "scan" /\ at <= Len(List)

Rewrite(list, l, next) ==
    /\ body' = PutList(body, Open, list)
    /\ refs' = Recount(l, Count(l) - 1)
    /\ at' = next
    /\ UNCHANGED <<original, queue, doing, given, lists, runVars>>

\* goto L; ... L: return v;  becomes return v;  and the label goes with it.
GotoToReturn ==
    /\ Scanning /\ Rule(List, at) = "return"
    /\ LET p == Target(List, at)
       IN /\ Rewrite(Without([List EXCEPT ![at] = List[p + 1]], {p, p + 1}), List[at].id, at)
          /\ slips' = slips \cup IF p > at + 1 /\ ~IsTerminator(List[p - 1])
                                 THEN {"entered"} ELSE {}

\* ... L: return 0;  with other jumps to L: the return is copied.
GotoToShared ==
    /\ Scanning /\ Rule(List, at) = "copy"
    /\ Rewrite([List EXCEPT ![at] = List[Target(List, at) + 1]], List[at].id, at + 1)
    /\ UNCHANGED slips

\* goto L; ... L:  at the end of the list: both go.
GotoToTrailing ==
    /\ Scanning /\ Rule(List, at) = "trailing"
    /\ Rewrite(Without(List, {at, Len(List)}), List[at].id, at)
    /\ slips' = slips \cup IF Len(List) > at + 1 THEN {"entered"} ELSE {}

\* goto L; ... L: content  with nothing falling into L: the content moves here.
InlineLabel ==
    /\ Scanning /\ Rule(List, at) = "inline"
    /\ LET p == Target(List, at)
           end == NextLabel(List, p)
       IN /\ Rewrite(SubSeq(List, 1, at - 1) \o SubSeq(List, p + 1, end - 1)
                       \o SubSeq(List, at + 1, p - 1) \o From(List, end), List[at].id, 1)
          /\ slips' = slips \cup IF p > at + 1 /\ ~Terminates(SubSeq(List, p + 1, end - 1))
                                 THEN {"entered"} ELSE {}

ScanOn ==
    /\ Scanning /\ Rule(List, at) = "none"
    /\ at' = at + 1
    /\ UNCHANGED <<original, body, queue, doing, given, lists, refs, slips, runVars>>

\* The paths of the lists in a list, in order.
Inner(list, path) ==
    FlattenSeq([i \in DOMAIN list |->
        [k \in DOMAIN list[i].kids |-> Append(path, <<i, k>>)]])

CloseList ==
    /\ doing = "scan" /\ at > Len(List)
    /\ lists' = Inner(List, Open) \o Tail(lists)
    /\ doing' = "open"
    /\ UNCHANGED <<original, body, queue, given, at, refs, slips, runVars>>

Simplified ==
    /\ doing = "open" /\ lists = << >>
    /\ doing' = "next"
    /\ UNCHANGED <<original, body, queue, given, lists, at, refs, slips, runVars>>

-----------------------------------------------------------------------------
(* goto_fold                                                               *)

\* L_A: goto L_B;  in this list, with nothing falling into L_A.
OwnChains(list) ==
    {p \in 2 .. Len(list) - 1 :
        /\ IsLabel(list[p]) /\ IsTerminator(list[p - 1])
        /\ list[p + 1].op = "goto" /\ NextLabel(list, p) = Min({p + 2, Len(list) + 1})
        /\ list[p + 1].id # list[p].id
        /\ Label(list[p + 1].id) \in ToSet(list)}

RECURSIVE Chains(_)
Chains(list) ==
    SetToSortSeq({<<p, list[p].id, list[p + 1].id>> : p \in OwnChains(list)},
                 LAMBDA a, b : a[1] < b[1])
      \o FlattenSeq([i \in DOMAIN list |->
             FlattenSeq([k \in DOMAIN list[i].kids |-> Chains(list[i].kids[k])])])

\* Every goto a becomes goto b, and the label with its jump goes.
RECURSIVE Retarget(_, _, _)
Retarget(list, a, b) ==
    LET gone == {p \in OwnChains(list) : list[p] = Label(a)}
    IN Without([i \in DOMAIN list |->
                  IF list[i] = Goto(a) THEN Goto(b)
                  ELSE MapKids(list[i], LAMBDA kid : Retarget(kid, a, b))],
               gone \cup {p + 1 : p \in gone})

RECURSIVE CollapseChains(_)
CollapseChains(list) ==
    LET chains == Chains(list)
    IN IF chains = << >> THEN list
       ELSE CollapseChains(Retarget(list, chains[1][2], chains[1][3]))

AnyLater(list, i, out) ==                                               \* mutant
    {list[j].id : j \in {k \in i + 1 .. Len(list) : IsLabel(list[k])}}

\* Labels reached by falling out of list[i], out being those behind the list.
After(list, i, out) ==
    LET e == Min({j \in i + 1 .. Len(list) : ~IsLabel(list[j])} \cup {Len(list) + 1})
    IN {list[j].id : j \in i + 1 .. e - 1} \cup IF e > Len(list) THEN out ELSE {}

\* A jump to the loop's exit, not inside an inner loop, is a break.
RECURSIVE JumpsToBreaks(_, _)
JumpsToBreaks(list, exits) ==
    [i \in DOMAIN list |->
        LET s == list[i]
        IN CASE s.op = "goto" /\ s.id \in exits -> Break
             [] s.op = "while" -> s
             [] OTHER -> MapKids(s, LAMBDA kid : JumpsToBreaks(kid, exits))]

\* if (c) goto L;  in front of L, with no other jump to L.
IsShell(s, after, counts) ==
    /\ IsIf(s) /\ s.id \in PureTests /\ s.kids[2] = << >>
    /\ \E l \in after : s.kids[1] = <<Goto(l)>> /\ counts[l] = 1

\* The arm k has nothing but jumps, and without them the test would go.
LastPayload(s, k) ==
    /\ s.id \notin PureTests
    /\ \A i \in DOMAIN s.kids[3 - k] : IsLabel(s.kids[3 - k][i])
    /\ \A i \in DOMAIN s.kids[k] : s.kids[k][i].op \in {"goto", "label"}

RECURSIVE FallFrom(_, _, _, _, _)
FallFrom(list, i, out, guarded, counts) ==
    LET s == list[i]
        after == After(list, i, out)
        inside ==
            CASE IsIf(s) -> [s EXCEPT !.kids = [k \in {1, 2} |->
                    FallFrom(s.kids[k], 1, after, guarded \/ LastPayload(s, k), counts)]]
              [] s.op = "while" -> While(s.id,
                    FallFrom(JumpsToBreaks(s.kids[1], after), 1, {}, FALSE, counts))
              [] s.op = "block" -> Block(FallFrom(s.kids[1], 1, after, FALSE, counts))
              [] OTHER -> s
    IN IF i > Len(list) THEN list
       ELSE IF /\ ~guarded
               /\ (s.op = "goto" /\ s.id \in after) \/ IsShell(s, after, counts)
       THEN FallFrom(Without(list, {i}), i, out, guarded, counts)
       ELSE FallFrom([list EXCEPT ![i] = inside], i + 1, out, guarded, counts)

RECURSIVE JumpsToReturns(_, _)
JumpsToReturns(list, ends) ==
    [i \in DOMAIN list |->
        IF list[i].op = "goto" /\ list[i].id \in ends THEN Return("none")
        ELSE MapKids(list[i], LAMBDA kid : JumpsToReturns(kid, ends))]

\* A jump to the end of a method without a return value is a return.
ReturnAtEnd(list) ==
    LET ends == {list[i].id : i \in {j \in DOMAIN list :
                    \A k \in j .. Len(list) : IsLabel(list[k])}}
    IN IF Named(list, "return") \subseteq {"none"} THEN JumpsToReturns(list, ends) ELSE list

FoldRound(list) ==
    LET collapsed == CollapseChains(list)
    IN ReturnAtEnd(FallFrom(collapsed, 1, {}, FALSE, CountJumps(collapsed)))

RECURSIVE Fold(_, _)
Fold(list, rounds) ==
    IF rounds = 0 \/ FoldRound(list) = list THEN list ELSE Fold(FoldRound(list), rounds - 1)

-----------------------------------------------------------------------------
(* goto_fallthrough                                                        *)

NoExecutable(list) == \A i \in DOMAIN list : IsLabel(list[i])

RECURSIVE CanInject(_, _)
CanInject(s, l) ==
    /\ IsIf(s) /\ NoExecutable(s.kids[2])
    /\ \/ EndsWith(s.kids[1], Goto(l))
       \/ \E j \in DOMAIN s.kids[1] : CanInject(s.kids[1][j], l)

\* The statement with the region in the else arm of the if that carries the
\* jump, and what it skipped on the way down; unchanged when there is none.
RECURSIVE Inject(_, _, _)
Inject(s, l, region) ==
    LET then == s.kids[1]
        inner(j) == Inject(then[j], l, From(then, j + 1) \o region)
        carriers == {j \in DOMAIN then : ~HasLabel(From(then, j + 1)) /\ inner(j) # then[j]}
    IN CASE ~IsIf(s) \/ ~NoExecutable(s.kids[2]) -> s
         [] EndsWith(then, Goto(l)) -> [s EXCEPT !.kids = <<Front(then), region>>]
         [] carriers # {} -> [s EXCEPT !.kids[1] =
                Append(SubSeq(then, 1, Max(carriers) - 1), inner(Max(carriers)))]
         [] OTHER -> s

\* The nearest statement before the label at k that can take what lies between.
Carriers(list, k) ==
    {i \in 1 .. k - 1 : /\ CanInject(list[i], list[k].id)
                        /\ ~HasLabel(SubSeq(list, i + 1, k - 1))}

InjectedBesideJump(list, k) ==                                          \* mutant
    LET i == Max(Carriers(list, k))
    IN [list[i] EXCEPT !.kids[2] = SubSeq(list, i + 1, k - 1)]

Injected(list, k) ==
    LET i == Max(Carriers(list, k))
    IN Inject(list[i], list[k].id, SubSeq(list, i + 1, k - 1))

Lifts(list) ==
    {k \in DOMAIN list : /\ IsLabel(list[k]) /\ Carriers(list, k) # {}
                         /\ Injected(list, k) # list[Max(Carriers(list, k))]}

\* What the jump skips moves into the arm of its own test.
Lift ==
    /\ doing = "lift" /\ lists # << >> /\ Lifts(List) # {}
    /\ LET k == Min(Lifts(List))
           i == Max(Carriers(List, k))
           nested == ~EndsWith(List[i].kids[1], Goto(List[k].id))
           deeper == \A s \in ToSet(List[i].kids[1]) :
                         IsIf(s) => ~EndsWith(s.kids[1], Goto(List[k].id))
           lost == Named(<<List[i]>>, "label") \ Named(<<Injected(List, k)>>, "label")
       IN /\ body' = PutList(body, Open,
                             SubSeq(List, 1, i - 1) \o <<Injected(List, k)>> \o From(List, k))
          /\ slips' = slips
                \cup IF nested /\ (k > i + 1 \/ deeper) THEN {"skipped"} ELSE {}
                \cup IF lost # {} THEN {"stranded"} ELSE {}
    /\ UNCHANGED <<original, queue, doing, listVars, runVars>>

\* A jump at the end of s to the label right behind s.
IntoSuccessor(s, l) ==
    MapKids(s, LAMBDA kid :
        IF ~EndsWith(kid, Goto(l)) THEN kid
        ELSE IF s.op = "while" THEN Append(Front(kid), Break) ELSE Front(kid))

FoldIntoSuccessors(list) ==
    [i \in DOMAIN list |-> IF i < Len(list) /\ IsLabel(list[i + 1])
                           THEN IntoSuccessor(list[i], list[i + 1].id) ELSE list[i]]

DropAdjacent(list) ==
    Without(list, {i \in 1 .. Len(list) - 1 :
                      list[i].op = "goto" /\ list[i + 1] = Label(list[i].id)})

FoldList ==
    /\ doing = "lift" /\ lists # << >> /\ Lifts(List) = {}
    /\ LET list == DropAdjacent(FoldIntoSuccessors(List))
       IN body' = PutList(body, Open, list) /\ lists' = Inner(list, Open) \o Tail(lists)
    /\ UNCHANGED <<original, queue, doing, given, at, refs, slips, runVars>>

Lifted ==
    /\ doing = "lift" /\ lists = << >>
    /\ body' = IF body = given THEN body ELSE DropQuietLabels(body)
    /\ doing' = "next"
    /\ UNCHANGED <<original, queue, listVars, slips, runVars>>

-----------------------------------------------------------------------------
(* dead_tail                                                               *)

\* What follows a terminator goes, up to the next label of the same list.
\* The tail that coverage repair appends behind a comment of its own stays as it
\* is in the code: the trees hold no comments, so none has such a tail.
RECURSIVE DropDead(_)
DropDead(list) ==
    Without([i \in DOMAIN list |-> MapKids(list[i], DropDead)],
            {i \in DOMAIN list : \E t \in 1 .. i - 1 :
                /\ IsTerminator(list[t])
                /\ \A j \in t + 1 .. i : ~IsLabel(list[j])})

-----------------------------------------------------------------------------
(* The passes of the queue, then the runs.                                 *)

NextPass(name) == doing = "next" /\ queue # << >> /\ Head(queue) = name

AtOnce(name, result) ==
    /\ NextPass(name)
    /\ queue' = Tail(queue) /\ body' = result
    /\ UNCHANGED <<original, doing, listVars, runVars>>

RemoveContinues == AtOnce("remove_continues", Trimmed(body)) /\ UNCHANGED slips
JoinHoist == AtOnce("join_hoist", HoistJoins(body)) /\ UNCHANGED slips
GotoFold == AtOnce("goto_fold", Fold(body, 16)) /\ UNCHANGED slips

DeadTail ==
    LET clean == DropDead(body)
    IN /\ AtOnce("dead_tail", clean)
       /\ slips' = slips \cup
             IF (Named(body, "label") \ Named(clean, "label")) \cap Named(clean, "goto") # {}
             THEN {"stranded"} ELSE {}

Begin(name, stage) ==
    /\ NextPass(name)
    /\ queue' = Tail(queue) /\ doing' = stage
    /\ given' = body /\ lists' = << << >> >> /\ at' = 1 /\ refs' = CountJumps(body)
    /\ UNCHANGED <<original, body, slips, runVars>>

GotoSimplify == Begin("goto_simplify", "open")
GotoFallthrough == Begin("goto_fallthrough", "lift")

Rewriting ==
    \/ RemoveContinues \/ JoinHoist \/ GotoFold \/ DeadTail
    \/ GotoSimplify \/ OpenList \/ ScanOn \/ CloseList \/ Simplified
    \/ GotoToReturn \/ GotoToShared \/ GotoToTrailing \/ InlineLabel
    \/ GotoFallthrough \/ Lift \/ FoldList \/ Lifted

Run ==
    /\ doing = "next" /\ queue = << >>
    /\ doing' = "run"
    /\ here' = Start(original) /\ there' = Start(body)
    /\ UNCHANGED <<original, body, queue, listVars, slips>>

\* Both go on, a test with the same outcome.
Proceed ==
    /\ doing = "run" /\ GoesOn(original, here) /\ Seen(original, here) = Seen(body, there)
    /\ \E v \in BOOLEAN : /\ here' = Advance(original, here, v)
                           /\ there' = Advance(body, there, v)
    /\ UNCHANGED <<original, body, queue, doing, listVars, slips>>

Next == Rewriting \/ Run \/ Proceed
Spec == Init /\ [][Next]_vars

-----------------------------------------------------------------------------
Slips == {"entered", "captured", "skipped", "stranded"}

IsTree(list) ==
    /\ \A p \in Places(list) :
          LET s == StmtAt(list, p)
          IN Len(s.kids) = CASE IsIf(s) -> 2 [] s.op \in {"while", "block"} -> 1 [] OTHER -> 0
    /\ \A l \in Named(list, "label") : Cardinality(Having(list, Label(l))) = 1

\* A tree stays a tree: every statement has the lists its kind owns, and no
\* rewrite leaves two labels of one name.
TypeOK ==
    /\ IsTree(original) /\ queue \in Seq(PassNames)
    /\ doing \in {"next", "open", "scan", "lift", "run"}
    /\ slips \subseteq Slips
    /\ IsTree(body)
    /\ \A i \in DOMAIN lists : \A k \in DOMAIN lists[i] :
          lists[i][k][1] \in DOMAIN ListAt(body, SubSeq(lists[i], 1, k - 1))

\* The passes change how the control flow is written and not what runs: at
\* every moment of a run with the same outcomes of the tests, the rewritten
\* tree does or tests what the original does, unless a rewrite was of one of
\* the shapes of slips.
RunsAgree ==
    doing = "run" /\ slips = {} => Seen(original, here) = Seen(body, there)

\* What the module comments claim without that proviso ("the set of reachable
\* executions is identical before and after each rewrite", goto_simplify.rs).
SameExecutions ==
    doing = "run" => Seen(original, here) = Seen(body, there)

\* While lists are rewritten one after the other, no rule takes the label it
\* stands on along when something else still jumps to it: every jump left has
\* its label.  Where dead_tail or the lift drops a statement with a label
\* inside it that is jumped to ("stranded"), this says nothing.
JumpsLand ==
    "stranded" \notin slips => Named(body, "goto") \subseteq Named(body, "label")

\* A jump into a list from outside it is no C#.  The trees come with some,
\* which is what the hoist is for.  When a hoist adds one, by moving a jump out
\* of the arm its label is in, a later one takes the label out too, unless what
\* stands behind the label cannot be moved: it declares a local, reads one that
\* is declared in front of it, or is nothing at all.  No other pass adds any.
FromOutside(list) ==
    {l \in Named(list, "label") : \E p \in Having(list, Goto(l)), q \in Having(list, Label(l)) :
        ~IsPrefix(q[1], p[1])}

ScopeKept ==
    \A l \in FromOutside(body) \ FromOutside(original) :
        \E q \in Having(body, Label(l)) : ~Movable(ListAt(body, q[1]), q[2])

\* goto_simplify counts the jumps of the whole tree once and then keeps the
\* books while it rewrites: a label is never thought to have fewer jumps than
\* it has.
CountsCover ==
    doing \in {"open", "scan"} => \A l \in Named(body, "goto") : Count(l) >= Refs(body, l)

Jumps(list) == {p \in Places(list) : StmtAt(list, p).op = "goto"}

\* Why the rewriting ends, though goto_simplify starts a list over after each
\* inlining and the lift repeats until nothing moves: each rewrite leaves the
\* tree with fewer jumps, never a copied one.
JumpsShrink ==
    [][(doing \in {"scan", "lift"} /\ doing' = doing /\ body' # body)
          => Cardinality(Jumps(body')) < Cardinality(Jumps(body))]_vars
=============================================================================
