------------------------------- MODULE MCSsa --------------------------------
(***************************************************************************)
(* All bodies of N blocks that set or advance one register, with the       *)
(* conditions under which each pass keeps their reads, and the bodies of   *)
(* MCSsaLoops with one block more, which nothing leads to.                 *)
(***************************************************************************)
EXTENDS MCSsaLoops

(* A block's end: a return, a jump, a conditional jump and its fallthrough *)
(* or a plain fallthrough; the entry goes on to the other blocks.          *)
Ending(code, succ) == [code |-> code, succ |-> succ]
Stops == {Ending(<<Ret(1)>>, << >>)}
Jumps(b) == {Ending(<<Jump>>, <<t>>) : t \in Blocks \ {b + 1}}
Falls(b) ==
    {Ending(<<Cond(1)>>, <<t, b + 1>>) : t \in Blocks} \cup {Ending(<< >>, <<b + 1>>)}

Endings(b) ==
    IF b = Entry THEN Falls(b)
    ELSE IF b = N - 1 THEN Stops \cup Jumps(b)
    ELSE Stops \cup Jumps(b) \cup Falls(b)

(* No block is a lone terminator: a branch to one passes over its copies.  *)
Body(bodies, ends) ==
    [code |-> [b \in Blocks |-> (IF bodies[b] = << >> THEN <<Nop>> ELSE bodies[b]) \o ends[b].code],
     succ |-> [b \in Blocks |-> ends[b].succ]]

Bodies(b) == {<< >>, <<Inc(1)>>} \cup IF b = 2 THEN {<<Set(1)>>} ELSE {}

(* Bodies whose entry has the predecessors E. *)
Entered(E) ==
    LET ends == {e \in [Blocks -> UNION {Endings(b) : b \in Blocks}] :
                    /\ \A b \in Blocks : e[b] \in Endings(b)
                    /\ Preds([b \in Blocks |-> e[b].succ], Entry) = E}
        codes == {c \in [Blocks -> UNION {Bodies(b) : b \in Blocks}] :
                    \A b \in Blocks : c[b] \in Bodies(b)}
    IN  {Body(c, e) : c \in codes, e \in ends}

(* Without the edges back to a dominator no cycle is left. *)
Reducible(g) ==
    LET forward == [b \in Blocks |-> SelectSeq(g[b], LAMBDA t : ~Dominates(g, Entry, t, b))]
    IN  \A b \in Reachable(g, Entry) :
            b \notin UNION {Reachable(forward, t) : t \in Targets(forward, b)}

Definitions(p) == Cardinality({b \in Blocks : \E i \in DOMAIN p.code[b] : p.code[b][i].dst = 1})

(* The one definition of a register does not lie in a loop entered twice. *)
LoopsEnteredOnce(p) == Definitions(p) = 1 => Reducible(p.succ)

(* The entry is no loop header. *)
NoEntryLoop == {p \in Entered({}) : LoopsEnteredOnce(p)}

(* The entry is its own only latch, and its register has two definitions. *)
SelfLatch == {p \in Entered({Entry}) : Definitions(p) >= 2}

FourBlocks(p) ==
    [code |-> p.code @@ (3 :> <<Ret(1)>>), succ |-> p.succ @@ (3 :> << >>)]

Covered == NoEntryLoop \cup SelfLatch \cup {FourBlocks(p) : p \in AnyLoops}

(* The entry heads a loop whose only latch is the second block. *)
OtherLatch == {p \in Entered({1}) : Definitions(p) >= 2}
=============================================================================
