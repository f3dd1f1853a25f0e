-------------------------------- MODULE Ssa ---------------------------------
(***************************************************************************)
(* Static single assignment in the recovery pipeline: phi placement and    *)
(* renaming (ssa::build), copy propagation over the renamed listing        *)
(* (passes::copy_and_constant_propagation), and the lowering of phis back  *)
(* to copies (ssa::materialize, ssa::eliminate).                           *)
(*                                                                         *)
(* A program and the listing a pass made of it are run side by side on one *)
(* path.  The path tags the value of one dynamic definition, or one value  *)
(* the method is entered with: `holds` are the registers that hold it,     *)
(* `carries` the versions that do.  The two runs read the same values on   *)
(* every path when, whatever is tagged, every read of the program sees the *)
(* tag exactly when its renamed read does.                                 *)
(*                                                                         *)
(* Registers are numbered in the order of their names.  Calls that clobber *)
(* registers, handler entries and registers whose address is taken are     *)
(* left out.                                                               *)
(***************************************************************************)
EXTENDS Flow

LOCAL INSTANCE SequencesExt

CONSTANTS
    K,            \* the number of registers
    Programs      \* the method bodies a run starts from

ASSUME KAssumption == K \in Nat \ {0}

Slots == 1 .. K
NoSlot == 0

(* An instruction defines at most one register and reads at most one; a    *)
(* body gives every block its instructions and its successors.             *)
Ops == {"nop", "set", "inc", "move", "use", "jump", "cond", "ret"}
Insns == [op : Ops, dst : Slots \cup {NoSlot}, src : Slots \cup {NoSlot}]
Terminators == {"jump", "cond", "ret"}
Entry == 0

(* Version names stand for the numbers of the global counter: the value a  *)
(* register is entered with, a phi's, and a definition's.                  *)
EntryOf(s) == <<"entry", Entry, s>>
PhiOf(b, s) == <<"phi", b, s>>
DefOf(b, i) == <<"def", b, i>>
Undefined == <<"none", 0, 0>>

VARIABLES
    prog,       \* [code, succ]
    form,       \* the last pass that ran
    chain,      \* dominators of every block, itself included
    frontier,   \* dominance frontiers
    live,       \* registers live on entry of every block
    phis,       \* phi sites: the registers every block merges until eliminate
    rotated,    \* registers whose phi at a self-looping entry was dropped
    args,       \* args[b][s][p]: what the phi of s at b gets from p
    list,       \* the renamed listing
    door,       \* the position at which a branch enters every block
    at,         \* the run: <<block, position>>, << >> before it
    tagged,     \* whether the path has chosen its value
    holds,      \* registers that hold the value, in the program
    carries     \* versions that hold it, in the listing

analysis == <<chain, frontier, live>>
tables == <<phis, rotated, args>>
run == <<at, tagged, holds, carries>>
vars == <<prog, form, chain, frontier, live, phis, rotated, args, list, door,
          at, tagged, holds, carries>>

Closed(body) == Last(body).op \in Terminators

(* Bodies as Cfg::build leaves them: no block is empty and control leaves  *)
(* it at its end only.                                                     *)
Bodied(code) ==
    /\ code \in [Blocks -> Seq(Insns) \ {<< >>}]
    /\ \A b \in Blocks : \A i \in DOMAIN code[b] :
          /\ code[b][i].op \in Terminators => i = Len(code[b])
          /\ code[b][i].op \in {"set", "inc", "move"} => code[b][i].dst # NoSlot
          /\ code[b][i].op = "move" => code[b][i].src # NoSlot

(* Their edges: a block without a terminator goes on to the next one, as   *)
(* does a condition by its second way out; of the terminators only the     *)
(* calls that do not come back define a register.                          *)
Wired(code, succ) ==
    /\ succ \in [Blocks -> Seq(Blocks)]
    /\ \A b \in Blocks :
          /\ ~Closed(code[b]) => succ[b] \in {<< >>, <<b + 1>>}
          /\ Last(code[b]).op = "cond" /\ 2 \in DOMAIN succ[b] => succ[b][2] = b + 1
          /\ Closed(code[b]) /\ Last(code[b]).dst # NoSlot => succ[b] = << >>

ASSUME ProgramsAssumption == \A p \in Programs : Bodied(p.code) /\ Wired(p.code, p.succ)

Init ==
    /\ prog \in Programs
    /\ form = "source"
    /\ chain = [b \in Blocks |-> {}] /\ frontier = chain /\ live = chain
    /\ phis = chain /\ rotated = {} /\ args = << >>
    /\ list = [b \in Blocks |-> << >>] /\ door = [b \in Blocks |-> 1]
    /\ at = << >> /\ tagged = FALSE /\ holds = {} /\ carries = {}

Code(b) == prog.code[b]
G == prog.succ

(***************************************************************************)
(* Analyses.                                                               *)
(***************************************************************************)
Exposed(b) ==
    {s \in Slots : \E i \in DOMAIN Code(b) :
        Code(b)[i].src = s /\ \A j \in 1 .. i - 1 : Code(b)[j].dst # s}

Defined(b) == {Code(b)[i].dst : i \in DOMAIN Code(b)} \ {NoSlot}

LiveIn ==
    LET in[k \in 0 .. N * K] ==
          IF k = 0 THEN [b \in Blocks |-> Exposed(b)]
          ELSE LET old == in[k - 1]
               IN  [b \in Blocks |->
                      Exposed(b) \cup ((UNION {old[t] : t \in Targets(G, b)}) \ Defined(b))]
    IN  in[N * K]

Analyse ==
    /\ form = "source"
    /\ chain' = [b \in Blocks |-> IdomChain(G, Entry, b)]
    /\ frontier' = [b \in Blocks |-> JoinFrontier(G, Entry, b)]
    /\ live' = LiveIn
    /\ form' = "analysed"
    /\ UNCHANGED <<prog, tables, list, door, run>>

(***************************************************************************)
(* Phi placement.                                                          *)
(***************************************************************************)
Defs(s) == UNION {{<<b, i>> : i \in {j \in DOMAIN Code(b) : Code(b)[j].dst = s}} : b \in Blocks}
Sites(s) == {d[1] : d \in Defs(s)}
Covers(s, b) == Sites(s) \cap chain[b] # {}

(* A register with one definition is merged as well when it is live where  *)
(* the definition does not dominate, at every such join.                   *)
Needs(s) == Cardinality(Defs(s)) = 1 /\ \E b \in Blocks : s \in live[b] /\ ~Covers(s, b)

Extra(s) ==
    {b \in Blocks : Needs(s) /\ s \in live[b] /\ Cardinality(Preds(G, b)) >= 2 /\ ~Covers(s, b)}

(* Iterated frontiers, pruned by liveness; an extra join was a phi site    *)
(* before the worklist ran and is not put on it.                           *)
LiveJoins(s, X) == {f \in UNION {frontier[b] : b \in X} : s \in live[f]}

SpreadOnce(s) == Sites(s)                                          \* mutant
Spread(s) ==
    LET step[k \in 0 .. N] ==
          IF k = 0 THEN Sites(s)
          ELSE LET X == step[k - 1] IN X \cup (LiveJoins(s, X) \ Extra(s))
    IN  step[N]

PhiBlocks(s) ==
    IF Cardinality(Defs(s)) > 1 \/ Needs(s)
    THEN Extra(s) \cup LiveJoins(s, Spread(s))
    ELSE {}

(* An entry block that is its own latch gets no phi: its last definitions  *)
(* are copied back onto the entry versions instead.                        *)
SelfLatched == Entry \in Targets(G, Entry)

PlacePhis ==
    /\ form = "analysed"
    /\ LET sites == [b \in Blocks |-> {s \in Slots : b \in PhiBlocks(s)}]
       IN  /\ rotated' = IF SelfLatched THEN sites[Entry] ELSE {}
           /\ phis' = [sites EXCEPT ![Entry] = @ \ rotated']
    /\ form' = "placed"
    /\ UNCHANGED <<prog, analysis, args, list, door, run>>

(***************************************************************************)
(* Renaming.                                                               *)
(***************************************************************************)
(* The last definition of s in b before instruction n, 0 for none. *)
LastDef(b, n, s) ==
    LET js == {j \in DOMAIN Code(b) : j < n /\ Code(b)[j].dst = s} \cup {0}
    IN  CHOOSE j \in js : \A k \in js : k <= j

Exit(b, s) ==
    IF s \in Defined(b) THEN DefOf(b, LastDef(b, Len(Code(b)) + 1, s)) ELSE PhiOf(b, s)

(* The top of the version stack on entry of b: what the nearest dominator  *)
(* that has a version of s leaves.                                         *)
Inherited(b, s) ==
    LET makers == {c \in chain[b] \ {b} : s \in Defined(c) \cup phis[c]}
    IN  IF makers = {} THEN EntryOf(s)
        ELSE Exit(CHOOSE c \in makers : makers \subseteq chain[c], s)

ReachingZero(b, n, s) == DefOf(b, LastDef(b, n, s))                \* mutant
Reaching(b, n, s) ==
    IF LastDef(b, n, s) > 0 THEN DefOf(b, LastDef(b, n, s))
    ELSE IF s \in phis[b] THEN PhiOf(b, s)
    ELSE Inherited(b, s)

Renamed(b, i) ==
    [op |-> Code(b)[i].op,
     of |-> i,
     dst |-> IF Code(b)[i].dst = NoSlot THEN Undefined ELSE DefOf(b, i),
     src |-> IF Code(b)[i].src = NoSlot THEN Undefined ELSE Reaching(b, i, Code(b)[i].src)]

(* The members of a finite set in the order Before puts them in. *)
InOrder(S, Before(_, _)) ==
    [k \in 1 .. Cardinality(S) |->
        CHOOSE e \in S : Cardinality({x \in S : Before(x, e)}) = k - 1]

Copy(v, w) == [op |-> "move", of |-> 0, dst |-> v, src |-> w]

(* In front of the terminator, or at the end of a block without one. *)
PlaceCopies(body, copies) ==
    IF Closed(body) THEN Front(body) \o copies \o <<Last(body)>> ELSE body \o copies

CopiesBack ==
    LET slots == InOrder(rotated \cap Defined(Entry), <)
    IN  IF rotated = {} THEN << >>
        ELSE [k \in DOMAIN slots |-> Copy(EntryOf(slots[k]), Exit(Entry, slots[k]))]

Rename ==
    /\ form = "placed"
    /\ list' = [b \in Blocks |->
          PlaceCopies([i \in DOMAIN Code(b) |-> Renamed(b, i)],
                      IF b = Entry THEN CopiesBack ELSE << >>)]
    /\ door' = [b \in Blocks |->
          IF b = Entry /\ Closed(Code(b)) /\ Len(Code(b)) = 1 THEN 1 + Len(CopiesBack) ELSE 1]
    /\ args' = [b \in Blocks |-> [s \in phis[b] |-> [p \in Preds(G, b) |->
          IF p \in Reachable(G, Entry) THEN Reaching(p, Len(Code(p)) + 1, s) ELSE Undefined]]]
    /\ form' = "renamed"
    /\ UNCHANGED <<prog, analysis, phis, rotated, run>>

(***************************************************************************)
(* Copy propagation.                                                       *)
(***************************************************************************)
DefSites(v) == UNION {{<<b, i>> : i \in {j \in DOMAIN list[b] : list[b][j].dst = v}} : b \in Blocks}

PhiSet == UNION {{<<b, s>> : s \in phis[b]} : b \in Blocks}
PhiArgs(b, s) == {args[b][s][p] : p \in Preds(G, b)} \ {Undefined}

(* The versions a version's definition reads, and those they read in turn. *)
Inputs(v) ==
    {list[d[1]][d[2]].src : d \in DefSites(v)}
    \cup UNION {PhiArgs(q[1], q[2]) : q \in {r \in PhiSet : PhiOf(r[1], r[2]) = v}}

ReadsTransitively(v) ==
    LET bound == Cardinality(PhiSet) + Cardinality(UNION {{<<b, i>> : i \in DOMAIN list[b]} : b \in Blocks})
        step[k \in 0 .. bound] ==
          IF k = 0 THEN {v}
          ELSE LET X == step[k - 1] IN X \cup UNION {Inputs(w) : w \in X}
    IN  step[bound]

(* slot_write_reaches: earlier in the block, or in a dominating block. *)
BlockReaches(d, b, i) == d[1] \in chain[b]                         \* mutant
WriteReaches(d, b, i) == IF d[1] = b THEN d[2] < i ELSE d[1] \in chain[b]

(* v is defined once, by a copy of a value that does not depend on it, and *)
(* that copy comes before the use.                                         *)
Forwards(v, b, i) ==
    \E d \in DefSites(v) :
        /\ DefSites(v) = {d}
        /\ list[d[1]][d[2]].op = "move"
        /\ v \notin ReadsTransitively(list[d[1]][d[2]].src)
        /\ WriteReaches(d, b, i)

MaxHops == 8

Resolve(v, b, i) ==
    LET hop[k \in 0 .. MaxHops] ==
          IF k = 0 THEN v
          ELSE LET w == hop[k - 1]
               IN  IF Forwards(w, b, i)
                   THEN LET d == CHOOSE d \in DefSites(w) : TRUE IN list[d[1]][d[2]].src
                   ELSE w
    IN  hop[MaxHops]

Propagate ==
    /\ form = "renamed" /\ at = << >>
    /\ list' = [b \in Blocks |-> [i \in DOMAIN list[b] |->
          IF list[b][i].op \in {"move", "nop"} THEN list[b][i]
          ELSE [list[b][i] EXCEPT !.src = Resolve(@, b, i)]]]
    /\ form' = "propagated"
    /\ UNCHANGED <<prog, analysis, tables, door, run>>

(***************************************************************************)
(* Lowering of the phis.                                                   *)
(***************************************************************************)
LookNowhere(sub, v) == v                                           \* mutant
Look(sub, v) == IF v \in DOMAIN sub THEN sub[v] ELSE v

(* One round of the collapse: a phi whose arguments are one version is     *)
(* replaced by the version that one is replaced by in the end.             *)
Round(st) ==
    LET same(q) == {Look(st.sub, v) : v \in PhiArgs(q[1], q[2])}
        cand == {q \in PhiSet : /\ PhiOf(q[1], q[2]) \notin DOMAIN st.sub \cup st.blocked
                                /\ Cardinality(same(q)) = 1}
        dests == {PhiOf(q[1], q[2]) : q \in cand}
        arg == [v \in dests |-> CHOOSE w \in same(<<v[2], v[3]>>) : TRUE]
        chase[k \in 0 .. Cardinality(PhiSet) + 1] ==
          IF k = 0 THEN [v \in dests |-> v]
          ELSE LET reached == chase[k - 1]
               IN  [v \in dests |-> IF reached[v] \in dests THEN arg[reached[v]]
                                    ELSE Look(st.sub, reached[v])]
        end == chase[Cardinality(PhiSet) + 1]
        cyclic == {v \in dests : end[v] \in dests \cup DOMAIN st.sub}
    IN  [sub |-> [v \in DOMAIN st.sub \cup (dests \ cyclic) |->
                     IF v \in dests THEN end[v] ELSE st.sub[v]],
         blocked |-> st.blocked \cup cyclic]

Collapse ==
    LET after[k \in 0 .. Cardinality(PhiSet)] ==
          IF k = 0 THEN [sub |-> << >>, blocked |-> {}] ELSE Round(after[k - 1])
    IN  after[Cardinality(PhiSet)].sub

(* The block the copies of edge p go to: the one that contains, in the     *)
(* listing as it is now, the index at which p ended before the rotation.   *)
EndsAt(sizes) ==
    LET end[b \in Blocks] == sizes[b] + IF b = 0 THEN 0 ELSE end[b - 1] IN end

EdgeBlock(p) ==
    LET old == EndsAt([b \in Blocks |-> Len(Code(b))])
        new == EndsAt([b \in Blocks |-> Len(list[b])])
    IN  CHOOSE q \in Blocks : old[p] <= new[q] /\ \A c \in Blocks : old[p] <= new[c] => q <= c

Earlier(x, y) ==
    \/ x[1] < y[1]
    \/ x[1] = y[1] /\ x[2] < y[2]
    \/ x[1] = y[1] /\ x[2] = y[2] /\ x[3] < y[3]

(* Where copies at the end of q are inserted: in front of its terminator,  *)
(* or of the first instruction of the next block.                          *)
SpotBehind(q) == <<q + 1, 1>>                                      \* mutant
Spot(q) == IF Closed(list[q]) THEN <<q, Len(list[q])>> ELSE <<q + 1, 1>>

(* What is inserted at one place, in the order of the phis. *)
EdgeCopies(sub, place) ==
    LET arg(e) == args[e[1]][e[2]][e[3]]
        edges == {e \in Blocks \X Slots \X Blocks :
                    /\ e[2] \in phis[e[1]] /\ PhiOf(e[1], e[2]) \notin DOMAIN sub
                    /\ e[3] \in Preds(G, e[1]) /\ Spot(EdgeBlock(e[3])) = place
                    /\ arg(e) # Undefined}
        order == InOrder(edges, Earlier)
    IN  [k \in DOMAIN order |->
            Copy(PhiOf(order[k][1], order[k][2]), Look(sub, arg(order[k])))]

(* A branch goes on to the instruction it went to: it passes over what was *)
(* inserted in front of that one.                                          *)
Eliminate ==
    /\ form \in {"renamed", "propagated"} /\ at = << >>
    /\ LET sub == Collapse
           body(b) == [i \in DOMAIN list[b] |-> [list[b][i] EXCEPT !.src = Look(sub, @)]]
           first(b) == EdgeCopies(sub, <<b, 1>>)
           last(b) == IF Len(list[b]) = 1 THEN << >> ELSE EdgeCopies(sub, <<b, Len(list[b])>>)
       IN  /\ list' = [b \in Blocks |->
                  first(b) \o Front(body(b)) \o last(b) \o <<Last(body(b))>>]
           /\ door' = [b \in Blocks |->
                  door[b] + Len(first(b)) + IF door[b] = Len(list[b]) THEN Len(last(b)) ELSE 0]
    /\ form' = IF form = "renamed" THEN "lowered" ELSE "final"
    /\ UNCHANGED <<prog, analysis, tables, run>>

(***************************************************************************)
(* The two runs.                                                           *)
(***************************************************************************)
Start ==
    /\ form \in {"renamed", "propagated", "lowered", "final"} /\ at = << >>
    /\ at' = <<Entry, 1>>
    /\ \/ UNCHANGED <<tagged, holds, carries>>
       \/ \E s \in Slots : tagged' = TRUE /\ holds' = {s} /\ carries' = {EntryOf(s)}
    /\ UNCHANGED <<prog, form, analysis, tables, list, door>>

Here == list[at[1]][at[2]]

(* Control leaves a block at its terminator, or where its code ends. *)
Leaves ==
    /\ at # << >>
    /\ \/ at[2] > Len(list[at[1]])
       \/ at[2] > 1 /\ list[at[1]][at[2] - 1].op \in Terminators

InBlock == at # << >> /\ ~Leaves

(* What an assignment leaves of a set of holders of the tagged value. *)
Assigned(S, insn, pick) ==
    (S \ {insn.dst})
    \cup IF pick \/ (insn.op = "move" /\ insn.src \in S) THEN {insn.dst} ELSE {}

Execute ==
    /\ InBlock
    /\ \E pick \in BOOLEAN :
        /\ pick => ~tagged /\ Here.op \in {"set", "inc"}
        /\ tagged' = (tagged \/ pick)
        /\ carries' = Assigned(carries, Here, pick)
        /\ holds' = IF Here.of = 0 THEN holds ELSE Assigned(holds, Code(at[1])[Here.of], pick)
    /\ at' = <<at[1], at[2] + 1>>
    /\ UNCHANGED <<prog, form, analysis, tables, list, door>>

(* The second way out of a conditional jump is the fallthrough. *)
FallsThrough(b, k) == ~Closed(list[b]) \/ (Last(list[b]).op = "cond" /\ k = 2)

(* The phis of the next block, if there are any left, take their arguments *)
(* together.                                                               *)
Merged(t) == IF form \in {"lowered", "final"} THEN {} ELSE phis[t]

Follow ==
    /\ Leaves
    /\ \E k \in DOMAIN G[at[1]] : LET t == G[at[1]][k] IN
        /\ at' = <<t, IF FallsThrough(at[1], k) THEN 1 ELSE door[t]>>
        /\ carries' = (carries \ {PhiOf(t, s) : s \in Merged(t)})
                      \cup {PhiOf(t, s) : s \in {r \in Merged(t) : args[t][r][at[1]] \in carries}}
    /\ UNCHANGED <<prog, form, analysis, tables, list, door, tagged, holds>>

Next ==
    \/ Analyse \/ PlacePhis \/ Rename \/ Propagate \/ Eliminate
    \/ Start \/ Execute \/ Follow

Spec == Init /\ [][Next]_vars

-----------------------------------------------------------------------------
Versions ==
    {EntryOf(s) : s \in Slots} \cup {PhiOf(b, s) : b \in Blocks, s \in Slots}
    \cup UNION {{DefOf(b, i) : i \in DOMAIN Code(b)} : b \in Blocks}

TypeOK ==
    /\ form \in {"source", "analysed", "placed", "renamed", "propagated", "lowered", "final"}
    /\ chain \in [Blocks -> SUBSET Blocks] /\ frontier \in [Blocks -> SUBSET Blocks]
    /\ live \in [Blocks -> SUBSET Slots] /\ phis \in [Blocks -> SUBSET Slots]
    /\ rotated \subseteq Slots
    /\ at = << >> => \A b \in Blocks : \A i \in DOMAIN list[b] :
          /\ list[b][i].op \in Ops /\ list[b][i].of \in 0 .. Len(Code(b))
          /\ {list[b][i].dst, list[b][i].src} \subseteq Versions \cup {Undefined}
    /\ door \in [Blocks -> Nat \ {0}]
    /\ tagged \in BOOLEAN /\ holds \subseteq Slots /\ carries \subseteq Versions

(* At a read, the register holds the tagged value exactly when the version *)
(* does.                                                                   *)
ReadAgrees ==
    InBlock /\ Here.of > 0 /\ Code(at[1])[Here.of].src # NoSlot =>
        (Code(at[1])[Here.of].src \in holds <=> Here.src \in carries)

(* Renaming: every read of the renamed listing, phis taking their argument *)
(* on the edge, sees the value the register held.                          *)
RenamedReadsAgree == form = "renamed" => ReadAgrees

(* Forwarding a copied version to a use never changes what the use reads. *)
PropagatedReadsAgree == form = "propagated" => ReadAgrees

(* Collapsed phis and the copies in front of the terminators leave every   *)
(* read with its value, the branch conditions they are put in front of     *)
(* included.                                                               *)
LoweredReadsAgree == form = "lowered" /\ rotated = {} => ReadAgrees

(* dominator.rs:108 on a looping entry block: "Treat it as the join it is: *)
(* it arrives from the caller AND from itself."  Its reads merge both.     *)
EntryIsAJoin == form = "renamed" /\ at # << >> /\ at[1] = Entry => ReadAgrees

(* ssa.rs:10: fresh destinations make the sequential copies on the edges   *)
(* safe, also after copies have been forwarded.                            *)
FinalReadsAgree == form = "final" => ReadAgrees

(* ssa.rs:1206: a collapsed phi's version never leaks out; every version   *)
(* the lowered listing reads is one the method is entered with or one it   *)
(* defines.                                                                *)
EveryReadDefined ==
    form \in {"lowered", "final"} /\ at = << >> =>
        \A b \in Reachable(G, Entry) : \A i \in DOMAIN list[b] :
            list[b][i].src[1] = "phi" => DefSites(list[b][i].src) # {}
=============================================================================
