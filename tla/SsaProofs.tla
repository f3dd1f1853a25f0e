----------------------------- MODULE SsaProofs ------------------------------
(***************************************************************************)
(* Renaming and copy propagation keep every read, for every body whose     *)
(* entry no branch leads back to and in which, if some register has one    *)
(* definition only, every loop is entered at its header.  Lowering keeps   *)
(* them as well when no collapsed phi is replaced by a collapsed one and   *)
(* no block control branches from is a terminator alone.                   *)
(* The types hold for every body.                                          *)
(***************************************************************************)
EXTENDS Ssa, FlowProofs

LOCAL INSTANCE SequencesExt

-----------------------------------------------------------------------------
(* Dominators of one block lie on a line.                                  *)

LEMMA ReachOnwards ==
    ASSUME NEW g \in Graphs, NEW r \in Blocks, NEW S, NEW T, S \subseteq T,
           NEW b \in Reach(g, r, S)
    PROVE  Reach(g, b, T) \subseteq Reach(g, r, S)
<1>1. b \in Blocks /\ \A c \in Reach(g, r, S) : Targets(g, c) \ S \subseteq Reach(g, r, S)
  BY ReachIsLeast
<1>2. ClosedSet(g, b, T, Reach(g, r, S))
  BY <1>1 DEF ClosedSet
<1>. QED  BY <1>1, <1>2, ReachWithin

(* A block is first reached over an edge from a block reached without it.  *)
LEMMA FirstEdge ==
    ASSUME NEW g \in Graphs, NEW r \in Blocks, NEW S, NEW b \in Reach(g, r, S), b # r
    PROVE  \E p \in Preds(g, b) : p \in Reach(g, r, S \cup {b})
<1>. DEFINE X == Reach(g, r, S \cup {b})
<1>1. SUFFICES ASSUME \A p \in Preds(g, b) : p \notin X PROVE FALSE
  OBVIOUS
<1>2. X \subseteq Blocks /\ {r} \ (S \cup {b}) \subseteq X
      /\ \A c \in X : Targets(g, c) \ (S \cup {b}) \subseteq X
  BY ReachIsLeast
<1>3. ClosedSet(g, r, S, X)
  BY <1>1, <1>2 DEF ClosedSet, Preds
<1>4. b \in X
  <2>. HIDE DEF X
  <2>. QED  BY <1>3, ReachWithin
<1>5. b \notin X
  <2>1. ClosedSet(g, r, S \cup {b}, X \ {b})
    BY <1>2 DEF ClosedSet
  <2>2. X \subseteq X \ {b}
    BY <2>1, ReachWithin
  <2>. QED  BY <2>2
<1>. QED  BY <1>4, <1>5

LEMMA AvoidsShut ==
    ASSUME NEW g \in Graphs, NEW r \in Blocks, NEW S
    PROVE  Reach(g, r, S) \cap S = {}
<1>1. ClosedSet(g, r, S, Reach(g, r, S) \ S)
  BY ReachIsLeast DEF ClosedSet
<1>. QED  BY <1>1, ReachWithin

LEMMA DomAntisymmetric ==
    ASSUME NEW g \in Graphs, NEW r \in Blocks, NEW a \in Reachable(g, r), NEW b,
           a \in SDoms(g, r, b), b \in SDoms(g, r, a)
    PROVE  FALSE
<1>1. a # b /\ a \notin Reach(g, r, {b}) /\ b \notin Reach(g, r, {a})
  BY DEF SDoms, Dominates
<1>. DEFINE Y == Reach(g, r, {a}) \cap Reach(g, r, {b})
<1>2. r # a /\ r # b
  BY SDomsOfRoot, ReachIsLeast, <1>1
<1>3. ClosedSet(g, r, {}, Y)
  <2>1. /\ \A x : r # x => r \in Reach(g, r, {x})
        /\ \A x : \A u \in Reach(g, r, {x}) : Targets(g, u) \ {x} \subseteq Reach(g, r, {x})
    BY ReachFacts
  <2>. QED  BY <1>1, <1>2, <2>1 DEF ClosedSet
<1>4. Reachable(g, r) \subseteq Y
  BY <1>3, ReachWithin DEF Reachable
<1>. QED  BY <1>1, <1>4

LEMMA DomTransitive ==
    ASSUME NEW g \in Graphs, NEW r \in Blocks, NEW c \in Reachable(g, r), NEW b, NEW a,
           a \in SDoms(g, r, b), b \in SDoms(g, r, c)
    PROVE  a \in SDoms(g, r, c)
<1>1. /\ a # b /\ b # c /\ a \in Blocks
      /\ b \notin Reach(g, r, {a}) /\ c \notin Reach(g, r, {b})
  BY DEF SDoms, Dominates
<1>2. a # c
  BY DomAntisymmetric
<1>3. ASSUME c \in Reach(g, r, {a}) PROVE FALSE
  <2>. DEFINE Y == Reach(g, r, {a}) \cap Reach(g, r, {b})
  <2>1. r # a => r # b
    <3>1. r # a => r \in Reach(g, r, {a})
      BY ReachFacts
    <3>. QED  BY <1>1, <3>1
  <2>2. ClosedSet(g, r, {a}, Y)
    <3>1. /\ \A x : r # x => r \in Reach(g, r, {x})
          /\ \A x : \A u \in Reach(g, r, {x}) : Targets(g, u) \ {x} \subseteq Reach(g, r, {x})
      BY ReachFacts
    <3>. QED  BY <1>1, <2>1, <3>1 DEF ClosedSet
  <2>3. Reach(g, r, {a}) \subseteq Y
    BY <2>2, ReachWithin
  <2>. QED  BY <1>1, <1>3, <2>3
<1>. QED  BY <1>1, <1>2, <1>3 DEF SDoms, Dominates

LEMMA DomComparable ==
    ASSUME NEW g \in Graphs, NEW r \in Blocks, NEW b \in Reachable(g, r),
           NEW a \in SDoms(g, r, b), NEW c \in SDoms(g, r, b)
    PROVE  a = c \/ a \in SDoms(g, r, c) \/ c \in SDoms(g, r, a)
<1>1. /\ a \in Blocks /\ c \in Blocks /\ a # b /\ c # b
      /\ b \notin Reach(g, r, {a}) /\ b \notin Reach(g, r, {c})
  BY DEF SDoms, Dominates
<1>2. SUFFICES ASSUME a # c, a \in Reach(g, r, {c}), c \in Reach(g, r, {a}) PROVE FALSE
  BY <1>1 DEF SDoms, Dominates
<1>. DEFINE X == Reach(g, r, {a}) \cup Reach(g, r, {c})
<1>3. ClosedSet(g, r, {}, X)
  <2>1. /\ \A x : r # x => r \in Reach(g, r, {x})
        /\ \A x : \A u \in Reach(g, r, {x}) : Targets(g, u) \ {x} \subseteq Reach(g, r, {x})
    BY ReachFacts
  <2>. QED  BY <1>2, <2>1 DEF ClosedSet
<1>4. Reachable(g, r) \subseteq X
  BY <1>3, ReachWithin DEF Reachable
<1>. QED  BY <1>1, <1>4

LEMMA SDomsFinite ==
    ASSUME NEW g \in Graphs, NEW r \in Blocks, NEW b
    PROVE  IsFiniteSet(SDoms(g, r, b)) /\ Cardinality(SDoms(g, r, b)) \in 0 .. N
<1>1. SDoms(g, r, b) \subseteq Blocks
  BY DEF SDoms
<1>. QED  BY <1>1, BlocksFinite, FS_Subset, FS_CardinalityType

(* Of the dominators in a set one is dominated by all others.              *)
LEMMA Nearest ==
    ASSUME NEW g \in Graphs, NEW r \in Blocks, NEW b \in Reachable(g, r),
           NEW A \in SUBSET SDoms(g, r, b), A # {}
    PROVE  \E c \in A : A \subseteq {c} \cup SDoms(g, r, c)
<1>. DEFINE height(a) == N - Cardinality(SDoms(g, r, a))
            S == {height(a) : a \in A}
<1>1. S \in SUBSET Nat /\ S # {}
  BY SDomsFinite, NAssumption
<1>2. PICK n \in S : \A m \in S : n <= m
  <2>. HIDE DEF S
  <2>. QED  BY <1>1, LeastNumber
<1>3. PICK c \in A : n = height(c)
  BY <1>2
<1>4. ASSUME NEW a \in A, a # c, a \notin SDoms(g, r, c) PROVE FALSE
  <2>1. c \in SDoms(g, r, a) /\ a \in Reachable(g, r) /\ c \in Reachable(g, r)
    BY <1>4, DomComparable, SDomsReachable
  <2>2. SDoms(g, r, c) \subseteq SDoms(g, r, a) /\ c \notin SDoms(g, r, c)
    BY <2>1, DomTransitive DEF SDoms
  <2>3. Cardinality(SDoms(g, r, c) \cup {c}) = Cardinality(SDoms(g, r, c)) + 1
    BY <2>2, SDomsFinite, FS_AddElement
  <2>4. Cardinality(SDoms(g, r, c) \cup {c}) <= Cardinality(SDoms(g, r, a))
    BY <2>1, <2>2, SDomsFinite, FS_Subset
  <2>5. height(c) <= height(a)
    BY <1>2, <1>3
  <2>6. /\ Cardinality(SDoms(g, r, c)) \in Nat /\ Cardinality(SDoms(g, r, a)) \in Nat
    BY SDomsFinite
  <2>. QED  BY <2>3, <2>4, <2>5, <2>6, NAssumption
<1>. QED  BY <1>4

-----------------------------------------------------------------------------
(* Bodies, and the definitions in them.                                    *)

LEMMA Shape ==
    ASSUME prog \in Programs
    PROVE  /\ G \in Graphs /\ Entry \in Blocks
           /\ \A b \in Blocks :
                 /\ Code(b) \in Seq(Insns) /\ Code(b) # << >>
                 /\ Len(Code(b)) \in Nat \ {0} /\ DOMAIN Code(b) = 1 .. Len(Code(b))
                 /\ \A i \in DOMAIN Code(b) : Code(b)[i] \in Insns
                 /\ \A i \in DOMAIN Code(b) :
                       /\ Code(b)[i].op \in Terminators => i = Len(Code(b))
                       /\ Code(b)[i].op \in {"set", "inc", "move"} => Code(b)[i].dst # NoSlot
                       /\ Code(b)[i].op = "move" => Code(b)[i].src # NoSlot
<1>1. /\ Bodied(prog.code) /\ prog.succ \in [Blocks -> Seq(Blocks)]
  BY ProgramsAssumption DEF Wired
<1>2. Entry \in Blocks
  BY NAssumption DEF Entry, Blocks
<1>3. ASSUME NEW b \in Blocks
      PROVE  /\ Code(b) \in Seq(Insns) /\ Code(b) # << >>
             /\ Len(Code(b)) \in Nat \ {0} /\ DOMAIN Code(b) = 1 .. Len(Code(b))
             /\ \A i \in DOMAIN Code(b) : Code(b)[i] \in Insns
  <2>1. Code(b) \in Seq(Insns) /\ Code(b) # << >>
    BY <1>1 DEF Bodied, Code
  <2>. QED  BY <2>1
<1>4. ASSUME NEW b \in Blocks, NEW i \in DOMAIN Code(b)
      PROVE  /\ Code(b)[i].op \in Terminators => i = Len(Code(b))
             /\ Code(b)[i].op \in {"set", "inc", "move"} => Code(b)[i].dst # NoSlot
             /\ Code(b)[i].op = "move" => Code(b)[i].src # NoSlot
  BY <1>1 DEF Bodied, Code
<1>. QED  BY <1>1, <1>2, <1>3, <1>4 DEF G, Graphs

(* A set of numbers up to n has a greatest element.                        *)
LEMMA GreatestNumber ==
    ASSUME NEW n \in Nat, NEW S \in SUBSET (0 .. n), S # {}
    PROVE  \E x \in S : \A y \in S : y <= x
<1>. DEFINE M == {n - x : x \in S}
<1>1. M \in SUBSET Nat /\ M # {}
  <2>1. \A x \in S : n - x \in Nat
    OBVIOUS
  <2>. QED  BY <2>1
<1>2. PICK m \in M : \A y \in M : m <= y
  <2>. HIDE DEF M
  <2>. QED  BY <1>1, LeastNumber
<1>3. PICK x \in S : m = n - x
  BY <1>2
<1>4. ASSUME NEW y \in S PROVE y <= x
  <2>1. n - x <= n - y
    BY <1>2, <1>3
  <2>. QED  BY <2>1
<1>. QED  BY <1>4

LEMMA LastDefIs ==
    ASSUME prog \in Programs, NEW b \in Blocks, NEW n \in Nat, NEW s \in Slots
    PROVE  /\ \/ LastDef(b, n, s) = 0
              \/ /\ LastDef(b, n, s) \in DOMAIN Code(b) /\ LastDef(b, n, s) < n
                 /\ Code(b)[LastDef(b, n, s)].dst = s
           /\ \A j \in DOMAIN Code(b) : j < n /\ Code(b)[j].dst = s => j <= LastDef(b, n, s)
<1>. DEFINE js == {j \in DOMAIN Code(b) : j < n /\ Code(b)[j].dst = s} \cup {0}
<1>1. js \in SUBSET (0 .. Len(Code(b))) /\ js # {} /\ Len(Code(b)) \in Nat
  BY Shape
<1>2. \E j \in js : \A k \in js : k <= j
  <2>. HIDE DEF js
  <2>. QED  BY <1>1, GreatestNumber
<1>3. LastDef(b, n, s) \in js /\ \A k \in js : k <= LastDef(b, n, s)
  BY <1>2 DEF LastDef
<1>. QED  BY <1>3

LEMMA LastDefNext ==
    ASSUME prog \in Programs, NEW b \in Blocks, NEW i \in DOMAIN Code(b), NEW s \in Slots
    PROVE  LastDef(b, i + 1, s) = IF Code(b)[i].dst = s THEN i ELSE LastDef(b, i, s)
<1>1. i \in Nat /\ i + 1 \in Nat /\ i # 0 /\ DOMAIN Code(b) \subseteq Nat
  BY Shape
<1>. DEFINE old == LastDef(b, i, s)
            new == LastDef(b, i + 1, s)
<1>2. /\ old = 0 \/ (old \in DOMAIN Code(b) /\ old < i /\ Code(b)[old].dst = s)
      /\ \A j \in DOMAIN Code(b) : j < i /\ Code(b)[j].dst = s => j <= old
  BY <1>1, LastDefIs
<1>3. /\ new = 0 \/ (new \in DOMAIN Code(b) /\ new < i + 1 /\ Code(b)[new].dst = s)
      /\ \A j \in DOMAIN Code(b) : j < i + 1 /\ Code(b)[j].dst = s => j <= new
  BY <1>1, LastDefIs
<1>. HIDE DEF old, new
<1>4. old \in Nat /\ new \in Nat
  BY <1>1, <1>2, <1>3
<1>5. CASE Code(b)[i].dst = s
  <2>1. i <= new
    BY <1>1, <1>3, <1>5
  <2>. QED  BY <1>1, <1>3, <1>4, <1>5, <2>1 DEF new
<1>6. CASE Code(b)[i].dst # s
  <2>1. new <= old
    BY <1>1, <1>2, <1>3, <1>4, <1>6
  <2>2. old <= new
    BY <1>1, <1>2, <1>3, <1>4
  <2>. QED  BY <1>4, <1>6, <2>1, <2>2 DEF old, new
<1>. QED  BY <1>5, <1>6

LEMMA LastDefFirst ==
    ASSUME prog \in Programs, NEW b \in Blocks, NEW s \in Slots
    PROVE  LastDef(b, 1, s) = 0
BY LastDefIs, Shape

(* What reaches the end of a block is its last definition, if it has one.  *)
LEMMA LastDefEnd ==
    ASSUME prog \in Programs, NEW b \in Blocks, NEW s \in Slots
    PROVE  s \in Defined(b) <=> LastDef(b, Len(Code(b)) + 1, s) > 0
<1>1. Len(Code(b)) + 1 \in Nat /\ DOMAIN Code(b) = 1 .. Len(Code(b)) /\ s # NoSlot
  BY Shape DEF Slots, NoSlot
<1>2. s \in Defined(b) <=> \E i \in DOMAIN Code(b) : Code(b)[i].dst = s
  BY <1>1 DEF Defined
<1>. QED  BY <1>1, <1>2, LastDefIs

-----------------------------------------------------------------------------
(* Liveness: after N * K rounds the sets satisfy the equations.            *)

Flowed(L) ==
    [b \in Blocks |-> Exposed(b) \cup ((UNION {L[t] : t \in Targets(G, b)}) \ Defined(b))]

LiveSets == [Blocks -> SUBSET Slots]

LEMMA FlowedType ==
    ASSUME prog \in Programs
    PROVE  /\ [b \in Blocks |-> Exposed(b)] \in LiveSets
           /\ \A L \in LiveSets : Flowed(L) \in LiveSets
<1>1. \A b \in Blocks : Exposed(b) \subseteq Slots
  BY DEF Exposed
<1>2. ASSUME NEW L \in LiveSets, NEW b \in Blocks, NEW t \in Targets(G, b)
      PROVE  L[t] \subseteq Slots
  BY <1>2, Shape, TargetsAreBlocks DEF LiveSets
<1>. QED  BY <1>1, <1>2 DEF Flowed, LiveSets

LEMMA FlowedGrows ==
    ASSUME NEW L \in LiveSets, NEW M \in LiveSets, \A b \in Blocks : L[b] \subseteq M[b],
           prog \in Programs
    PROVE  \A b \in Blocks : Flowed(L)[b] \subseteq Flowed(M)[b]
BY Shape, TargetsAreBlocks DEF Flowed

(* LiveIn iterates Flowed. *)
LEMMA LiveInIterates ==
    ASSUME prog \in Programs
    PROVE  \E f : /\ Iterates(f, LiveSets, [b \in Blocks |-> Exposed(b)],
                              [L \in LiveSets |-> Flowed(L)], N * K)
                  /\ LiveIn = f[N * K]
<1>. DEFINE first == [b \in Blocks |-> Exposed(b)]
            F == [L \in LiveSets |-> Flowed(L)]
            n == N * K
            Rhs(in) == [k \in 0 .. n |->
                IF k = 0 THEN [b \in Blocks |-> Exposed(b)]
                ELSE [b \in Blocks |->
                        Exposed(b) \cup ((UNION {in[k - 1][t] : t \in Targets(G, b)}) \ Defined(b))]]
            in == CHOOSE in : in = Rhs(in)
<1>1. LiveIn = in[n]
  BY DEF LiveIn
<1>2. n \in Nat
  BY NAssumption, KAssumption
<1>. HIDE DEF n
<1>3. first \in LiveSets /\ F \in [LiveSets -> LiveSets]
  BY FlowedType
<1>4. PICK f : Iterates(f, LiveSets, first, F, n)
  <2>. HIDE DEF F, first
  <2>. QED  BY <1>2, <1>3, IteratesExist
<1>5. /\ f \in [0 .. n -> LiveSets] /\ f[0] = first
      /\ \A k \in 1 .. n : f[k] = Flowed(f[k - 1])
  <2>1. /\ f \in [0 .. n -> LiveSets] /\ f[0] = first
        /\ \A k \in 1 .. n : f[k] = F[f[k - 1]]
    BY <1>4 DEF Iterates
  <2>2. ASSUME NEW k \in 1 .. n PROVE f[k] = Flowed(f[k - 1])
    <3>1. k - 1 \in 0 .. n
      BY <1>2
    <3>2. f[k - 1] \in LiveSets
      BY <2>1, <3>1
    <3>. QED  BY <2>1, <3>2
  <2>. QED  BY <2>1, <2>2
<1>6. f = Rhs(f)
  <2>1. ASSUME NEW k \in 0 .. n
        PROVE  f[k] = IF k = 0 THEN [b \in Blocks |-> Exposed(b)]
                      ELSE [b \in Blocks |-> Exposed(b)
                              \cup ((UNION {f[k - 1][t] : t \in Targets(G, b)}) \ Defined(b))]
    <3>1. CASE k = 0
      BY <1>5, <3>1
    <3>2. CASE k # 0
      <4>1. k \in 1 .. n
        BY <1>2, <3>2
      <4>. QED  BY <1>5, <3>2, <4>1 DEF Flowed
    <3>. QED  BY <3>1, <3>2
  <2>. QED  BY <1>5, <2>1
<1>7. in = Rhs(in)
  <2>. HIDE DEF Rhs
  <2>. QED  BY <1>6
<1>8. in[n] = f[n]
  <2>. HIDE DEF in
  <2>1. in[0] = f[0]
    BY <1>2, <1>5, <1>7
  <2>2. ASSUME NEW k \in 1 .. n, in[k - 1] = f[k - 1] PROVE in[k] = f[k]
    <3>1. k \in 0 .. n /\ k # 0
      BY <1>2
    <3>2. in[k] = Flowed(in[k - 1])
      BY <1>7, <3>1 DEF Flowed
    <3>. QED  BY <1>5, <2>2, <3>2
  <2>. HIDE DEF Rhs
  <2>3. \A k \in 0 .. n : in[k] = f[k]
    BY <2>1, <2>2, <1>2, SameTable
  <2>. QED  BY <2>3, <1>2
<1>. QED  BY <1>1, <1>4, <1>8 DEF n

(* What is read in a block before it is written, and what is live behind   *)
(* it and not written in it, is live in front of it.                       *)
LEMMA LiveInFlows ==
    ASSUME prog \in Programs
    PROVE  /\ LiveIn \in LiveSets
           /\ \A b \in Blocks : Flowed(LiveIn)[b] \subseteq LiveIn[b]
<1>. DEFINE n == N * K
            F == [L \in LiveSets |-> Flowed(L)]
            first == [b \in Blocks |-> Exposed(b)]
<1>1. n \in Nat /\ N \in Nat /\ K \in Nat
  BY NAssumption, KAssumption
<1>2. PICK f : Iterates(f, LiveSets, first, F, n) /\ LiveIn = f[n]
  BY LiveInIterates
<1>3. /\ f \in [0 .. n -> LiveSets] /\ f[0] = first
      /\ \A k \in 1 .. n : f[k] = Flowed(f[k - 1])
  <2>1. /\ f \in [0 .. n -> LiveSets] /\ f[0] = first
        /\ \A k \in 1 .. n : f[k] = F[f[k - 1]]
    BY <1>2 DEF Iterates
  <2>2. ASSUME NEW k \in 1 .. n PROVE f[k] = Flowed(f[k - 1])
    <3>1. k - 1 \in 0 .. n
      BY <1>1
    <3>2. f[k - 1] \in LiveSets
      BY <2>1, <3>1
    <3>. QED  BY <2>1, <3>2
  <2>. QED  BY <2>1, <2>2
<1>. HIDE DEF n, F
<1>4. ASSUME NEW k \in 1 .. n PROVE \A b \in Blocks : f[k - 1][b] \subseteq f[k][b]
  <2>. DEFINE Bad == {j \in Nat : j \in 1 .. n /\ ~ \A b \in Blocks : f[j - 1][b] \subseteq f[j][b]}
  <2>1. SUFFICES ASSUME Bad # {} PROVE FALSE
    BY <1>1
  <2>2. PICK j \in Bad : \A y \in Bad : j <= y
    <3>1. Bad \in SUBSET Nat
      OBVIOUS
    <3>. HIDE DEF Bad
    <3>. QED  BY <2>1, <3>1, LeastNumber
  <2>3. j \in 1 .. n /\ j \in Nat /\ ~ \A b \in Blocks : f[j - 1][b] \subseteq f[j][b]
    BY <2>2
  <2>4. CASE j = 1
    <3>1. f[1] = Flowed(first) /\ f[0] = first
      BY <1>3, <2>3, <2>4
    <3>2. \A b \in Blocks : first[b] \subseteq Flowed(first)[b]
      BY DEF Flowed
    <3>. QED  BY <2>3, <2>4, <3>1, <3>2
  <2>5. CASE j # 1
    <3>1. j - 1 \in 1 .. n /\ j - 1 \in Nat /\ j - 2 \in 0 .. n /\ j - 1 - 1 = j - 2 /\ ~(j <= j - 1)
          /\ j - 1 \in 0 .. n
      BY <1>1, <2>3, <2>5
    <3>2. j - 1 \notin Bad
      BY <2>2, <3>1
    <3>3. \A b \in Blocks : f[j - 2][b] \subseteq f[j - 1][b]
      BY <3>1, <3>2
    <3>4. f[j] = Flowed(f[j - 1]) /\ f[j - 1] = Flowed(f[j - 2])
      BY <1>3, <2>3, <3>1
    <3>5. f[j - 1] \in LiveSets /\ f[j - 2] \in LiveSets
      BY <1>3, <3>1
    <3>6. \A b \in Blocks : Flowed(f[j - 2])[b] \subseteq Flowed(f[j - 1])[b]
      BY <3>3, <3>5, FlowedGrows
    <3>. QED  BY <2>3, <3>4, <3>6
  <2>. QED  BY <2>4, <2>5
<1>. DEFINE T == Blocks \X Slots
            pairs(L) == {e \in T : e[2] \in L[e[1]]}
            sets(X) == [b \in Blocks |-> {s \in Slots : <<b, s>> \in X}]
            H == [X \in SUBSET T |-> X \cup pairs(Flowed(sets(X)))]
            h == [k \in 0 .. n |-> pairs(f[k])]
<1>5. \A L \in LiveSets : sets(pairs(L)) = L
  <2>1. ASSUME NEW L \in LiveSets, NEW b \in Blocks
        PROVE  {s \in Slots : <<b, s>> \in pairs(L)} = L[b]
    BY <2>1 DEF LiveSets
  <2>. QED  BY <2>1 DEF LiveSets
<1>6. Iterates(h, SUBSET T, pairs(first), H, n)
  <2>1. h \in [0 .. n -> SUBSET T] /\ h[0] = pairs(first)
    BY <1>1, <1>3
  <2>2. ASSUME NEW k \in 1 .. n PROVE h[k] = H[h[k - 1]]
    <3>1. k \in 0 .. n /\ k - 1 \in 0 .. n
      BY <1>1
    <3>2. f[k - 1] \in LiveSets /\ h[k - 1] = pairs(f[k - 1]) /\ h[k] = pairs(f[k]) /\ h[k - 1] \in SUBSET T
      BY <1>3, <3>1
    <3>3. H[h[k - 1]] = h[k - 1] \cup pairs(Flowed(sets(h[k - 1])))
      BY <3>2
    <3>4. Flowed(sets(h[k - 1])) = f[k]
      <4>1. f[k] = Flowed(f[k - 1])
        BY <1>3
      <4>. HIDE DEF pairs, sets, h
      <4>2. sets(h[k - 1]) = f[k - 1]
        BY <1>5, <3>2
      <4>. QED  BY <4>1, <4>2
    <3>5. pairs(f[k - 1]) \subseteq pairs(f[k])
      BY <1>4
    <3>. HIDE DEF pairs, sets, H, h
    <3>. QED  BY <3>2, <3>3, <3>4, <3>5
  <2>. QED  BY <2>1, <2>2 DEF Iterates
<1>7. IsFiniteSet(T) /\ Cardinality(T) = n
  <2>1. IsFiniteSet(Slots) /\ Cardinality(Slots) = K
    <3>1. K - 1 + 1 = K /\ 1 \in Int /\ K \in Int /\ 1 <= K
      BY KAssumption
    <3>. QED  BY <3>1, FS_Interval DEF Slots
  <2>. QED  BY <2>1, BlocksFinite, FS_Product DEF n
<1>8. H \in [SUBSET T -> SUBSET T] /\ \A X \in SUBSET T : X \subseteq H[X]
  OBVIOUS
<1>9. pairs(first) \in SUBSET T
  OBVIOUS
<1>10. H[h[n]] = h[n]
  <2>1. Cardinality(T) <= n
    BY <1>1, <1>7
  <2>. DEFINE S == pairs(first)
  <2>2. S \in SUBSET T /\ Iterates(h, SUBSET T, S, H, n)
    BY <1>6, <1>9
  <2>3. H \in [SUBSET T -> SUBSET T] /\ (\A X \in SUBSET T : X \subseteq H[X])
        /\ IsFiniteSet(T) /\ n \in Nat
    BY <1>1, <1>7, <1>8
  <2>. HIDE DEF H, h, T, S
  <2>4. H[h[n]] = h[n]
    BY <2>1, <2>2, <2>3, IteratesGrow
  <2>. QED  BY <2>4
<1>11. n \in 0 .. n /\ f[n] \in LiveSets
  BY <1>1, <1>3
<1>12. pairs(Flowed(f[n])) \subseteq pairs(f[n])
  <2>1. h[n] = pairs(f[n]) /\ h[n] \in SUBSET T /\ sets(h[n]) = f[n]
    BY <1>5, <1>11
  <2>2. H[h[n]] = h[n] \cup pairs(Flowed(sets(h[n])))
    BY <2>1
  <2>. HIDE DEF H, h, pairs, sets
  <2>. QED  BY <1>10, <2>1, <2>2
<1>13. Flowed(f[n]) \in LiveSets
  BY <1>11, FlowedType
<1>14. ASSUME NEW b \in Blocks, NEW s \in Flowed(f[n])[b] PROVE s \in f[n][b]
  <2>1. <<b, s>> \in pairs(Flowed(f[n]))
    BY <1>13, <1>14 DEF LiveSets
  <2>2. <<b, s>> \in pairs(f[n])
    BY <1>12, <2>1
  <2>. QED  BY <2>2
<1>. QED  BY <1>2, <1>11, <1>14

-----------------------------------------------------------------------------
(* Where a register is defined, and where the worklist puts its phis.      *)

LEMMA DefsAre ==
    ASSUME prog \in Programs, NEW s \in Slots
    PROVE  /\ IsFiniteSet(Defs(s))
           /\ \A b, i : <<b, i>> \in Defs(s) <=>
                 b \in Blocks /\ i \in DOMAIN Code(b) /\ Code(b)[i].dst = s
           /\ \A d \in Defs(s) : d = <<d[1], d[2]>>
           /\ \A b : b \in Sites(s) <=> b \in Blocks /\ s \in Defined(b)
<1>. DEFINE in == [b \in Blocks |-> {<<b, i>> : i \in {j \in DOMAIN Code(b) : Code(b)[j].dst = s}}]
<1>1. ASSUME NEW b \in Blocks PROVE IsFiniteSet(in[b])
  <2>1. IsFiniteSet(DOMAIN Code(b))
    BY Shape, FS_Interval
  <2>. DEFINE h == [j \in DOMAIN Code(b) |-> IF Code(b)[j].dst = s THEN {<<b, j>>} ELSE {}]
              D == DOMAIN Code(b)
  <2>2. \A j \in D : IsFiniteSet(h[j])
    BY FS_Singleton, FS_EmptySet
  <2>3. UNION {h[j] : j \in D} = in[b]
    OBVIOUS
  <2>4. IsFiniteSet(UNION {h[j] : j \in D})
    <3>. HIDE DEF h, D
    <3>1. IsFiniteSet(D)
      BY <2>1 DEF D
    <3>. QED  BY <3>1, <2>2, FiniteUnion
  <2>. QED  BY <2>3, <2>4
<1>2. IsFiniteSet(UNION {in[b] : b \in Blocks})
  <2>. HIDE DEF in
  <2>. QED  BY <1>1, BlocksFinite, FiniteUnion
<1>3. UNION {in[b] : b \in Blocks} = Defs(s)
  BY DEF Defs
<1>4. \A b, i : <<b, i>> \in Defs(s) <=>
         b \in Blocks /\ i \in DOMAIN Code(b) /\ Code(b)[i].dst = s
  BY DEF Defs
<1>5. \A d \in Defs(s) : d = <<d[1], d[2]>>
  BY DEF Defs
<1>6. ASSUME NEW b PROVE b \in Sites(s) <=> b \in Blocks /\ s \in Defined(b)
  <2>1. s # NoSlot
    BY DEF Slots, NoSlot
  <2>2. b \in Sites(s) <=> \E i : <<b, i>> \in Defs(s)
    <3>1. ASSUME NEW i, <<b, i>> \in Defs(s) PROVE b \in Sites(s)
      <4>1. <<b, i>>[1] = b
        OBVIOUS
      <4>. QED  BY <3>1, <4>1 DEF Sites
    <3>2. ASSUME b \in Sites(s) PROVE \E i : <<b, i>> \in Defs(s)
      <4>1. PICK d \in Defs(s) : b = d[1]
        BY <3>2 DEF Sites
      <4>2. <<b, d[2]>> \in Defs(s)
        BY <1>5, <4>1
      <4>. QED  BY <4>2
    <3>. QED  BY <3>1, <3>2
  <2>. QED  BY <2>1, <2>2, <1>4 DEF Defined
<1>. QED  BY <1>2, <1>3, <1>4, <1>5, <1>6

LEMMA SpreadClosed ==
    ASSUME prog \in Programs, frontier \in [Blocks -> SUBSET Blocks], NEW s \in Slots
    PROVE  /\ Spread(s) \subseteq Blocks /\ Sites(s) \subseteq Spread(s)
           /\ LiveJoins(s, Spread(s)) \ Extra(s) \subseteq Spread(s)
<1>. DEFINE F == [X \in SUBSET Blocks |-> X \cup (LiveJoins(s, X) \ Extra(s))]
            S == Sites(s)
            Rhs(step) == [k \in 0 .. N |->
                IF k = 0 THEN Sites(s)
                ELSE step[k - 1] \cup (LiveJoins(s, step[k - 1]) \ Extra(s))]
            step == CHOOSE step : step = Rhs(step)
<1>1. Spread(s) = step[N]
  BY DEF Spread
<1>2. S \in SUBSET Blocks /\ N \in Nat
  BY DefsAre, NAssumption
<1>3. \A X \in SUBSET Blocks : LiveJoins(s, X) \subseteq Blocks
  BY DEF LiveJoins
<1>4. F \in [SUBSET Blocks -> SUBSET Blocks] /\ \A X \in SUBSET Blocks : X \subseteq F[X]
  BY <1>3
<1>5. PICK f : Iterates(f, SUBSET Blocks, S, F, N)
  <2>. HIDE DEF F, S
  <2>. QED  BY <1>2, <1>4, IteratesExist
<1>6. /\ f \in [0 .. N -> SUBSET Blocks] /\ f[0] = Sites(s)
      /\ \A k \in 1 .. N : f[k] = f[k - 1] \cup (LiveJoins(s, f[k - 1]) \ Extra(s))
  <2>1. /\ f \in [0 .. N -> SUBSET Blocks] /\ f[0] = Sites(s)
        /\ \A k \in 1 .. N : f[k] = F[f[k - 1]]
    BY <1>5 DEF Iterates
  <2>2. ASSUME NEW k \in 1 .. N PROVE f[k - 1] \in SUBSET Blocks
    <3>1. k - 1 \in 0 .. N
      BY <1>2
    <3>. QED  BY <2>1, <3>1
  <2>. QED  BY <2>1, <2>2
<1>7. f = Rhs(f)
  <2>1. ASSUME NEW k \in 0 .. N
        PROVE  f[k] = IF k = 0 THEN Sites(s)
                      ELSE f[k - 1] \cup (LiveJoins(s, f[k - 1]) \ Extra(s))
    <3>1. k = 0 \/ k \in 1 .. N
      BY <1>2
    <3>2. 0 \notin 1 .. N
      OBVIOUS
    <3>. QED  BY <1>6, <3>1, <3>2
  <2>. QED  BY <1>6, <2>1
<1>8. step = Rhs(step)
  <2>. HIDE DEF Rhs
  <2>. QED  BY <1>7
<1>9. step[N] = f[N]
  <2>. HIDE DEF step
  <2>1. step[0] = f[0]
    BY <1>2, <1>6, <1>8
  <2>2. ASSUME NEW k \in 1 .. N, step[k - 1] = f[k - 1] PROVE step[k] = f[k]
    <3>1. k \in 0 .. N /\ k # 0
      BY <1>2
    <3>2. step[k] = step[k - 1] \cup (LiveJoins(s, step[k - 1]) \ Extra(s))
      BY <1>8, <3>1
    <3>. QED  BY <1>6, <2>2, <3>2
  <2>. HIDE DEF Rhs
  <2>3. \A k \in 0 .. N : step[k] = f[k]
    BY <2>1, <2>2, <1>2, SameTable
  <2>. QED  BY <2>3, <1>2
<1>10. N \in 0 .. N /\ f[N] \in SUBSET Blocks
  BY <1>2, <1>6
<1>11. F[f[N]] = f[N]
  <2>1. IsFiniteSet(Blocks) /\ Cardinality(Blocks) <= N
    BY <1>2, BlocksFinite
  <2>. HIDE DEF F, S
  <2>. QED  BY <1>2, <1>4, <1>5, <2>1, IteratesGrow
<1>12. Sites(s) \subseteq f[N]
  <2>. HIDE DEF F
  <2>1. S \subseteq f[N]
    <3>. HIDE DEF S
    <3>. QED  BY <1>2, <1>4, <1>5, <1>10, IteratesKeep
  <2>. QED  BY <2>1
<1>. QED  BY <1>1, <1>9, <1>10, <1>11, <1>12

-----------------------------------------------------------------------------
(* What the theorems ask of a body, and what the passes leave of it.       *)

R == Reachable(G, Entry)

(* No branch leads back to the entry. *)
EntryApart == Preds(G, Entry) = {}

(* Every set of blocks has one that dominates those before it in the set:  *)
(* without the edges back to a dominator no cycle is left.                 *)
Reducible ==
    \A C \in SUBSET R : C # {} =>
        \E x \in C : \A p \in Preds(G, x) \cap C : Dominates(G, Entry, x, p)

Plain ==
    /\ EntryApart
    /\ (\E s \in Slots : Cardinality(Defs(s)) = 1) => Reducible

Analysed ==
    /\ prog \in Programs
    /\ chain = [b \in Blocks |-> IdomChain(G, Entry, b)]
    /\ frontier = [b \in Blocks |-> JoinFrontier(G, Entry, b)]
    /\ live = LiveIn

Placed ==
    /\ Analysed /\ rotated = {}
    /\ phis = [b \in Blocks |-> {s \in Slots : b \in PhiBlocks(s)}]

(* Blocks above b, and those that have a version of s. *)
Above(b) == chain[b] \ {b}
Made(s) == {c \in Blocks : s \in Defined(c) \cup phis[c]}

(* t defines s, nothing else does, and it has no phi for what comes in. *)
Lone(s, t) ==
    Cardinality(Defs(s)) = 1 /\ Sites(s) = {t} /\ s \in live[t] \ phis[t]

LEMMA ChainIs ==
    ASSUME Analysed, NEW b \in R
    PROVE  /\ b \in Blocks /\ chain[b] = {b} \cup SDoms(G, Entry, b)
           /\ Above(b) = SDoms(G, Entry, b)
           /\ chain[b] \subseteq R
<1>1. G \in Graphs /\ Entry \in Blocks
  BY Shape DEF Analysed
<1>2. b \in Blocks
  BY <1>1, ReachFacts DEF R
<1>3. chain[b] = {b} \cup SDoms(G, Entry, b)
  BY <1>2 DEF Analysed, IdomChain, R
<1>4. b \notin SDoms(G, Entry, b)
  BY DEF SDoms
<1>5. SDoms(G, Entry, b) \subseteq R
  BY <1>1, SDomsReachable DEF R
<1>. QED  BY <1>2, <1>3, <1>4, <1>5 DEF Above

LEMMA ChainOfEntry ==
    ASSUME Analysed
    PROVE  Entry \in R /\ chain[Entry] = {Entry} /\ Above(Entry) = {}
<1>1. G \in Graphs /\ Entry \in Blocks
  BY Shape DEF Analysed
<1>2. Entry \in R /\ SDoms(G, Entry, Entry) = {}
  BY <1>1, ReachFacts, SDomsOfRoot DEF R
<1>. QED  BY <1>2, ChainIs

LEMMA AboveStrict ==
    ASSUME Analysed, NEW b \in R, NEW c \in Above(b)
    PROVE  c \in R /\ c # b /\ b \notin chain[c]
<1>1. G \in Graphs /\ Entry \in Blocks
  BY Shape DEF Analysed
<1>2. c \in R /\ c # b /\ c \in SDoms(G, Entry, b)
  BY ChainIs DEF Above
<1>3. b \notin SDoms(G, Entry, c)
  BY <1>1, <1>2, DomAntisymmetric DEF R
<1>. QED  BY <1>2, <1>3, ChainIs

LEMMA AboveAbove ==
    ASSUME Analysed, NEW b \in R, NEW c \in Above(b), NEW a \in chain[c]
    PROVE  a \in Above(b)
<1>1. G \in Graphs /\ Entry \in Blocks
  BY Shape DEF Analysed
<1>2. c \in R /\ c \in SDoms(G, Entry, b)
  BY ChainIs DEF Above
<1>3. a = c \/ a \in SDoms(G, Entry, c)
  BY <1>2, ChainIs
<1>4. a \in SDoms(G, Entry, c) => a \in SDoms(G, Entry, b)
  BY <1>1, <1>2, DomTransitive DEF R
<1>. QED  BY <1>2, <1>3, <1>4, ChainIs

LEMMA OnOneLine ==
    ASSUME Analysed, NEW b \in R, NEW a \in chain[b], NEW c \in chain[b]
    PROVE  a \in chain[c] \/ c \in chain[a]
<1>1. G \in Graphs /\ Entry \in Blocks
  BY Shape DEF Analysed
<1>2. a \in R /\ c \in R /\ chain[b] = {b} \cup SDoms(G, Entry, b)
  BY ChainIs
<1>3. CASE a = b \/ c = b \/ a = c
  BY <1>2, <1>3, ChainIs
<1>4. CASE a \in SDoms(G, Entry, b) /\ c \in SDoms(G, Entry, b)
  BY <1>1, <1>2, <1>4, DomComparable, ChainIs DEF R
<1>. QED  BY <1>2, <1>3, <1>4

LEMMA TwoBefore ==
    ASSUME NEW t, NEW p \in Preds(G, t), NEW q \in Preds(G, t), p # q
    PROVE  Cardinality(Preds(G, t)) >= 2
<1>1. IsFiniteSet(Preds(G, t)) /\ Cardinality(Preds(G, t)) \in Nat
  <2>1. Preds(G, t) \subseteq Blocks
    BY DEF Preds
  <2>. QED  BY <2>1, BlocksFinite, FS_Subset, FS_CardinalityType
<1>2. Cardinality(Preds(G, t)) # 0
  BY <1>1, FS_EmptySet
<1>3. Cardinality(Preds(G, t)) # 1
  BY <1>1, FS_Singleton
<1>. QED  BY <1>1, <1>2, <1>3

(* What dominates a block dominates those before it. *)
LEMMA EdgeDown ==
    ASSUME Analysed, EntryApart, NEW t \in R, NEW p \in Preds(G, t)
    PROVE  /\ t # Entry /\ p \in Blocks
           /\ p \in R => Above(t) \subseteq chain[p]
<1>1. G \in Graphs /\ Entry \in Blocks /\ t \in Blocks
  BY Shape, ChainIs DEF Analysed
<1>2. t # Entry /\ p \in Blocks
  BY DEF EntryApart, Preds
<1>3. ASSUME p \in R, NEW a \in Above(t) PROVE a \in chain[p]
  <2>1. a \in SDoms(G, Entry, t)
    BY ChainIs
  <2>2. a \in {p} \cup SDoms(G, Entry, p)
    BY <1>1, <2>1, SDomsOfPreds
  <2>. QED  BY <1>3, <2>2, ChainIs
<1>. QED  BY <1>2, <1>3

(* A block over whose edge a dominator is left is a join, on the frontier  *)
(* of that dominator.                                                      *)
LEMMA EdgeToFrontier ==
    ASSUME Analysed, EntryApart, NEW t \in R, NEW p \in Preds(G, t), p \in R,
           NEW c \in chain[p], c \notin Above(t)
    PROVE  t \in frontier[c] /\ Cardinality(Preds(G, t)) >= 2
<1>1. G \in Graphs /\ Entry \in Blocks /\ t \in Blocks /\ p \in Blocks /\ t # Entry
  BY Shape, ChainIs, EdgeDown DEF Analysed
<1>2. PICK q \in Preds(G, t) : q \in Reach(G, Entry, {t})
  <2>1. t \in Reach(G, Entry, {})
    BY DEF R, Reachable
  <2>2. {} \cup {t} = {t}
    OBVIOUS
  <2>. QED  BY <1>1, <2>1, <2>2, FirstEdge
<1>3. q \in R /\ t \notin chain[q]
  <2>1. q \in R /\ q # t
    BY <1>1, <1>2, ReachFacts, AvoidsShut DEF R
  <2>2. t \notin SDoms(G, Entry, q)
    BY <1>2 DEF SDoms, Dominates
  <2>. QED  BY <2>1, <2>2, ChainIs
<1>4. ASSUME q = p PROVE \E z \in Preds(G, t) : z # p
  <2>1. c # t /\ c \notin SDoms(G, Entry, t)
    BY <1>3, <1>4, ChainIs
  <2>2. t \in Reach(G, Entry, {c})
    BY <1>1, <2>1, ChainIs DEF SDoms, Dominates
  <2>3. c \in Blocks
    BY ChainIs
  <2>4. PICK z \in Preds(G, t) : z \in Reach(G, Entry, {c})
    BY <1>1, <2>2, LastEdge
  <2>5. z # c /\ c \notin SDoms(G, Entry, z)
    BY <1>1, <2>4, AvoidsShut DEF SDoms, Dominates
  <2>6. z # p
    BY <2>5, ChainIs
  <2>. QED  BY <2>6
<1>5. PICK z \in Preds(G, t) : z # p
  BY <1>4
<1>6. Cardinality(Preds(G, t)) >= 2
  BY <1>5, TwoBefore
<1>7. IsJoin(G, t)
  BY <1>1, <1>5, NoJoinOnePred
<1>8. c \in Blocks /\ c \in IdomChain(G, Entry, p) \ (IdomChain(G, Entry, t) \ {t})
  BY <1>1, ChainIs DEF Analysed, Above
<1>9. t \in JoinFrontier(G, Entry, c)
  BY <1>1, <1>7, <1>8 DEF JoinFrontier
<1>. QED  BY <1>6, <1>8, <1>9 DEF Analysed

(* A register whose only definition lies ahead is live wherever the block   *)
(* that reads it in front of that definition is reached from.              *)
LEMMA LiveUpwards ==
    ASSUME Analysed, NEW s \in Slots, NEW t \in Blocks, Sites(s) = {t}, s \in live[t],
           NEW b \in Blocks, b # t, t \in Reach(G, b, {})
    PROVE  s \in live[b]
<1>1. G \in Graphs /\ prog \in Programs
  BY Shape DEF Analysed
<1>2. ASSUME NEW c \in Blocks, c # t, NEW u \in Targets(G, c), s \in live[u]
      PROVE  s \in live[c]
  <2>1. s \notin Defined(c)
    BY <1>1, <1>2, DefsAre
  <2>2. s \in Flowed(live)[c]
    BY <1>2, <2>1 DEF Flowed
  <2>. QED  BY <1>1, <2>2, LiveInFlows DEF Analysed
<1>. DEFINE Y == {c \in Blocks : s \notin live[c]}
<1>3. SUFFICES ASSUME s \notin live[b] PROVE FALSE
  OBVIOUS
<1>4. ClosedSet(G, b, {t}, Y)
  BY <1>1, <1>2, <1>3, TargetsAreBlocks DEF ClosedSet
<1>5. Reach(G, b, {t}) \subseteq Y
  BY <1>1, <1>4, ReachWithin
<1>6. PICK p \in Preds(G, t) : p \in Reach(G, b, {t})
  <2>1. {} \cup {t} = {t}
    OBVIOUS
  <2>. QED  BY <1>1, <2>1, FirstEdge
<1>7. p \in Blocks /\ p # t /\ t \in Targets(G, p) /\ s \notin live[p]
  BY <1>1, <1>5, <1>6, AvoidsShut DEF Preds
<1>. QED  BY <1>2, <1>7

LEMMA LiveOnEntry ==
    ASSUME Analysed, NEW s \in Slots, NEW t \in R, t # Entry, Sites(s) = {t}, s \in live[t]
    PROVE  s \in live[Entry]
<1>1. t \in Blocks /\ Entry \in Blocks /\ t \in Reach(G, Entry, {})
  BY ChainIs, ChainOfEntry DEF R, Reachable
<1>. QED  BY <1>1, LiveUpwards

LEMMA PhisAre ==
    ASSUME Placed, NEW s \in Slots, NEW b
    PROVE  /\ b \in Blocks => (s \in phis[b] <=> b \in PhiBlocks(s))
           /\ b \in PhiBlocks(s) => b \in Blocks /\ s \in live[b]
<1>1. frontier \in [Blocks -> SUBSET Blocks]
  BY DEF Placed, Analysed, JoinFrontier
<1>2. Spread(s) \subseteq Blocks
  BY <1>1, SpreadClosed DEF Placed, Analysed
<1>3. b \in PhiBlocks(s) => b \in Blocks /\ s \in live[b]
  BY <1>1, <1>2 DEF PhiBlocks, Extra, LiveJoins
<1>. QED  BY <1>3 DEF Placed

(* A block no branch leads to merges nothing. *)
LEMMA EntryUnmerged ==
    ASSUME Placed, EntryApart
    PROVE  phis[Entry] = {}
<1>1. Entry \in Blocks /\ Preds(G, Entry) = {}
  BY Shape DEF Placed, Analysed, EntryApart
<1>2. \A b \in Blocks : Entry \notin frontier[b]
  BY <1>1 DEF Placed, Analysed, JoinFrontier
<1>3. Cardinality(Preds(G, Entry)) = 0
  BY <1>1, FS_EmptySet
<1>4. ASSUME NEW s \in Slots, Entry \in PhiBlocks(s) PROVE FALSE
  <2>1. frontier \in [Blocks -> SUBSET Blocks]
    BY DEF Placed, Analysed, JoinFrontier
  <2>2. Spread(s) \subseteq Blocks
    BY <2>1, SpreadClosed DEF Placed, Analysed
  <2>. QED  BY <1>2, <1>3, <1>4, <2>2 DEF PhiBlocks, Extra, LiveJoins
<1>. QED  BY <1>1, <1>4 DEF Placed

(* The phis are closed under the frontiers of what has a version, but for  *)
(* the only definition of a register.                                      *)
LEMMA FrontierMerged ==
    ASSUME Placed, EntryApart, NEW s \in Slots, NEW t \in R, s \in live[t],
           NEW p \in Preds(G, t), p \in R, NEW c \in chain[p] \cap Made(s),
           c \notin Above(t), s \notin phis[t]
    PROVE  Lone(s, t)
<1>1. Analysed /\ prog \in Programs /\ t \in Blocks /\ c \in Blocks /\ t # Entry
      /\ frontier \in [Blocks -> SUBSET Blocks]
  <2>1. Analysed /\ prog \in Programs
    BY DEF Placed, Analysed
  <2>2. frontier \in [Blocks -> SUBSET Blocks]
    BY DEF Placed, Analysed, JoinFrontier
  <2>. QED  BY <2>1, <2>2, ChainIs, EdgeDown DEF Made
<1>2. t \in frontier[c] /\ Cardinality(Preds(G, t)) >= 2
  BY <1>1, EdgeToFrontier
<1>3. t \notin PhiBlocks(s)
  BY <1>1, PhisAre
<1>4. c \in Sites(s) \/ c \in PhiBlocks(s)
  BY <1>1, DefsAre, PhisAre DEF Made
<1>5. c \notin Spread(s) \/ ~(Cardinality(Defs(s)) > 1 \/ Needs(s))
  BY <1>1, <1>2, <1>3 DEF PhiBlocks, LiveJoins
<1>6. Sites(s) # {} => Defs(s) # {}
  BY DEF Sites
<1>7. /\ Cardinality(Defs(s)) \in Nat
      /\ Cardinality(Defs(s)) = 0 => Defs(s) = {}
      /\ Cardinality(Defs(s)) = 1 => \E d : Sites(s) = {d}
  <2>1. IsFiniteSet(Defs(s))
    BY <1>1, DefsAre
  <2>2. ASSUME Cardinality(Defs(s)) = 1 PROVE \E d : Sites(s) = {d}
    <3>1. PICK x : Defs(s) = {x}
      BY <2>1, <2>2, FS_Singleton
    <3>2. Sites(s) = {x[1]}
      BY <3>1 DEF Sites
    <3>. QED  BY <3>2
  <2>. QED  BY <2>1, <2>2, FS_CardinalityType, FS_EmptySet
<1>8. CASE ~(Cardinality(Defs(s)) > 1 \/ Needs(s))
  <2>1. c \in Sites(s)
    BY <1>4, <1>8 DEF PhiBlocks
  <2>2. Cardinality(Defs(s)) = 1
    BY <1>6, <1>7, <1>8, <2>1
  <2>3. Sites(s) = {c}
    BY <1>7, <2>1, <2>2
  <2>4. \A b \in Blocks : s \in live[b] => c \in chain[b]
    BY <1>8, <2>2, <2>3 DEF Needs, Covers
  <2>5. c = t
    BY <1>1, <2>4 DEF Above
  <2>6. s \in live[Entry]
    BY <1>1, <2>3, <2>5, LiveOnEntry
  <2>7. c \in chain[Entry]
    BY <1>1, <2>4, <2>6, Shape
  <2>. QED  BY <1>1, <2>5, <2>7, ChainOfEntry
<1>9. CASE Cardinality(Defs(s)) > 1 \/ Needs(s)
  <2>1. c \in Extra(s)
    <3>1. Sites(s) \subseteq Spread(s) /\ LiveJoins(s, Spread(s)) \ Extra(s) \subseteq Spread(s)
      BY <1>1, SpreadClosed
    <3>2. c \in LiveJoins(s, Spread(s)) \/ c \in Extra(s)
      BY <1>4, <1>5, <1>9, <3>1 DEF PhiBlocks
    <3>. QED  BY <1>5, <1>9, <3>1, <3>2
  <2>2. Needs(s) /\ Cardinality(Defs(s)) = 1 /\ ~Covers(s, c)
    BY <2>1 DEF Extra, Needs
  <2>3. PICK d : Sites(s) = {d}
    BY <1>7, <2>2
  <2>4. d \in chain[t]
    <3>1. t \notin Extra(s)
      BY <1>3, <1>9 DEF PhiBlocks
    <3>. QED  BY <1>1, <1>2, <2>2, <2>3, <3>1 DEF Extra, Covers
  <2>5. d \notin chain[c]
    BY <2>2, <2>3 DEF Covers
  <2>6. ASSUME d # t PROVE FALSE
    <3>1. d \in Above(t)
      BY <2>4, <2>6 DEF Above
    <3>2. d \in chain[p]
      BY <1>1, <3>1, EdgeDown
    <3>3. c \in chain[d]
      BY <1>1, <2>5, <3>2, OnOneLine
    <3>. QED  BY <1>1, <3>1, <3>3, AboveAbove
  <2>. QED  BY <2>2, <2>3, <2>6 DEF Lone
<1>. QED  BY <1>8, <1>9

(* A definition whose dominance ends at t is merged there.                 *)
LEMMA SiteMerged ==
    ASSUME Placed, EntryApart, NEW s \in Slots, NEW t \in R, s \in live[t],
           NEW p \in Preds(G, t), p \in R, NEW c \in chain[p] \cap Sites(s),
           c \notin Above(t)
    PROVE  s \in phis[t]
<1>1. SUFFICES ASSUME s \notin phis[t] PROVE FALSE
  OBVIOUS
<1>2. Analysed /\ prog \in Programs /\ t \in Blocks /\ t # Entry
      /\ frontier \in [Blocks -> SUBSET Blocks]
  <2>1. Analysed /\ prog \in Programs
    BY DEF Placed, Analysed
  <2>2. frontier \in [Blocks -> SUBSET Blocks]
    BY DEF Placed, Analysed, JoinFrontier
  <2>. QED  BY <2>1, <2>2, ChainIs, EdgeDown
<1>3. c \in Blocks /\ c \in Made(s)
  BY <1>2, DefsAre DEF Made
<1>4. Lone(s, t)
  BY <1>1, <1>3, FrontierMerged
<1>5. c = t /\ Cardinality(Defs(s)) = 1 /\ Sites(s) = {t}
  BY <1>4 DEF Lone
<1>6. t \in frontier[t] /\ t \in Spread(s)
  BY <1>2, <1>5, EdgeToFrontier, SpreadClosed
<1>7. ~Needs(s)
  BY <1>1, <1>2, <1>6, PhisAre DEF PhiBlocks, LiveJoins
<1>8. Entry \in Blocks /\ s \in live[Entry]
  BY <1>2, <1>5, LiveOnEntry, Shape
<1>9. t \in chain[Entry]
  BY <1>5, <1>7, <1>8 DEF Needs, Covers
<1>. QED  BY <1>2, <1>9, ChainOfEntry

-----------------------------------------------------------------------------
(* The version on top of the stack.                                        *)

Makers(b, s) == Above(b) \cap Made(s)

LEMMA TopMaker ==
    ASSUME Analysed, NEW s \in Slots, NEW b \in R
    PROVE  /\ Makers(b, s) = {} => Inherited(b, s) = EntryOf(s)
           /\ Makers(b, s) # {} =>
                 \E c \in Makers(b, s) : Makers(b, s) \subseteq chain[c]
           /\ \A c \in Makers(b, s) : Makers(b, s) \subseteq chain[c] =>
                 /\ Inherited(b, s) = Exit(c, s)
                 /\ c = CHOOSE a \in Makers(b, s) : Makers(b, s) \subseteq chain[a]
<1>1. G \in Graphs /\ Entry \in Blocks /\ Above(b) = SDoms(G, Entry, b)
      /\ chain[b] \subseteq Blocks
  BY Shape, ChainIs, ReachFacts DEF Analysed, R
<1>. DEFINE A == Makers(b, s)
<1>2. A = {c \in chain[b] \ {b} : s \in Defined(c) \cup phis[c]}
  BY <1>1 DEF Makers, Made, Above
<1>3. Inherited(b, s) = IF A = {} THEN EntryOf(s)
                        ELSE Exit(CHOOSE c \in A : A \subseteq chain[c], s)
  BY <1>2 DEF Inherited
<1>4. A \in SUBSET SDoms(G, Entry, b) /\ A \subseteq Above(b)
  BY <1>1 DEF Makers
<1>. HIDE DEF A
<1>5. ASSUME A # {} PROVE \E c \in A : A \subseteq chain[c]
  <2>1. PICK c \in A : A \subseteq {c} \cup SDoms(G, Entry, c)
    BY <1>1, <1>4, <1>5, Nearest DEF R
  <2>2. c \in R
    BY <1>4, AboveStrict
  <2>. QED  BY <2>1, <2>2, ChainIs
<1>6. ASSUME NEW c \in A, A \subseteq chain[c], NEW a \in A, A \subseteq chain[a] PROVE a = c
  <2>1. a \in R /\ c \in R
    BY <1>4, AboveStrict
  <2>2. SUFFICES ASSUME a # c PROVE FALSE
    OBVIOUS
  <2>3. a \in Above(c) /\ c \in chain[a]
    BY <1>6, <2>2 DEF Above
  <2>. QED  BY <2>1, <2>3, AboveStrict
<1>7. ASSUME NEW c \in A, A \subseteq chain[c]
      PROVE  c = CHOOSE a \in A : A \subseteq chain[a]
  BY <1>6, <1>7
<1>8. ASSUME NEW c \in A, A \subseteq chain[c] PROVE Inherited(b, s) = Exit(c, s)
  <2>1. A # {} /\ (CHOOSE a \in A : A \subseteq chain[a]) = c
    BY <1>7, <1>8
  <2>. QED  BY <1>3, <2>1
<1>9. A = {} => Inherited(b, s) = EntryOf(s)
  BY <1>3
<1>. QED  BY <1>5, <1>7, <1>8, <1>9 DEF A

(* Over an edge into a block without a phi the version does not change, but *)
(* for the only definition of a register.                                  *)
LEMMA EdgeSame ==
    ASSUME Placed, EntryApart, NEW s \in Slots, NEW t \in R, s \in live[t], s \notin phis[t],
           ~Lone(s, t), NEW p \in Preds(G, t), p \in R
    PROVE  Inherited(t, s) = Reaching(p, Len(Code(p)) + 1, s)
<1>1. Analysed /\ prog \in Programs /\ p \in Blocks /\ Above(t) \subseteq chain[p]
      /\ chain[p] = {p} \cup Above(p)
  <2>1. Analysed /\ prog \in Programs
    BY DEF Placed, Analysed
  <2>. QED  BY <2>1, EdgeDown, ChainIs DEF Above
<1>2. \A c \in chain[p] \cap Made(s) : c \in Above(t)
  BY FrontierMerged
<1>3. s \in Defined(p) <=> LastDef(p, Len(Code(p)) + 1, s) > 0
  BY <1>1, LastDefEnd
<1>4. CASE p \in Made(s)
  <2>1. p \in Makers(t, s) /\ Makers(t, s) \subseteq chain[p]
    BY <1>1, <1>2, <1>4 DEF Makers
  <2>2. Inherited(t, s) = Exit(p, s)
    BY <1>1, <2>1, TopMaker
  <2>. QED  BY <1>3, <1>4, <2>2 DEF Exit, Reaching, Made
<1>5. CASE p \notin Made(s)
  <2>1. Makers(t, s) = Makers(p, s)
    BY <1>1, <1>2, <1>5 DEF Makers
  <2>2. Reaching(p, Len(Code(p)) + 1, s) = Inherited(p, s)
    BY <1>1, <1>3, <1>5 DEF Reaching, Made
  <2>3. CASE Makers(p, s) = {}
    BY <1>1, <2>1, <2>2, <2>3, TopMaker
  <2>4. CASE Makers(p, s) # {}
    <3>1. PICK c \in Makers(p, s) : Makers(p, s) \subseteq chain[c]
      BY <1>1, <2>4, TopMaker
    <3>2. Inherited(p, s) = Exit(c, s) /\ Inherited(t, s) = Exit(c, s)
      BY <1>1, <2>1, <3>1, TopMaker
    <3>. QED  BY <2>2, <3>2
  <2>. QED  BY <2>3, <2>4
<1>. QED  BY <1>4, <1>5

-----------------------------------------------------------------------------
(* The one register a join may leave unmerged: its only definition is the  *)
(* join itself, in front of which it is read.  The version it is read by   *)
(* is that of the header above the join; the blocks on the way from there  *)
(* form a zone that the definition is not in.                              *)

Header(s, d) ==
    IF Makers(d, s) = {} THEN NoBlock
    ELSE CHOOSE c \in Makers(d, s) : Makers(d, s) \subseteq chain[c]

(* The blocks a block before d is reached from without passing h. *)
Behind(h, d) == {q \in R : Reach(G, q, {h}) \cap Preds(G, d) # {}}

Zone(s, d) == {q \in R : q = Header(s, d) \/ q \in Behind(Header(s, d), d)}

LEMMA HeaderIs ==
    ASSUME Placed, NEW s \in Slots, NEW d \in R, Lone(s, d)
    PROVE  /\ Header(s, d) = NoBlock => Makers(d, s) = {} /\ Inherited(d, s) = EntryOf(s)
           /\ Header(s, d) # NoBlock =>
                 /\ Header(s, d) \in Makers(d, s) /\ Makers(d, s) \subseteq chain[Header(s, d)]
                 /\ Header(s, d) \in Above(d) /\ Header(s, d) # d
                 /\ Inherited(d, s) = PhiOf(Header(s, d), s) /\ s \in phis[Header(s, d)]
                 /\ s \notin Defined(Header(s, d))
<1>1. Analysed /\ prog \in Programs /\ d \in Blocks /\ Sites(s) = {d} /\ NoBlock \notin Blocks
  <2>1. Analysed /\ prog \in Programs
    BY DEF Placed, Analysed
  <2>. QED  BY <2>1, ChainIs, BlocksFinite DEF Lone
<1>2. CASE Makers(d, s) = {}
  BY <1>1, <1>2, TopMaker DEF Header
<1>3. CASE Makers(d, s) # {}
  <2>1. PICK c \in Makers(d, s) : Makers(d, s) \subseteq chain[c]
    BY <1>1, <1>3, TopMaker
  <2>2. Header(s, d) = c /\ Inherited(d, s) = Exit(c, s)
    BY <1>1, <1>3, <2>1, TopMaker DEF Header
  <2>3. c \in Above(d) /\ c \in Blocks /\ c # d
    BY DEF Makers, Made, Above
  <2>4. s \notin Defined(c)
    BY <1>1, <2>3, DefsAre
  <2>5. s \in phis[c]
    BY <2>4 DEF Makers, Made
  <2>. QED  BY <1>1, <2>1, <2>2, <2>3, <2>4, <2>5 DEF Exit
<1>. QED  BY <1>2, <1>3

(* An edge into the zone starts in the zone. *)
LEMMA ZoneBack ==
    ASSUME Analysed, NEW s \in Slots, NEW d \in R, NEW t \in Zone(s, d), t # Header(s, d),
           NEW p \in Preds(G, t), p \in R
    PROVE  p \in Zone(s, d)
<1>. DEFINE h == Header(s, d)
<1>1. G \in Graphs /\ p \in Blocks /\ t \in Targets(G, p) /\ Reach(G, t, {h}) \cap Preds(G, d) # {}
  BY Shape DEF Analysed, Preds, Zone, Behind
<1>2. CASE p = h
  BY <1>2 DEF Zone
<1>3. CASE p # h
  <2>1. p \in Reach(G, p, {h})
    BY <1>1, <1>3, ReachIsLeast
  <2>2. t \in Reach(G, p, {h})
    <3>1. Targets(G, p) \ {h} \subseteq Reach(G, p, {h})
      BY <1>1, <2>1, ReachIsLeast
    <3>. QED  BY <1>1, <3>1
  <2>3. Reach(G, t, {h}) \subseteq Reach(G, p, {h})
    BY <1>1, <2>2, ReachOnwards
  <2>. QED  BY <1>1, <2>3 DEF Zone, Behind
<1>. QED  BY <1>2, <1>3

(* What comes before d is in its zone. *)
LEMMA ZoneHolds ==
    ASSUME Analysed, NEW s \in Slots, NEW d \in R, NEW p \in Preds(G, d), p \in R
    PROVE  p \in Zone(s, d)
<1>. DEFINE h == Header(s, d)
<1>1. G \in Graphs /\ p \in Blocks
  BY Shape DEF Analysed, Preds
<1>2. p # h => p \in Reach(G, p, {h})
  BY <1>1, ReachIsLeast
<1>. QED  BY <1>2 DEF Zone, Behind

(* A block whose dominator h is not on the way to it is not reached. *)
LEMMA NoWayRound ==
    ASSUME Analysed, NEW d \in R, NEW h \in Above(d), NEW q \in Reach(G, Entry, {h})
    PROVE  q \notin Behind(h, d)
<1>1. G \in Graphs /\ Entry \in Blocks /\ d \in Blocks /\ d # h
  BY Shape, ChainIs DEF Analysed, Above
<1>2. d \notin Reach(G, Entry, {h})
  BY <1>1, ChainIs DEF SDoms, Dominates
<1>3. SUFFICES ASSUME NEW p \in Preds(G, d), p \in Reach(G, q, {h}) PROVE FALSE
  BY DEF Behind
<1>4. p \in Reach(G, Entry, {h})
  <2>1. Reach(G, q, {h}) \subseteq Reach(G, Entry, {h})
    BY <1>1, ReachOnwards
  <2>. QED  BY <1>3, <2>1
<1>5. Targets(G, p) \ {h} \subseteq Reach(G, Entry, {h})
  BY <1>1, <1>4, ReachIsLeast
<1>. QED  BY <1>1, <1>2, <1>5 DEF Preds

(* The method does not start inside a zone that has a header. *)
LEMMA ZoneEntry ==
    ASSUME Placed, EntryApart, NEW s \in Slots, NEW d \in R, Lone(s, d), Entry \in Zone(s, d)
    PROVE  Header(s, d) = NoBlock
<1>1. Analysed /\ G \in Graphs /\ Entry \in Blocks
  BY Shape DEF Placed, Analysed
<1>. DEFINE h == Header(s, d)
<1>2. SUFFICES ASSUME h # NoBlock PROVE FALSE
  OBVIOUS
<1>3. h \in Above(d) /\ s \in phis[h]
  BY <1>2, HeaderIs
<1>4. h # Entry
  <2>1. SUFFICES ASSUME h = Entry PROVE FALSE
    OBVIOUS
  <2>2. s \in phis[Entry]
    BY <1>3, <2>1
  <2>. QED  BY <1>1, <2>2, EntryUnmerged
<1>5. Entry \in Reach(G, Entry, {h})
  BY <1>1, <1>4, ReachFacts
<1>6. Entry \notin Behind(h, d)
  BY <1>1, <1>3, <1>5, NoWayRound
<1>. QED  BY <1>4, <1>6 DEF Zone

(* Every loop being entered at its header, the join is not in its own zone. *)
LEMMA ZoneApart ==
    ASSUME Placed, EntryApart, Reducible, NEW s \in Slots, NEW d \in R, Lone(s, d)
    PROVE  d \notin Zone(s, d)
<1>. DEFINE h == Header(s, d)
            C == Reach(G, d, {h}) \cap Behind(h, d)
<1>1. /\ Analysed /\ G \in Graphs /\ Entry \in Blocks /\ d \in Blocks
      /\ s \in live[d] /\ s \notin phis[d] /\ Sites(s) = {d} /\ prog \in Programs
  <2>1. Analysed
    BY DEF Placed
  <2>. QED  BY <2>1, Shape, ChainIs DEF Placed, Analysed, Lone
<1>2. d # h
  <2>1. NoBlock \notin Blocks
    BY BlocksFinite
  <2>. QED  BY <1>1, <2>1, HeaderIs
<1>3. SUFFICES ASSUME d \in Behind(h, d) PROVE FALSE
  BY <1>2 DEF Zone
<1>4. d \in C /\ C \in SUBSET R
  BY <1>1, <1>2, <1>3, ReachIsLeast DEF Behind
<1>5. PICK x \in C : \A p \in Preds(G, x) \cap C : Dominates(G, Entry, x, p)
  <2>1. C # {}
    BY <1>4
  <2>. HIDE DEF C
  <2>. QED  BY <1>4, <2>1 DEF Reducible
<1>6. x \in Blocks /\ x \in R /\ x # h /\ x \in Reach(G, d, {h})
      /\ Reach(G, x, {h}) \cap Preds(G, d) # {}
  <2>1. Reach(G, d, {h}) \cap {h} = {}
    BY <1>1, AvoidsShut
  <2>. QED  BY <1>1, <1>4, <1>5, <2>1, ReachIsLeast DEF Behind
<1>7. ASSUME NEW p \in Preds(G, x), p \in Reach(G, d, {h}) PROVE p \in C
  <2>1. p \in Blocks /\ x \in Targets(G, p) /\ p \in R
    <3>1. Reach(G, d, {h}) \subseteq R
      BY <1>1, ReachOnwards DEF R, Reachable
    <3>. QED  BY <1>7, <3>1 DEF Preds
  <2>2. p \notin {h}
    BY <1>1, <1>7, AvoidsShut
  <2>3. p \in Reach(G, p, {h})
    BY <1>1, <2>1, <2>2, ReachIsLeast
  <2>4. Targets(G, p) \ {h} \subseteq Reach(G, p, {h})
    BY <1>1, <2>1, <2>3, ReachIsLeast
  <2>5. x \in Reach(G, p, {h})
    BY <1>6, <2>1, <2>4
  <2>6. Reach(G, x, {h}) \subseteq Reach(G, p, {h})
    BY <1>1, <2>1, <2>5, ReachOnwards
  <2>. QED  BY <1>6, <1>7, <2>1, <2>6 DEF Behind
<1>8. CASE x = d
  <2>1. PICK p \in Preds(G, d) : p \in Reach(G, d, {h})
    BY <1>6, <1>8
  <2>2. p \in C /\ p \in R /\ p \in Blocks /\ Dominates(G, Entry, d, p)
    <3>1. p \in C
      BY <1>7, <1>8, <2>1
    <3>. QED  BY <1>4, <1>5, <1>8, <2>1, <3>1 DEF Preds
  <2>3. d \in chain[p] /\ d \notin Above(d)
    <3>1. d = p \/ d \in SDoms(G, Entry, p)
      BY <1>1, <2>2 DEF SDoms
    <3>. QED  BY <1>1, <2>2, <3>1, ChainIs DEF Above
  <2>. QED  BY <1>1, <2>1, <2>2, <2>3, SiteMerged
<1>9. CASE x # d
  <2>1. PICK p \in Preds(G, x) : p \in Reach(G, d, {h} \cup {x})
    BY <1>1, <1>6, <1>9, FirstEdge
  <2>2. p \in Blocks /\ p \in Reach(G, d, {h}) /\ p \in Reach(G, d, {x}) /\ p # x
    <3>1. Reach(G, d, {h} \cup {x}) \subseteq Reach(G, d, {h})
      <4>1. d \in Reach(G, d, {h})
        BY <1>1, <1>2, ReachIsLeast
      <4>. QED  BY <1>1, <4>1, ReachOnwards
    <3>2. Reach(G, d, {h} \cup {x}) \subseteq Reach(G, d, {x})
      <4>1. d \in Reach(G, d, {x})
        BY <1>1, <1>9, ReachIsLeast
      <4>. QED  BY <1>1, <4>1, ReachOnwards
    <3>3. Reach(G, d, {x}) \cap {x} = {}
      BY <1>1, AvoidsShut
    <3>. QED  BY <2>1, <3>1, <3>2, <3>3 DEF Preds
  <2>3. p \in C /\ p \notin Reach(G, Entry, {x})
    <3>1. p \in C
      BY <1>7, <2>1, <2>2
    <3>2. Dominates(G, Entry, x, p)
      BY <1>5, <2>1, <3>1
    <3>. QED  BY <2>2, <3>1, <3>2 DEF Dominates
  <2>4. x \in Above(d)
    <3>1. d \notin Reach(G, Entry, {x})
      <4>1. SUFFICES ASSUME d \in Reach(G, Entry, {x}) PROVE FALSE
        OBVIOUS
      <4>2. Reach(G, d, {x}) \subseteq Reach(G, Entry, {x})
        BY <1>1, <4>1, ReachOnwards
      <4>. QED  BY <2>2, <2>3, <4>2
    <3>. QED  BY <1>1, <1>6, <1>9, <3>1, ChainIs DEF SDoms, Dominates
  <2>5. s \in live[x]
    <3>1. d \in Reach(G, x, {})
      <4>1. x \in Reach(G, x, {})
        BY <1>1, <1>6, ReachIsLeast
      <4>2. Reach(G, x, {h}) \subseteq Reach(G, x, {})
        BY <1>1, <1>6, <4>1, ReachOnwards
      <4>3. PICK q \in Preds(G, d) : q \in Reach(G, x, {})
        BY <1>6, <4>2
      <4>4. Targets(G, q) \ {} \subseteq Reach(G, x, {})
        BY <1>1, <1>6, <4>3, ReachIsLeast
      <4>. QED  BY <4>3, <4>4 DEF Preds
    <3>. QED  BY <1>1, <1>6, <1>9, <3>1, LiveUpwards
  <2>6. Cardinality(Preds(G, x)) >= 2
    <3>1. x # Entry
      BY <2>1 DEF EntryApart
    <3>2. x \in Reach(G, Entry, {}) /\ {} \cup {x} = {x}
      BY <1>6 DEF R, Reachable
    <3>3. PICK q \in Preds(G, x) : q \in Reach(G, Entry, {x})
      BY <1>1, <3>1, <3>2, FirstEdge
    <3>. QED  BY <2>1, <2>3, <3>3, TwoBefore
  <2>7. x \in Extra(s)
    <3>1. d \notin chain[x]
      BY <1>1, <2>4, AboveStrict
    <3>2. ~Covers(s, x)
      BY <1>1, <3>1 DEF Covers
    <3>. QED  BY <1>6, <2>5, <2>6, <3>2 DEF Extra, Needs, Lone
  <2>8. x \in Makers(d, s)
    <3>1. s \in phis[x]
      BY <1>6, <2>7, PhisAre DEF PhiBlocks, Extra
    <3>. QED  BY <1>6, <2>4, <3>1 DEF Makers, Made
  <2>9. h \in Above(d) /\ x \in chain[h]
    BY <2>8, HeaderIs
  <2>10. h \in R /\ x \in Above(h)
    BY <1>1, <1>6, <2>9, AboveStrict DEF Above
  <2>11. h \notin chain[x] /\ h \in Blocks
    BY <1>1, <2>10, AboveStrict, ChainIs
  <2>12. x \in Reach(G, Entry, {h})
    BY <1>1, <1>6, <2>11, ChainIs DEF SDoms, Dominates
  <2>13. x \notin Behind(h, d)
    BY <1>1, <2>9, <2>12, NoWayRound
  <2>. QED  BY <1>6, <2>13 DEF Behind
<1>. QED  BY <1>8, <1>9

-----------------------------------------------------------------------------
(* What the two runs have in common at position i of block b, H being the  *)
(* registers and C the versions that hold the value.                       *)

(* s is read from here on before anything defines it. *)
LiveAt(b, i, s) ==
    \/ \E j \in DOMAIN Code(b) :
          j >= i /\ Code(b)[j].src = s /\ \A k \in DOMAIN Code(b) : i <= k /\ k < j => Code(b)[k].dst # s
    \/ /\ \A j \in DOMAIN Code(b) : j >= i => Code(b)[j].dst # s
       /\ \E t \in Targets(G, b) : s \in live[t]

(* A live register and the version on its stack agree. *)
Tracked(b, i, H, C) ==
    \A s \in Slots : LiveAt(b, i, s) => (s \in H <=> Reaching(b, i, s) \in C)

(* Within a zone so do its register and the version of its header. *)
ZonesTracked(b, H, C) ==
    \A s \in Slots : \A d \in R :
        Lone(s, d) /\ b \in Zone(s, d) => (s \in H <=> Inherited(d, s) \in C)

(* A copy behind the run and its source agree. *)
Obeyed(b, i, C) ==
    \A c \in R : \A j \in DOMAIN Code(c) :
        Code(c)[j].op = "move" /\ WriteReaches(<<c, j>>, b, i)
        => (DefOf(c, j) \in C <=> Reaching(c, j, Code(c)[j].src) \in C)

Held(b, i, H, C) == Tracked(b, i, H, C) /\ ZonesTracked(b, H, C)
InStep(b, i, H, C) == Held(b, i, H, C) /\ Obeyed(b, i, C)

LEMMA LiveAtEdges ==
    ASSUME Analysed, NEW b \in Blocks, NEW s \in Slots
    PROVE  /\ LiveAt(b, 1, s) => s \in live[b]
           /\ \A t \in Targets(G, b) : s \in live[t] => LiveAt(b, Len(Code(b)) + 1, s)
           /\ \A i \in DOMAIN Code(b) :
                 /\ Code(b)[i].src = s => LiveAt(b, i, s)
                 /\ LiveAt(b, i + 1, s) /\ Code(b)[i].dst # s => LiveAt(b, i, s)
<1>1. prog \in Programs /\ DOMAIN Code(b) = 1 .. Len(Code(b)) /\ Len(Code(b)) \in Nat /\ s # NoSlot
  BY Shape DEF Analysed, Slots, NoSlot
<1>2. ASSUME LiveAt(b, 1, s) PROVE s \in live[b]
  <2>1. s \in Exposed(b) \/ (s \notin Defined(b) /\ \E t \in Targets(G, b) : s \in live[t])
    BY <1>1, <1>2 DEF LiveAt, Exposed, Defined
  <2>2. s \in Flowed(live)[b]
    BY <2>1 DEF Flowed
  <2>. QED  BY <1>1, <2>2, LiveInFlows DEF Analysed
<1>3. ASSUME NEW t \in Targets(G, b), s \in live[t] PROVE LiveAt(b, Len(Code(b)) + 1, s)
  BY <1>1, <1>3 DEF LiveAt
<1>4. ASSUME NEW i \in DOMAIN Code(b), Code(b)[i].src = s PROVE LiveAt(b, i, s)
  BY <1>1, <1>4 DEF LiveAt
<1>5. ASSUME NEW i \in DOMAIN Code(b), LiveAt(b, i + 1, s), Code(b)[i].dst # s
      PROVE  LiveAt(b, i, s)
  <2>1. \A k \in DOMAIN Code(b) : k >= i => k = i \/ k >= i + 1
    BY <1>1
  <2>2. CASE \E j \in DOMAIN Code(b) :
          j >= i + 1 /\ Code(b)[j].src = s
          /\ \A k \in DOMAIN Code(b) : i + 1 <= k /\ k < j => Code(b)[k].dst # s
    BY <1>1, <1>5, <2>1, <2>2 DEF LiveAt
  <2>3. CASE /\ \A j \in DOMAIN Code(b) : j >= i + 1 => Code(b)[j].dst # s
             /\ \E t \in Targets(G, b) : s \in live[t]
    BY <1>5, <2>1, <2>3 DEF LiveAt
  <2>. QED  BY <1>5, <2>2, <2>3 DEF LiveAt
<1>. QED  BY <1>2, <1>3, <1>4, <1>5

(* A version on the stack was made in front of it: by the block itself or  *)
(* by a dominator.                                                         *)
LEMMA ReachingBefore ==
    ASSUME Analysed, NEW c \in R, NEW s \in Slots, NEW j \in Nat
    PROVE  /\ Reaching(c, j, s) # Undefined
           /\ Inherited(c, s) # Undefined
           /\ \A b, i : Reaching(c, j, s) = DefOf(b, i) => (b = c /\ i < j) \/ b \in Above(c)
           /\ \A b, q : Reaching(c, j, s) = PhiOf(b, q) =>
                 q = s /\ (b \in Above(c) \/ (b = c /\ s \in phis[c]))
           /\ \A b, q : Inherited(c, s) = PhiOf(b, q) => b \in Above(c)
<1>1. c \in Blocks /\ prog \in Programs
  BY ChainIs DEF Analysed
<1>2. \/ Inherited(c, s) = EntryOf(s)
      \/ \E a \in Above(c) : Inherited(c, s) = Exit(a, s)
  BY TopMaker DEF Makers
<1>3. \/ Inherited(c, s) = EntryOf(s)
      \/ \E a \in Above(c) : Inherited(c, s) = PhiOf(a, s)
      \/ \E a \in Above(c) : \E k : Inherited(c, s) = DefOf(a, k)
  BY <1>2 DEF Exit
<1>4. LastDef(c, j, s) = 0 \/ LastDef(c, j, s) < j
  BY <1>1, LastDefIs
<1>5. \/ Reaching(c, j, s) = DefOf(c, LastDef(c, j, s)) /\ LastDef(c, j, s) < j
      \/ Reaching(c, j, s) = PhiOf(c, s) /\ s \in phis[c]
      \/ Reaching(c, j, s) = Inherited(c, s)
  BY <1>4 DEF Reaching
<1>. QED  BY <1>3, <1>5 DEF EntryOf, DefOf, PhiOf, Undefined

(* What an instruction assigns, in the program and in the listing. *)
LEMMA AssignedIs ==
    ASSUME Analysed, NEW b \in Blocks, NEW i \in DOMAIN Code(b), NEW H, NEW C, NEW pick \in BOOLEAN,
           pick => Code(b)[i].op \in {"set", "inc"}
    PROVE  /\ \A s \in Slots : Code(b)[i].dst # s =>
                 (s \in Assigned(H, Code(b)[i], pick) <=> s \in H)
           /\ \A v : v # DefOf(b, i) /\ v # Undefined =>
                 (v \in Assigned(C, Renamed(b, i), pick) <=> v \in C)
           /\ \A s \in Slots : Code(b)[i].dst = s =>
                 /\ s \in Assigned(H, Code(b)[i], pick) <=>
                       pick \/ (Code(b)[i].op = "move" /\ Code(b)[i].src \in H)
                 /\ DefOf(b, i) \in Assigned(C, Renamed(b, i), pick) <=>
                       pick \/ (Code(b)[i].op = "move" /\ Reaching(b, i, Code(b)[i].src) \in C)
<1>1. /\ Code(b)[i] \in Insns
      /\ Code(b)[i].op \in {"set", "inc", "move"} => Code(b)[i].dst # NoSlot
      /\ Code(b)[i].op = "move" => Code(b)[i].src # NoSlot
  BY Shape DEF Analysed
<1>2. \A s \in Slots : s # NoSlot
  BY KAssumption DEF Slots, NoSlot
<1>. DEFINE c == Code(b)[i]
            r == Renamed(b, i)
<1>3. /\ r.op = c.op
      /\ r.dst = IF c.dst = NoSlot THEN Undefined ELSE DefOf(b, i)
      /\ c.op = "move" => r.src = Reaching(b, i, c.src)
  BY <1>1 DEF Renamed
<1>4. pick \/ c.op = "move" => c.dst # NoSlot
  BY <1>1
<1>. HIDE DEF r, c
<1>5. \A s \in Slots : c.dst # s => (s \in Assigned(H, c, pick) <=> s \in H)
  BY <1>2 DEF Assigned
<1>6. ASSUME NEW v, v # DefOf(b, i), v # Undefined
      PROVE  v \in Assigned(C, r, pick) <=> v \in C
  BY <1>3, <1>6 DEF Assigned
<1>7. ASSUME NEW s \in Slots, c.dst = s
      PROVE  /\ s \in Assigned(H, c, pick) <=> pick \/ (c.op = "move" /\ c.src \in H)
             /\ DefOf(b, i) \in Assigned(C, r, pick) <=>
                   pick \/ (c.op = "move" /\ Reaching(b, i, c.src) \in C)
  <2>1. r.dst = DefOf(b, i) /\ r.op = c.op
    BY <1>2, <1>3, <1>7
  <2>2. s \in Assigned(H, c, pick) <=> pick \/ (c.op = "move" /\ c.src \in H)
    BY <1>7 DEF Assigned
  <2>3. DefOf(b, i) \in Assigned(C, r, pick) <=> pick \/ (c.op = "move" /\ r.src \in C)
    BY <2>1 DEF Assigned
  <2>. QED  BY <1>3, <2>2, <2>3
<1>. QED  BY <1>5, <1>6, <1>7 DEF c, r

(* The versions of a register, as far as an edge or a copy can lead.       *)
Named(s) ==
    {EntryOf(s)} \cup {PhiOf(t, s) : t \in {c \in R : s \in phis[c]}}
    \cup UNION {{DefOf(c, j) : j \in {k \in DOMAIN Code(c) : Code(c)[k].dst = s}} : c \in R}

LEMMA NamedIs ==
    ASSUME NEW s, NEW v
    PROVE  v \in Named(s) <=>
              \/ v = EntryOf(s)
              \/ \E t \in R : s \in phis[t] /\ v = PhiOf(t, s)
              \/ \E c \in R : \E j \in DOMAIN Code(c) : Code(c)[j].dst = s /\ v = DefOf(c, j)
BY DEF Named

LEMMA NamedApart ==
    ASSUME NEW s, NEW r, NEW v \in Named(s), v \in Named(r)
    PROVE  s = r
BY NamedIs DEF EntryOf, PhiOf, DefOf

LEMMA ReachingNamed ==
    ASSUME Analysed, NEW b \in R, NEW s \in Slots, NEW n \in Nat
    PROVE  Inherited(b, s) \in Named(s) /\ Reaching(b, n, s) \in Named(s)
<1>1. b \in Blocks /\ prog \in Programs /\ Above(b) \subseteq R /\ R \subseteq Blocks
  <2>1. \A c \in R : c \in Blocks
    BY ChainIs
  <2>. QED  BY <2>1, ChainIs DEF Analysed, Above
<1>2. ASSUME NEW c \in R, s \in Defined(c) \cup phis[c] PROVE Exit(c, s) \in Named(s)
  <2>1. CASE s \in Defined(c)
    <3>1. c \in Blocks /\ Len(Code(c)) + 1 \in Nat
      BY <1>1, Shape
    <3>2. /\ LastDef(c, Len(Code(c)) + 1, s) \in DOMAIN Code(c)
          /\ Code(c)[LastDef(c, Len(Code(c)) + 1, s)].dst = s
      BY <1>1, <2>1, <3>1, LastDefEnd, LastDefIs
    <3>. QED  BY <2>1, <3>2, NamedIs DEF Exit
  <2>2. CASE s \notin Defined(c)
    BY <1>2, <2>2, NamedIs DEF Exit
  <2>. QED  BY <2>1, <2>2
<1>3. Inherited(b, s) \in Named(s)
  <2>1. CASE Makers(b, s) = {}
    BY <2>1, TopMaker, NamedIs
  <2>2. CASE Makers(b, s) # {}
    <3>1. PICK c \in Makers(b, s) : Makers(b, s) \subseteq chain[c]
      BY <2>2, TopMaker
    <3>2. Inherited(b, s) = Exit(c, s)
      BY <3>1, TopMaker
    <3>3. c \in R /\ s \in Defined(c) \cup phis[c]
      BY <1>1 DEF Makers, Made
    <3>. QED  BY <1>2, <3>2, <3>3
  <2>. QED  BY <2>1, <2>2
<1>4. Reaching(b, n, s) \in Named(s)
  <2>1. CASE LastDef(b, n, s) > 0
    <3>1. LastDef(b, n, s) \in DOMAIN Code(b) /\ Code(b)[LastDef(b, n, s)].dst = s
      BY <1>1, <2>1, LastDefIs
    <3>. QED  BY <2>1, <3>1, NamedIs DEF Reaching
  <2>2. CASE ~(LastDef(b, n, s) > 0)
    BY <1>3, <2>2, NamedIs DEF Reaching
  <2>. QED  BY <2>1, <2>2
<1>. QED  BY <1>3, <1>4

(* An instruction assigns one register and its version there; the versions *)
(* of the others stay as they are.                                         *)
LEMMA ExecuteHeld ==
    ASSUME Placed, EntryApart, NEW b \in R, NEW i \in DOMAIN Code(b),
           NEW H, NEW C, NEW H2, NEW C2, NEW pick \in BOOLEAN,
           pick => Code(b)[i].op \in {"set", "inc"},
           (\E s \in Slots : Cardinality(Defs(s)) = 1) => Reducible,
           \A s \in Slots : Code(b)[i].dst # s =>
               (s \in H2 <=> s \in H) /\ \A v \in Named(s) : v \in C2 <=> v \in C,
           \A s \in Slots : Code(b)[i].dst = s =>
               /\ s \in H2 <=> pick \/ (Code(b)[i].op = "move" /\ Code(b)[i].src \in H)
               /\ DefOf(b, i) \in C2 <=>
                     pick \/ (Code(b)[i].op = "move" /\ Reaching(b, i, Code(b)[i].src) \in C),
           Held(b, i, H, C)
    PROVE  Held(b, i + 1, H2, C2)
<1>1. /\ Analysed /\ prog \in Programs /\ b \in Blocks /\ i \in Nat /\ i + 1 \in Nat /\ i > 0
      /\ DOMAIN Code(b) = 1 .. Len(Code(b)) /\ Code(b)[i] \in Insns
  <2>1. Analysed /\ prog \in Programs
    BY DEF Placed, Analysed
  <2>2. b \in Blocks
    BY <2>1, ChainIs
  <2>. QED  BY <2>1, <2>2, Shape
<1>2. Code(b)[i].op = "move" => Code(b)[i].src \in Slots
  <2>1. Code(b)[i].op = "move" => Code(b)[i].src # NoSlot
    BY <1>1, Shape
  <2>. QED  BY <1>1, <2>1 DEF Insns
<1>3. Tracked(b, i + 1, H2, C2)
  <2>1. SUFFICES ASSUME NEW s \in Slots, LiveAt(b, i + 1, s)
                 PROVE  s \in H2 <=> Reaching(b, i + 1, s) \in C2
    BY DEF Tracked
  <2>2. CASE Code(b)[i].dst = s
    <3>1. Reaching(b, i + 1, s) = DefOf(b, i)
      BY <1>1, <2>2, LastDefNext DEF Reaching
    <3>2. Code(b)[i].op = "move" =>
              (Code(b)[i].src \in H <=> Reaching(b, i, Code(b)[i].src) \in C)
      <4>1. Code(b)[i].op = "move" => LiveAt(b, i, Code(b)[i].src)
        BY <1>1, <1>2, LiveAtEdges
      <4>. QED  BY <1>2, <4>1 DEF Held, Tracked
    <3>. QED  BY <2>2, <3>1, <3>2
  <2>3. CASE Code(b)[i].dst # s
    <3>1. Reaching(b, i + 1, s) = Reaching(b, i, s)
      BY <1>1, <2>3, LastDefNext DEF Reaching
    <3>2. Reaching(b, i, s) \in Named(s)
      BY <1>1, ReachingNamed
    <3>3. LiveAt(b, i, s)
      BY <1>1, <2>1, <2>3, LiveAtEdges
    <3>4. s \in H <=> Reaching(b, i, s) \in C
      BY <3>3 DEF Held, Tracked
    <3>. QED  BY <2>3, <3>1, <3>2, <3>4
  <2>. QED  BY <2>2, <2>3
<1>4. ZonesTracked(b, H2, C2)
  <2>1. SUFFICES ASSUME NEW s \in Slots, NEW d \in R, Lone(s, d), b \in Zone(s, d)
                 PROVE  s \in H2 <=> Inherited(d, s) \in C2
    BY DEF ZonesTracked
  <2>2. b # d
    <3>1. Reducible
      BY <2>1 DEF Lone
    <3>. QED  BY <2>1, <3>1, ZoneApart
  <2>3. Code(b)[i].dst # s
    <3>1. s \notin Defined(b)
      BY <1>1, <2>1, <2>2, DefsAre DEF Lone
    <3>. QED  BY <1>1, <3>1, KAssumption DEF Defined, Slots, NoSlot
  <2>4. Inherited(d, s) \in Named(s)
    BY <1>1, ReachingNamed
  <2>5. s \in H <=> Inherited(d, s) \in C
    BY <2>1 DEF Held, ZonesTracked
  <2>. QED  BY <2>3, <2>4, <2>5
<1>. QED  BY <1>3, <1>4 DEF Held

LEMMA ExecuteInStep ==
    ASSUME Placed, EntryApart, NEW b \in R, NEW i \in DOMAIN Code(b), NEW H, NEW C,
           NEW pick \in BOOLEAN, pick => Code(b)[i].op \in {"set", "inc"},
           (\E s \in Slots : Cardinality(Defs(s)) = 1) => Reducible,
           InStep(b, i, H, C)
    PROVE  InStep(b, i + 1, Assigned(H, Code(b)[i], pick), Assigned(C, Renamed(b, i), pick))
<1>. DEFINE H2 == Assigned(H, Code(b)[i], pick)
            C2 == Assigned(C, Renamed(b, i), pick)
<1>1. /\ Analysed /\ prog \in Programs /\ b \in Blocks /\ i \in Nat /\ i + 1 \in Nat /\ i > 0
      /\ DOMAIN Code(b) = 1 .. Len(Code(b)) /\ Code(b)[i] \in Insns
  <2>1. Analysed /\ prog \in Programs
    BY DEF Placed, Analysed
  <2>2. b \in Blocks
    BY <2>1, ChainIs
  <2>. QED  BY <2>1, <2>2, Shape
<1>2. /\ \A s \in Slots : Code(b)[i].dst # s => (s \in H2 <=> s \in H)
      /\ \A v : v # DefOf(b, i) /\ v # Undefined => (v \in C2 <=> v \in C)
      /\ \A s \in Slots : Code(b)[i].dst = s =>
            /\ s \in H2 <=> pick \/ (Code(b)[i].op = "move" /\ Code(b)[i].src \in H)
            /\ DefOf(b, i) \in C2 <=>
                  pick \/ (Code(b)[i].op = "move" /\ Reaching(b, i, Code(b)[i].src) \in C)
  BY <1>1, AssignedIs
<1>. HIDE DEF H2, C2
<1>3. /\ Code(b)[i].op = "move" => Code(b)[i].src \in Slots /\ Code(b)[i].dst \in Slots /\ ~pick
      /\ Code(b)[i].dst \in Slots \cup {NoSlot}
  <2>1. Code(b)[i].op = "move" => Code(b)[i].src # NoSlot /\ Code(b)[i].dst # NoSlot
    BY <1>1, Shape
  <2>. QED  BY <1>1, <2>1 DEF Insns
<1>4. ASSUME NEW s \in Slots, Code(b)[i].dst # s, NEW v \in Named(s)
      PROVE  v # DefOf(b, i) /\ v # Undefined
  BY <1>4, NamedIs DEF EntryOf, PhiOf, DefOf, Undefined
<1>5. Held(b, i + 1, H2, C2)
  <2>1. Held(b, i, H, C)
    BY DEF InStep
  <2>2. \A s \in Slots : Code(b)[i].dst # s =>
            (s \in H2 <=> s \in H) /\ \A v \in Named(s) : v \in C2 <=> v \in C
    BY <1>2, <1>4
  <2>. QED  BY <1>2, <2>1, <2>2, ExecuteHeld
<1>6. Obeyed(b, i + 1, C2)
  <2>1. SUFFICES ASSUME NEW c \in R, NEW j \in DOMAIN Code(c), Code(c)[j].op = "move",
                        WriteReaches(<<c, j>>, b, i + 1)
                 PROVE  DefOf(c, j) \in C2 <=> Reaching(c, j, Code(c)[j].src) \in C2
    BY DEF Obeyed
  <2>. DEFINE v == Reaching(c, j, Code(c)[j].src)
  <2>2. c \in Blocks /\ j \in Nat /\ Code(c)[j].src \in Slots /\ Code(c)[j].dst \in Slots
    <3>1. c \in Blocks
      BY <1>1, ChainIs
    <3>2. j \in Nat /\ Code(c)[j] \in Insns /\ Code(c)[j].src # NoSlot /\ Code(c)[j].dst # NoSlot
      BY <1>1, <2>1, <3>1, Shape
    <3>. QED  BY <3>1, <3>2 DEF Insns
  <2>3. /\ v # Undefined
        /\ v = DefOf(b, i) => (b = c /\ i < j) \/ b \in Above(c)
    BY <1>1, <2>2, ReachingBefore
  <2>. HIDE DEF v
  <2>4. c # b => c \in Above(b) /\ b \notin chain[c]
    <3>1. c # b => c \in Above(b)
      BY <2>1 DEF WriteReaches, Above
    <3>. QED  BY <1>1, <3>1, AboveStrict
  <2>5. c = b => j < i + 1
    BY <2>1 DEF WriteReaches
  <2>6. v # DefOf(b, i)
    BY <1>1, <2>2, <2>3, <2>4, <2>5 DEF Above
  <2>7. v \in C2 <=> v \in C
    BY <1>2, <2>3, <2>6
  <2>8. CASE c = b /\ j = i
    BY <1>2, <1>3, <2>1, <2>2, <2>7, <2>8 DEF v
  <2>9. CASE ~(c = b /\ j = i)
    <3>1. WriteReaches(<<c, j>>, b, i)
      BY <1>1, <2>1, <2>2, <2>5, <2>9 DEF WriteReaches
    <3>2. DefOf(c, j) \in C <=> v \in C
      BY <2>1, <3>1 DEF InStep, Obeyed, v
    <3>3. DefOf(c, j) # DefOf(b, i) /\ DefOf(c, j) # Undefined
      BY <2>9 DEF DefOf, Undefined
    <3>. QED  BY <1>2, <2>7, <3>2, <3>3 DEF v
  <2>. QED  BY <2>8, <2>9
<1>. QED  BY <1>5, <1>6 DEF InStep, H2, C2

LEMMA StartHeld ==
    ASSUME Placed, EntryApart, NEW H, NEW C, \A s \in Slots : s \in H <=> EntryOf(s) \in C
    PROVE  Held(Entry, 1, H, C)
<1>1. Analysed /\ prog \in Programs /\ Entry \in Blocks /\ Entry \in R /\ phis[Entry] = {}
      /\ chain[Entry] = {Entry}
  BY Shape, ChainOfEntry, EntryUnmerged DEF Placed, Analysed
<1>2. ASSUME NEW s \in Slots PROVE Reaching(Entry, 1, s) = EntryOf(s)
  <2>1. Makers(Entry, s) = {}
    BY <1>1, ChainOfEntry DEF Makers
  <2>2. Inherited(Entry, s) = EntryOf(s)
    BY <1>1, <2>1, TopMaker
  <2>3. LastDef(Entry, 1, s) = 0
    BY <1>1, LastDefFirst
  <2>. QED  BY <1>1, <2>2, <2>3 DEF Reaching
<1>3. Tracked(Entry, 1, H, C)
  BY <1>2 DEF Tracked
<1>4. ASSUME NEW s \in Slots, NEW d \in R, Lone(s, d), Entry \in Zone(s, d)
      PROVE  Inherited(d, s) = EntryOf(s)
  BY <1>4, ZoneEntry, HeaderIs
<1>5. ZonesTracked(Entry, H, C)
  BY <1>4 DEF ZonesTracked
<1>. QED  BY <1>3, <1>5 DEF Held

LEMMA StartInStep ==
    ASSUME Placed, EntryApart, NEW H, NEW C,
           \/ H = {} /\ C = {}
           \/ \E s \in Slots : H = {s} /\ C = {EntryOf(s)}
    PROVE  InStep(Entry, 1, H, C)
<1>1. Analysed /\ prog \in Programs /\ Entry \in Blocks /\ chain[Entry] = {Entry}
  BY Shape, ChainOfEntry DEF Placed, Analysed
<1>2. \A s \in Slots : s \in H <=> EntryOf(s) \in C
  BY DEF EntryOf
<1>3. Held(Entry, 1, H, C)
  BY <1>2, StartHeld
<1>4. Obeyed(Entry, 1, C)
  <2>1. SUFFICES ASSUME NEW c \in R, NEW j \in DOMAIN Code(c), WriteReaches(<<c, j>>, Entry, 1)
                 PROVE  FALSE
    BY DEF Obeyed
  <2>2. c = Entry /\ j < 1
    BY <1>1, <2>1 DEF WriteReaches
  <2>. QED  BY <1>1, <2>1, <2>2, Shape
<1>. QED  BY <1>3, <1>4 DEF InStep

(* The phis of t take their arguments from p; nothing else changes. *)
LEMMA FollowHeld ==
    ASSUME Placed, EntryApart, NEW p \in R, NEW t \in Targets(G, p), NEW H, NEW C, NEW C2,
           (\E s \in Slots : Cardinality(Defs(s)) = 1) => Reducible,
           \A s \in phis[t] : PhiOf(t, s) \in C2 <=> Reaching(p, Len(Code(p)) + 1, s) \in C,
           \A v : (\A s \in phis[t] : v # PhiOf(t, s)) => (v \in C2 <=> v \in C),
           Held(p, Len(Code(p)) + 1, H, C)
    PROVE  t \in R /\ Held(t, 1, H, C2)
<1>. DEFINE end == Len(Code(p)) + 1
<1>1. /\ Analysed /\ prog \in Programs /\ p \in Blocks /\ t \in Blocks /\ t \in R
      /\ p \in Preds(G, t) /\ Above(t) \subseteq chain[p] /\ end \in Nat
      /\ DOMAIN Code(p) = 1 .. Len(Code(p)) /\ Len(Code(p)) \in Nat
  <2>1. Analysed /\ prog \in Programs /\ G \in Graphs /\ Entry \in Blocks
    BY Shape DEF Placed, Analysed
  <2>2. p \in Blocks /\ t \in R
    BY <2>1, ReachFacts DEF R
  <2>3. t \in Blocks /\ p \in Preds(G, t)
    BY <2>1, <2>2, TargetsAreBlocks DEF Preds
  <2>. QED  BY <2>1, <2>2, <2>3, EdgeDown, Shape
<1>2. ASSUME NEW v, \A q : v # PhiOf(t, q) PROVE v \in C2 <=> v \in C
  BY <1>2
<1>3. t \notin Above(t)
  BY DEF Above
<1>4. ASSUME NEW s \in Slots, s \in live[t], s \notin phis[t], ~Lone(s, t)
      PROVE  s \in H <=> Inherited(t, s) \in C2
  <2>1. Inherited(t, s) = Reaching(p, end, s)
    BY <1>1, <1>4, EdgeSame
  <2>2. LiveAt(p, end, s)
    BY <1>1, <1>4, LiveAtEdges
  <2>3. s \in H <=> Reaching(p, end, s) \in C
    BY <2>2 DEF Held, Tracked
  <2>4. \A q : Inherited(t, s) # PhiOf(t, q)
    BY <1>1, <1>3, ReachingBefore
  <2>. QED  BY <1>2, <2>1, <2>3, <2>4
<1>5. ASSUME NEW s \in Slots, Lone(s, t)
      PROVE  s \in H <=> Inherited(t, s) \in C2
  <2>1. p \in Zone(s, t)
    BY <1>1, ZoneHolds
  <2>2. s \in H <=> Inherited(t, s) \in C
    BY <1>1, <1>5, <2>1 DEF Held, ZonesTracked
  <2>3. \A q : Inherited(t, s) # PhiOf(t, q)
    BY <1>1, <1>3, ReachingBefore
  <2>. QED  BY <1>2, <2>2, <2>3
<1>6. ASSUME NEW s \in Slots, s \in live[t]
      PROVE  s \in H <=> Reaching(t, 1, s) \in C2
  <2>1. LastDef(t, 1, s) = 0
    BY <1>1, LastDefFirst
  <2>2. CASE s \in phis[t]
    <3>1. Reaching(t, 1, s) = PhiOf(t, s)
      BY <2>1, <2>2 DEF Reaching
    <3>2. LiveAt(p, end, s)
      BY <1>1, <1>6, LiveAtEdges
    <3>3. s \in H <=> Reaching(p, end, s) \in C
      BY <3>2 DEF Held, Tracked
    <3>. QED  BY <2>2, <3>1, <3>3
  <2>3. CASE s \notin phis[t]
    <3>1. Reaching(t, 1, s) = Inherited(t, s)
      BY <2>1, <2>3 DEF Reaching
    <3>. QED  BY <1>4, <1>5, <1>6, <2>3, <3>1
  <2>. QED  BY <2>2, <2>3
<1>7. Tracked(t, 1, H, C2)
  BY <1>1, <1>6, LiveAtEdges DEF Tracked
<1>8. ZonesTracked(t, H, C2)
  <2>1. SUFFICES ASSUME NEW s \in Slots, NEW d \in R, Lone(s, d), t \in Zone(s, d)
                 PROVE  s \in H <=> Inherited(d, s) \in C2
    BY DEF ZonesTracked
  <2>2. CASE t = Header(s, d)
    <3>1. t # NoBlock
      BY <1>1, BlocksFinite
    <3>2. Inherited(d, s) = PhiOf(t, s) /\ s \in phis[t]
      BY <2>1, <2>2, <3>1, HeaderIs
    <3>3. s \in live[t]
      BY <1>1, <3>2, PhisAre
    <3>4. Reaching(t, 1, s) = PhiOf(t, s)
      BY <1>1, <3>2, LastDefFirst DEF Reaching
    <3>. QED  BY <1>6, <3>2, <3>3, <3>4
  <2>3. CASE t # Header(s, d)
    <3>1. p \in Zone(s, d)
      BY <1>1, <2>1, <2>3, ZoneBack
    <3>2. s \in H <=> Inherited(d, s) \in C
      BY <2>1, <3>1 DEF Held, ZonesTracked
    <3>3. Inherited(d, s) = EntryOf(s) \/ Inherited(d, s) = PhiOf(Header(s, d), s)
      BY <2>1, HeaderIs
    <3>4. \A q : Inherited(d, s) # PhiOf(t, q)
      BY <2>3, <3>3 DEF EntryOf, PhiOf
    <3>. QED  BY <1>2, <3>2, <3>4
  <2>. QED  BY <2>2, <2>3
<1>. QED  BY <1>1, <1>7, <1>8 DEF Held

LEMMA FollowInStep ==
    ASSUME Placed, EntryApart, NEW p \in R, NEW t \in Targets(G, p), NEW H, NEW C, NEW C2,
           (\E s \in Slots : Cardinality(Defs(s)) = 1) => Reducible,
           \A s \in phis[t] : PhiOf(t, s) \in C2 <=> Reaching(p, Len(Code(p)) + 1, s) \in C,
           \A v : (\A s \in phis[t] : v # PhiOf(t, s)) => (v \in C2 <=> v \in C),
           InStep(p, Len(Code(p)) + 1, H, C)
    PROVE  t \in R /\ InStep(t, 1, H, C2)
<1>. DEFINE end == Len(Code(p)) + 1
<1>1. /\ Analysed /\ prog \in Programs /\ p \in Blocks /\ t \in Blocks /\ t \in R
      /\ p \in Preds(G, t) /\ Above(t) \subseteq chain[p] /\ end \in Nat
      /\ DOMAIN Code(p) = 1 .. Len(Code(p)) /\ Len(Code(p)) \in Nat
  <2>1. Analysed /\ prog \in Programs /\ G \in Graphs /\ Entry \in Blocks
    BY Shape DEF Placed, Analysed
  <2>2. p \in Blocks /\ t \in R
    BY <2>1, ReachFacts DEF R
  <2>3. t \in Blocks /\ p \in Preds(G, t)
    BY <2>1, <2>2, TargetsAreBlocks DEF Preds
  <2>. QED  BY <2>1, <2>2, <2>3, EdgeDown, Shape
<1>2. ASSUME NEW v, \A q : v # PhiOf(t, q) PROVE v \in C2 <=> v \in C
  BY <1>2
<1>3. Held(t, 1, H, C2)
  BY <1>1, FollowHeld DEF InStep
<1>4. Obeyed(t, 1, C2)
  <2>1. SUFFICES ASSUME NEW c \in R, NEW j \in DOMAIN Code(c), Code(c)[j].op = "move",
                        WriteReaches(<<c, j>>, t, 1)
                 PROVE  DefOf(c, j) \in C2 <=> Reaching(c, j, Code(c)[j].src) \in C2
    BY DEF Obeyed
  <2>. DEFINE v == Reaching(c, j, Code(c)[j].src)
  <2>2. c \in Blocks /\ j \in 1 .. Len(Code(c)) /\ Len(Code(c)) \in Nat /\ j \in Nat
        /\ Code(c)[j].src \in Slots
    <3>1. c \in Blocks
      BY <1>1, ChainIs
    <3>2. j \in 1 .. Len(Code(c)) /\ Len(Code(c)) \in Nat /\ Code(c)[j] \in Insns
          /\ Code(c)[j].src # NoSlot
      BY <1>1, <2>1, <3>1, Shape
    <3>. QED  BY <3>1, <3>2 DEF Insns
  <2>3. c # t /\ c \in Above(t)
    BY <2>1, <2>2 DEF WriteReaches, Above
  <2>4. t \notin chain[c] /\ t \notin Above(c)
    BY <1>1, <2>3, AboveStrict DEF Above
  <2>5. \A q : v # PhiOf(t, q)
    BY <1>1, <2>2, <2>3, <2>4, ReachingBefore
  <2>6. \A q : DefOf(c, j) # PhiOf(t, q)
    BY DEF DefOf, PhiOf
  <2>7. WriteReaches(<<c, j>>, p, end)
    BY <1>1, <2>2, <2>3 DEF WriteReaches
  <2>. HIDE DEF v
  <2>8. DefOf(c, j) \in C <=> v \in C
    BY <2>1, <2>7 DEF InStep, Obeyed, v
  <2>. QED  BY <1>2, <2>5, <2>6, <2>8 DEF v
<1>. QED  BY <1>1, <1>3, <1>4 DEF InStep

-----------------------------------------------------------------------------
(* The listing.                                                            *)

(* Everything but the sources is as Rename left it; copies keep theirs.    *)
Listed ==
    /\ door = [b \in Blocks |-> 1]
    /\ \A b \in Blocks : \A s \in phis[b] : \A p \in Preds(G, b) :
          p \in R => args[b][s][p] = Reaching(p, Len(Code(p)) + 1, s)
    /\ \A b \in Blocks :
          /\ Len(list[b]) = Len(Code(b)) /\ DOMAIN list[b] = DOMAIN Code(b)
          /\ \A i \in DOMAIN Code(b) :
                /\ list[b][i].op = Code(b)[i].op
                /\ list[b][i].of = i
                /\ list[b][i].dst = Renamed(b, i).dst
                /\ Code(b)[i].op = "move" => list[b][i].src = Renamed(b, i).src

Sourced == \A b \in Blocks : \A i \in DOMAIN Code(b) : list[b][i] = Renamed(b, i)

(* A source may be another version than Renaming gave it, but one no set   *)
(* that obeys the copies behind it can tell from that one.                 *)
Linked ==
    \A b \in R : \A i \in DOMAIN Code(b) : \A S :
        Obeyed(b, i, S) => (Renamed(b, i).src \in S <=> list[b][i].src \in S)

LEMMA DefSitesAre ==
    ASSUME NEW v
    PROVE  \A d : d \in DefSites(v) <=>
              \E b \in Blocks : \E i \in DOMAIN list[b] : d = <<b, i>> /\ list[b][i].dst = v
BY DEF DefSites

(* One version is forwarded along the copies behind the use only. *)
LEMMA HopObeys ==
    ASSUME Analysed, Listed, NEW b \in R, NEW i \in DOMAIN Code(b),
           NEW S, Obeyed(b, i, S), NEW w, Forwards(w, b, i)
    PROVE  LET d == CHOOSE d \in DefSites(w) : TRUE
           IN  w \in S <=> list[d[1]][d[2]].src \in S
<1>1. PICK d \in DefSites(w) :
         /\ DefSites(w) = {d} /\ list[d[1]][d[2]].op = "move" /\ WriteReaches(d, b, i)
  BY DEF Forwards
<1>2. (CHOOSE e \in DefSites(w) : TRUE) = d
  BY <1>1
<1>3. PICK c \in Blocks : \E j \in DOMAIN list[c] : d = <<c, j>> /\ list[c][j].dst = w
  BY DefSitesAre
<1>4. PICK j \in DOMAIN list[c] : d = <<c, j>> /\ list[c][j].dst = w
  BY <1>3
<1>5. /\ j \in DOMAIN Code(c) /\ Code(c)[j].op = "move"
      /\ w = Renamed(c, j).dst /\ list[c][j].src = Renamed(c, j).src
      /\ list[d[1]][d[2]].src = Renamed(c, j).src
  BY <1>1, <1>4 DEF Listed
<1>6. Code(c)[j].dst # NoSlot /\ Code(c)[j].src # NoSlot
  BY <1>5, Shape DEF Analysed
<1>7. w = DefOf(c, j) /\ list[d[1]][d[2]].src = Reaching(c, j, Code(c)[j].src)
  BY <1>5, <1>6 DEF Renamed
<1>8. c \in R
  <2>1. c = b \/ c \in chain[b]
    BY <1>1, <1>4 DEF WriteReaches
  <2>. QED  BY <2>1, ChainIs
<1>9. WriteReaches(<<c, j>>, b, i)
  BY <1>1, <1>4
<1>10. DefOf(c, j) \in S <=> Reaching(c, j, Code(c)[j].src) \in S
  BY <1>5, <1>8, <1>9 DEF Obeyed
<1>. QED  BY <1>2, <1>7, <1>10

(* The version a use is given after one hop, and after all of them.        *)
Forwarded(w, b, i) ==
    IF Forwards(w, b, i)
    THEN LET d == CHOOSE d \in DefSites(w) : TRUE IN list[d[1]][d[2]].src
    ELSE w

LEMMA ResolveHops ==
    ASSUME NEW b, NEW i, NEW v
    PROVE  \E f : /\ f[0] = v /\ f[8] = Resolve(v, b, i)
                  /\ \A k \in 1 .. 8 : f[k] = Forwarded(f[k - 1], b, i)
<1>. DEFINE next(w) == Forwarded(w, b, i)
            D == {v} \cup UNION {{list[c][j].src : j \in DOMAIN list[c]} : c \in Blocks}
            F == [w \in D |-> next(w)]
            Rhs(hop) == [k \in 0 .. MaxHops |-> IF k = 0 THEN v ELSE next(hop[k - 1])]
            hop == CHOOSE hop : hop = Rhs(hop)
<1>1. Resolve(v, b, i) = hop[MaxHops]
  BY DEF Resolve, Forwarded
<1>2. ASSUME NEW w \in D PROVE next(w) \in D
  <2>1. ASSUME Forwards(w, b, i) PROVE next(w) \in D
    <3>1. PICK d \in DefSites(w) : DefSites(w) = {d}
      BY <2>1 DEF Forwards
    <3>2. (CHOOSE e \in DefSites(w) : TRUE) = d
      BY <3>1
    <3>3. PICK c \in Blocks : \E j \in DOMAIN list[c] : d = <<c, j>>
      BY DefSitesAre
    <3>4. list[d[1]][d[2]].src \in D
      BY <3>3
    <3>5. next(w) = list[d[1]][d[2]].src
      BY <2>1, <3>2 DEF Forwarded
    <3>. QED  BY <3>4, <3>5
  <2>2. ~Forwards(w, b, i) => next(w) = w
    BY DEF Forwarded
  <2>. QED  BY <2>1, <2>2
<1>4. v \in D
  OBVIOUS
<1>. HIDE DEF next, D
<1>5. F \in [D -> D]
  BY <1>2
<1>6. PICK f : Iterates(f, D, v, F, MaxHops)
  <2>1. MaxHops \in Nat
    BY DEF MaxHops
  <2>. HIDE DEF F
  <2>. QED  BY <1>4, <1>5, <2>1, IteratesExist
<1>7. f = Rhs(f)
  <2>1. f \in [0 .. MaxHops -> D] /\ f[0] = v /\ \A k \in 1 .. MaxHops : f[k] = F[f[k - 1]]
    BY <1>6 DEF Iterates
  <2>2. ASSUME NEW k \in 0 .. MaxHops PROVE f[k] = IF k = 0 THEN v ELSE next(f[k - 1])
    <3>1. CASE k # 0
      <4>1. k \in 1 .. MaxHops /\ k - 1 \in 0 .. MaxHops
        BY <3>1 DEF MaxHops
      <4>2. f[k - 1] \in D
        BY <2>1, <4>1
      <4>. QED  BY <2>1, <3>1, <4>1, <4>2
    <3>. QED  BY <2>1, <3>1
  <2>. QED  BY <2>1, <2>2
<1>8. hop = Rhs(hop)
  <2>. HIDE DEF Rhs
  <2>. QED  BY <1>7
<1>. HIDE DEF hop
<1>9. hop[0] = v /\ \A k \in 1 .. 8 : hop[k] = next(hop[k - 1])
  BY <1>8 DEF MaxHops
<1>10. hop[8] = Resolve(v, b, i)
  BY <1>1 DEF MaxHops
<1>. QED  BY <1>9, <1>10 DEF next

LEMMA ResolveObeys ==
    ASSUME Analysed, Listed, NEW b \in R, NEW i \in DOMAIN Code(b),
           NEW S, Obeyed(b, i, S), NEW v
    PROVE  v \in S <=> Resolve(v, b, i) \in S
<1>1. PICK hop : /\ hop[0] = v /\ hop[8] = Resolve(v, b, i)
                 /\ \A k \in 1 .. 8 : hop[k] = Forwarded(hop[k - 1], b, i)
  BY ResolveHops
<1>2. \A w : Forwarded(w, b, i) \in S <=> w \in S
  <2>1. ASSUME NEW w, Forwards(w, b, i) PROVE Forwarded(w, b, i) \in S <=> w \in S
    <3>. DEFINE d == CHOOSE d \in DefSites(w) : TRUE
    <3>1. w \in S <=> list[d[1]][d[2]].src \in S
      BY <2>1, HopObeys
    <3>2. Forwarded(w, b, i) = list[d[1]][d[2]].src
      BY <2>1 DEF Forwarded
    <3>. QED  BY <3>1, <3>2
  <2>2. ASSUME NEW w, ~Forwards(w, b, i) PROVE Forwarded(w, b, i) = w
    BY <2>2 DEF Forwarded
  <2>. QED  BY <2>1, <2>2
<1>3. \A k \in 1 .. 8 : hop[k] \in S <=> hop[k - 1] \in S
  BY <1>1, <1>2
<1>4. /\ hop[1] \in S <=> hop[0] \in S
      /\ hop[2] \in S <=> hop[1] \in S
      /\ hop[3] \in S <=> hop[2] \in S
      /\ hop[4] \in S <=> hop[3] \in S
  BY <1>3
<1>5. /\ hop[5] \in S <=> hop[4] \in S
      /\ hop[6] \in S <=> hop[5] \in S
      /\ hop[7] \in S <=> hop[6] \in S
      /\ hop[8] \in S <=> hop[7] \in S
  BY <1>3
<1>. QED  BY <1>1, <1>4, <1>5

-----------------------------------------------------------------------------
(* What a step leaves alone.                                               *)

LEMMA SameBody ==
    ASSUME prog' = prog
    PROVE  /\ G' = G /\ R' = R /\ EntryApart' = EntryApart /\ Plain' = Plain
           /\ LiveIn' = LiveIn
           /\ \A b : Code(b)' = Code(b)
<1>1. G' = G /\ R' = R /\ EntryApart' = EntryApart /\ \A b : Code(b)' = Code(b)
  BY DEF G, R, EntryApart, Code
<1>2. LiveIn' = LiveIn
  BY DEF LiveIn, Exposed, Defined, Code, G
<1>3. Plain' = Plain
  BY DEF Plain, EntryApart, Reducible, Defs, Code, G, R
<1>. QED  BY <1>1, <1>2, <1>3

LEMMA SamePlacement ==
    ASSUME prog' = prog, chain' = chain, frontier' = frontier, live' = live
    PROVE  /\ Analysed' = Analysed
           /\ \A s : PhiBlocks(s)' = PhiBlocks(s)
<1>1. ASSUME NEW s PROVE PhiBlocks(s)' = PhiBlocks(s)
  BY DEF PhiBlocks, Defs, Needs, Sites, Covers, Extra, LiveJoins, Spread, Code, G
<1>2. Analysed' = Analysed
  BY SameBody DEF Analysed
<1>. QED  BY <1>1, <1>2

LEMMA SameVersions ==
    ASSUME prog' = prog, chain' = chain, phis' = phis
    PROVE  \A b, i : /\ \A s : Reaching(b, i, s)' = Reaching(b, i, s)
                     /\ Renamed(b, i)' = Renamed(b, i)
<1>1. ASSUME NEW b, NEW i, NEW s PROVE Reaching(b, i, s)' = Reaching(b, i, s)
  BY DEF Reaching, Inherited, Exit, LastDef, Defined, Code, DefOf, PhiOf, EntryOf
<1>2. ASSUME NEW b, NEW i PROVE Renamed(b, i)' = Renamed(b, i)
  BY <1>1 DEF Renamed, Code, Undefined, DefOf, Reaching, Inherited, Exit, LastDef, Defined,
              PhiOf, EntryOf
<1>. QED  BY <1>1, <1>2

LEMMA SameStep ==
    ASSUME prog' = prog, chain' = chain, phis' = phis, live' = live
    PROVE  \A b, i, H, C : InStep(b, i, H, C)' <=> InStep(b, i, H, C)
<1>1. ASSUME NEW b, NEW i, NEW H, NEW C PROVE InStep(b, i, H, C)' <=> InStep(b, i, H, C)
  BY DEF InStep, Held, Tracked, ZonesTracked, Obeyed, Reaching, Inherited, Exit, LastDef, Defined,
         Code, DefOf, PhiOf, EntryOf, Lone, Zone, Header, Makers, Made, Above, Behind, R, G,
         LiveAt, Defs, Sites, WriteReaches
<1>. QED  BY <1>1

LEMMA SameObeyed ==
    ASSUME prog' = prog, chain' = chain, phis' = phis
    PROVE  \A b, i, S : Obeyed(b, i, S)' <=> Obeyed(b, i, S)
<1>1. ASSUME NEW b, NEW i, NEW S PROVE Obeyed(b, i, S)' <=> Obeyed(b, i, S)
  BY DEF Obeyed, Reaching, Inherited, Exit, LastDef, Defined, Code, DefOf, PhiOf, EntryOf, R, G,
         WriteReaches
<1>. QED  BY <1>1

LEMMA SameListing ==
    ASSUME UNCHANGED <<prog, analysis, tables, list, door>>
    PROVE  Placed' = Placed /\ Listed' = Listed /\ Sourced' = Sourced /\ Linked' = Linked
<1>1. /\ prog' = prog /\ chain' = chain /\ frontier' = frontier /\ live' = live
      /\ phis' = phis /\ rotated' = rotated /\ args' = args /\ list' = list /\ door' = door
  BY DEF analysis, tables
<1>2. G' = G /\ R' = R /\ \A b : Code(b)' = Code(b)
  BY <1>1, SameBody
<1>3. Placed' = Placed
  BY <1>1, SamePlacement DEF Placed
<1>4. Listed' = Listed
  <2>1. \A b, i : Renamed(b, i)' = Renamed(b, i)
    BY <1>1, SameVersions
  <2>2. ASSUME NEW p, NEW s
        PROVE  Reaching(p, Len(Code(p)) + 1, s)' = Reaching(p, Len(Code(p)) + 1, s)
    BY <1>1 DEF Reaching, Inherited, Exit, LastDef, Defined, Code, DefOf, PhiOf, EntryOf
  <2>. QED  BY <1>1, <1>2, <2>1, <2>2 DEF Listed
<1>5. Sourced' = Sourced
  BY <1>1, <1>2, SameVersions DEF Sourced
<1>6. Linked' = Linked
  BY <1>1, <1>2, SameVersions, SameObeyed DEF Linked
<1>. QED  BY <1>3, <1>4, <1>5, <1>6

-----------------------------------------------------------------------------
(* What each pass leaves.                                                  *)

LEMMA AnalyseLeaves ==
    ASSUME prog \in Programs, Analyse
    PROVE  Analysed'
<1>1. /\ prog' = prog /\ live' = LiveIn
      /\ chain' = [b \in Blocks |-> IdomChain(G, Entry, b)]
      /\ frontier' = [b \in Blocks |-> JoinFrontier(G, Entry, b)]
  BY DEF Analyse
<1>2. G' = G /\ LiveIn' = LiveIn
  BY <1>1, SameBody
<1>. QED  BY <1>1, <1>2 DEF Analysed

LEMMA PlaceLeaves ==
    ASSUME Analysed, EntryApart, PlacePhis
    PROVE  Placed'
<1>1. prog' = prog /\ chain' = chain /\ frontier' = frontier /\ live' = live
  BY DEF PlacePhis, analysis
<1>2. ~SelfLatched
  BY Shape DEF SelfLatched, EntryApart, Preds, Analysed
<1>3. rotated' = {}
  BY <1>2 DEF PlacePhis
<1>4. phis' = [b \in Blocks |-> {s \in Slots : b \in PhiBlocks(s)}]
  <2>. DEFINE sites == [b \in Blocks |-> {s \in Slots : b \in PhiBlocks(s)}]
  <2>1. phis' = [sites EXCEPT ![Entry] = @ \ rotated']
    BY DEF PlacePhis
  <2>2. sites = [sites EXCEPT ![Entry] = @ \ {}]
    <3>1. sites[Entry] \ {} = sites[Entry]
      OBVIOUS
    <3>. QED  BY <3>1
  <2>. QED  BY <1>3, <2>1, <2>2
<1>. QED  BY <1>1, <1>3, <1>4, SamePlacement DEF Placed

LEMMA PlaceNothing ==
    ASSUME NEW n \in Nat \ {0}, NEW f
    PROVE  PlaceCopies([i \in 1 .. n |-> f[i]], << >>) = [i \in 1 .. n |-> f[i]]
<1>. DEFINE X == {f[i] : i \in 1 .. n}
            body == [i \in 1 .. n |-> f[i]]
<1>1. body \in Seq(X) /\ Len(body) = n
  OBVIOUS
<1>2. body \o << >> = body
  BY <1>1
<1>3. Front(body) \o << >> \o <<Last(body)>> = body
  <2>1. Front(body) = [i \in 1 .. n - 1 |-> f[i]]
    BY <1>1 DEF Front
  <2>2. Front(body) \in Seq(X) /\ Len(Front(body)) = n - 1
    BY <2>1
  <2>3. Front(body) \o << >> = Front(body)
    BY <2>2
  <2>4. Last(body) = f[n] /\ f[n] \in X
    BY <1>1 DEF Last
  <2>. DEFINE g == Front(body)
              z == Last(body)
  <2>5. g \in Seq(X) /\ Len(g) = n - 1 /\ z \in X
    BY <2>2, <2>4
  <2>. HIDE DEF g, z, X, body
  <2>6. g \o <<z>> \in Seq(X) /\ Len(g \o <<z>>) = n
    BY <2>5
  <2>7. ASSUME NEW i \in 1 .. n PROVE (g \o <<z>>)[i] = f[i]
    <3>1. CASE i = n
      BY <2>2, <2>4, <3>1 DEF g, z
    <3>2. CASE i # n
      BY <2>1, <2>2, <2>4, <3>2 DEF g, z
    <3>. QED  BY <3>1, <3>2
  <2>8. g \o <<z>> = body
    BY <1>1, <2>6, <2>7 DEF body
  <2>. QED  BY <2>3, <2>8 DEF g, z
<1>. QED  BY <1>2, <1>3 DEF PlaceCopies

LEMMA RenameLeaves ==
    ASSUME Placed, EntryApart, Rename
    PROVE  Placed' /\ Listed' /\ Sourced'
<1>1. /\ prog' = prog /\ chain' = chain /\ frontier' = frontier /\ live' = live
      /\ phis' = phis /\ rotated' = rotated /\ rotated = {} /\ Analysed
  BY DEF Rename, analysis, Placed
<1>2. Placed'
  BY <1>1, SamePlacement DEF Placed
<1>3. CopiesBack = << >>
  BY <1>1 DEF CopiesBack
<1>4. list' = [b \in Blocks |-> [i \in DOMAIN Code(b) |-> Renamed(b, i)]]
  <2>1. ASSUME NEW b \in Blocks
        PROVE  PlaceCopies([i \in DOMAIN Code(b) |-> Renamed(b, i)], << >>)
                 = [i \in DOMAIN Code(b) |-> Renamed(b, i)]
    <3>. DEFINE f == [i \in DOMAIN Code(b) |-> Renamed(b, i)]
    <3>1. DOMAIN Code(b) = 1 .. Len(Code(b)) /\ Len(Code(b)) \in Nat \ {0}
      BY <1>1, Shape DEF Analysed
    <3>2. f = [i \in 1 .. Len(Code(b)) |-> f[i]]
      BY <3>1
    <3>. HIDE DEF f
    <3>3. PlaceCopies([i \in 1 .. Len(Code(b)) |-> f[i]], << >>) = [i \in 1 .. Len(Code(b)) |-> f[i]]
      BY <3>1, PlaceNothing
    <3>4. PlaceCopies(f, << >>) = f
      BY <3>2, <3>3
    <3>. QED  BY <3>4 DEF f
  <2>2. list' = [b \in Blocks |->
          PlaceCopies([i \in DOMAIN Code(b) |-> Renamed(b, i)],
                      IF b = Entry THEN CopiesBack ELSE << >>)]
    BY DEF Rename
  <2>3. list' = [b \in Blocks |-> PlaceCopies([i \in DOMAIN Code(b) |-> Renamed(b, i)], << >>)]
    BY <1>3, <2>2
  <2>. QED  BY <2>1, <2>3
<1>5. door' = [b \in Blocks |-> 1]
  <2>1. 1 + Len(CopiesBack) = 1
    BY <1>3
  <2>2. door' = [b \in Blocks |->
          IF b = Entry /\ Closed(Code(b)) /\ Len(Code(b)) = 1 THEN 1 + Len(CopiesBack) ELSE 1]
    BY DEF Rename
  <2>. QED  BY <2>1, <2>2
<1>6. G' = G /\ R' = R /\ (\A b : Code(b)' = Code(b)) /\ \A b, i : Renamed(b, i)' = Renamed(b, i)
  BY <1>1, SameBody, SameVersions
<1>7. ASSUME NEW b \in Blocks, NEW s \in phis[b], NEW p \in Preds(G, b), p \in R
      PROVE  args'[b][s][p] = Reaching(p, Len(Code(p)) + 1, s)
  BY <1>7 DEF Rename, R
<1>8. ASSUME NEW p, NEW s
      PROVE  Reaching(p, Len(Code(p)) + 1, s)' = Reaching(p, Len(Code(p)) + 1, s)
  BY <1>1 DEF Reaching, Inherited, Exit, LastDef, Defined, Code, DefOf, PhiOf, EntryOf
<1>9. ASSUME NEW b \in Blocks
      PROVE  /\ Len(list'[b]) = Len(Code(b)) /\ DOMAIN list'[b] = DOMAIN Code(b)
             /\ \A i \in DOMAIN Code(b) :
                   /\ list'[b][i].op = Code(b)[i].op
                   /\ list'[b][i].of = i
                   /\ list'[b][i].dst = Renamed(b, i).dst
                   /\ list'[b][i] = Renamed(b, i)
  <2>1. DOMAIN Code(b) = 1 .. Len(Code(b)) /\ Len(Code(b)) \in Nat
    BY <1>1, Shape DEF Analysed
  <2>2. list'[b] = [i \in 1 .. Len(Code(b)) |-> Renamed(b, i)]
    BY <1>4, <2>1
  <2>3. Len(list'[b]) = Len(Code(b)) /\ DOMAIN list'[b] = DOMAIN Code(b)
    BY <2>1, <2>2
  <2>4. \A i \in DOMAIN Code(b) : list'[b][i] = Renamed(b, i)
    BY <2>1, <2>2
  <2>5. \A i : Renamed(b, i).op = Code(b)[i].op /\ Renamed(b, i).of = i
    BY DEF Renamed
  <2>. QED  BY <2>3, <2>4, <2>5
<1>10. Listed'
  BY <1>1, <1>5, <1>6, <1>7, <1>8, <1>9 DEF Listed
<1>11. Sourced'
  BY <1>6, <1>9 DEF Sourced
<1>. QED  BY <1>2, <1>10, <1>11

LEMMA PropagateLeaves ==
    ASSUME Placed, Listed, Sourced, Propagate
    PROVE  Placed' /\ Listed' /\ Linked'
<1>1. /\ prog' = prog /\ chain' = chain /\ frontier' = frontier /\ live' = live
      /\ phis' = phis /\ rotated' = rotated /\ args' = args /\ door' = door /\ Analysed
  BY DEF Propagate, analysis, tables, Placed
<1>2. Placed'
  BY <1>1, SamePlacement DEF Placed
<1>3. G' = G /\ R' = R /\ (\A b : Code(b)' = Code(b)) /\ \A b, i : Renamed(b, i)' = Renamed(b, i)
  BY <1>1, SameBody, SameVersions
<1>4. ASSUME NEW p, NEW s
      PROVE  Reaching(p, Len(Code(p)) + 1, s)' = Reaching(p, Len(Code(p)) + 1, s)
  BY <1>1 DEF Reaching, Inherited, Exit, LastDef, Defined, Code, DefOf, PhiOf, EntryOf
<1>5. ASSUME NEW b \in Blocks
      PROVE  /\ Len(list'[b]) = Len(list[b]) /\ DOMAIN list'[b] = DOMAIN list[b]
             /\ \A i \in DOMAIN list[b] :
                   /\ list'[b][i].op = list[b][i].op
                   /\ list'[b][i].of = list[b][i].of
                   /\ list'[b][i].dst = list[b][i].dst
                   /\ list'[b][i].src = IF list[b][i].op \in {"move", "nop"} THEN list[b][i].src
                                        ELSE Resolve(list[b][i].src, b, i)
  <2>. DEFINE new(i) == IF list[b][i].op \in {"move", "nop"} THEN list[b][i]
                        ELSE [list[b][i] EXCEPT !.src = Resolve(@, b, i)]
  <2>1. list'[b] = [i \in DOMAIN list[b] |-> new(i)]
    BY DEF Propagate
  <2>2. DOMAIN list[b] = 1 .. Len(list[b]) /\ Len(list[b]) \in Nat
    BY <1>1, Shape DEF Listed, Analysed
  <2>3. Len(list'[b]) = Len(list[b]) /\ DOMAIN list'[b] = DOMAIN list[b]
    BY <2>1, <2>2
  <2>4. ASSUME NEW i \in DOMAIN list[b]
        PROVE  /\ new(i).op = list[b][i].op /\ new(i).of = list[b][i].of
               /\ new(i).dst = list[b][i].dst
               /\ new(i).src = IF list[b][i].op \in {"move", "nop"} THEN list[b][i].src
                               ELSE Resolve(list[b][i].src, b, i)
    <3>1. i \in DOMAIN Code(b)
      BY DEF Listed
    <3>2. list[b][i] = Renamed(b, i)
      BY <3>1 DEF Sourced
    <3>. QED  BY <3>2 DEF Renamed
  <2>. HIDE DEF new
  <2>. QED  BY <2>1, <2>3, <2>4
<1>6. Listed'
  <2>1. ASSUME NEW b \in Blocks
        PROVE  /\ Len(list'[b]) = Len(Code(b)) /\ DOMAIN list'[b] = DOMAIN Code(b)
               /\ \A i \in DOMAIN Code(b) :
                     /\ list'[b][i].op = Code(b)[i].op
                     /\ list'[b][i].of = i
                     /\ list'[b][i].dst = Renamed(b, i).dst
                     /\ Code(b)[i].op = "move" => list'[b][i].src = Renamed(b, i).src
    BY <1>5 DEF Listed
  <2>. QED  BY <1>1, <1>3, <1>4, <2>1 DEF Listed
<1>7. Linked'
  <2>1. ASSUME NEW b \in R, NEW i \in DOMAIN Code(b), NEW S, Obeyed(b, i, S)
        PROVE  Renamed(b, i).src \in S <=> list'[b][i].src \in S
    <3>1. b \in Blocks /\ i \in DOMAIN list[b]
      BY <1>1, ChainIs DEF Listed
    <3>2. list[b][i].src = Renamed(b, i).src
      BY <3>1 DEF Sourced
    <3>3. Renamed(b, i).src \in S <=> Resolve(Renamed(b, i).src, b, i) \in S
      BY <1>1, <2>1, ResolveObeys
    <3>. QED  BY <1>5, <3>1, <3>2, <3>3
  <2>. QED  BY <1>1, <1>3, <2>1, SameObeyed DEF Linked
<1>. QED  BY <1>2, <1>6, <1>7

-----------------------------------------------------------------------------
(***************************************************************************)
(* The inductive invariant.                                                *)
(***************************************************************************)
Ran ==
    \E b \in R : \E i \in 1 .. Len(Code(b)) + 1 : \E H, C :
        at = <<b, i>> /\ holds = H /\ carries = C /\ InStep(b, i, H, C)

SsaInv ==
    /\ prog \in Programs
    /\ form \in {"source", "analysed", "placed"} => at = << >>
    /\ at = << >> => holds = {} /\ carries = {}
    /\ form # "source" => Analysed
    /\ EntryApart /\ form = "placed" => Placed
    /\ EntryApart /\ form = "renamed" => Placed /\ Listed /\ Sourced
    /\ EntryApart /\ form = "propagated" => Placed /\ Listed /\ Linked
    /\ Plain /\ form \in {"renamed", "propagated"} /\ at # << >> => Ran

LEMMA ExecuteRuns ==
    ASSUME Placed, Listed, Plain, Ran, Execute
    PROVE  Ran'
<1>1. PICK b, i, H, C :
         /\ b \in R /\ i \in 1 .. Len(Code(b)) + 1
         /\ at = <<b, i>> /\ holds = H /\ carries = C /\ InStep(b, i, H, C)
  BY DEF Ran
<1>2. /\ Analysed /\ EntryApart /\ b \in Blocks /\ at[1] = b /\ at[2] = i /\ at # << >>
      /\ (\E s \in Slots : Cardinality(Defs(s)) = 1) => Reducible
  BY <1>1, ChainIs DEF Placed, Plain
<1>3. /\ DOMAIN Code(b) = 1 .. Len(Code(b)) /\ Len(Code(b)) \in Nat /\ Len(list[b]) = Len(Code(b))
      /\ \A j \in DOMAIN Code(b) :
            /\ list[b][j].op = Code(b)[j].op /\ list[b][j].of = j
            /\ list[b][j].dst = Renamed(b, j).dst
            /\ Code(b)[j].op = "move" => list[b][j].src = Renamed(b, j).src
  BY <1>2, Shape DEF Listed, Analysed
<1>4. i \in DOMAIN Code(b) /\ Here = list[b][i] /\ i + 1 \in 1 .. Len(Code(b)) + 1 /\ i # 0
  BY <1>1, <1>2, <1>3 DEF Execute, InBlock, Leaves, Here
<1>5. PICK pick \in BOOLEAN :
         /\ pick => ~tagged /\ Here.op \in {"set", "inc"}
         /\ carries' = Assigned(carries, Here, pick)
         /\ holds' = IF Here.of = 0 THEN holds ELSE Assigned(holds, Code(at[1])[Here.of], pick)
  BY DEF Execute
<1>6. pick => Code(b)[i].op \in {"set", "inc"}
  BY <1>3, <1>4, <1>5
<1>7. holds' = Assigned(H, Code(b)[i], pick)
  BY <1>1, <1>2, <1>3, <1>4, <1>5
<1>8. carries' = Assigned(C, Renamed(b, i), pick)
  <2>1. /\ Here.op = Renamed(b, i).op /\ Here.dst = Renamed(b, i).dst
        /\ Renamed(b, i).op = "move" => Here.src = Renamed(b, i).src
    BY <1>3, <1>4 DEF Renamed
  <2>2. Assigned(C, Here, pick) = Assigned(C, Renamed(b, i), pick)
    BY <2>1 DEF Assigned
  <2>. QED  BY <1>1, <1>5, <2>2
<1>9. InStep(b, i + 1, Assigned(H, Code(b)[i], pick), Assigned(C, Renamed(b, i), pick))
  BY <1>1, <1>2, <1>4, <1>6, ExecuteInStep
<1>10. at' = <<b, i + 1>> /\ prog' = prog /\ chain' = chain /\ phis' = phis /\ live' = live
  BY <1>2 DEF Execute, analysis, tables
<1>11. R' = R /\ \A c : Code(c)' = Code(c)
  BY <1>10, SameBody
<1>12. PICK n, H2, C2 : n = i + 1 /\ H2 = holds' /\ C2 = carries'
  OBVIOUS
<1>13. InStep(b, n, H2, C2)
  BY <1>7, <1>8, <1>9, <1>12
<1>14. InStep(b, n, H2, C2)'
  BY <1>10, <1>13, SameStep
<1>15. at' = <<b, n>> /\ b \in R' /\ n \in 1 .. Len(Code(b)') + 1
  BY <1>1, <1>4, <1>10, <1>11, <1>12
<1>. QED  BY <1>12, <1>14, <1>15 DEF Ran

LEMMA FollowRuns ==
    ASSUME Placed, Listed, Plain, Ran, Follow, form \in {"renamed", "propagated"}
    PROVE  Ran'
<1>1. PICK b, i, H, C :
         /\ b \in R /\ i \in 1 .. Len(Code(b)) + 1
         /\ at = <<b, i>> /\ holds = H /\ carries = C /\ InStep(b, i, H, C)
  BY DEF Ran
<1>2. /\ Analysed /\ EntryApart /\ b \in Blocks /\ at[1] = b /\ at[2] = i /\ at # << >>
      /\ (\E s \in Slots : Cardinality(Defs(s)) = 1) => Reducible
      /\ G \in Graphs
  BY <1>1, ChainIs, Shape DEF Placed, Plain, Analysed
<1>3. /\ DOMAIN Code(b) = 1 .. Len(Code(b)) /\ Len(Code(b)) \in Nat /\ Len(list[b]) = Len(Code(b))
      /\ \A j \in DOMAIN Code(b) : Code(b)[j].op \in Terminators => j = Len(Code(b))
      /\ \A j \in DOMAIN Code(b) : list[b][j].op = Code(b)[j].op
  BY <1>2, Shape DEF Listed, Analysed
<1>4. i = Len(Code(b)) + 1
  <2>1. \/ i > Len(list[b])
        \/ i > 1 /\ list[b][i - 1].op \in Terminators
    BY <1>2 DEF Follow, Leaves
  <2>2. CASE i > Len(list[b])
    BY <1>1, <1>3, <2>2
  <2>3. CASE i > 1 /\ list[b][i - 1].op \in Terminators
    <3>1. i - 1 \in DOMAIN Code(b)
      BY <1>1, <1>3, <2>3
    <3>2. i - 1 = Len(Code(b))
      BY <1>3, <2>3, <3>1
    <3>. QED  BY <1>1, <1>3, <3>2
  <2>. QED  BY <2>1, <2>2, <2>3
<1>. DEFINE into(t, k) ==
              /\ at' = <<t, IF FallsThrough(at[1], k) THEN 1 ELSE door[t]>>
              /\ carries' = (carries \ {PhiOf(t, s) : s \in Merged(t)})
                    \cup {PhiOf(t, s) : s \in {r \in Merged(t) : args[t][r][at[1]] \in carries}}
<1>5. PICK k \in DOMAIN G[b] : into(G[b][k], k)
  <2>1. \E k \in DOMAIN G[at[1]] : into(G[at[1]][k], k)
    BY DEF Follow
  <2>. HIDE DEF into
  <2>. QED  BY <1>2, <2>1
<1>. DEFINE t == G[b][k]
<1>6. t \in Targets(G, b) /\ t \in Blocks /\ b \in Preds(G, t)
  <2>1. t \in Targets(G, b)
    <3>1. DOMAIN G[b] = 1 .. Len(G[b])
      BY <1>2 DEF Graphs
    <3>. HIDE DEF into
    <3>. QED  BY <3>1 DEF Targets
  <2>. QED  BY <1>2, <2>1, TargetsAreBlocks DEF Preds
<1>7. at' = <<t, 1>>
  <2>1. door[t] = 1
    BY <1>6 DEF Listed
  <2>. QED  BY <1>5, <2>1
<1>8. \A s \in phis[t] : args[t][s][b] = Reaching(b, Len(Code(b)) + 1, s)
  BY <1>1, <1>6 DEF Listed
<1>9. PICK H2, C2 : H2 = holds' /\ C2 = carries'
  OBVIOUS
<1>10. C2 = (C \ {PhiOf(t, s) : s \in phis[t]})
            \cup {PhiOf(t, s) : s \in {r \in phis[t] : args[t][r][b] \in C}}
  <2>1. Merged(t) = phis[t]
    BY DEF Merged
  <2>. QED  BY <1>1, <1>2, <1>5, <1>9, <2>1
<1>. HIDE DEF t, into
<1>11. \A s, r : PhiOf(t, s) = PhiOf(t, r) => s = r
  BY DEF PhiOf
<1>12. \A s \in phis[t] : PhiOf(t, s) \in C2 <=> Reaching(b, Len(Code(b)) + 1, s) \in C
  BY <1>8, <1>10, <1>11
<1>13. ASSUME NEW v, \A s \in phis[t] : v # PhiOf(t, s) PROVE v \in C2 <=> v \in C
  BY <1>10, <1>13
<1>14. H2 = H
  BY <1>1, <1>9 DEF Follow
<1>15. InStep(b, Len(Code(b)) + 1, H, C)
  BY <1>1, <1>4
<1>16. t \in R /\ InStep(t, 1, H, C2)
  BY <1>1, <1>2, <1>6, <1>12, <1>13, <1>15, FollowInStep
<1>17. prog' = prog /\ chain' = chain /\ phis' = phis /\ live' = live
  BY DEF Follow, analysis, tables
<1>18. PICK u : u = t
  OBVIOUS
<1>19. InStep(u, 1, H2, C2)
  BY <1>14, <1>16, <1>18
<1>20. InStep(u, 1, H2, C2)' /\ R' = R /\ Code(u)' = Code(u)
  BY <1>17, <1>19, SameStep, SameBody
<1>21. Len(Code(u)) \in Nat
  BY <1>2, <1>6, <1>18, Shape DEF Analysed
<1>22. 1 \in 1 .. Len(Code(u)') + 1 /\ u \in R' /\ at' = <<u, 1>>
  BY <1>7, <1>16, <1>18, <1>20, <1>21
<1>. QED  BY <1>9, <1>20, <1>22 DEF Ran

LEMMA StartRuns ==
    ASSUME Placed, EntryApart, Start, holds = {}, carries = {}
    PROVE  Ran'
<1>1. PICK H2, C2 : H2 = holds' /\ C2 = carries'
  OBVIOUS
<1>2. \/ H2 = {} /\ C2 = {}
      \/ \E s \in Slots : H2 = {s} /\ C2 = {EntryOf(s)}
  BY <1>1 DEF Start
<1>3. InStep(Entry, 1, H2, C2)
  BY <1>2, StartInStep
<1>4. at' = <<Entry, 1>> /\ prog' = prog /\ chain' = chain /\ phis' = phis /\ live' = live
  BY DEF Start, analysis, tables
<1>5. InStep(Entry, 1, H2, C2)' /\ R' = R /\ Code(Entry)' = Code(Entry)
  <2>1. \A b, i, H, C : InStep(b, i, H, C)' <=> InStep(b, i, H, C)
    BY <1>4, SameStep
  <2>2. \A b : Code(b)' = Code(b)
    BY <1>4, SameBody
  <2>. QED  BY <1>3, <1>4, <2>1, <2>2, SameBody
<1>6. Entry \in R /\ Len(Code(Entry)) \in Nat
  BY ChainOfEntry, Shape DEF Placed, Analysed
<1>7. 1 \in 1 .. Len(Code(Entry)') + 1 /\ Entry \in R'
  BY <1>5, <1>6
<1>. QED  BY <1>1, <1>4, <1>5, <1>7 DEF Ran

LEMMA InvStarts ==
    ASSUME Init
    PROVE  SsaInv
BY DEF Init, SsaInv

LEMMA InvStays ==
    ASSUME SsaInv, [Next]_vars
    PROVE  SsaInv'
<1>0. prog \in Programs
  BY DEF SsaInv
<1>1. CASE Analyse
  <2>1. prog' = prog /\ form = "source" /\ form' = "analysed" /\ at' = at /\ holds' = holds
        /\ carries' = carries
    BY <1>1 DEF Analyse, run
  <2>2. Analysed'
    BY <1>0, <1>1, AnalyseLeaves
  <2>. QED  BY <1>0, <2>1, <2>2 DEF SsaInv
<1>2. CASE PlacePhis
  <2>1. prog' = prog /\ chain' = chain /\ frontier' = frontier /\ live' = live
        /\ form = "analysed" /\ form' = "placed" /\ at' = at /\ holds' = holds /\ carries' = carries
    BY <1>2 DEF PlacePhis, run, analysis
  <2>2. Analysed /\ Analysed'
    <3>1. Analysed
      BY <2>1 DEF SsaInv
    <3>. QED  BY <2>1, <3>1, SamePlacement
  <2>3. EntryApart' => Placed'
    BY <1>2, <2>1, <2>2, SameBody, PlaceLeaves
  <2>. QED  BY <1>0, <2>1, <2>2, <2>3 DEF SsaInv
<1>3. CASE Rename
  <2>1. prog' = prog /\ chain' = chain /\ frontier' = frontier /\ live' = live
        /\ form = "placed" /\ form' = "renamed" /\ at' = at /\ holds' = holds /\ carries' = carries
    BY <1>3 DEF Rename, run, analysis
  <2>2. Analysed'
    <3>1. Analysed
      BY <2>1 DEF SsaInv
    <3>. QED  BY <2>1, <3>1, SamePlacement
  <2>3. EntryApart' => Placed' /\ Listed' /\ Sourced'
    <3>1. EntryApart => Placed
      BY <2>1 DEF SsaInv
    <3>. QED  BY <1>3, <2>1, <3>1, SameBody, RenameLeaves
  <2>4. at' = << >>
    BY <2>1 DEF SsaInv
  <2>5. at' = << >> => holds' = {} /\ carries' = {}
    BY <2>1 DEF SsaInv
  <2>. QED  BY <1>0, <2>1, <2>2, <2>3, <2>4, <2>5 DEF SsaInv
<1>4. CASE Propagate
  <2>1. prog' = prog /\ chain' = chain /\ frontier' = frontier /\ live' = live
        /\ form = "renamed" /\ form' = "propagated" /\ at = << >> /\ at' = at
        /\ holds' = holds /\ carries' = carries
    BY <1>4 DEF Propagate, run, analysis
  <2>2. Analysed'
    <3>1. Analysed
      BY <2>1 DEF SsaInv
    <3>. QED  BY <2>1, <3>1, SamePlacement
  <2>3. EntryApart' => Placed' /\ Listed' /\ Linked'
    <3>1. EntryApart => Placed /\ Listed /\ Sourced
      BY <2>1 DEF SsaInv
    <3>. QED  BY <1>4, <2>1, <3>1, SameBody, PropagateLeaves
  <2>4. at' = << >> => holds' = {} /\ carries' = {}
    BY <2>1 DEF SsaInv
  <2>. QED  BY <1>0, <2>1, <2>2, <2>3, <2>4 DEF SsaInv
<1>5. CASE Eliminate
  <2>1. prog' = prog /\ chain' = chain /\ frontier' = frontier /\ live' = live
        /\ form \in {"renamed", "propagated"} /\ form' \in {"lowered", "final"}
        /\ at' = at /\ holds' = holds /\ carries' = carries
    BY <1>5 DEF Eliminate, run, analysis
  <2>2. Analysed'
    <3>1. Analysed
      BY <2>1 DEF SsaInv
    <3>. QED  BY <2>1, <3>1, SamePlacement
  <2>3. at' = << >> => holds' = {} /\ carries' = {}
    BY <2>1 DEF SsaInv
  <2>. QED  BY <1>0, <2>1, <2>2, <2>3 DEF SsaInv
<1>6. ASSUME \/ Start /\ at = << >> /\ form \in {"renamed", "propagated", "lowered", "final"}
             \/ (Execute \/ Follow) /\ at # << >>,
             at' # << >>, form' = form, UNCHANGED <<prog, analysis, tables, list, door>>
      PROVE  SsaInv'
  <2>1. prog' = prog /\ chain' = chain /\ frontier' = frontier /\ live' = live
    BY <1>6 DEF analysis
  <2>2. form # "source" => Analysed'
    BY <2>1, SamePlacement DEF SsaInv
  <2>3. /\ EntryApart' = EntryApart /\ Plain' = Plain
        /\ Placed' = Placed /\ Listed' = Listed /\ Sourced' = Sourced /\ Linked' = Linked
    BY <1>6, <2>1, SameBody, SameListing
  <2>4. form \notin {"source", "analysed", "placed"}
    BY <1>6 DEF SsaInv
  <2>5. ASSUME Plain, form \in {"renamed", "propagated"} PROVE Ran'
    <3>1. EntryApart /\ Placed /\ Listed
      BY <2>5 DEF SsaInv, Plain
    <3>2. CASE Start /\ at = << >>
      <4>1. holds = {} /\ carries = {}
        BY <3>2 DEF SsaInv
      <4>. QED  BY <3>1, <3>2, <4>1, StartRuns
    <3>3. CASE (Execute \/ Follow) /\ at # << >>
      <4>1. Ran
        BY <2>5, <3>3 DEF SsaInv
      <4>. QED  BY <2>5, <3>1, <3>3, <4>1, ExecuteRuns, FollowRuns
    <3>. QED  BY <1>6, <3>2, <3>3
  <2>6. /\ EntryApart /\ form = "renamed" => Placed /\ Listed /\ Sourced
        /\ EntryApart /\ form = "propagated" => Placed /\ Listed /\ Linked
    BY DEF SsaInv
  <2>7. prog' \in Programs /\ form' = form /\ at' # << >>
    BY <1>0, <1>6, <2>1
  <2>8. /\ EntryApart' /\ form' = "renamed" => Placed' /\ Listed' /\ Sourced'
        /\ EntryApart' /\ form' = "propagated" => Placed' /\ Listed' /\ Linked'
        /\ Plain' /\ form' \in {"renamed", "propagated"} => Ran'
    BY <2>3, <2>5, <2>6, <2>7
  <2>. QED  BY <2>2, <2>4, <2>7, <2>8 DEF SsaInv
<1>7. CASE Start
  <2>1. /\ at = << >> /\ form \in {"renamed", "propagated", "lowered", "final"}
        /\ at' = <<Entry, 1>> /\ form' = form
        /\ UNCHANGED <<prog, analysis, tables, list, door>>
    BY <1>7 DEF Start
  <2>. QED  BY <1>6, <1>7, <2>1
<1>8. CASE Execute
  <2>1. /\ at # << >> /\ at' = <<at[1], at[2] + 1>> /\ form' = form
        /\ UNCHANGED <<prog, analysis, tables, list, door>>
    BY <1>8 DEF Execute, InBlock
  <2>. QED  BY <1>6, <1>8, <2>1
<1>9. CASE Follow
  <2>1. /\ at # << >> /\ at' # << >> /\ form' = form
        /\ UNCHANGED <<prog, analysis, tables, list, door>>
    BY <1>9 DEF Follow, Leaves
  <2>. QED  BY <1>6, <1>9, <2>1
<1>10. CASE UNCHANGED vars
  <2>1. /\ prog' = prog /\ chain' = chain /\ frontier' = frontier /\ live' = live
        /\ phis' = phis /\ form' = form /\ at' = at /\ holds' = holds /\ carries' = carries
        /\ UNCHANGED <<prog, analysis, tables, list, door>>
    BY <1>10 DEF vars, analysis, tables
  <2>2. /\ EntryApart' = EntryApart /\ Plain' = Plain /\ Analysed' = Analysed
        /\ Placed' = Placed /\ Listed' = Listed /\ Sourced' = Sourced /\ Linked' = Linked
    BY <2>1, SameBody, SamePlacement, SameListing
  <2>3. Ran => Ran'
    <3>1. SUFFICES ASSUME Ran PROVE Ran'
      OBVIOUS
    <3>2. PICK b, i, H, C :
             /\ b \in R /\ i \in 1 .. Len(Code(b)) + 1
             /\ at = <<b, i>> /\ holds = H /\ carries = C /\ InStep(b, i, H, C)
      BY <3>1 DEF Ran
    <3>3. InStep(b, i, H, C)' /\ b \in R' /\ i \in 1 .. Len(Code(b)') + 1
      BY <2>1, <3>2, SameStep, SameBody
    <3>. QED  BY <2>1, <3>2, <3>3 DEF Ran
  <2>. QED  BY <2>1, <2>2, <2>3 DEF SsaInv
<1>. QED  BY <1>1, <1>2, <1>3, <1>4, <1>5, <1>7, <1>8, <1>9, <1>10 DEF Next

LEMMA SsaInvariant == Spec => []SsaInv
<1>1. Init => SsaInv
  BY InvStarts
<1>2. SsaInv /\ [Next]_vars => SsaInv'
  BY InvStays
<1>. QED  BY <1>1, <1>2, PTL DEF Spec

-----------------------------------------------------------------------------
(* The reads agree where a live register is read.                          *)

LEMMA InvReads ==
    ASSUME SsaInv, Plain, form \in {"renamed", "propagated"}
    PROVE  ReadAgrees
<1>1. SUFFICES ASSUME InBlock, Here.of > 0, Code(at[1])[Here.of].src # NoSlot
               PROVE  Code(at[1])[Here.of].src \in holds <=> Here.src \in carries
  BY DEF ReadAgrees
<1>2. at # << >> /\ ~Leaves
  BY <1>1 DEF InBlock
<1>3. Ran /\ Placed /\ Listed /\ (form = "renamed" => Sourced) /\ (form = "propagated" => Linked)
  BY <1>2 DEF SsaInv, Plain
<1>4. PICK b, i, H, C :
         /\ b \in R /\ i \in 1 .. Len(Code(b)) + 1
         /\ at = <<b, i>> /\ holds = H /\ carries = C /\ InStep(b, i, H, C)
  BY <1>3 DEF Ran
<1>5. Analysed /\ b \in Blocks /\ at[1] = b /\ at[2] = i
  BY <1>3, <1>4, ChainIs DEF Placed
<1>6. /\ DOMAIN Code(b) = 1 .. Len(Code(b)) /\ Len(Code(b)) \in Nat /\ Len(list[b]) = Len(Code(b))
      /\ \A j \in DOMAIN Code(b) : list[b][j].of = j /\ Code(b)[j] \in Insns
  BY <1>3, <1>5, Shape DEF Listed, Analysed
<1>7. i \in DOMAIN Code(b) /\ Here = list[b][i] /\ Here.of = i
  BY <1>2, <1>4, <1>5, <1>6 DEF Leaves, Here
<1>. DEFINE s == Code(b)[i].src
<1>8. s \in Slots /\ Renamed(b, i).src = Reaching(b, i, s)
  <2>1. s # NoSlot /\ Code(b)[i] \in Insns
    BY <1>1, <1>5, <1>6, <1>7
  <2>. QED  BY <2>1 DEF Insns, Renamed
<1>9. s \in H <=> Reaching(b, i, s) \in C
  <2>1. LiveAt(b, i, s)
    BY <1>5, <1>7, <1>8, LiveAtEdges
  <2>. QED  BY <1>4, <1>8, <2>1 DEF InStep, Held, Tracked
<1>10. Renamed(b, i).src \in C <=> list[b][i].src \in C
  <2>1. CASE form = "renamed"
    BY <1>3, <1>5, <1>7, <2>1 DEF Sourced
  <2>2. CASE form = "propagated"
    BY <1>3, <1>4, <1>7, <2>2 DEF Linked, InStep
  <2>. QED  BY <2>1, <2>2
<1>. QED  BY <1>4, <1>5, <1>7, <1>8, <1>9, <1>10

(* For every body whose entry no branch leads back to, and whose loops are *)
(* entered at their headers if some register has one definition only:      *)
(* every read of the renamed listing, phis taking their argument on the    *)
(* edge, sees the value the register held (ssa::build).                    *)
THEOREM RenamingKeepsReads == Spec => [](Plain => RenamedReadsAgree)
<1>1. SsaInv => (Plain => RenamedReadsAgree)
  BY InvReads DEF RenamedReadsAgree
<1>. QED  BY <1>1, SsaInvariant, PTL

(* For the same bodies: a read that was given the source of a copy, along  *)
(* any number of hops, still sees the value the register held              *)
(* (passes::copy_and_constant_propagation).                                *)
THEOREM PropagationKeepsReads == Spec => [](Plain => PropagatedReadsAgree)
<1>1. SsaInv => (Plain => PropagatedReadsAgree)
  BY InvReads DEF PropagatedReadsAgree
<1>. QED  BY <1>1, SsaInvariant, PTL

-----------------------------------------------------------------------------
(* Order of insertions.                                                    *)

(* Where an order puts the members of a finite set.                        *)
LEMMA Ranks ==
    ASSUME NEW S, IsFiniteSet(S), NEW rel,
           \A x, y \in S : x = y \/ <<x, y>> \in rel \/ <<y, x>> \in rel,
           \A x \in S : <<x, x>> \notin rel,
           \A x, y, z \in S : <<x, y>> \in rel /\ <<y, z>> \in rel => <<x, z>> \in rel
    PROVE  /\ Cardinality(S) \in Nat
           /\ \A e \in S : Cardinality({x \in S : <<x, e>> \in rel}) + 1 \in 1 .. Cardinality(S)
           /\ \A k \in 1 .. Cardinality(S) : \E e \in S :
                 Cardinality({x \in S : <<x, e>> \in rel}) = k - 1
<1>. DEFINE n == Cardinality(S)
            D == 0 .. n - 1
            before(e) == {x \in S : <<x, e>> \in rel}
            r == [e \in S |-> Cardinality(before(e))]
<1>1. n \in Nat /\ IsFiniteSet(D) /\ Cardinality(D) = n
  <2>1. n \in Nat
    BY FS_CardinalityType
  <2>2. 0 \in Int /\ n - 1 \in Int /\ n = IF 0 > n - 1 THEN 0 ELSE n - 1 - 0 + 1
    BY <2>1
  <2>. HIDE DEF n
  <2>. QED  BY <2>1, <2>2, FS_Interval
<1>2. ASSUME NEW e \in S
      PROVE  /\ IsFiniteSet(before(e)) /\ Cardinality(before(e)) \in Nat
             /\ Cardinality(before(e)) < n
  <2>1. before(e) \subseteq S \ {e}
    OBVIOUS
  <2>2. IsFiniteSet(S \ {e}) /\ Cardinality(S \ {e}) = n - 1
    BY FS_RemoveElement
  <2>3. IsFiniteSet(before(e)) /\ Cardinality(before(e)) <= n - 1
    <3>. HIDE DEF before
    <3>. QED  BY <2>1, <2>2, FS_Subset
  <2>4. Cardinality(before(e)) \in Nat
    BY <2>3, FS_CardinalityType
  <2>. QED  BY <1>1, <2>3, <2>4
<1>3. ASSUME NEW e \in S, NEW f \in S, <<e, f>> \in rel
      PROVE  Cardinality(before(e)) # Cardinality(before(f))
  <2>1. before(e) \cup {e} \subseteq before(f) /\ e \notin before(e)
    BY <1>3
  <2>2. IsFiniteSet(before(e)) /\ IsFiniteSet(before(f)) /\ Cardinality(before(e)) \in Nat
    BY <1>2
  <2>. HIDE DEF before
  <2>3. Cardinality(before(e) \cup {e}) = Cardinality(before(e)) + 1
    BY <2>1, <2>2, FS_AddElement
  <2>4. Cardinality(before(e) \cup {e}) <= Cardinality(before(f))
    BY <2>1, <2>2, FS_Subset
  <2>. QED  BY <2>2, <2>3, <2>4
<1>4. \A e \in S : r[e] = Cardinality(before(e))
  OBVIOUS
<1>5. r \in [S -> D]
  <2>1. \A e \in S : Cardinality(before(e)) \in D
    BY <1>1, <1>2
  <2>. QED  BY <2>1
<1>. HIDE DEF before, r
<1>6. ASSUME NEW e \in S, NEW f \in S, e # f PROVE r[e] # r[f]
  <2>1. CASE <<e, f>> \in rel
    BY <1>3, <1>4, <2>1
  <2>2. CASE <<f, e>> \in rel
    BY <1>3, <1>4, <2>2
  <2>. QED  BY <1>6, <2>1, <2>2
<1>7. ASSUME NEW k \in D, \A e \in S : r[e] # k PROVE FALSE
  <2>1. IsFiniteSet(D \ {k}) /\ Cardinality(D \ {k}) = n - 1
    BY <1>1, FS_RemoveElement
  <2>2. Cardinality(D \ {k}) < Cardinality(S)
    BY <1>1, <2>1
  <2>3. r \in [S -> D \ {k}]
    BY <1>5, <1>7
  <2>4. \E x, y \in S : x # y /\ r[x] = r[y]
    <3>. HIDE DEF D
    <3>. QED  BY <2>1, <2>2, <2>3, FS_PigeonHole
  <2>. QED  BY <1>6, <2>4
<1>8. ASSUME NEW k \in 1 .. n PROVE \E e \in S : Cardinality(before(e)) = k - 1
  <2>1. k - 1 \in D
    BY <1>1
  <2>2. PICK e \in S : r[e] = k - 1
    BY <1>7, <2>1
  <2>. QED  BY <1>4, <2>2
<1>9. ASSUME NEW e \in S PROVE Cardinality(before(e)) + 1 \in 1 .. n
  BY <1>1, <1>2
<1>. QED  BY <1>1, <1>8, <1>9 DEF before

LEMMA TriplesFinite ==
    ASSUME NEW S \in SUBSET (Blocks \X Slots \X Blocks)
    PROVE  IsFiniteSet(S)
<1>1. IsFiniteSet(Slots) /\ IsFiniteSet(Blocks)
  BY FS_Interval, KAssumption, BlocksFinite DEF Slots
<1>2. IsFiniteSet(Slots \X Blocks)
  BY <1>1, FS_Product
<1>3. IsFiniteSet(Blocks \X (Slots \X Blocks))
  BY <1>1, <1>2, FS_Product
<1>. DEFINE X == Blocks \X (Slots \X Blocks)
            h == [e \in X |-> {<<e[1], e[2][1], e[2][2]>>}]
            T == UNION {h[e] : e \in X}
<1>4. IsFiniteSet(T)
  <2>1. \A e \in X : IsFiniteSet(h[e])
    BY FS_Singleton
  <2>. HIDE DEF h, X
  <2>2. IsFiniteSet(X)
    BY <1>3 DEF X
  <2>. QED  BY <2>1, <2>2, FiniteUnion
<1>5. S \subseteq T
  <2>1. SUFFICES ASSUME NEW e \in S PROVE e \in T
    OBVIOUS
  <2>2. e \in Blocks \X Slots \X Blocks
    OBVIOUS
  <2>3. e = <<e[1], e[2], e[3]>> /\ e[1] \in Blocks /\ e[2] \in Slots /\ e[3] \in Blocks
    BY <2>2
  <2>4. <<e[1], <<e[2], e[3]>>>> \in X
    BY <2>3
  <2>5. h[<<e[1], <<e[2], e[3]>>>>] = {e}
    BY <2>3, <2>4
  <2>. HIDE DEF h, X
  <2>. QED  BY <2>4, <2>5
<1>. QED  BY <1>4, <1>5, FS_Subset

(* Copies are put in order without loss.                                   *)
LEMMA EdgesInOrder ==
    ASSUME NEW S \in SUBSET (Blocks \X Slots \X Blocks)
    PROVE  /\ InOrder(S, Earlier) \in Seq(S)
           /\ \A e \in S : \E k \in DOMAIN InOrder(S, Earlier) : InOrder(S, Earlier)[k] = e
<1>. DEFINE T == Blocks \X Slots \X Blocks
            rel == {e \in T \X T : Earlier(e[1], e[2])}
            n == Cardinality(S)
            rank(e) == Cardinality({x \in S : Earlier(x, e)})
            order == [k \in 1 .. n |-> CHOOSE e \in S : rank(e) = k - 1]
<1>1. InOrder(S, Earlier) = order
  BY DEF InOrder
<1>2. \A x, y \in S : <<x, y>> \in rel <=> Earlier(x, y)
  OBVIOUS
<1>3. /\ \A x, y \in S : x = y \/ Earlier(x, y) \/ Earlier(y, x)
      /\ \A x \in S : ~Earlier(x, x)
      /\ \A x, y, z \in S : Earlier(x, y) /\ Earlier(y, z) => Earlier(x, z)
  <2>1. \A x \in S : x[1] \in Int /\ x[2] \in Int /\ x[3] \in Int /\ x = <<x[1], x[2], x[3]>>
    BY DEF Blocks, Slots
  <2>. QED  BY <2>1 DEF Earlier
<1>4. \A e \in S : rank(e) = Cardinality({x \in S : <<x, e>> \in rel})
  <2>1. SUFFICES ASSUME NEW e \in S
                 PROVE  {x \in S : Earlier(x, e)} = {x \in S : <<x, e>> \in rel}
    OBVIOUS
  <2>. QED  BY <1>2
<1>. HIDE DEF rel
<1>5. /\ \A x, y \in S : x = y \/ <<x, y>> \in rel \/ <<y, x>> \in rel
      /\ \A x \in S : <<x, x>> \notin rel
      /\ \A x, y, z \in S : <<x, y>> \in rel /\ <<y, z>> \in rel => <<x, z>> \in rel
  BY <1>2, <1>3
<1>6. /\ n \in Nat
      /\ \A e \in S : Cardinality({x \in S : <<x, e>> \in rel}) + 1 \in 1 .. n
      /\ \A k \in 1 .. n : \E e \in S : Cardinality({x \in S : <<x, e>> \in rel}) = k - 1
  BY <1>5, TriplesFinite, Ranks
<1>. HIDE DEF n, rank
<1>7. /\ \A e \in S : rank(e) + 1 \in 1 .. n
      /\ \A k \in 1 .. n : \E e \in S : rank(e) = k - 1
  BY <1>4, <1>6
<1>8. \A k \in 1 .. n : order[k] \in S /\ rank(order[k]) = k - 1
  BY <1>7
<1>9. \A e, f \in S : rank(e) = rank(f) => e = f
  <2>1. SUFFICES ASSUME NEW e \in S, NEW f \in S, Earlier(e, f) PROVE rank(e) # rank(f)
    BY <1>3
  <2>. DEFINE below(x) == {y \in S : Earlier(y, x)}
  <2>2. below(e) \cup {e} \subseteq below(f) /\ e \notin below(e)
    BY <1>3, <2>1
  <2>3. IsFiniteSet(below(e)) /\ IsFiniteSet(below(f))
    BY TriplesFinite
  <2>. HIDE DEF below
  <2>4. Cardinality(below(e) \cup {e}) = Cardinality(below(e)) + 1 /\ Cardinality(below(e)) \in Nat
    BY <2>2, <2>3, FS_AddElement, FS_CardinalityType
  <2>5. Cardinality(below(e) \cup {e}) <= Cardinality(below(f)) /\ Cardinality(below(f)) \in Nat
    BY <2>2, <2>3, FS_Subset, FS_CardinalityType
  <2>6. rank(e) = Cardinality(below(e)) /\ rank(f) = Cardinality(below(f))
    BY DEF rank, below
  <2>. QED  BY <2>4, <2>5, <2>6
<1>10. ASSUME NEW e \in S PROVE \E k \in DOMAIN order : order[k] = e
  <2>1. \E k \in 1 .. n : k = rank(e) + 1
    BY <1>7
  <2>2. PICK k \in 1 .. n : k = rank(e) + 1
    BY <2>1
  <2>3. rank(order[k]) = k - 1 /\ order[k] \in S /\ k \in Nat
    BY <1>6, <1>8
  <2>4. rank(e) = k - 1
    <3>1. rank(e) + 1 \in Nat
      BY <1>6, <1>7
    <3>2. rank(e) \in Nat
      BY TriplesFinite, FS_CardinalityType DEF rank
    <3>. QED  BY <2>2, <3>2
  <2>. QED  BY <1>9, <2>3, <2>4
<1>11. order \in Seq(S)
  BY <1>6, <1>8
<1>. HIDE DEF order
<1>. QED  BY <1>1, <1>10, <1>11

-----------------------------------------------------------------------------
(* The collapse of the phis whose arguments are one version.               *)

(* What renaming says of the arguments of a phi. *)
Supplied ==
    \A b \in Blocks : \A s \in phis[b] : \A p \in Preds(G, b) :
        args[b][s][p] = IF p \in R THEN Reaching(p, Len(Code(p)) + 1, s) ELSE Undefined

(* The versions of all registers. *)
Names == UNION {Named(s) : s \in Slots}

(* No collapsed phi is replaced by one that is collapsed itself. *)
Flat(sub) == \A v \in DOMAIN sub : sub[v] \notin DOMAIN sub
Settled == Flat(Collapse)

(* A collapsed phi of a reachable block is replaced by a version of its    *)
(* register, and every argument of it is replaced by the same version.     *)
Kept(sub) ==
    \A v \in DOMAIN sub :
        \E t \in R : \E s \in phis[t] : v = PhiOf(t, s) /\ sub[v] \in Named(s)
Agreeing(sub) ==
    \A t \in R : \A s \in phis[t] :
        PhiOf(t, s) \in DOMAIN sub =>
            \A a \in PhiArgs(t, s) : Look(sub, a) = sub[PhiOf(t, s)]

States == [sub : UNION {[X -> Names] : X \in SUBSET Names}, blocked : SUBSET Names]
Sound == {st \in States : Kept(st.sub) /\ (Flat(st.sub) => Agreeing(st.sub))}

LEMMA PhiArgsAre ==
    ASSUME Placed, Supplied, NEW t \in Blocks, NEW s \in phis[t]
    PROVE  /\ s \in Slots /\ IsFiniteSet(PhiArgs(t, s)) /\ PhiArgs(t, s) \subseteq Named(s)
           /\ PhiArgs(t, s) # {} => t \in R
           /\ \A p \in Preds(G, t) : p \in R =>
                 Reaching(p, Len(Code(p)) + 1, s) \in PhiArgs(t, s)
           /\ PhiOf(t, s) \in Named(s) <=> t \in R
<1>1. Analysed /\ prog \in Programs /\ G \in Graphs /\ Entry \in Blocks
  BY Shape DEF Placed, Analysed
<1>2. s \in Slots
  BY DEF Placed
<1>3. ASSUME NEW p \in Preds(G, t), p \in R
      PROVE  /\ Reaching(p, Len(Code(p)) + 1, s) \in Named(s)
             /\ Reaching(p, Len(Code(p)) + 1, s) # Undefined
             /\ args[t][s][p] = Reaching(p, Len(Code(p)) + 1, s) /\ t \in R
  <2>1. Len(Code(p)) + 1 \in Nat
    BY <1>1, Shape DEF Preds
  <2>2. t \in R
    BY <1>1, <1>3, ReachFacts DEF R, Preds
  <2>. QED  BY <1>1, <1>2, <1>3, <2>1, <2>2, ReachingNamed, ReachingBefore DEF Supplied
<1>4. \A p \in Preds(G, t) : p \notin R => args[t][s][p] = Undefined
  BY DEF Supplied
<1>5. IsFiniteSet(PhiArgs(t, s))
  <2>. DEFINE f == [p \in Preds(G, t) |-> {args[t][s][p]}]
              A == UNION {f[p] : p \in Preds(G, t)}
  <2>1. IsFiniteSet(Preds(G, t))
    <3>1. Preds(G, t) \subseteq Blocks
      BY DEF Preds
    <3>. QED  BY <3>1, BlocksFinite, FS_Subset
  <2>2. \A p \in Preds(G, t) : IsFiniteSet(f[p])
    BY FS_Singleton
  <2>3. PhiArgs(t, s) \subseteq A
    BY DEF PhiArgs
  <2>. HIDE DEF f
  <2>4. IsFiniteSet(A)
    BY <2>1, <2>2, FiniteUnion
  <2>. QED  BY <2>3, <2>4, FS_Subset
<1>6. PhiOf(t, s) \in Named(s) <=> t \in R
  <2>1. \A c, j : PhiOf(t, s) # DefOf(c, j)
    BY DEF PhiOf, DefOf
  <2>2. PhiOf(t, s) # EntryOf(s) /\ \A c : PhiOf(t, s) = PhiOf(c, s) => c = t
    BY DEF PhiOf, EntryOf
  <2>. QED  BY <2>1, <2>2, NamedIs
<1>7. PhiArgs(t, s) \subseteq Named(s) /\ (PhiArgs(t, s) # {} => t \in R)
  BY <1>3, <1>4 DEF PhiArgs
<1>8. ASSUME NEW p \in Preds(G, t), p \in R
      PROVE  Reaching(p, Len(Code(p)) + 1, s) \in PhiArgs(t, s)
  BY <1>3, <1>8 DEF PhiArgs
<1>. QED  BY <1>2, <1>5, <1>6, <1>7, <1>8

LEMMA PhiSetIs ==
    ASSUME Placed
    PROVE  /\ \A q : q \in PhiSet <=> \E b \in Blocks : \E s \in phis[b] : q = <<b, s>>
           /\ Cardinality(PhiSet) \in Nat
<1>1. \A q : q \in PhiSet <=> \E b \in Blocks : \E s \in phis[b] : q = <<b, s>>
  BY DEF PhiSet
<1>2. PhiSet \subseteq Blocks \X Slots
  BY <1>1 DEF Placed
<1>3. IsFiniteSet(Slots)
  BY FS_Interval, KAssumption DEF Slots
<1>4. IsFiniteSet(Blocks \X Slots)
  BY <1>3, BlocksFinite, FS_Product
<1>. QED  BY <1>1, <1>2, <1>4, FS_Subset, FS_CardinalityType

LEMMA LookKeeps ==
    ASSUME NEW sub, Kept(sub), NEW s, NEW v \in Named(s)
    PROVE  Look(sub, v) \in Named(s)
<1>1. CASE v \in DOMAIN sub
  <2>1. PICK t \in R : \E r \in phis[t] : v = PhiOf(t, r) /\ sub[v] \in Named(r)
    BY <1>1 DEF Kept
  <2>2. PICK r \in phis[t] : v = PhiOf(t, r) /\ sub[v] \in Named(r)
    BY <2>1
  <2>3. v \in Named(r)
    BY <2>2, NamedIs
  <2>4. r = s
    BY <2>3, NamedApart
  <2>. QED  BY <1>1, <2>2, <2>4 DEF Look
<1>2. CASE v \notin DOMAIN sub
  BY <1>2 DEF Look
<1>. QED  BY <1>1, <1>2

(* The parts of a round. *)
Same(st, q) == {Look(st.sub, v) : v \in PhiArgs(q[1], q[2])}
Candidates(st) ==
    {q \in PhiSet : /\ PhiOf(q[1], q[2]) \notin DOMAIN st.sub \cup st.blocked
                    /\ Cardinality(Same(st, q)) = 1}
Dests(st) == {PhiOf(q[1], q[2]) : q \in Candidates(st)}
ArgOf(st) == [v \in Dests(st) |-> CHOOSE w \in Same(st, <<v[2], v[3]>>) : TRUE]
Onwards(st, w) == IF w \in Dests(st) THEN ArgOf(st)[w] ELSE Look(st.sub, w)
Chase(st) ==
    CHOOSE chase : chase = [k \in 0 .. Cardinality(PhiSet) + 1 |->
        IF k = 0 THEN [v \in Dests(st) |-> v]
        ELSE [v \in Dests(st) |-> Onwards(st, chase[k - 1][v])]]
End(st) == Chase(st)[Cardinality(PhiSet) + 1]
Cyclic(st) == {v \in Dests(st) : End(st)[v] \in Dests(st) \cup DOMAIN st.sub}

LEMMA RoundIs ==
    ASSUME NEW st
    PROVE  Round(st) =
             [sub |-> [v \in DOMAIN st.sub \cup (Dests(st) \ Cyclic(st)) |->
                         IF v \in Dests(st) THEN End(st)[v] ELSE st.sub[v]],
              blocked |-> st.blocked \cup Cyclic(st)]
BY DEF Round, Same, Candidates, Dests, ArgOf, Onwards, Chase, End, Cyclic

LEMMA DestsAre ==
    ASSUME Placed, Supplied, NEW st \in Sound, NEW v \in Dests(st)
    PROVE  /\ v \notin DOMAIN st.sub
           /\ \E t \in R : \E s \in phis[t] :
                 /\ v = PhiOf(t, s) /\ s \in Slots /\ v \in Named(s)
                 /\ ArgOf(st)[v] \in Named(s)
                 /\ PhiArgs(t, s) # {}
                 /\ \A a \in PhiArgs(t, s) : Look(st.sub, a) = ArgOf(st)[v]
<1>1. PICK q \in Candidates(st) : v = PhiOf(q[1], q[2])
  BY DEF Dests
<1>2. /\ q \in PhiSet /\ PhiOf(q[1], q[2]) \notin DOMAIN st.sub
      /\ Cardinality(Same(st, q)) = 1
  BY DEF Candidates
<1>3. PICK t \in Blocks : \E s \in phis[t] : q = <<t, s>>
  BY <1>2, PhiSetIs
<1>4. PICK s \in phis[t] : q = <<t, s>>
  BY <1>3
<1>5. v = PhiOf(t, s) /\ v[2] = t /\ v[3] = s /\ q = <<v[2], v[3]>>
  BY <1>1, <1>4 DEF PhiOf
<1>6. Same(st, q) = {Look(st.sub, a) : a \in PhiArgs(t, s)}
  BY <1>4 DEF Same
<1>7. IsFiniteSet(Same(st, q))
  <2>. DEFINE A == PhiArgs(t, s)
              f == [a \in A |-> {Look(st.sub, a)}]
  <2>1. IsFiniteSet(A)
    BY PhiArgsAre
  <2>2. \A a \in A : IsFiniteSet(f[a])
    BY FS_Singleton
  <2>3. Same(st, q) \subseteq UNION {f[a] : a \in A}
    BY <1>6
  <2>. HIDE DEF f, A
  <2>4. IsFiniteSet(UNION {f[a] : a \in A})
    BY <2>1, <2>2, FiniteUnion
  <2>. QED  BY <2>3, <2>4, FS_Subset
<1>8. PICK w : Same(st, q) = {w}
  BY <1>2, <1>7, FS_Singleton
<1>9. ArgOf(st)[v] = w
  BY <1>5, <1>8 DEF ArgOf
<1>10. PhiArgs(t, s) # {} /\ \A a \in PhiArgs(t, s) : Look(st.sub, a) = w
  BY <1>6, <1>8
<1>11. t \in R /\ s \in Slots /\ PhiArgs(t, s) \subseteq Named(s) /\ v \in Named(s)
  BY <1>5, <1>10, PhiArgsAre
<1>12. Kept(st.sub)
  BY DEF Sound
<1>13. w \in Named(s)
  BY <1>10, <1>11, <1>12, LookKeeps
<1>. QED  BY <1>2, <1>1, <1>5, <1>9, <1>10, <1>11, <1>13

(* The chase of a round goes on from version to version.                   *)
LEMMA ChaseRuns ==
    ASSUME Cardinality(PhiSet) \in Nat, NEW st, NEW V, \A w \in V \cup Dests(st) : Onwards(st, w) \in V
    PROVE  /\ \A k \in 0 .. Cardinality(PhiSet) + 1 : \A v \in Dests(st) :
                 Chase(st)[k][v] \in V \cup Dests(st)
           /\ \A v \in Dests(st) : Chase(st)[0][v] = v
           /\ \A k \in 1 .. Cardinality(PhiSet) + 1 : \A v \in Dests(st) :
                 Chase(st)[k][v] = Onwards(st, Chase(st)[k - 1][v])
<1>. DEFINE n == Cardinality(PhiSet) + 1
            D == [Dests(st) -> V \cup Dests(st)]
            first == [v \in Dests(st) |-> v]
            F == [f \in D |-> [v \in Dests(st) |-> Onwards(st, f[v])]]
            Rhs(chase) == [k \in 0 .. n |->
                IF k = 0 THEN [v \in Dests(st) |-> v]
                ELSE [v \in Dests(st) |-> Onwards(st, chase[k - 1][v])]]
            chase == CHOOSE chase : chase = Rhs(chase)
<1>1. Chase(st) = chase
  BY DEF Chase
<1>2. n \in Nat
  OBVIOUS
<1>4. first \in D /\ F \in [D -> D]
  OBVIOUS
<1>. HIDE DEF n
<1>5. PICK f : Iterates(f, D, first, F, n)
  <2>. HIDE DEF D, first, F
  <2>. QED  BY <1>2, <1>4, IteratesExist
<1>6. /\ f \in [0 .. n -> D] /\ f[0] = first
      /\ \A k \in 1 .. n : f[k] = [v \in Dests(st) |-> Onwards(st, f[k - 1][v])]
  <2>1. /\ f \in [0 .. n -> D] /\ f[0] = first
        /\ \A k \in 1 .. n : f[k] = F[f[k - 1]]
    BY <1>5 DEF Iterates
  <2>2. ASSUME NEW k \in 1 .. n
        PROVE  f[k] = [v \in Dests(st) |-> Onwards(st, f[k - 1][v])]
    <3>1. k - 1 \in 0 .. n
      BY <1>2
    <3>2. f[k - 1] \in D
      <4>. HIDE DEF D
      <4>. QED  BY <2>1, <3>1
    <3>3. F[f[k - 1]] = [v \in Dests(st) |-> Onwards(st, f[k - 1][v])]
      <4>. HIDE DEF D
      <4>. QED  BY <3>2
    <3>. QED  BY <2>1, <3>3
  <2>. QED  BY <2>1, <2>2
<1>7. f = Rhs(f)
  <2>1. ASSUME NEW k \in 0 .. n
        PROVE  f[k] = IF k = 0 THEN [v \in Dests(st) |-> v]
                      ELSE [v \in Dests(st) |-> Onwards(st, f[k - 1][v])]
    <3>1. CASE k = 0
      BY <1>6, <3>1
    <3>2. CASE k # 0
      <4>1. k \in 1 .. n
        BY <1>2, <3>2
      <4>. QED  BY <1>6, <3>2, <4>1
    <3>. QED  BY <3>1, <3>2
  <2>2. f = [k \in 0 .. n |-> f[k]]
    BY <1>6
  <2>. QED  BY <2>1, <2>2
<1>8. chase = Rhs(chase)
  <2>. HIDE DEF Rhs
  <2>. QED  BY <1>7
<1>. HIDE DEF chase
<1>9. \A v \in Dests(st) : chase[0][v] = v
  <2>1. chase[0] = [v \in Dests(st) |-> v]
    BY <1>2, <1>8
  <2>. QED  BY <2>1
<1>10. ASSUME NEW k \in 1 .. n, NEW v \in Dests(st)
       PROVE  chase[k][v] = Onwards(st, chase[k - 1][v])
  <2>1. k \in 0 .. n /\ k # 0
    BY <1>2
  <2>2. chase[k] = [u \in Dests(st) |-> Onwards(st, chase[k - 1][u])]
    BY <1>8, <2>1
  <2>. QED  BY <2>2
<1>11. \A k \in 0 .. n : chase[k] \in D
  <2>1. f = chase
    <3>1. \A k \in 1 .. n : f[k - 1] = chase[k - 1] => f[k] = chase[k]
      <4>1. ASSUME NEW k \in 1 .. n, f[k - 1] = chase[k - 1] PROVE f[k] = chase[k]
        <5>1. k \in 0 .. n /\ k # 0
          BY <1>2
        <5>2. chase[k] = [u \in Dests(st) |-> Onwards(st, chase[k - 1][u])]
          BY <1>8, <5>1
        <5>. QED  BY <1>6, <4>1, <5>2
      <4>. QED  BY <4>1
    <3>2. f[0] = chase[0]
      BY <1>2, <1>6, <1>8
    <3>3. \A k \in 0 .. n : f[k] = chase[k]
      BY <1>2, <3>1, <3>2, SameTable
    <3>. QED  BY <1>6, <1>8, <3>3
  <2>. HIDE DEF D
  <2>. QED  BY <1>6, <2>1
<1>12. ASSUME NEW k \in 0 .. n, NEW v \in Dests(st) PROVE chase[k][v] \in V \cup Dests(st)
  BY <1>11
<1>. QED  BY <1>1, <1>9, <1>10, <1>12 DEF n

LEMMA ChaseIs ==
    ASSUME Placed, Supplied, NEW st \in Sound
    PROVE  /\ \A v \in Dests(st) : Chase(st)[0][v] = v
           /\ \A k \in 1 .. Cardinality(PhiSet) + 1 : \A v \in Dests(st) :
                 Chase(st)[k][v] = Onwards(st, Chase(st)[k - 1][v])
<1>1. ASSUME NEW w \in Names \cup Dests(st) PROVE Onwards(st, w) \in Names
  <2>1. CASE w \in Dests(st)
    BY <2>1, DestsAre DEF Onwards, Names
  <2>2. CASE w \notin Dests(st)
    <3>1. PICK s \in Slots : w \in Named(s)
      BY <1>1, <2>2 DEF Names
    <3>2. Look(st.sub, w) \in Named(s)
      BY <3>1, LookKeeps DEF Sound
    <3>. QED  BY <2>2, <3>2 DEF Onwards, Names
  <2>. QED  BY <2>1, <2>2
<1>. QED  BY <1>1, PhiSetIs, ChaseRuns

(* Numbers up to n, one after the other.                                   *)
LEMMA Upwards ==
    ASSUME NEW n \in Nat, NEW Z, 0 \in Z, \A k \in 1 .. n : k - 1 \in Z => k \in Z
    PROVE  \A k \in 0 .. n : k \in Z
<1>. DEFINE Bad == {k \in Nat : k <= n /\ k \notin Z}
<1>1. SUFFICES ASSUME Bad # {} PROVE FALSE
  OBVIOUS
<1>2. PICK k \in Bad : \A y \in Bad : k <= y
  <2>1. Bad \in SUBSET Nat
    OBVIOUS
  <2>. HIDE DEF Bad
  <2>. QED  BY <1>1, <2>1, LeastNumber
<1>3. k \in Nat /\ k <= n /\ k \notin Z /\ k # 0
  BY <1>2
<1>4. k \in 1 .. n /\ k - 1 \in Nat /\ k - 1 <= n /\ ~(k <= k - 1)
  BY <1>3
<1>5. k - 1 \in Z
  BY <1>2, <1>4
<1>. QED  BY <1>3, <1>4, <1>5

LEMMA ChaseNamed ==
    ASSUME Placed, Supplied, NEW st \in Sound, NEW v \in Dests(st), NEW s, v \in Named(s)
    PROVE  \A k \in 0 .. Cardinality(PhiSet) + 1 : Chase(st)[k][v] \in Named(s)
<1>. DEFINE n == Cardinality(PhiSet) + 1
            c(k) == Chase(st)[k][v]
            Z == {k \in 0 .. n : c(k) \in Named(s)}
<1>1. n \in Nat
  BY PhiSetIs
<1>2. 0 \in Z
  BY <1>1, ChaseIs
<1>3. ASSUME NEW k \in 1 .. n, k - 1 \in Z PROVE k \in Z
  <2>1. c(k) = Onwards(st, c(k - 1)) /\ c(k - 1) \in Named(s)
    BY <1>3, ChaseIs
  <2>2. CASE c(k - 1) \in Dests(st)
    <3>1. PICK r \in Slots : c(k - 1) \in Named(r) /\ ArgOf(st)[c(k - 1)] \in Named(r)
      BY <2>2, DestsAre
    <3>2. r = s
      BY <2>1, <3>1, NamedApart
    <3>. QED  BY <1>1, <2>1, <2>2, <3>1, <3>2 DEF Onwards
  <2>3. CASE c(k - 1) \notin Dests(st)
    <3>1. Look(st.sub, c(k - 1)) \in Named(s)
      BY <2>1, LookKeeps DEF Sound
    <3>. QED  BY <1>1, <2>1, <2>3, <3>1 DEF Onwards
  <2>. QED  BY <2>2, <2>3
<1>. HIDE DEF n, Z
<1>4. \A k \in 0 .. n : k \in Z
  BY <1>1, <1>2, <1>3, Upwards
<1>. QED  BY <1>4 DEF n, Z

(* Two phis of which one is replaced by the other end at one version.      *)
LEMMA ChaseShared ==
    ASSUME Placed, Supplied, NEW st \in Sound, NEW v \in Dests(st),
           ArgOf(st)[v] \in Dests(st), v \notin Cyclic(st)
    PROVE  End(st)[ArgOf(st)[v]] = End(st)[v]
<1>. DEFINE m == Cardinality(PhiSet)
            w == ArgOf(st)[v]
            c(k, u) == Chase(st)[k][u]
            Z == {k \in 0 .. m : c(k + 1, v) = c(k, w)}
<1>1. m \in Nat
  BY PhiSetIs
<1>2. \A u \in Dests(st) : c(0, u) = u
  BY ChaseIs
<1>3. \A k \in 1 .. m + 1 : \A u \in Dests(st) : c(k, u) = Onwards(st, c(k - 1, u))
  BY ChaseIs
<1>. HIDE DEF m, c
<1>4. 0 \in Z
  <2>1. c(1, v) = Onwards(st, c(1 - 1, v)) /\ 1 - 1 = 0
    BY <1>1, <1>3
  <2>2. c(1, v) = w
    BY <1>2, <2>1 DEF Onwards
  <2>3. c(0, w) = w /\ 0 + 1 = 1 /\ 0 \in 0 .. m
    BY <1>1, <1>2
  <2>. QED  BY <2>2, <2>3
<1>5. ASSUME NEW k \in 1 .. m, k - 1 \in Z PROVE k \in Z
  <2>1. c(k, v) = c(k - 1, w)
    BY <1>1, <1>5
  <2>2. c(k + 1, v) = Onwards(st, c(k, v)) /\ c(k, w) = Onwards(st, c(k - 1, w))
    <3>1. k \in 1 .. m + 1 /\ k + 1 \in 1 .. m + 1 /\ k + 1 - 1 = k
      BY <1>1
    <3>. QED  BY <1>3, <3>1
  <2>. QED  BY <1>1, <2>1, <2>2
<1>. HIDE DEF Z
<1>6. \A k \in 0 .. m : k \in Z
  BY <1>1, <1>4, <1>5, Upwards
<1>7. c(m + 1, v) = c(m, w)
  BY <1>1, <1>6 DEF Z
<1>8. c(m + 1, v) \notin Dests(st) \cup DOMAIN st.sub
  BY DEF Cyclic, End, c, m
<1>9. c(m + 1, w) = Onwards(st, c(m, w))
  <2>1. PICK k \in 1 .. m + 1 : k = m + 1 /\ k - 1 = m
    BY <1>1
  <2>2. c(k, w) = Onwards(st, c(k - 1, w))
    BY <1>3
  <2>. QED  BY <2>1, <2>2
<1>10. c(m + 1, w) = c(m + 1, v)
  BY <1>7, <1>8, <1>9 DEF Onwards, Look
<1>. QED  BY <1>10 DEF End, c, m

LEMMA RoundSound ==
    ASSUME Placed, Supplied, NEW st \in Sound
    PROVE  Round(st) \in Sound
<1>. DEFINE old == st.sub
            dests == Dests(st)
            kept == Dests(st) \ Cyclic(st)
            end(v) == End(st)[v]
            new == [v \in DOMAIN old \cup kept |-> IF v \in dests THEN end(v) ELSE old[v]]
            shut == st.blocked \cup Cyclic(st)
<1>1. Round(st) = [sub |-> new, blocked |-> shut]
  BY RoundIs
<1>2. /\ st \in States /\ Kept(old) /\ (Flat(old) => Agreeing(old))
  BY DEF Sound
<1>3. \A v \in dests : v \notin DOMAIN old
  BY DestsAre
<1>4. DOMAIN new = DOMAIN old \cup kept /\ kept \subseteq dests
  OBVIOUS
<1>5. \A v \in DOMAIN old : new[v] = old[v]
  BY <1>3
<1>6. \A v \in kept : new[v] = end(v) /\ end(v) \notin dests
  BY DEF Cyclic
<1>7. ASSUME NEW v \in dests, NEW s, v \in Named(s) PROVE end(v) \in Named(s)
  <2>1. Cardinality(PhiSet) + 1 \in 0 .. Cardinality(PhiSet) + 1
    BY PhiSetIs
  <2>. QED  BY <1>7, <2>1, ChaseNamed DEF End
<1>. HIDE DEF new, kept, end, old, dests
<1>8. Kept(new)
  <2>1. SUFFICES ASSUME NEW v \in DOMAIN new
                 PROVE  \E t \in R : \E s \in phis[t] : v = PhiOf(t, s) /\ new[v] \in Named(s)
    BY DEF Kept
  <2>2. CASE v \in DOMAIN old
    BY <1>2, <1>5, <2>2 DEF Kept
  <2>3. CASE v \in kept
    <3>1. PICK t \in R : \E s \in phis[t] : v = PhiOf(t, s) /\ v \in Named(s)
      BY <1>4, <2>3, DestsAre DEF dests
    <3>. QED  BY <1>4, <1>6, <1>7, <2>3, <3>1
  <2>. QED  BY <1>4, <2>2, <2>3
<1>9. Round(st) \in States
  <2>1. DOMAIN old \subseteq Names /\ \A v \in DOMAIN old : old[v] \in Names
    BY <1>2 DEF States, old
  <2>2. \A v \in dests : \E s \in Slots : v \in Named(s)
    BY DestsAre DEF dests
  <2>3. \A v \in dests : v \in Names /\ end(v) \in Names
    BY <1>7, <2>2 DEF Names
  <2>4. DOMAIN new \subseteq Names /\ \A v \in DOMAIN new : new[v] \in Names
    BY <1>4, <1>5, <1>6, <2>1, <2>3
  <2>5. new \in [DOMAIN new -> Names]
    BY <1>4, <2>4 DEF new
  <2>6. shut \subseteq Names
    BY <1>2, <2>3 DEF States, Cyclic, dests
  <2>. HIDE DEF shut
  <2>. QED  BY <1>1, <2>4, <2>5, <2>6 DEF States
<1>10. ASSUME Flat(new) PROVE Agreeing(new)
  <2>1. Flat(old)
    BY <1>4, <1>5, <1>10 DEF Flat
  <2>2. Agreeing(old)
    BY <1>2, <2>1
  <2>3. SUFFICES ASSUME NEW t \in R, NEW s \in phis[t], PhiOf(t, s) \in DOMAIN new,
                        NEW a \in PhiArgs(t, s)
                 PROVE  Look(new, a) = new[PhiOf(t, s)]
    BY DEF Agreeing
  <2>. DEFINE v == PhiOf(t, s)
  <2>4. CASE v \in DOMAIN old
    <3>1. Look(old, a) = old[v] /\ new[v] = old[v] /\ new[v] \notin DOMAIN new
      BY <1>5, <1>10, <2>2, <2>3, <2>4 DEF Agreeing, Flat
    <3>. QED  BY <1>4, <1>5, <3>1 DEF Look
  <2>5. CASE v \in kept
    <3>. DEFINE w == ArgOf(st)[v]
    <3>1. v \in dests /\ new[v] = end(v) /\ new[v] \notin DOMAIN new
      BY <1>4, <1>6, <1>10, <2>3, <2>5 DEF Flat
    <3>2. Look(old, a) = w
      <4>1. PICK t1 \in R : \E s1 \in phis[t1] :
                v = PhiOf(t1, s1) /\ \A x \in PhiArgs(t1, s1) : Look(st.sub, x) = w
        BY <3>1, DestsAre DEF dests
      <4>2. PICK s1 \in phis[t1] :
                v = PhiOf(t1, s1) /\ \A x \in PhiArgs(t1, s1) : Look(st.sub, x) = w
        BY <4>1
      <4>3. t1 = t /\ s1 = s
        BY <4>2 DEF PhiOf
      <4>. QED  BY <4>2, <4>3 DEF old
    <3>3. w \notin DOMAIN old
      BY <2>1, <3>2 DEF Look, Flat
    <3>4. ASSUME w \notin dests PROVE end(v) = w
      <4>. DEFINE m == Cardinality(PhiSet)
                  c(k) == Chase(st)[k][v]
                  Z == {k \in 0 .. m : c(k + 1) = w}
      <4>1. m \in Nat
        BY PhiSetIs
      <4>2. c(0) = v /\ \A k \in 1 .. m + 1 : c(k) = Onwards(st, c(k - 1))
        BY <3>1, ChaseIs DEF dests
      <4>. HIDE DEF m, c
      <4>3. Onwards(st, v) = w /\ Onwards(st, w) = w
        BY <3>1, <3>3, <3>4 DEF Onwards, Look, dests, old
      <4>. HIDE DEF w, v
      <4>4. 0 \in Z
        <5>1. c(1) = Onwards(st, c(1 - 1)) /\ 1 - 1 = 0 /\ 0 + 1 = 1 /\ 0 \in 0 .. m
          BY <4>1, <4>2
        <5>. QED  BY <4>2, <4>3, <5>1
      <4>5. ASSUME NEW k \in 1 .. m, k - 1 \in Z PROVE k \in Z
        <5>1. k - 1 + 1 = k /\ k + 1 - 1 = k /\ k + 1 \in 1 .. m + 1 /\ k \in 0 .. m
          BY <4>1
        <5>2. c(k) = w /\ c(k + 1) = Onwards(st, c(k))
          BY <4>2, <4>5, <5>1
        <5>. QED  BY <4>3, <5>1, <5>2
      <4>. HIDE DEF Z
      <4>6. m \in Z
        <5>1. \A k \in 0 .. m : k \in Z
          BY <4>1, <4>4, <4>5, Upwards
        <5>. QED  BY <4>1, <5>1
      <4>. QED  BY <4>6 DEF Z, c, m, end, End
    <3>5. CASE w \notin dests
      <4>1. new[v] = w /\ w \notin DOMAIN new
        BY <3>1, <3>4, <3>5
      <4>. QED  BY <1>4, <1>5, <3>2, <4>1 DEF Look
    <3>6. CASE w \in dests
      <4>1. v \notin Cyclic(st)
        BY <2>5 DEF kept
      <4>2. end(w) = end(v)
        BY <3>1, <3>6, <4>1, ChaseShared DEF end, dests
      <4>3. w \in kept
        <5>1. end(v) \notin Dests(st) \cup DOMAIN st.sub
          BY <3>1, <4>1 DEF Cyclic, end, dests
        <5>. QED  BY <3>6, <4>2, <5>1 DEF kept, Cyclic, end, dests
      <4>4. w \in DOMAIN new /\ new[w] = end(v)
        BY <1>4, <1>6, <4>2, <4>3
      <4>5. a \notin DOMAIN old
        <5>1. SUFFICES ASSUME a \in DOMAIN old PROVE FALSE
          OBVIOUS
        <5>2. new[a] = w /\ a \in DOMAIN new
          BY <1>4, <1>5, <3>2, <5>1 DEF Look
        <5>. QED  BY <1>10, <4>4, <5>2 DEF Flat
      <4>6. a = w
        BY <3>2, <4>5 DEF Look
      <4>. QED  BY <3>1, <4>4, <4>6 DEF Look
    <3>. QED  BY <3>5, <3>6
  <2>. QED  BY <1>4, <2>3, <2>4, <2>5
<1>. QED  BY <1>1, <1>8, <1>9, <1>10 DEF Sound

(* Whatever every round keeps holds of what the rounds come to.            *)
LEMMA CollapseRuns ==
    ASSUME Cardinality(PhiSet) \in Nat, NEW D, [sub |-> << >>, blocked |-> {}] \in D,
           \A st \in D : Round(st) \in D
    PROVE  \E st \in D : Collapse = st.sub
<1>. DEFINE n == Cardinality(PhiSet)
            first == [sub |-> << >>, blocked |-> {}]
            F == [st \in D |-> Round(st)]
            Rhs(after) == [k \in 0 .. n |->
                IF k = 0 THEN [sub |-> << >>, blocked |-> {}] ELSE Round(after[k - 1])]
            after == CHOOSE after : after = Rhs(after)
<1>1. Collapse = after[n].sub
  BY DEF Collapse
<1>2. n \in Nat
  OBVIOUS
<1>3. first \in D
  OBVIOUS
<1>4. F \in [D -> D]
  OBVIOUS
<1>. HIDE DEF n
<1>5. PICK f : Iterates(f, D, first, F, n)
  <2>. HIDE DEF first, F
  <2>. QED  BY <1>2, <1>3, <1>4, IteratesExist
<1>6. f \in [0 .. n -> D] /\ f[0] = first /\ \A k \in 1 .. n : f[k] = Round(f[k - 1])
  <2>1. f \in [0 .. n -> D] /\ f[0] = first /\ \A k \in 1 .. n : f[k] = F[f[k - 1]]
    BY <1>5 DEF Iterates
  <2>2. ASSUME NEW k \in 1 .. n PROVE f[k] = Round(f[k - 1])
    <3>1. k - 1 \in 0 .. n
      BY <1>2
    <3>2. f[k - 1] \in D
      BY <2>1, <3>1
    <3>. QED  BY <2>1, <3>2
  <2>. QED  BY <2>1, <2>2
<1>7. f = Rhs(f)
  <2>1. ASSUME NEW k \in 0 .. n
        PROVE  f[k] = IF k = 0 THEN [sub |-> << >>, blocked |-> {}] ELSE Round(f[k - 1])
    <3>1. CASE k = 0
      BY <1>6, <3>1
    <3>2. CASE k # 0
      <4>1. k \in 1 .. n
        BY <1>2, <3>2
      <4>. QED  BY <1>6, <3>2, <4>1
    <3>. QED  BY <3>1, <3>2
  <2>. QED  BY <1>6, <2>1
<1>8. after = Rhs(after)
  <2>. HIDE DEF Rhs
  <2>. QED  BY <1>7
<1>. HIDE DEF after
<1>9. after[0] = first /\ \A k \in 1 .. n : after[k] = Round(after[k - 1])
  <2>1. 0 \in 0 .. n /\ \A k \in 1 .. n : k \in 0 .. n /\ k # 0
    BY <1>2
  <2>. QED  BY <1>8, <2>1
<1>. DEFINE Z == {k \in 0 .. n : after[k] \in D}
<1>10. \A k \in 0 .. n : k \in Z
  <2>1. 0 \in Z
    BY <1>2, <1>3, <1>9
  <2>2. ASSUME NEW k \in 1 .. n, k - 1 \in Z PROVE k \in Z
    BY <1>2, <1>9, <2>2
  <2>. HIDE DEF Z
  <2>. QED  BY <1>2, <2>1, <2>2, Upwards
<1>11. after[n] \in D
  BY <1>2, <1>10
<1>. QED  BY <1>1, <1>11

LEMMA CollapseIs ==
    ASSUME Placed, Supplied
    PROVE  Kept(Collapse) /\ (Settled => Agreeing(Collapse))
<1>. DEFINE first == [sub |-> << >>, blocked |-> {}]
<1>1. first \in Sound
  <2>1. << >> \in [{} -> Names] /\ DOMAIN << >> = {}
    OBVIOUS
  <2>2. first \in States
    BY <2>1 DEF States
  <2>. QED  BY <2>1, <2>2 DEF Sound, Kept, Flat, Agreeing
<1>2. PICK st \in Sound : Collapse = st.sub
  BY <1>1, PhiSetIs, RoundSound, CollapseRuns
<1>. QED  BY <1>2 DEF Sound, Settled

-----------------------------------------------------------------------------
(* Where the copies of an edge go.                                         *)

LEMMA EndsAtIs ==
    ASSUME NEW sizes \in [Blocks -> Nat \ {0}]
    PROVE  /\ \A a \in Blocks : EndsAt(sizes)[a] \in Nat
           /\ \A a, b \in Blocks : a < b => EndsAt(sizes)[a] < EndsAt(sizes)[b]
<1>. DEFINE Rhs(end) == [b \in Blocks |-> sizes[b] + IF b = 0 THEN 0 ELSE end[b - 1]]
            end == CHOOSE end : end = Rhs(end)
            D == Nat \X Nat
            first == <<0, sizes[0]>>
            F == [e \in D |-> <<e[1] + 1, e[2] + IF e[1] + 1 \in Blocks THEN sizes[e[1] + 1] ELSE 0>>]
            n == N - 1
<1>1. EndsAt(sizes) = end
  BY DEF EndsAt
<1>2. n \in Nat /\ Blocks = 0 .. n /\ 0 \in Blocks
  BY NAssumption DEF Blocks
<1>3. first \in D
  BY <1>2
<1>4. F \in [D -> D]
  <2>1. ASSUME NEW e \in D PROVE F[e] \in D
    <3>1. e[1] \in Nat /\ e[2] \in Nat
      OBVIOUS
    <3>2. e[1] + 1 \in Blocks => sizes[e[1] + 1] \in Nat
      OBVIOUS
    <3>. QED  BY <3>1, <3>2
  <2>. QED  BY <2>1
<1>. HIDE DEF n
<1>5. PICK f : Iterates(f, D, first, F, n)
  <2>. HIDE DEF first, F, D
  <2>. QED  BY <1>2, <1>3, <1>4, IteratesExist
<1>6. f \in [0 .. n -> D] /\ f[0] = first /\ \A k \in 1 .. n : f[k] = F[f[k - 1]]
  BY <1>5 DEF Iterates
<1>7. \A k \in 0 .. n : f[k] \in D
  <2>. HIDE DEF D
  <2>. QED  BY <1>6
<1>8. \A k \in 0 .. n : f[k][1] = k
  <2>. DEFINE Z == {k \in 0 .. n : f[k][1] = k}
  <2>1. 0 \in Z
    BY <1>2, <1>6
  <2>2. ASSUME NEW k \in 1 .. n, k - 1 \in Z PROVE k \in Z
    <3>1. k - 1 \in 0 .. n /\ k \in 0 .. n /\ f[k - 1] \in D /\ f[k - 1][1] = k - 1
      BY <1>2, <1>7, <2>2
    <3>2. f[k] = F[f[k - 1]]
      BY <1>6
    <3>3. F[f[k - 1]][1] = f[k - 1][1] + 1
      BY <3>1
    <3>. QED  BY <1>2, <3>1, <3>2, <3>3
  <2>. HIDE DEF Z
  <2>3. \A k \in 0 .. n : k \in Z
    BY <1>2, <2>1, <2>2, Upwards
  <2>. QED  BY <2>3 DEF Z
<1>. DEFINE g == [b \in Blocks |-> f[b][2]]
<1>9. g = Rhs(g)
  <2>1. ASSUME NEW b \in Blocks PROVE g[b] = sizes[b] + IF b = 0 THEN 0 ELSE g[b - 1]
    <3>1. CASE b = 0
      <4>1. sizes[0] \in Nat
        BY <1>2
      <4>. QED  BY <1>2, <1>6, <3>1, <4>1
    <3>2. CASE b # 0
      <4>1. b \in 1 .. n /\ b - 1 \in 0 .. n /\ b - 1 + 1 = b
        BY <1>2, <3>2
      <4>2. f[b] = F[f[b - 1]] /\ f[b - 1] \in D /\ f[b - 1][1] = b - 1
        BY <1>6, <1>7, <1>8, <4>1
      <4>3. F[f[b - 1]][2] = f[b - 1][2] + sizes[b]
        BY <4>1, <4>2
      <4>4. sizes[b] \in Nat /\ f[b - 1][2] \in Nat
        BY <4>2
      <4>5. g[b] = f[b][2] /\ g[b - 1] = f[b - 1][2]
        BY <1>2, <4>1
      <4>. QED  BY <3>2, <4>2, <4>3, <4>4, <4>5
    <3>. QED  BY <3>1, <3>2
  <2>. QED  BY <2>1
<1>10. end = Rhs(end)
  <2>. HIDE DEF Rhs
  <2>. QED  BY <1>9
<1>. HIDE DEF end
<1>11. end[0] = sizes[0] /\ \A b \in 1 .. n : end[b] = sizes[b] + end[b - 1]
  <2>1. \A b \in 1 .. n : b \in Blocks /\ b # 0
    BY <1>2
  <2>2. sizes[0] \in Nat
    BY <1>2
  <2>. QED  BY <1>2, <1>10, <2>1, <2>2
<1>12. ASSUME NEW k \in 0 .. n PROVE sizes[k] \in Nat /\ sizes[k] > 0
  BY <1>2, <1>12
<1>. DEFINE Z == {k \in 0 .. n : end[k] \in Nat /\ \A a \in 0 .. k - 1 : end[a] \in Nat /\ end[a] < end[k]}
<1>13. 0 \in Z
  BY <1>2, <1>11, <1>12
<1>14. ASSUME NEW k \in 1 .. n, k - 1 \in Z PROVE k \in Z
  <2>1. end[k] = sizes[k] + end[k - 1] /\ end[k - 1] \in Nat /\ sizes[k] \in Nat /\ sizes[k] > 0
    BY <1>2, <1>11, <1>12, <1>14
  <2>2. end[k] \in Nat /\ end[k - 1] < end[k]
    BY <2>1
  <2>3. ASSUME NEW a \in 0 .. k - 1 PROVE end[a] \in Nat /\ end[a] < end[k]
    <3>1. CASE a = k - 1
      BY <2>1, <2>2, <3>1
    <3>2. CASE a # k - 1
      <4>1. a \in 0 .. k - 1 - 1
        BY <1>2, <3>2
      <4>2. end[a] \in Nat /\ end[a] < end[k - 1]
        BY <1>14, <4>1
      <4>. QED  BY <2>1, <2>2, <4>2
    <3>. QED  BY <3>1, <3>2
  <2>. QED  BY <1>2, <2>2, <2>3
<1>. HIDE DEF Z
<1>15. \A k \in 0 .. n : k \in Z
  BY <1>2, <1>13, <1>14, Upwards
<1>16. ASSUME NEW a \in Blocks, NEW b \in Blocks, a < b PROVE end[a] < end[b]
  <2>1. a \in 0 .. b - 1 /\ b \in Z
    BY <1>2, <1>15, <1>16
  <2>. QED  BY <2>1 DEF Z
<1>17. \A a \in Blocks : end[a] \in Nat
  BY <1>2, <1>15 DEF Z
<1>. QED  BY <1>1, <1>16, <1>17

(* The listing has the positions of the program. *)
Even == \A b \in Blocks : Len(list[b]) = Len(Code(b)) /\ (Closed(list[b]) <=> Closed(Code(b)))

LEMMA EdgeBlockIs ==
    ASSUME prog \in Programs, Even, NEW p \in Blocks
    PROVE  /\ EdgeBlock(p) = p
           /\ Spot(EdgeBlock(p)) = IF Closed(Code(p)) THEN <<p, Len(Code(p))>> ELSE <<p + 1, 1>>
<1>. DEFINE sizes == [b \in Blocks |-> Len(Code(b))]
            end == EndsAt(sizes)
<1>1. sizes \in [Blocks -> Nat \ {0}]
  BY Shape
<1>2. [b \in Blocks |-> Len(list[b])] = sizes
  BY DEF Even
<1>3. /\ \A a \in Blocks : end[a] \in Nat
      /\ \A a, b \in Blocks : a < b => end[a] < end[b]
  <2>. HIDE DEF sizes
  <2>. QED  BY <1>1, EndsAtIs
<1>4. EdgeBlock(p) = CHOOSE q \in Blocks :
                        end[p] <= end[q] /\ \A c \in Blocks : end[p] <= end[c] => q <= c
  BY <1>2 DEF EdgeBlock
<1>. HIDE DEF end
<1>5. \A c \in Blocks : end[p] <= end[c] => p <= c
  <2>1. \A c \in Blocks : c \in Int
    BY DEF Blocks
  <2>. QED  BY <1>3, <2>1
<1>6. end[p] <= end[p]
  BY <1>3
<1>7. ASSUME NEW q \in Blocks, end[p] <= end[q], \A c \in Blocks : end[p] <= end[c] => q <= c
      PROVE  q = p
  <2>1. q <= p /\ p <= q
    BY <1>5, <1>6, <1>7
  <2>. QED  BY <2>1 DEF Blocks
<1>8. EdgeBlock(p) = p
  BY <1>4, <1>5, <1>6, <1>7
<1>. QED  BY <1>8 DEF Spot, Even

(* What is inserted at a place: a copy for every edge that leads over it.  *)
IsEdge(t, s, p, place) ==
    /\ t \in Blocks /\ s \in phis[t] /\ p \in Preds(G, t) /\ p \in R
    /\ PhiOf(t, s) \notin DOMAIN Collapse
    /\ place = IF Closed(Code(p)) THEN <<p, Len(Code(p))>> ELSE <<p + 1, 1>>

EdgeCopy(t, s, p) == Copy(PhiOf(t, s), Look(Collapse, Reaching(p, Len(Code(p)) + 1, s)))

CopiesOf(cs, place) ==
    /\ Len(cs) \in Nat /\ cs \in [1 .. Len(cs) -> {cs[k] : k \in 1 .. Len(cs)}]
    /\ \A k \in 1 .. Len(cs) : \E t, s, p : IsEdge(t, s, p, place) /\ cs[k] = EdgeCopy(t, s, p)
    /\ \A t, s, p : IsEdge(t, s, p, place) => \E k \in 1 .. Len(cs) : cs[k] = EdgeCopy(t, s, p)

LEMMA CopiesAre ==
    ASSUME Placed, Supplied, Even, NEW place
    PROVE  CopiesOf(EdgeCopies(Collapse, place), place)
<1>. DEFINE arg(e) == args[e[1]][e[2]][e[3]]
            edges == {e \in Blocks \X Slots \X Blocks :
                        /\ e[2] \in phis[e[1]] /\ PhiOf(e[1], e[2]) \notin DOMAIN Collapse
                        /\ e[3] \in Preds(G, e[1]) /\ Spot(EdgeBlock(e[3])) = place
                        /\ arg(e) # Undefined}
            order == InOrder(edges, Earlier)
            copy(e) == Copy(PhiOf(e[1], e[2]), Look(Collapse, arg(e)))
            cs == [k \in DOMAIN order |-> copy(order[k])]
<1>1. EdgeCopies(Collapse, place) = cs
  BY DEF EdgeCopies
<1>2. Analysed /\ prog \in Programs
  BY DEF Placed, Analysed
<1>3. edges \in SUBSET (Blocks \X Slots \X Blocks)
  OBVIOUS
<1>4. order \in Seq(edges) /\ \A e \in edges : \E k \in DOMAIN order : order[k] = e
  <2>. HIDE DEF edges
  <2>. QED  BY <1>3, EdgesInOrder
<1>5. ASSUME NEW t \in Blocks, NEW s \in phis[t], NEW p \in Preds(G, t)
      PROVE  /\ s \in Slots /\ p \in Blocks
             /\ p \in R <=> args[t][s][p] # Undefined
             /\ p \in R => args[t][s][p] = Reaching(p, Len(Code(p)) + 1, s)
  <2>1. s \in Slots /\ p \in Blocks /\ Len(Code(p)) + 1 \in Nat
    BY <1>2, Shape DEF Placed, Preds
  <2>2. p \in R => Reaching(p, Len(Code(p)) + 1, s) # Undefined
    BY <1>2, <2>1, ReachingBefore
  <2>. QED  BY <2>1, <2>2 DEF Supplied
<1>6. ASSUME NEW t, NEW s, NEW p
      PROVE  /\ <<t, s, p>> \in edges <=> IsEdge(t, s, p, place)
             /\ IsEdge(t, s, p, place) => copy(<<t, s, p>>) = EdgeCopy(t, s, p)
  <2>1. IsEdge(t, s, p, place) => copy(<<t, s, p>>) = EdgeCopy(t, s, p)
    BY <1>5 DEF IsEdge, EdgeCopy
  <2>2. ASSUME IsEdge(t, s, p, place) PROVE <<t, s, p>> \in edges
    <3>1. t \in Blocks /\ s \in phis[t] /\ p \in Preds(G, t) /\ p \in R
      BY <2>2 DEF IsEdge
    <3>2. s \in Slots /\ p \in Blocks /\ args[t][s][p] # Undefined
      BY <1>5, <3>1
    <3>3. Spot(EdgeBlock(p)) = place
      BY <1>2, <2>2, <3>2, EdgeBlockIs DEF IsEdge
    <3>4. PhiOf(t, s) \notin DOMAIN Collapse
      BY <2>2 DEF IsEdge
    <3>. QED  BY <3>1, <3>2, <3>3, <3>4
  <2>3. ASSUME <<t, s, p>> \in edges PROVE IsEdge(t, s, p, place)
    <3>1. /\ t \in Blocks /\ s \in phis[t] /\ p \in Preds(G, t) /\ args[t][s][p] # Undefined
          /\ PhiOf(t, s) \notin DOMAIN Collapse /\ Spot(EdgeBlock(p)) = place
      BY <2>3
    <3>2. p \in R /\ p \in Blocks
      BY <1>5, <3>1
    <3>. QED  BY <1>2, <3>1, <3>2, EdgeBlockIs DEF IsEdge
  <2>. QED  BY <2>1, <2>2, <2>3
<1>7. \A e \in edges : e = <<e[1], e[2], e[3]>>
  OBVIOUS
<1>. HIDE DEF edges, order, copy
<1>8. Len(order) \in Nat /\ DOMAIN order = 1 .. Len(order) /\ \A k \in 1 .. Len(order) : order[k] \in edges
  BY <1>4
<1>9. Len(cs) = Len(order) /\ DOMAIN cs = 1 .. Len(order)
  BY <1>8
<1>10. ASSUME NEW k \in 1 .. Len(order)
       PROVE  \E t, s, p : IsEdge(t, s, p, place) /\ cs[k] = EdgeCopy(t, s, p)
  <2>1. order[k] \in edges /\ cs[k] = copy(order[k])
    BY <1>8
  <2>2. \E t, s, p : order[k] = <<t, s, p>>
    BY <1>7, <2>1
  <2>3. PICK t, s, p : order[k] = <<t, s, p>>
    BY <2>2
  <2>. QED  BY <1>6, <2>1, <2>3
<1>11. ASSUME NEW t, NEW s, NEW p, IsEdge(t, s, p, place)
       PROVE  \E k \in 1 .. Len(order) : cs[k] = EdgeCopy(t, s, p)
  <2>1. <<t, s, p>> \in edges /\ copy(<<t, s, p>>) = EdgeCopy(t, s, p)
    BY <1>6, <1>11
  <2>2. PICK k \in DOMAIN order : order[k] = <<t, s, p>>
    BY <1>4, <2>1
  <2>. QED  BY <1>8, <2>1, <2>2
<1>12. cs \in [1 .. Len(order) -> {cs[k] : k \in 1 .. Len(order)}]
  BY <1>8
<1>. HIDE DEF cs
<1>. QED  BY <1>1, <1>8, <1>9, <1>10, <1>11, <1>12 DEF CopiesOf

Chained(X, a, b, w) ==
    /\ w \in Seq(X) /\ Len(w) = Len(a) + Len(b)
    /\ \A k \in 1 .. Len(a) : w[k] = a[k]
    /\ \A k \in 1 .. Len(b) : w[Len(a) + k] = b[k]

LEMMA Joined ==
    ASSUME NEW X, NEW a \in Seq(X), NEW b \in Seq(X)
    PROVE  Chained(X, a, b, a \o b)
<1>1. a \o b \in Seq(X) /\ Len(a \o b) = Len(a) + Len(b)
  OBVIOUS
<1>2. \A k \in 1 .. Len(a) : (a \o b)[k] = a[k]
  OBVIOUS
<1>3. ASSUME NEW k \in 1 .. Len(b) PROVE (a \o b)[Len(a) + k] = b[k]
  <2>1. /\ Len(a) \in Nat /\ Len(b) \in Nat /\ Len(a) + k \in 1 .. Len(a) + Len(b)
        /\ ~(Len(a) + k <= Len(a)) /\ Len(a) + k - Len(a) = k
    OBVIOUS
  <2>. QED  BY <2>1
<1>. QED  BY <1>1, <1>2, <1>3 DEF Chained

(* A list of copies, a body but for its last instruction, copies again, and *)
(* that instruction.                                                       *)
Laid(f, g, h, w) ==
    LET c == Len(f)
        d == Len(g)
        n == Len(h)
    IN  /\ Len(w) = c + n + d /\ DOMAIN w = 1 .. c + n + d
        /\ \A k \in 1 .. c : w[k] = f[k]
        /\ \A i \in 1 .. n : w[c + i + IF i = n THEN d ELSE 0] = h[i]
        /\ \A k \in c + n .. c + n + d - 1 : w[k] = g[k - (c + n) + 1]

LEMMA Laying ==
    ASSUME NEW X, NEW f \in Seq(X), NEW g \in Seq(X), NEW h \in Seq(X), h # << >>
    PROVE  Laid(f, g, h, f \o Front(h) \o g \o <<Last(h)>>)
<1>. DEFINE c == Len(f)
            d == Len(g)
            n == Len(h)
<1>0. c \in Nat /\ d \in Nat /\ n \in Nat \ {0} /\ Len(f) = c /\ Len(g) = d /\ Len(h) = n
  OBVIOUS
<1>. HIDE DEF c, d, n
<1>1. f \in Seq(X) /\ g \in Seq(X) /\ h \in Seq(X) /\ Len(f) = c /\ Len(g) = d /\ Len(h) = n
      /\ c \in Nat /\ d \in Nat /\ n \in Nat \ {0}
  BY <1>0
<1>. DEFINE r == Front(h)
            l == Last(h)
<1>2. l = h[n] /\ l \in X /\ <<l>> \in Seq(X) /\ Len(<<l>>) = 1 /\ <<l>>[1] = l
  BY <1>1 DEF Last
<1>3. r \in Seq(X) /\ Len(r) = n - 1 /\ \A i \in 1 .. n - 1 : r[i] = h[i]
  <2>1. r = SubSeq(h, 1, n - 1)
    BY <1>1 DEF Front
  <2>2. SubSeq(h, 1, n - 1) \in Seq(X) /\ Len(SubSeq(h, 1, n - 1)) = n - 1
    BY <1>1
  <2>3. \A i \in 1 .. n - 1 : SubSeq(h, 1, n - 1)[i] = h[i]
    BY <1>1
  <2>. QED  BY <2>1, <2>2, <2>3
<1>. HIDE DEF r, l
<1>. DEFINE u == f \o r
            v == u \o g
            w == v \o <<l>>
<1>4. Chained(X, f, r, u)
  BY <1>3, Joined
<1>. HIDE DEF u
<1>5. Chained(X, u, g, v)
  <2>1. u \in Seq(X)
    BY <1>4 DEF Chained
  <2>. QED  BY <2>1, Joined
<1>. HIDE DEF v
<1>6. Chained(X, v, <<l>>, w)
  <2>1. v \in Seq(X)
    BY <1>5 DEF Chained
  <2>. QED  BY <1>2, <2>1, Joined
<1>. HIDE DEF w
<1>12. /\ Len(u) = c + n - 1
       /\ \A k \in 1 .. c : u[k] = f[k]
       /\ \A i \in 1 .. n - 1 : u[c + i] = h[i]
  BY <1>1, <1>3, <1>4 DEF Chained
<1>13. /\ Len(v) = c + n - 1 + d
       /\ \A k \in 1 .. c + n - 1 : v[k] = u[k]
       /\ \A k \in 1 .. d : v[c + n - 1 + k] = g[k]
  BY <1>1, <1>5, <1>12 DEF Chained
<1>14. /\ Len(w) = c + n + d
       /\ \A k \in 1 .. c + n - 1 + d : w[k] = v[k]
       /\ w[c + n + d] = l
  <2>1. 1 \in 1 .. Len(<<l>>) /\ c + n - 1 + d + 1 = c + n + d
    BY <1>1, <1>2
  <2>2. w[Len(v) + 1] = l
    BY <1>1, <1>2, <1>6, <2>1 DEF Chained
  <2>. QED  BY <1>1, <1>2, <1>6, <1>13, <2>1, <2>2 DEF Chained
<1>7. DOMAIN w = 1 .. c + n + d
  <2>1. w \in Seq(X)
    BY <1>6 DEF Chained
  <2>2. DOMAIN w = 1 .. Len(w)
    BY <1>1, <2>1
  <2>. QED  BY <1>1, <1>14, <2>2
<1>8. ASSUME NEW k \in 1 .. c PROVE w[k] = f[k]
  <2>1. k \in 1 .. c + n - 1 /\ k \in 1 .. c + n - 1 + d
    BY <1>1
  <2>2. w[k] = v[k] /\ v[k] = u[k] /\ u[k] = f[k]
    BY <1>12, <1>13, <1>14, <2>1
  <2>. QED  BY <2>2
<1>9. ASSUME NEW i \in 1 .. n PROVE w[c + i + IF i = n THEN d ELSE 0] = h[i]
  <2>1. CASE i = n
    BY <1>1, <1>2, <1>14, <2>1
  <2>2. CASE i # n
    <3>1. i \in 1 .. n - 1 /\ c + i \in 1 .. c + n - 1 /\ c + i \in 1 .. c + n - 1 + d /\ c + i + 0 = c + i
      BY <1>1, <2>2
    <3>. QED  BY <1>1, <1>12, <1>13, <1>14, <2>2, <3>1
  <2>. QED  BY <2>1, <2>2
<1>10. ASSUME NEW k \in c + n .. c + n + d - 1 PROVE w[k] = g[k - (c + n) + 1]
  <2>1. PICK j \in 1 .. d : j = k - (c + n) + 1
    BY <1>1
  <2>2. k = c + n - 1 + j /\ k \in 1 .. c + n - 1 + d
    BY <1>1, <2>1
  <2>3. w[k] = v[k] /\ v[k] = g[j]
    BY <1>1, <1>13, <1>1, <1>14, <2>2
  <2>. QED  BY <2>1, <2>3
<1>11. w = f \o Front(h) \o g \o <<Last(h)>>
  BY DEF u, v, w, r, l
<1>. QED  BY <1>14, <1>7, <1>8, <1>9, <1>10, <1>11 DEF Laid, c, d, n

-----------------------------------------------------------------------------
(* What eliminate makes of the listing.                                    *)

FrontCopies(b) == EdgeCopies(Collapse, <<b, 1>>)
EndCopies(b) ==
    IF Len(list[b]) = 1 THEN << >> ELSE EdgeCopies(Collapse, <<b, Len(list[b])>>)
Looked(b) == [i \in DOMAIN list[b] |-> [list[b][i] EXCEPT !.src = Look(Collapse, @)]]

LEMMA ListedEven ==
    ASSUME prog \in Programs, Listed
    PROVE  Even
<1>1. SUFFICES ASSUME NEW b \in Blocks
               PROVE  Len(list[b]) = Len(Code(b)) /\ (Closed(list[b]) <=> Closed(Code(b)))
  BY DEF Even
<1>2. Len(list[b]) = Len(Code(b)) /\ \A i \in DOMAIN Code(b) : list[b][i].op = Code(b)[i].op
  BY DEF Listed
<1>3. Len(Code(b)) \in DOMAIN Code(b)
  BY Shape
<1>. QED  BY <1>2, <1>3 DEF Closed, Last

LEMMA EliminateIs ==
    ASSUME Placed, Supplied, Listed, Eliminate, NEW b \in Blocks
    PROVE  LET c == Len(FrontCopies(b))
               d == Len(EndCopies(b))
               n == Len(Code(b))
           IN  /\ c \in Nat /\ d \in Nat
               /\ door'[b] = 1 + c
               /\ Len(list'[b]) = c + n + d /\ DOMAIN list'[b] = 1 .. c + n + d
               /\ \A k \in 1 .. c : list'[b][k] = FrontCopies(b)[k]
               /\ \A i \in 1 .. n : list'[b][c + i + IF i = n THEN d ELSE 0] =
                                      [list[b][i] EXCEPT !.src = Look(Collapse, @)]
               /\ \A k \in c + n .. c + n + d - 1 : list'[b][k] = EndCopies(b)[k - (c + n) + 1]
<1>. DEFINE f == FrontCopies(b)
            g == EndCopies(b)
            h == Looked(b)
            c == Len(f)
            d == Len(g)
            n == Len(Code(b))
            X == {f[k] : k \in 1 .. c} \cup {g[k] : k \in 1 .. d} \cup {h[k] : k \in 1 .. n}
<1>1. prog \in Programs /\ Even /\ n \in Nat \ {0}
  BY ListedEven, Shape DEF Placed, Analysed
<1>2. c \in Nat /\ f \in [1 .. c -> {f[k] : k \in 1 .. c}]
  BY <1>1, CopiesAre DEF FrontCopies, CopiesOf
<1>3. d \in Nat /\ g \in [1 .. d -> {g[k] : k \in 1 .. d}]
  <2>1. CASE Len(list[b]) = 1
    <3>1. g = << >>
      BY <2>1 DEF EndCopies
    <3>. QED  BY <3>1
  <2>2. CASE Len(list[b]) # 1
    BY <1>1, <2>2, CopiesAre DEF EndCopies, CopiesOf
  <2>. QED  BY <2>1, <2>2
<1>4. DOMAIN list[b] = 1 .. n /\ Len(list[b]) = n
  BY <1>1, Shape DEF Listed
<1>5. h \in [1 .. n -> {h[k] : k \in 1 .. n}] /\ \A i \in 1 .. n : h[i] = [list[b][i] EXCEPT !.src = Look(Collapse, @)]
  BY <1>4 DEF Looked
<1>6. list'[b] = f \o Front(h) \o g \o <<Last(h)>>
  BY DEF Eliminate, FrontCopies, EndCopies, Looked
<1>7. door'[b] = 1 + c
  <2>1. door'[b] = door[b] + Len(FrontCopies(b)) + IF door[b] = Len(list[b]) THEN Len(EndCopies(b)) ELSE 0
    BY DEF Eliminate, FrontCopies, EndCopies
  <2>2. door[b] = 1
    BY DEF Listed
  <2>3. (IF door[b] = Len(list[b]) THEN Len(EndCopies(b)) ELSE 0) = 0
    <3>1. Len(list[b]) = 1 => EndCopies(b) = << >>
      BY DEF EndCopies
    <3>. QED  BY <2>2, <3>1
  <2>4. door'[b] = 1 + Len(FrontCopies(b)) + 0
    BY <2>1, <2>2, <2>3
  <2>5. Len(FrontCopies(b)) = c
    OBVIOUS
  <2>. HIDE DEF c
  <2>. QED  BY <1>2, <2>4, <2>5
<1>. HIDE DEF f, g, h
<1>8. f \in Seq(X) /\ g \in Seq(X) /\ h \in Seq(X) /\ Len(h) = n
  <2>1. f \in [1 .. c -> X] /\ g \in [1 .. d -> X] /\ h \in [1 .. n -> X]
    BY <1>2, <1>3, <1>5
  <2>. HIDE DEF X
  <2>2. h \in Seq(X) /\ Len(h) = n
    BY <1>1, <2>1
  <2>. QED  BY <1>2, <1>3, <2>1, <2>2
<1>. DEFINE w == f \o Front(h) \o g \o <<Last(h)>>
<1>9. /\ Len(w) = c + n + d /\ DOMAIN w = 1 .. c + n + d
      /\ \A k \in 1 .. c : w[k] = f[k]
      /\ \A i \in 1 .. n : w[c + i + IF i = n THEN d ELSE 0] = h[i]
      /\ \A k \in c + n .. c + n + d - 1 : w[k] = g[k - (c + n) + 1]
  <2>1. Len(f) = c /\ Len(g) = d /\ Len(h) = n
    BY <1>8
  <2>2. h # << >>
    BY <1>1, <1>8
  <2>. HIDE DEF X, c, d, n
  <2>3. Laid(f, g, h, w)
    BY <1>8, <2>2, Laying
  <2>. HIDE DEF w
  <2>. QED  BY <2>1, <2>3 DEF Laid
<1>10. list'[b] = w
  BY <1>6
<1>. HIDE DEF w, c, d, n
<1>11. /\ Len(list'[b]) = c + n + d /\ DOMAIN list'[b] = 1 .. c + n + d
       /\ \A k \in 1 .. c : list'[b][k] = f[k]
       /\ \A i \in 1 .. n : list'[b][c + i + IF i = n THEN d ELSE 0] = h[i]
       /\ \A k \in c + n .. c + n + d - 1 : list'[b][k] = g[k - (c + n) + 1]
  BY <1>9, <1>10
<1>12. \A i \in 1 .. n : list'[b][c + i + IF i = n THEN d ELSE 0] = [list[b][i] EXCEPT !.src = Look(Collapse, @)]
  BY <1>5, <1>11
<1>. QED  BY <1>2, <1>3, <1>7, <1>11, <1>12 DEF c, d, n, f, g

-----------------------------------------------------------------------------
(* No block a branch leads out of is a terminator alone.                   *)
NoLoneEnds == \A b \in R : Closed(Code(b)) /\ G[b] # << >> => Len(Code(b)) > 1
Lowerable == Settled /\ NoLoneEnds

(* The registers whose phi at t is not collapsed. *)
Left(t) == {s \in phis[t] : PhiOf(t, s) \notin DOMAIN Collapse}

IsCopy(p, insn) == \E t \in Targets(G, p) : \E s \in Left(t) : insn = EdgeCopy(t, s, p)

(* The body of b with a copies in front of it, and the others in front of  *)
(* its terminator.                                                         *)
LaidBy(b, w, a) ==
    LET n == Len(Code(b))
        d == Len(w) - a - n
    IN  /\ Len(w) \in Nat /\ a \in Nat /\ d \in Nat
        /\ a > 0 => b - 1 \in R /\ ~Closed(Code(b - 1))
        /\ d > 0 => Closed(Code(b)) /\ b \in R
        /\ \A k \in 1 .. a : IsCopy(b - 1, w[k])
        /\ \A k \in a + n .. a + n + d - 1 : IsCopy(b, w[k])
        /\ \A i \in 1 .. n : w[a + i + IF i = n THEN d ELSE 0] =
                                [Renamed(b, i) EXCEPT !.src = Look(Collapse, @)]
        /\ b - 1 \in R /\ ~Closed(Code(b - 1)) /\ b \in Targets(G, b - 1) =>
              \A s \in Left(b) : \E k \in 1 .. a : w[k].dst = PhiOf(b, s)
        /\ b \in R /\ Closed(Code(b)) =>
              \A t \in Targets(G, b) : \A s \in Left(t) :
                  \E k \in a + n .. a + n + d - 1 : w[k].dst = PhiOf(t, s)

Lowered == \A b \in Blocks : door[b] \in Nat \ {0} /\ LaidBy(b, list[b], door[b] - 1)

LEMMA WayOn ==
    ASSUME prog \in Programs, NEW p \in Blocks, NEW t \in Targets(G, p)
    PROVE  /\ ~Closed(Code(p)) => t = p + 1
           /\ G[p] # << >> /\ t \in Blocks /\ p \in Preds(G, t)
<1>1. G \in Graphs /\ t \in Blocks
  BY Shape, TargetsAreBlocks
<1>2. PICK k \in 1 .. Len(G[p]) : t = G[p][k]
  BY DEF Targets
<1>3. G[p] # << >>
  BY <1>2
<1>4. ASSUME ~Closed(Code(p)) PROVE t = p + 1
  <2>1. G[p] \in {<< >>, <<p + 1>>}
    BY <1>4, ProgramsAssumption DEF Wired, G, Code
  <2>2. G[p] = <<p + 1>>
    BY <1>3, <2>1
  <2>. QED  BY <1>2, <2>2
<1>. QED  BY <1>1, <1>3, <1>4 DEF Preds

LEMMA FrontCopiesAre ==
    ASSUME Placed, Supplied, Even, NoLoneEnds, NEW b \in Blocks
    PROVE  /\ \A k \in 1 .. Len(FrontCopies(b)) :
                 b - 1 \in R /\ ~Closed(Code(b - 1)) /\ IsCopy(b - 1, FrontCopies(b)[k])
           /\ b - 1 \in R /\ ~Closed(Code(b - 1)) /\ b \in Targets(G, b - 1) =>
                 \A s \in Left(b) : \E k \in 1 .. Len(FrontCopies(b)) :
                     FrontCopies(b)[k].dst = PhiOf(b, s)
<1>1. prog \in Programs /\ G \in Graphs /\ Entry \in Blocks /\ R \subseteq Blocks
  BY Shape, ReachFacts DEF Placed, Analysed, R
<1>. DEFINE cs == FrontCopies(b)
            place == <<b, 1>>
<1>0. cs = EdgeCopies(Collapse, place)
  BY DEF FrontCopies
<1>. HIDE DEF cs, place
<1>2. /\ \A k \in 1 .. Len(cs) : \E t, s, p : IsEdge(t, s, p, place) /\ cs[k] = EdgeCopy(t, s, p)
      /\ \A t, s, p : IsEdge(t, s, p, place) => \E k \in 1 .. Len(cs) : cs[k] = EdgeCopy(t, s, p)
  <2>1. CopiesOf(cs, place)
    BY <1>0, CopiesAre
  <2>. QED  BY <2>1 DEF CopiesOf
<1>. USE DEF place
<1>3. ASSUME NEW k \in 1 .. Len(cs)
      PROVE  b - 1 \in R /\ ~Closed(Code(b - 1)) /\ IsCopy(b - 1, cs[k])
  <2>1. PICK t, s, p : IsEdge(t, s, p, place) /\ cs[k] = EdgeCopy(t, s, p)
    BY <1>2
  <2>2. p \in R /\ t \in Targets(G, p) /\ s \in Left(t) /\ p \in Blocks
    BY <2>1 DEF IsEdge, Preds, Left
  <2>3. ~Closed(Code(p))
    <3>1. SUFFICES ASSUME Closed(Code(p)) PROVE FALSE
      OBVIOUS
    <3>2. Len(Code(p)) = 1
      BY <2>1, <3>1 DEF IsEdge
    <3>. QED  BY <1>1, <2>2, <3>1, <3>2, WayOn DEF NoLoneEnds
  <2>4. p = b - 1
    <3>1. b = p + 1
      BY <2>1, <2>3 DEF IsEdge
    <3>. QED  BY <2>2, <3>1 DEF Blocks
  <2>5. IsCopy(p, cs[k])
    BY <2>1, <2>2 DEF IsCopy
  <2>. QED  BY <2>2, <2>3, <2>4, <2>5
<1>4. ASSUME b - 1 \in R, ~Closed(Code(b - 1)), b \in Targets(G, b - 1), NEW s \in Left(b)
      PROVE  \E k \in 1 .. Len(cs) : cs[k].dst = PhiOf(b, s)
  <2>1. b - 1 + 1 = b
    BY DEF Blocks
  <2>2. IsEdge(b, s, b - 1, place)
    BY <1>1, <1>4, <2>1 DEF IsEdge, Preds, Left
  <2>3. PICK k \in 1 .. Len(cs) : cs[k] = EdgeCopy(b, s, b - 1)
    BY <1>2, <2>2
  <2>. QED  BY <2>3 DEF EdgeCopy, Copy
<1>. QED  BY <1>3, <1>4 DEF cs

LEMMA EndCopiesAre ==
    ASSUME Placed, Supplied, Even, NoLoneEnds, NEW b \in Blocks
    PROVE  /\ \A k \in 1 .. Len(EndCopies(b)) :
                 b \in R /\ Closed(Code(b)) /\ IsCopy(b, EndCopies(b)[k])
           /\ b \in R /\ Closed(Code(b)) =>
                 \A t \in Targets(G, b) : \A s \in Left(t) : \E k \in 1 .. Len(EndCopies(b)) :
                     EndCopies(b)[k].dst = PhiOf(t, s)
<1>1. prog \in Programs /\ G \in Graphs /\ Entry \in Blocks /\ R \subseteq Blocks
  BY Shape, ReachFacts DEF Placed, Analysed, R
<1>2. Len(list[b]) = Len(Code(b)) /\ Len(Code(b)) \in Nat \ {0}
  BY <1>1, Shape DEF Even
<1>3. CASE Len(list[b]) = 1
  <2>1. EndCopies(b) = << >>
    BY <1>3 DEF EndCopies
  <2>2. ASSUME b \in R, Closed(Code(b)), NEW t \in Targets(G, b) PROVE FALSE
    <3>1. G[b] # << >>
      BY <1>1, WayOn
    <3>2. Len(Code(b)) > 1
      BY <2>2, <3>1 DEF NoLoneEnds
    <3>3. Len(Code(b)) = 1
      BY <1>2, <1>3
    <3>. QED  BY <3>2, <3>3
  <2>. QED  BY <2>1, <2>2
<1>4. CASE Len(list[b]) # 1
  <2>. DEFINE cs == EndCopies(b)
              place == <<b, Len(Code(b))>>
  <2>0. cs = EdgeCopies(Collapse, place)
    BY <1>2, <1>4 DEF EndCopies
  <2>. HIDE DEF cs, place
  <2>1. /\ \A k \in 1 .. Len(cs) : \E t, s, p : IsEdge(t, s, p, place) /\ cs[k] = EdgeCopy(t, s, p)
        /\ \A t, s, p : IsEdge(t, s, p, place) => \E k \in 1 .. Len(cs) : cs[k] = EdgeCopy(t, s, p)
    <3>1. CopiesOf(cs, place)
      BY <2>0, CopiesAre
    <3>. QED  BY <3>1 DEF CopiesOf
  <2>. USE DEF place
  <2>2. ASSUME NEW k \in 1 .. Len(cs) PROVE b \in R /\ Closed(Code(b)) /\ IsCopy(b, cs[k])
    <3>1. PICK t, s, p : IsEdge(t, s, p, place) /\ cs[k] = EdgeCopy(t, s, p)
      BY <2>1
    <3>2. p \in R /\ t \in Targets(G, p) /\ s \in Left(t)
      BY <3>1 DEF IsEdge, Preds, Left
    <3>3. p = b /\ Closed(Code(p))
      BY <1>2, <1>4, <3>1 DEF IsEdge
    <3>. QED  BY <3>1, <3>2, <3>3 DEF IsCopy
  <2>3. ASSUME b \in R, Closed(Code(b)), NEW t \in Targets(G, b), NEW s \in Left(t)
        PROVE  \E k \in 1 .. Len(cs) : cs[k].dst = PhiOf(t, s)
    <3>1. IsEdge(t, s, b, place)
      BY <1>1, <2>3, WayOn DEF IsEdge, Left
    <3>2. PICK k \in 1 .. Len(cs) : cs[k] = EdgeCopy(t, s, b)
      BY <2>1, <3>1
    <3>. QED  BY <3>2 DEF EdgeCopy, Copy
  <2>. QED  BY <2>2, <2>3 DEF cs
<1>. QED  BY <1>3, <1>4

LEMMA EliminateLays ==
    ASSUME Placed, Supplied, Listed, Sourced, NoLoneEnds, Eliminate, NEW b \in Blocks
    PROVE  door'[b] \in Nat \ {0} /\ LaidBy(b, list'[b], door'[b] - 1)
<1>. DEFINE c == Len(FrontCopies(b))
            d == Len(EndCopies(b))
            n == Len(Code(b))
            w == list'[b]
<1>1. /\ c \in Nat /\ d \in Nat
      /\ door'[b] = 1 + c
      /\ Len(w) = c + n + d
      /\ \A k \in 1 .. c : w[k] = FrontCopies(b)[k]
      /\ \A i \in 1 .. n : w[c + i + IF i = n THEN d ELSE 0] = [list[b][i] EXCEPT !.src = Look(Collapse, @)]
      /\ \A k \in c + n .. c + n + d - 1 : w[k] = EndCopies(b)[k - (c + n) + 1]
  BY EliminateIs
<1>2. Even /\ n \in Nat \ {0}
  BY ListedEven, Shape DEF Placed, Analysed
<1>3. \A i \in 1 .. n : list[b][i] = Renamed(b, i)
  BY Shape DEF Sourced, Placed, Analysed
<1>4. /\ \A k \in 1 .. c : b - 1 \in R /\ ~Closed(Code(b - 1)) /\ IsCopy(b - 1, FrontCopies(b)[k])
      /\ b - 1 \in R /\ ~Closed(Code(b - 1)) /\ b \in Targets(G, b - 1) =>
            \A s \in Left(b) : \E k \in 1 .. c : FrontCopies(b)[k].dst = PhiOf(b, s)
  BY <1>2, FrontCopiesAre
<1>5. /\ \A k \in 1 .. d : b \in R /\ Closed(Code(b)) /\ IsCopy(b, EndCopies(b)[k])
      /\ b \in R /\ Closed(Code(b)) =>
            \A t \in Targets(G, b) : \A s \in Left(t) : \E k \in 1 .. d :
                EndCopies(b)[k].dst = PhiOf(t, s)
  BY <1>2, EndCopiesAre
<1>. DEFINE a == door'[b] - 1
<1>6. a = c /\ Len(w) - a - n = d /\ Len(w) \in Nat
  BY <1>1, <1>2
<1>. HIDE DEF c, d, n, w, a
<1>7. /\ c > 0 => b - 1 \in R /\ ~Closed(Code(b - 1))
      /\ d > 0 => Closed(Code(b)) /\ b \in R
  <2>1. c > 0 => 1 \in 1 .. c
    BY <1>1
  <2>2. d > 0 => 1 \in 1 .. d
    BY <1>1
  <2>. QED  BY <1>4, <1>5, <2>1, <2>2
<1>8. \A k \in 1 .. c : IsCopy(b - 1, w[k])
  BY <1>1, <1>4
<1>9. ASSUME NEW k \in c + n .. c + n + d - 1 PROVE IsCopy(b, w[k])
  <2>1. k - (c + n) + 1 \in 1 .. d
    BY <1>1, <1>2
  <2>. QED  BY <1>1, <1>5, <2>1
<1>10. \A i \in 1 .. n : w[c + i + IF i = n THEN d ELSE 0] = [Renamed(b, i) EXCEPT !.src = Look(Collapse, @)]
  BY <1>1, <1>3
<1>11. b - 1 \in R /\ ~Closed(Code(b - 1)) /\ b \in Targets(G, b - 1) =>
          \A s \in Left(b) : \E k \in 1 .. c : w[k].dst = PhiOf(b, s)
  BY <1>1, <1>4
<1>12. ASSUME b \in R, Closed(Code(b)), NEW t \in Targets(G, b), NEW s \in Left(t)
       PROVE  \E k \in c + n .. c + n + d - 1 : w[k].dst = PhiOf(t, s)
  <2>1. PICK k \in 1 .. d : EndCopies(b)[k].dst = PhiOf(t, s)
    BY <1>5, <1>12
  <2>2. PICK j \in c + n .. c + n + d - 1 : j - (c + n) + 1 = k
    <3>1. PICK j : j = c + n + k - 1
      OBVIOUS
    <3>2. j \in c + n .. c + n + d - 1 /\ j - (c + n) + 1 = k
      BY <1>1, <1>2, <3>1
    <3>. QED  BY <3>2
  <2>. QED  BY <1>1, <2>1, <2>2
<1>13. LaidBy(b, list'[b], door'[b] - 1)
  BY <1>1, <1>6, <1>7, <1>8, <1>9, <1>10, <1>11, <1>12 DEF LaidBy, n, w, a
<1>. QED  BY <1>1, <1>13

-----------------------------------------------------------------------------
(* A reachable block has versions of registers only.                       *)
Renamings ==
    [op : Ops, of : Nat, dst : Names \cup {Undefined}, src : Names \cup {Undefined}]
Origins == \A b \in R : \A i \in DOMAIN Code(b) : list[b][i] \in Renamings

LEMMA RenamedNamed ==
    ASSUME Placed, Sourced
    PROVE  Origins
<1>1. SUFFICES ASSUME NEW b \in R, NEW i \in DOMAIN Code(b) PROVE list[b][i] \in Renamings
  BY DEF Origins
<1>2. /\ Analysed /\ b \in Blocks /\ i \in Nat /\ Code(b)[i] \in Insns
      /\ list[b][i] = Renamed(b, i)
  BY ChainIs, Shape DEF Placed, Analysed, Sourced
<1>. DEFINE s == Code(b)[i].src
            r == Code(b)[i].dst
<1>3. s \in Slots \cup {NoSlot} /\ r \in Slots \cup {NoSlot} /\ Code(b)[i].op \in Ops
  BY <1>2 DEF Insns
<1>4. (IF s = NoSlot THEN Undefined ELSE Reaching(b, i, s)) \in Names \cup {Undefined}
  <2>1. ASSUME s # NoSlot PROVE Reaching(b, i, s) \in Names
    <3>1. s \in Slots
      BY <1>3, <2>1
    <3>2. Reaching(b, i, s) \in Named(s)
      BY <1>2, <3>1, ReachingNamed
    <3>. QED  BY <3>1, <3>2 DEF Names
  <2>. QED  BY <2>1
<1>5. (IF r = NoSlot THEN Undefined ELSE DefOf(b, i)) \in Names \cup {Undefined}
  <2>1. ASSUME r # NoSlot PROVE DefOf(b, i) \in Names
    <3>1. r \in Slots
      BY <1>3, <2>1
    <3>2. DefOf(b, i) \in Named(r)
      BY NamedIs
    <3>. QED  BY <3>1, <3>2 DEF Names
  <2>. QED  BY <2>1
<1>. QED  BY <1>2, <1>3, <1>4, <1>5 DEF Renamed, Renamings

LEMMA ResolveNamed ==
    ASSUME Analysed, Listed, Origins, NEW b \in R, NEW i, NEW v \in Names \cup {Undefined}
    PROVE  Resolve(v, b, i) \in Names \cup {Undefined}
<1>. DEFINE X == Names \cup {Undefined}
<1>1. ASSUME NEW w \in X PROVE Forwarded(w, b, i) \in X
  <2>1. CASE ~Forwards(w, b, i)
    BY <2>1 DEF Forwarded
  <2>2. CASE Forwards(w, b, i)
    <3>1. PICK d \in DefSites(w) : DefSites(w) = {d} /\ WriteReaches(d, b, i)
      BY <2>2 DEF Forwards
    <3>2. (CHOOSE e \in DefSites(w) : TRUE) = d
      BY <3>1
    <3>3. PICK c \in Blocks : \E j \in DOMAIN list[c] : d = <<c, j>>
      BY DefSitesAre
    <3>4. PICK j \in DOMAIN list[c] : d = <<c, j>>
      BY <3>3
    <3>5. c \in R
      <4>1. c = b \/ c \in chain[b]
        BY <3>1, <3>4 DEF WriteReaches
      <4>. QED  BY <4>1, ChainIs
    <3>6. list[c][j].src \in X
      <4>1. list[c][j] \in Renamings
        BY <3>5 DEF Origins, Listed
      <4>. QED  BY <4>1 DEF Renamings
    <3>. DEFINE f == CHOOSE e \in DefSites(w) : TRUE
    <3>7. Forwarded(w, b, i) = list[f[1]][f[2]].src
      BY <2>2 DEF Forwarded
    <3>8. f = d
      BY <3>2
    <3>. HIDE DEF f
    <3>9. f[1] = c /\ f[2] = j
      BY <3>4, <3>8
    <3>. QED  BY <3>6, <3>7, <3>9
  <2>. QED  BY <2>1, <2>2
<1>2. PICK hop : /\ hop[0] = v /\ hop[8] = Resolve(v, b, i)
                 /\ \A k \in 1 .. 8 : hop[k] = Forwarded(hop[k - 1], b, i)
  BY ResolveHops
<1>. HIDE DEF X
<1>3. v \in X
  BY DEF X
<1>4. /\ hop[1] = Forwarded(hop[0], b, i) /\ hop[2] = Forwarded(hop[1], b, i)
      /\ hop[3] = Forwarded(hop[2], b, i) /\ hop[4] = Forwarded(hop[3], b, i)
      /\ hop[5] = Forwarded(hop[4], b, i) /\ hop[6] = Forwarded(hop[5], b, i)
      /\ hop[7] = Forwarded(hop[6], b, i) /\ hop[8] = Forwarded(hop[7], b, i)
  BY <1>2
<1>5. hop[1] \in X /\ hop[2] \in X /\ hop[3] \in X /\ hop[4] \in X
  BY <1>1, <1>2, <1>3, <1>4
<1>6. hop[5] \in X /\ hop[6] \in X /\ hop[7] \in X /\ hop[8] \in X
  BY <1>1, <1>4, <1>5
<1>. QED  BY <1>2, <1>6 DEF X

(* Where the copy of an edge into a phi that is left goes to.              *)
LEMMA LeftIsDefined ==
    ASSUME Placed, Supplied, Listed, EntryApart, Eliminate, NEW t \in R, NEW s \in Left(t)
    PROVE  \E b \in Blocks : \E k \in DOMAIN list'[b] : list'[b][k].dst = PhiOf(t, s)
<1>1. prog \in Programs /\ Analysed /\ Even /\ G \in Graphs /\ Entry \in Blocks /\ R \subseteq Blocks
  BY ListedEven, Shape, ReachFacts DEF Placed, Analysed, R
<1>2. t \in Blocks /\ t # Entry /\ s \in phis[t]
  BY <1>1, EntryUnmerged DEF Left
<1>3. PICK p \in Preds(G, t) : p \in R
  <2>1. \E p \in Preds(G, t) : p \in Reach(G, Entry, {t})
    BY <1>1, <1>2, FirstEdge DEF R, Reachable
  <2>2. PICK p \in Preds(G, t) : p \in Reach(G, Entry, {t})
    BY <2>1
  <2>3. p \in R
    BY <1>1, <2>2, ReachFacts DEF R
  <2>. QED  BY <2>2, <2>3
<1>4. p \in Blocks /\ t \in Targets(G, p)
  BY DEF Preds
<1>. DEFINE place == IF Closed(Code(p)) THEN <<p, Len(Code(p))>> ELSE <<p + 1, 1>>
            cs == EdgeCopies(Collapse, place)
<1>5. \E k \in 1 .. Len(cs) : cs[k].dst = PhiOf(t, s)
  <2>1. IsEdge(t, s, p, place)
    BY <1>2, <1>3 DEF IsEdge, Left
  <2>. HIDE DEF place
  <2>2. CopiesOf(cs, place)
    BY <1>1, CopiesAre
  <2>. HIDE DEF cs
  <2>3. PICK k \in 1 .. Len(cs) : cs[k] = EdgeCopy(t, s, p)
    BY <2>1, <2>2 DEF CopiesOf
  <2>. QED  BY <2>3 DEF EdgeCopy, Copy
<1>6. ASSUME NEW b \in Blocks, place = <<b, 1>>
      PROVE  \E k \in DOMAIN list'[b] : list'[b][k].dst = PhiOf(t, s)
  <2>1. cs = FrontCopies(b)
    BY <1>6 DEF FrontCopies
  <2>. HIDE DEF cs, place
  <2>2. PICK k \in 1 .. Len(FrontCopies(b)) : FrontCopies(b)[k].dst = PhiOf(t, s)
    BY <1>5, <2>1
  <2>. DEFINE c == Len(FrontCopies(b))
              d == Len(EndCopies(b))
              n == Len(Code(b))
  <2>3. /\ c \in Nat /\ d \in Nat /\ DOMAIN list'[b] = 1 .. c + n + d
        /\ \A j \in 1 .. c : list'[b][j] = FrontCopies(b)[j]
    BY EliminateIs
  <2>4. n \in Nat
    BY <1>1, Shape
  <2>. HIDE DEF c, d, n
  <2>5. k \in 1 .. c
    BY <2>2 DEF c
  <2>6. k \in 1 .. c + n + d
    BY <2>3, <2>4, <2>5
  <2>. QED  BY <2>2, <2>3, <2>5, <2>6
<1>7. ASSUME NEW b \in Blocks, Len(Code(b)) # 1, place = <<b, Len(Code(b))>>
      PROVE  \E k \in DOMAIN list'[b] : list'[b][k].dst = PhiOf(t, s)
  <2>1. cs = EndCopies(b)
    BY <1>1, <1>7 DEF EndCopies, Even
  <2>. HIDE DEF cs, place
  <2>2. PICK k \in 1 .. Len(EndCopies(b)) : EndCopies(b)[k].dst = PhiOf(t, s)
    BY <1>5, <2>1
  <2>. DEFINE c == Len(FrontCopies(b))
              d == Len(EndCopies(b))
              n == Len(Code(b))
  <2>3. /\ c \in Nat /\ d \in Nat /\ DOMAIN list'[b] = 1 .. c + n + d
        /\ \A j \in c + n .. c + n + d - 1 : list'[b][j] = EndCopies(b)[j - (c + n) + 1]
    BY EliminateIs
  <2>4. n \in Nat \ {0}
    BY <1>1, Shape
  <2>. HIDE DEF c, d, n
  <2>5. k \in 1 .. d
    BY <2>2 DEF d
  <2>6. PICK j : j = c + n + k - 1
    OBVIOUS
  <2>7. j \in c + n .. c + n + d - 1 /\ j \in 1 .. c + n + d /\ j - (c + n) + 1 = k
    BY <2>3, <2>4, <2>5, <2>6
  <2>. QED  BY <2>2, <2>3, <2>7
<1>8. CASE Closed(Code(p))
  <2>1. place = <<p, Len(Code(p))>>
    BY <1>8
  <2>. HIDE DEF place, cs
  <2>. QED  BY <1>4, <1>6, <1>7, <2>1
<1>9. CASE ~Closed(Code(p))
  <2>1. place = <<p + 1, 1>> /\ p + 1 = t
    BY <1>1, <1>4, <1>9, WayOn
  <2>. HIDE DEF place, cs
  <2>. QED  BY <1>2, <1>6, <2>1
<1>. QED  BY <1>8, <1>9

(* A version a replaced read is of is none of a collapsed phi.             *)
LEMMA LookLeft ==
    ASSUME Placed, Supplied, Settled, NEW v \in Names \cup {Undefined}
    PROVE  /\ Look(Collapse, v) \in Names \cup {Undefined}
           /\ Look(Collapse, v) \notin DOMAIN Collapse
<1>1. Kept(Collapse)
  BY CollapseIs
<1>2. CASE v = Undefined
  <2>1. Undefined \notin DOMAIN Collapse
    BY <1>1 DEF Kept, PhiOf, Undefined
  <2>. QED  BY <1>2, <2>1 DEF Look
<1>3. CASE v \in Names
  <2>1. PICK s \in Slots : v \in Named(s)
    BY <1>3 DEF Names
  <2>2. Look(Collapse, v) \in Named(s)
    BY <1>1, <2>1, LookKeeps
  <2>3. Look(Collapse, v) \notin DOMAIN Collapse
    BY DEF Settled, Flat, Look
  <2>. QED  BY <2>1, <2>2, <2>3 DEF Names
<1>. QED  BY <1>2, <1>3

(* Once the phis are lowered every read of a phi's version is one of a     *)
(* version some copy defines.                                              *)
Supported ==
    \A b \in R : \A i \in DOMAIN list[b] :
        list[b][i].src[1] = "phi" =>
            \E c \in Blocks : \E k \in DOMAIN list[c] : list[c][k].dst = list[b][i].src

LEMMA EliminateSupports ==
    ASSUME Placed, Supplied, Listed, Origins, EntryApart, Settled, Eliminate
    PROVE  Supported'
<1>1. prog' = prog /\ R' = R /\ R \subseteq Blocks /\ Analysed /\ prog \in Programs /\ Even
  <2>1. prog' = prog /\ prog \in Programs
    BY DEF Eliminate, Placed, Analysed
  <2>. QED  BY <2>1, SameBody, Shape, ListedEven, ReachFacts DEF R, Placed
<1>2. ASSUME NEW v \in Names \cup {Undefined}, v[1] = "phi", v \notin DOMAIN Collapse
      PROVE  \E c \in Blocks : \E k \in DOMAIN list'[c] : list'[c][k].dst = v
  <2>1. PICK s \in Slots : v \in Named(s)
    BY <1>2 DEF Names, Undefined
  <2>2. PICK t \in R : s \in phis[t] /\ v = PhiOf(t, s)
    BY <1>2, <2>1, NamedIs DEF EntryOf, DefOf
  <2>3. s \in Left(t)
    BY <1>2, <2>2 DEF Left
  <2>. QED  BY <2>2, <2>3, LeftIsDefined
<1>3. ASSUME NEW b \in R, NEW i \in DOMAIN list'[b]
      PROVE  list'[b][i].src \in Names \cup {Undefined} /\ list'[b][i].src \notin DOMAIN Collapse
  <2>. DEFINE c == Len(FrontCopies(b))
              d == Len(EndCopies(b))
              n == Len(Code(b))
              X == {u \in Names \cup {Undefined} : u \notin DOMAIN Collapse}
  <2>1. b \in Blocks /\ n \in Nat \ {0} /\ DOMAIN Code(b) = 1 .. n
    BY <1>1, Shape
  <2>2. /\ c \in Nat /\ d \in Nat /\ DOMAIN list'[b] = 1 .. c + n + d
        /\ \A k \in 1 .. c : list'[b][k] = FrontCopies(b)[k]
        /\ \A k \in 1 .. n : list'[b][c + k + IF k = n THEN d ELSE 0] =
                                  [list[b][k] EXCEPT !.src = Look(Collapse, @)]
        /\ \A k \in c + n .. c + n + d - 1 : list'[b][k] = EndCopies(b)[k - (c + n) + 1]
    BY <2>1, EliminateIs
  <2>3. ASSUME NEW t, NEW s, NEW p, NEW place, IsEdge(t, s, p, place)
        PROVE  EdgeCopy(t, s, p).src \in X
    <3>1. p \in R /\ s \in Slots /\ Len(Code(p)) + 1 \in Nat
      BY <1>1, <2>3, Shape DEF IsEdge, Placed
    <3>2. Reaching(p, Len(Code(p)) + 1, s) \in Names \cup {Undefined}
      BY <1>1, <3>1, ReachingNamed DEF Names
    <3>. QED  BY <3>2, LookLeft DEF EdgeCopy, Copy
  <2>4. \A k \in 1 .. c : FrontCopies(b)[k].src \in X
    <3>1. CopiesOf(FrontCopies(b), <<b, 1>>)
      BY <1>1, CopiesAre DEF FrontCopies
    <3>. HIDE DEF X
    <3>. QED  BY <2>3, <3>1 DEF CopiesOf
  <2>5. \A k \in 1 .. d : EndCopies(b)[k].src \in X
    <3>1. CASE Len(list[b]) = 1
      BY <3>1 DEF EndCopies
    <3>2. CASE Len(list[b]) # 1
      <4>1. CopiesOf(EndCopies(b), <<b, Len(list[b])>>)
        BY <1>1, <3>2, CopiesAre DEF EndCopies
      <4>. HIDE DEF X
      <4>. QED  BY <2>3, <4>1 DEF CopiesOf
    <3>. QED  BY <3>1, <3>2
  <2>6. ASSUME NEW k \in 1 .. n PROVE [list[b][k] EXCEPT !.src = Look(Collapse, @)].src \in X
    <3>1. list[b][k] \in Renamings
      BY <2>1 DEF Origins
    <3>2. Look(Collapse, list[b][k].src) \in X
      BY <3>1, LookLeft DEF Renamings
    <3>. QED  BY <3>1, <3>2 DEF Renamings
  <2>. HIDE DEF c, d, n, X
  <2>7. \/ i \in 1 .. c
        \/ \E k \in 1 .. n : i = c + k + IF k = n THEN d ELSE 0
        \/ i \in c + n .. c + n + d - 1
    <3>. DEFINE V == \E k \in 1 .. n : i = c + k + IF k = n THEN d ELSE 0
    <3>1. i \in 1 .. c + n + d
      BY <2>2
    <3>2. i > c /\ i < c + n => V
      <4>. HAVE i > c /\ i < c + n
      <4>1. PICK k : k = i - c
        OBVIOUS
      <4>2. k \in 1 .. n /\ k # n /\ i = c + k + 0
        BY <2>1, <2>2, <3>1, <4>1
      <4>. QED  BY <4>2
    <3>3. i = c + n + d => V
      <4>1. n \in 1 .. n
        BY <2>1
      <4>. QED  BY <4>1
    <3>. HIDE DEF V
    <3>4. i \in 1 .. c \/ V \/ i \in c + n .. c + n + d - 1
      BY <2>1, <2>2, <3>1, <3>2, <3>3
    <3>. QED  BY <3>4 DEF V
  <2>8. list'[b][i].src \in X
    <3>1. CASE i \in 1 .. c
      BY <2>2, <2>4, <3>1
    <3>2. CASE \E k \in 1 .. n : i = c + k + IF k = n THEN d ELSE 0
      BY <2>2, <2>6, <3>2
    <3>3. CASE i \in c + n .. c + n + d - 1
      <4>1. i - (c + n) + 1 \in 1 .. d
        BY <2>1, <2>2, <3>3
      <4>. QED  BY <2>2, <2>5, <3>3, <4>1
    <3>. QED  BY <2>7, <3>1, <3>2, <3>3
  <2>. QED  BY <2>8 DEF X
<1>. QED  BY <1>1, <1>2, <1>3 DEF Supported

LEMMA PropagatedNamed ==
    ASSUME Placed, Listed, Sourced, Propagate
    PROVE  Origins'
<1>1. prog' = prog /\ chain' = chain /\ phis' = phis /\ R' = R /\ Analysed
  BY SameBody DEF Propagate, analysis, tables, Placed
<1>2. Renamings' = Renamings /\ \A b : Code(b)' = Code(b)
  <2>1. ASSUME NEW s PROVE Named(s)' = Named(s)
    BY <1>1 DEF Named, Code, R, G, EntryOf, PhiOf, DefOf
  <2>. QED  BY <1>1, <2>1, SameBody DEF Renamings, Names
<1>3. ASSUME NEW b \in R, NEW i \in DOMAIN Code(b) PROVE list'[b][i] \in Renamings
  <2>1. list[b][i] \in Renamings
    BY <1>3, RenamedNamed DEF Origins
  <2>2. b \in Blocks /\ DOMAIN list[b] = DOMAIN Code(b)
    BY <1>1, ChainIs DEF Listed
  <2>3. list'[b][i] = IF list[b][i].op \in {"move", "nop"} THEN list[b][i]
                      ELSE [list[b][i] EXCEPT !.src = Resolve(@, b, i)]
    BY <2>2 DEF Propagate
  <2>4. Resolve(list[b][i].src, b, i) \in Names \cup {Undefined}
    BY <1>1, <2>1, RenamedNamed, ResolveNamed DEF Renamings
  <2>. QED  BY <2>1, <2>3, <2>4 DEF Renamings
<1>. QED  BY <1>1, <1>2, <1>3 DEF Origins

-----------------------------------------------------------------------------
(* A run of the lowered listing.                                           *)

Heads(b) == door[b] - 1
Tails(b) == Len(list[b]) - Heads(b) - Len(Code(b))

(* The versions that have the tagged value, collapsed phis included. *)
Seen(C) == {v \in Names : Look(Collapse, v) \in C}

(* Copies that were run: both sides agree. *)
Moved(b, S, C) == \A k \in S : list[b][k].dst \in C <=> list[b][k].src \in C

Crossed(p, t, C) ==
    \A s \in Left(t) :
        PhiOf(t, s) \in C <=> Look(Collapse, Reaching(p, Len(Code(p)) + 1, s)) \in C

(* All copies of an edge were run, or there are none: what the phis at its *)
(* end stand for is what came in.                                          *)
LEMMA EdgeAgrees ==
    ASSUME Placed, Supplied, Settled, NEW p \in R, NEW t \in Targets(G, p), NEW C, Crossed(p, t, C),
           NEW s \in phis[t]
    PROVE  PhiOf(t, s) \in Seen(C) <=> Reaching(p, Len(Code(p)) + 1, s) \in Seen(C)
<1>. DEFINE v == PhiOf(t, s)
            w == Reaching(p, Len(Code(p)) + 1, s)
<1>1. prog \in Programs /\ Analysed /\ p \in Blocks /\ t \in Blocks /\ p \in Preds(G, t)
  BY ChainIs, WayOn DEF Placed, Analysed
<1>2. s \in Slots /\ w \in PhiArgs(t, s) /\ PhiArgs(t, s) \subseteq Named(s) /\ v \in Named(s) /\ t \in R
  BY <1>1, PhiArgsAre
<1>3. v \in Names /\ w \in Names
  BY <1>2 DEF Names
<1>4. Look(Collapse, v) \in C <=> Look(Collapse, w) \in C
  <2>1. CASE v \in DOMAIN Collapse
    <3>1. Look(Collapse, w) = Collapse[v]
      BY <1>2, <2>1, CollapseIs DEF Agreeing
    <3>. QED  BY <2>1, <3>1 DEF Look
  <2>2. CASE v \notin DOMAIN Collapse
    <3>1. s \in Left(t)
      BY <2>2 DEF Left
    <3>. QED  BY <2>2, <3>1 DEF Look, Crossed
  <2>. QED  BY <2>1, <2>2
<1>. QED  BY <1>3, <1>4 DEF Seen

(* On that edge a run goes on in step.                                     *)
LEMMA CrossHeld ==
    ASSUME Placed, Supplied, Settled, Plain, NEW p \in R, NEW t \in Targets(G, p), NEW H, NEW C,
           Crossed(p, t, C), Held(p, Len(Code(p)) + 1, H, Seen(C))
    PROVE  t \in R /\ Held(t, 1, H, Seen(C))
<1>1. \A s \in phis[t] : PhiOf(t, s) \in Seen(C) <=> Reaching(p, Len(Code(p)) + 1, s) \in Seen(C)
  BY EdgeAgrees
<1>2. EntryApart /\ ((\E s \in Slots : Cardinality(Defs(s)) = 1) => Reducible)
  BY DEF Plain
<1>3. PICK S : S = Seen(C)
  OBVIOUS
<1>. QED  BY <1>1, <1>2, <1>3, FollowHeld

(* What a copy does.                                                       *)
LEMMA CopyMoves ==
    ASSUME NEW v, NEW w, NEW C
    PROVE  LET C2 == Assigned(C, Copy(v, w), FALSE)
           IN  /\ v \in C2 <=> w \in C
               /\ w \in C2 <=> w \in C
               /\ \A u : u # v => (u \in C2 <=> u \in C)
BY DEF Assigned, Copy

(* A copy for an edge out of p, run in front of p's terminator or at its   *)
(* end, leaves the run in step with p.                                     *)
LEMMA CopyHeld ==
    ASSUME Placed, Supplied, NEW p \in R, NEW i, NEW insn, IsCopy(p, insn), NEW H, NEW C,
           \A s \in Slots : LiveAt(p, Len(Code(p)) + 1, s) => LiveAt(p, i, s),
           \A s \in Slots : Reaching(p, i, s) = Reaching(p, Len(Code(p)) + 1, s),
           Held(p, i, H, Seen(C))
    PROVE  Held(p, i, H, Seen(Assigned(C, insn, FALSE)))
<1>1. PICK t \in Targets(G, p) : \E s \in Left(t) : insn = EdgeCopy(t, s, p)
  BY DEF IsCopy
<1>2. PICK s \in Left(t) : insn = EdgeCopy(t, s, p)
  BY <1>1
<1>. DEFINE v == PhiOf(t, s)
            r == Reaching(p, i, s)
            w == Look(Collapse, r)
            C2 == Assigned(C, insn, FALSE)
<1>3. /\ prog \in Programs /\ Analysed /\ p \in Blocks /\ t \in Blocks /\ p \in Preds(G, t)
      /\ G \in Graphs /\ Len(Code(p)) + 1 \in Nat
  BY ChainIs, WayOn, Shape DEF Placed, Analysed
<1>4. s \in phis[t] /\ s \in Slots /\ s \in live[t]
  <2>1. s \in phis[t]
    BY DEF Left
  <2>2. s \in Slots
    BY <1>3, <2>1 DEF Placed
  <2>. QED  BY <1>3, <2>1, <2>2, PhisAre
<1>5. t \in R
  BY <1>3, <1>4, PhiArgsAre
<1>6. v \in Named(s)
  BY <1>4, <1>5, NamedIs
<1>7. \A q \in Slots : Reaching(p, i, q) \in Named(q)
  BY <1>3, ReachingNamed
<1>8. LiveAt(p, i, s)
  BY <1>3, <1>4, LiveAtEdges
<1>9. s \in H <=> w \in C
  <2>1. s \in H <=> r \in Seen(C)
    BY <1>4, <1>8 DEF Held, Tracked
  <2>2. r \in Names
    BY <1>4, <1>7 DEF Names
  <2>. QED  BY <2>1, <2>2 DEF Seen
<1>10. /\ v \in C2 <=> w \in C
       /\ \A u : u # v => (u \in C2 <=> u \in C)
  <2>1. insn = Copy(v, w)
    BY <1>2, <1>4 DEF EdgeCopy
  <2>. HIDE DEF v, w
  <2>. QED  BY <2>1, CopyMoves
<1>11. Kept(Collapse)
  BY CollapseIs
<1>. HIDE DEF v, w, C2
<1>12. ASSUME NEW q \in Slots, NEW u \in Named(q), q \in H <=> u \in Seen(C)
       PROVE  q \in H <=> u \in Seen(C2)
  <2>1. u \in Names /\ Look(Collapse, u) \in Named(q)
    BY <1>11, <1>12, LookKeeps DEF Names
  <2>2. q \in H <=> Look(Collapse, u) \in C
    BY <1>12, <2>1 DEF Seen
  <2>3. q \in H <=> Look(Collapse, u) \in C2
    <3>1. CASE Look(Collapse, u) = v
      <4>1. q = s
        BY <1>6, <2>1, <3>1, NamedApart
      <4>. QED  BY <1>9, <1>10, <3>1, <4>1
    <3>2. CASE Look(Collapse, u) # v
      BY <1>10, <2>2, <3>2
    <3>. QED  BY <3>1, <3>2
  <2>. QED  BY <2>1, <2>3 DEF Seen
<1>13. Tracked(p, i, H, Seen(C2))
  BY <1>7, <1>12 DEF Held, Tracked
<1>14. ZonesTracked(p, H, Seen(C2))
  <2>1. ASSUME NEW q \in Slots, NEW d \in R PROVE Inherited(d, q) \in Named(q)
    <3>1. 0 \in Nat
      OBVIOUS
    <3>. QED  BY <1>3, <3>1, ReachingNamed
  <2>. QED  BY <1>12, <2>1 DEF Held, ZonesTracked
<1>. QED  BY <1>13, <1>14 DEF Held, C2

(* And the copies that were run stay true: no copy of the same edges       *)
(* writes what another reads, but for a version copied to itself.          *)
LEMMA CopyKeepsMoved ==
    ASSUME Placed, Supplied, NEW p \in R, NEW insn, IsCopy(p, insn), NEW C,
           NEW old, IsCopy(p, old), old.dst \in C <=> old.src \in C
    PROVE  LET C2 == Assigned(C, insn, FALSE)
           IN  /\ insn.dst \in C2 <=> insn.src \in C2
               /\ old.dst \in C2 <=> old.src \in C2
<1>1. PICK t \in Targets(G, p) : \E s \in Left(t) : insn = EdgeCopy(t, s, p)
  BY DEF IsCopy
<1>2. PICK s \in Left(t) : insn = EdgeCopy(t, s, p)
  BY <1>1
<1>3. PICK t2 \in Targets(G, p) : \E q \in Left(t2) : old = EdgeCopy(t2, q, p)
  BY DEF IsCopy
<1>4. PICK q \in Left(t2) : old = EdgeCopy(t2, q, p)
  BY <1>3
<1>. DEFINE C2 == Assigned(C, insn, FALSE)
            v == PhiOf(t, s)
            w == Look(Collapse, Reaching(p, Len(Code(p)) + 1, s))
            v2 == PhiOf(t2, q)
            w2 == Look(Collapse, Reaching(p, Len(Code(p)) + 1, q))
<1>5. /\ insn = Copy(v, w) /\ insn.dst = v /\ insn.src = w /\ old.dst = v2 /\ old.src = w2
      /\ (q = s => w2 = w) /\ (q = s \/ v2 # v)
  BY <1>2, <1>4 DEF EdgeCopy, Copy, PhiOf
<1>6. /\ prog \in Programs /\ Analysed /\ p \in Blocks /\ t \in Blocks /\ p \in Preds(G, t)
      /\ s \in phis[t] /\ s \in Slots /\ q \in Slots /\ Len(Code(p)) + 1 \in Nat
  <2>1. prog \in Programs /\ Analysed /\ p \in Blocks
    BY ChainIs DEF Placed, Analysed
  <2>2. t \in Blocks /\ p \in Preds(G, t) /\ t2 \in Blocks
    BY <2>1, WayOn
  <2>3. s \in phis[t] /\ q \in phis[t2]
    BY DEF Left
  <2>. QED  BY <2>1, <2>2, <2>3, Shape DEF Placed
<1>7. v \in Named(s)
  BY <1>6, PhiArgsAre, NamedIs
<1>8. w2 \in Named(q)
  BY <1>6, CollapseIs, ReachingNamed, LookKeeps
<1>. HIDE DEF v, w, v2, w2
<1>9. /\ v \in C2 <=> w \in C
      /\ w \in C2 <=> w \in C
      /\ \A u : u # v => (u \in C2 <=> u \in C)
  BY <1>5, CopyMoves
<1>. HIDE DEF C2
<1>10. v \in C2 <=> w \in C2
  BY <1>9
<1>11. v2 \in C2 <=> w2 \in C2
  <2>1. CASE q = s
    BY <1>5, <1>9, <2>1
  <2>2. CASE q # s
    <3>1. w2 # v
      BY <1>7, <1>8, <2>2, <1>6, NamedApart
    <3>. QED  BY <1>5, <1>9, <2>2, <3>1
  <2>. QED  BY <2>1, <2>2
<1>. QED  BY <1>5, <1>10, <1>11 DEF C2

-----------------------------------------------------------------------------
(* Where a run is in a lowered block: among the copies in front of it, in  *)
(* its body, among those in front of its terminator, or behind it.         *)
Stage(b, j, H, C) ==
    LET a == Heads(b)
        n == Len(Code(b))
        d == Tails(b)
    IN  \/ /\ j \in 1 .. a
           /\ Held(b - 1, Len(Code(b - 1)) + 1, H, Seen(C)) /\ Moved(b, 1 .. j - 1, C)
        \/ j \in a + 1 .. a + n - 1 /\ Held(b, j - a, H, Seen(C))
        \/ j \in a + n .. a + n + d /\ Held(b, n, H, Seen(C)) /\ Moved(b, a + n .. j - 1, C)
        \/ /\ j = a + n + d + 1
           /\ Held(b, n + 1, H, Seen(C)) /\ Moved(b, a + n .. a + n + d - 1, C)

Body(b, i) == [Renamed(b, i) EXCEPT !.src = Look(Collapse, @)]

LEMMA BodyIs ==
    ASSUME NEW b, NEW i
    PROVE  /\ Body(b, i).op = Code(b)[i].op /\ Body(b, i).of = i
           /\ Body(b, i).dst = Renamed(b, i).dst
           /\ Body(b, i).src = Look(Collapse, Renamed(b, i).src)
BY DEF Body, Renamed

LEMMA LaidIs ==
    ASSUME prog \in Programs, Lowered, NEW b \in Blocks
    PROVE  /\ Heads(b) \in Nat /\ Tails(b) \in Nat /\ Len(Code(b)) \in Nat \ {0}
           /\ DOMAIN Code(b) = 1 .. Len(Code(b))
           /\ Len(list[b]) = Heads(b) + Len(Code(b)) + Tails(b)
           /\ \A k \in 1 .. Heads(b) : IsCopy(b - 1, list[b][k])
           /\ \A k \in Heads(b) + Len(Code(b)) .. Heads(b) + Len(Code(b)) + Tails(b) - 1 :
                 IsCopy(b, list[b][k])
           /\ \A i \in 1 .. Len(Code(b)) - 1 : list[b][Heads(b) + i] = Body(b, i)
           /\ list[b][Len(list[b])] = Body(b, Len(Code(b)))
<1>. DEFINE a == Heads(b)
            d == Tails(b)
            n == Len(Code(b))
            w == list[b]
<1>1. LaidBy(b, w, a)
  BY DEF Lowered, Heads
<1>2. d = Len(w) - a - n
  BY DEF Tails
<1>3. n \in Nat \ {0} /\ DOMAIN Code(b) = 1 .. n
  BY Shape
<1>. HIDE DEF a, d, w
<1>4. /\ a \in Nat /\ d \in Nat /\ Len(w) \in Nat
      /\ \A k \in 1 .. a : IsCopy(b - 1, w[k])
      /\ \A k \in a + n .. a + n + d - 1 : IsCopy(b, w[k])
      /\ \A i \in 1 .. n : w[a + i + IF i = n THEN d ELSE 0] = Body(b, i)
  BY <1>1, <1>2 DEF LaidBy, Body
<1>. HIDE DEF n
<1>5. Len(w) = a + n + d
  BY <1>2, <1>3, <1>4
<1>6. ASSUME NEW i \in 1 .. n - 1 PROVE w[a + i] = Body(b, i)
  <2>1. i \in 1 .. n /\ i # n /\ a + i + 0 = a + i
    BY <1>3, <1>4
  <2>. QED  BY <1>4, <2>1
<1>7. w[Len(w)] = Body(b, n)
  <2>1. n \in 1 .. n
    BY <1>3
  <2>. QED  BY <1>4, <1>5, <2>1
<1>. QED  BY <1>3, <1>4, <1>5, <1>6, <1>7 DEF a, d, n, w

LEMMA CopyIs ==
    ASSUME NEW p, NEW insn, IsCopy(p, insn)
    PROVE  /\ insn.op = "move" /\ insn.of = 0
           /\ \E v, w : insn = Copy(v, w)
           /\ Targets(G, p) # {}
<1>1. PICK t \in Targets(G, p) : \E s \in Left(t) : insn = EdgeCopy(t, s, p)
  BY DEF IsCopy
<1>2. PICK s \in Left(t) : insn = EdgeCopy(t, s, p)
  BY <1>1
<1>3. \E v, w : insn = Copy(v, w)
  BY <1>2 DEF EdgeCopy
<1>4. PICK v, w : insn = Copy(v, w)
  BY <1>3
<1>5. insn.op = "move" /\ insn.of = 0
  BY <1>4 DEF Copy
<1>6. Targets(G, p) # {}
  OBVIOUS
<1>. QED  BY <1>3, <1>5, <1>6

(* Control leaves a lowered block behind its last instruction only.        *)
LEMMA LeavesLast ==
    ASSUME prog \in Programs, Lowered, NEW b \in Blocks, NEW j \in 1 .. Len(list[b]) + 1
    PROVE  /\ (j > Len(list[b]) \/ (j > 1 /\ list[b][j - 1].op \in Terminators))
              => j = Len(list[b]) + 1
           /\ Last(list[b]).op = Last(Code(b)).op
           /\ Closed(list[b]) <=> Closed(Code(b))
<1>. DEFINE a == Heads(b)
            d == Tails(b)
            n == Len(Code(b))
            w == list[b]
<1>1. /\ a \in Nat /\ d \in Nat /\ n \in Nat \ {0} /\ DOMAIN Code(b) = 1 .. n
      /\ Len(w) = a + n + d
      /\ \A k \in 1 .. a : IsCopy(b - 1, w[k])
      /\ \A k \in a + n .. a + n + d - 1 : IsCopy(b, w[k])
      /\ \A i \in 1 .. n - 1 : w[a + i] = Body(b, i)
      /\ w[Len(w)] = Body(b, n)
  BY LaidIs
<1>2. \A i \in DOMAIN Code(b) : Code(b)[i].op \in Terminators => i = n
  BY Shape
<1>3. Last(w).op = Last(Code(b)).op
  BY <1>1, BodyIs DEF Last
<1>4. Closed(w) <=> Closed(Code(b))
  BY <1>3 DEF Closed
<1>. HIDE DEF a, d, n, w
<1>5. ASSUME j > 1, w[j - 1].op \in Terminators PROVE j = Len(w) + 1
  <2>. DEFINE k == j - 1
  <2>0. j \in 1 .. Len(w) + 1
    BY DEF w
  <2>1. k \in 1 .. Len(w) /\ w[k].op \in Terminators
    BY <1>1, <1>5, <2>0
  <2>. HIDE DEF k
  <2>2. k \notin 1 .. a /\ k \notin a + n .. a + n + d - 1
    BY <1>1, <2>1, CopyIs DEF Terminators
  <2>3. ~(k > a /\ k < a + n)
    <3>1. SUFFICES ASSUME k > a, k < a + n PROVE FALSE
      OBVIOUS
    <3>2. PICK i \in 1 .. n - 1 : k = a + i
      <4>1. k - a \in 1 .. n - 1 /\ k = a + (k - a)
        BY <1>1, <2>1, <3>1
      <4>. QED  BY <4>1
    <3>3. i \in 1 .. n /\ i # n
      BY <1>1
    <3>4. w[k].op = Code(b)[i].op
      BY <1>1, <3>2, BodyIs
    <3>. QED  BY <1>1, <1>2, <2>1, <3>3, <3>4
  <2>4. k = Len(w)
    BY <1>1, <2>1, <2>2, <2>3
  <2>. QED  BY <1>1, <2>0, <2>4 DEF k
<1>6. j > Len(w) => j = Len(w) + 1
  <2>0. j \in 1 .. Len(w) + 1
    BY DEF w
  <2>. QED  BY <1>1, <2>0
<1>. QED  BY <1>3, <1>4, <1>5, <1>6 DEF w

(* The first instruction of the body follows the copies in front of it.    *)
LEMMA EnterBody ==
    ASSUME prog \in Programs, Lowered, NEW b \in Blocks, NEW H, NEW C, Held(b, 1, H, Seen(C))
    PROVE  Stage(b, Heads(b) + 1, H, C)
<1>. DEFINE a == Heads(b)
            d == Tails(b)
            n == Len(Code(b))
<1>1. a \in Nat /\ d \in Nat /\ n \in Nat \ {0}
  BY LaidIs
<1>. HIDE DEF a, d, n
<1>2. PICK j : j = a + 1
  OBVIOUS
<1>3. CASE n = 1
  <2>1. j \in a + n .. a + n + d /\ j - 1 < a + n
    BY <1>1, <1>2, <1>3
  <2>2. Moved(b, a + n .. j - 1, C)
    <3>1. \A k \in a + n .. j - 1 : FALSE
      BY <1>1, <1>2, <2>1
    <3>. QED  BY <3>1 DEF Moved
  <2>3. Held(b, n, H, Seen(C))
    BY <1>3
  <2>4. Stage(b, j, H, C)
    BY <2>1, <2>2, <2>3 DEF Stage, a, d, n
  <2>. QED  BY <1>2, <2>4 DEF a
<1>4. CASE n # 1
  <2>1. j \in a + 1 .. a + n - 1 /\ j - a = 1
    BY <1>1, <1>2, <1>4
  <2>2. Held(b, j - a, H, Seen(C))
    BY <2>1
  <2>3. Stage(b, j, H, C)
    BY <2>1, <2>2 DEF Stage, a, d, n
  <2>. QED  BY <1>2, <2>3 DEF a
<1>. QED  BY <1>3, <1>4

-----------------------------------------------------------------------------
(* One step of a lowered run.                                              *)

(* Once all copies of an edge were run its phis have what came in.         *)
LEMMA CopiesCross ==
    ASSUME prog \in Programs, NEW p, NEW t, NEW b, NEW S, NEW C,
           \A k \in S : IsCopy(p, list[b][k]), Moved(b, S, C),
           \A s \in Left(t) : \E k \in S : list[b][k].dst = PhiOf(t, s)
    PROVE  Crossed(p, t, C)
<1>1. SUFFICES ASSUME NEW s \in Left(t)
               PROVE  PhiOf(t, s) \in C
                        <=> Look(Collapse, Reaching(p, Len(Code(p)) + 1, s)) \in C
  BY DEF Crossed
<1>2. PICK k \in S : list[b][k].dst = PhiOf(t, s)
  OBVIOUS
<1>3. PICK u \in Targets(G, p) : \E q \in Left(u) : list[b][k] = EdgeCopy(u, q, p)
  BY DEF IsCopy
<1>4. PICK q \in Left(u) : list[b][k] = EdgeCopy(u, q, p)
  BY <1>3
<1>5. /\ list[b][k].dst = PhiOf(u, q)
      /\ list[b][k].src = Look(Collapse, Reaching(p, Len(Code(p)) + 1, q))
  BY <1>4 DEF EdgeCopy, Copy
<1>6. q = s
  BY <1>2, <1>5 DEF PhiOf
<1>. QED  BY <1>2, <1>5, <1>6 DEF Moved

(* An instruction of the body, its source replaced, does to the versions   *)
(* and those they stand for what it did before.                            *)
LEMMA BodyHeld ==
    ASSUME Placed, Supplied, Plain, NEW b \in R, NEW i \in DOMAIN Code(b), NEW H, NEW C,
           NEW pick \in BOOLEAN, pick => Code(b)[i].op \in {"set", "inc"},
           Held(b, i, H, Seen(C))
    PROVE  Held(b, i + 1, Assigned(H, Code(b)[i], pick), Seen(Assigned(C, Body(b, i), pick)))
<1>. DEFINE c == Code(b)[i]
            h == Body(b, i)
            H2 == Assigned(H, c, pick)
            C2 == Assigned(C, h, pick)
<1>1. /\ Analysed /\ prog \in Programs /\ b \in Blocks /\ i \in Nat /\ c \in Insns
      /\ c.op \in {"set", "inc", "move"} => c.dst # NoSlot
      /\ c.op = "move" => c.src # NoSlot
  <2>1. Analysed /\ prog \in Programs
    BY DEF Placed, Analysed
  <2>2. b \in Blocks
    BY <2>1, ChainIs
  <2>. QED  BY <2>1, <2>2, Shape
<1>2. /\ \A s \in Slots : c.dst # s => (s \in H2 <=> s \in H)
      /\ \A s \in Slots : c.dst = s =>
            (s \in H2 <=> pick \/ (c.op = "move" /\ c.src \in H))
  BY <1>1, AssignedIs
<1>3. Kept(Collapse)
  BY CollapseIs
<1>4. /\ h.op = c.op
      /\ h.dst = IF c.dst = NoSlot THEN Undefined ELSE DefOf(b, i)
      /\ c.op = "move" => h.src = Look(Collapse, Reaching(b, i, c.src)) /\ c.src \in Slots
  BY <1>1, BodyIs DEF Renamed, Insns
<1>5. c.dst \in Slots => DefOf(b, i) \in Named(c.dst)
  BY NamedIs
<1>6. \A v \in C2 : v \in C \/ v = h.dst
  BY DEF Assigned
<1>7. \A v : v # h.dst => (v \in C2 <=> v \in C)
  BY DEF Assigned
<1>8. h.dst \in C2 <=> pick \/ (c.op = "move" /\ h.src \in C)
  BY <1>4 DEF Assigned
<1>. HIDE DEF c, h, H2, C2
<1>9. ASSUME NEW s \in Slots, c.dst # s, NEW v \in Named(s)
      PROVE  v \in Seen(C2) <=> v \in Seen(C)
  <2>1. Look(Collapse, v) \in Named(s) /\ v \in Names
    BY <1>3, <1>9, LookKeeps DEF Names
  <2>2. Look(Collapse, v) # h.dst
    <3>1. CASE c.dst = NoSlot
      <4>1. Undefined \notin Named(s)
        BY NamedIs DEF Undefined, EntryOf, PhiOf, DefOf
      <4>. QED  BY <1>4, <2>1, <3>1, <4>1
    <3>2. CASE c.dst # NoSlot
      <4>1. c.dst \in Slots
        BY <1>1, <3>2 DEF Insns
      <4>2. DefOf(b, i) \notin Named(s)
        BY <1>5, <1>9, <4>1, NamedApart
      <4>. QED  BY <1>4, <2>1, <3>2, <4>2
    <3>. QED  BY <3>1, <3>2
  <2>. QED  BY <1>7, <2>1, <2>2 DEF Seen
<1>10. ASSUME NEW s \in Slots, c.dst = s
       PROVE  DefOf(b, i) \in Seen(C2)
                <=> pick \/ (c.op = "move" /\ Reaching(b, i, c.src) \in Seen(C))
  <2>1. c.dst # NoSlot
    BY <1>10, KAssumption DEF Slots, NoSlot
  <2>2. DefOf(b, i) \in Names /\ Look(Collapse, DefOf(b, i)) = DefOf(b, i)
    <3>1. DefOf(b, i) \in Names
      BY <1>5, <1>10 DEF Names
    <3>2. DefOf(b, i) \notin DOMAIN Collapse
      BY <1>3 DEF Kept, DefOf, PhiOf
    <3>. QED  BY <3>1, <3>2 DEF Look
  <2>3. c.op = "move" => (Reaching(b, i, c.src) \in Seen(C) <=> h.src \in C)
    <3>1. SUFFICES ASSUME c.op = "move" PROVE Reaching(b, i, c.src) \in Seen(C) <=> h.src \in C
      OBVIOUS
    <3>2. c.src \in Slots /\ h.src = Look(Collapse, Reaching(b, i, c.src))
      BY <1>4, <3>1
    <3>3. Reaching(b, i, c.src) \in Names
      BY <1>1, <3>2, ReachingNamed DEF Names
    <3>. QED  BY <3>2, <3>3 DEF Seen
  <2>4. DefOf(b, i) \in Seen(C2) <=> h.dst \in C2
    BY <1>4, <2>1, <2>2 DEF Seen
  <2>. QED  BY <1>8, <2>3, <2>4
<1>11. EntryApart /\ ((\E s \in Slots : Cardinality(Defs(s)) = 1) => Reducible)
  BY DEF Plain
<1>12. PICK S, S2 : S = Seen(C) /\ S2 = Seen(C2)
  OBVIOUS
<1>13. Held(b, i, H, S)
  BY <1>12
<1>14. \A s \in Slots : c.dst # s => (s \in H2 <=> s \in H) /\ \A v \in Named(s) : v \in S2 <=> v \in S
  BY <1>2, <1>9, <1>12
<1>15. \A s \in Slots : c.dst = s =>
           /\ s \in H2 <=> pick \/ (c.op = "move" /\ c.src \in H)
           /\ DefOf(b, i) \in S2 <=> pick \/ (c.op = "move" /\ Reaching(b, i, c.src) \in S)
  BY <1>2, <1>10, <1>12
<1>16. Held(b, i + 1, H2, S2)
  BY <1>11, <1>13, <1>14, <1>15, ExecuteHeld DEF c
<1>. QED  BY <1>12, <1>16 DEF c, h, H2, C2

(* A terminator copies are put in front of defines nothing.                *)
LEMMA TerminatorWrites ==
    ASSUME Placed, Lowered, NEW b \in R, Tails(b) > 0
    PROVE  /\ Code(b)[Len(Code(b))].dst = NoSlot
           /\ Code(b)[Len(Code(b))].op \in Terminators
           /\ \A s \in Slots : LiveAt(b, Len(Code(b)) + 1, s) => LiveAt(b, Len(Code(b)), s)
           /\ \A s \in Slots :
                 Reaching(b, Len(Code(b)), s) = Reaching(b, Len(Code(b)) + 1, s)
<1>. DEFINE a == Heads(b)
            d == Tails(b)
            n == Len(Code(b))
<1>1. Analysed /\ prog \in Programs /\ b \in Blocks
  BY ChainIs DEF Placed, Analysed
<1>2. a \in Nat /\ d \in Nat /\ n \in Nat \ {0} /\ DOMAIN Code(b) = 1 .. n
  BY <1>1, LaidIs
<1>3. Closed(Code(b))
  <2>1. LaidBy(b, list[b], a)
    BY <1>1 DEF Lowered, Heads
  <2>. QED  BY <2>1 DEF LaidBy, Tails
<1>4. G[b] # << >>
  <2>1. a + n \in a + n .. a + n + d - 1
    <3>1. d > 0
      OBVIOUS
    <3>. HIDE DEF a, d, n
    <3>. QED  BY <1>2, <3>1
  <2>2. IsCopy(b, list[b][a + n])
    BY <1>1, <2>1, LaidIs
  <2>3. PICK t \in Targets(G, b) : TRUE
    BY <2>2, CopyIs
  <2>. QED  BY <1>1, <2>3, WayOn
<1>5. Code(b)[n].dst = NoSlot /\ Code(b)[n].op \in Terminators
  <2>1. Closed(prog.code[b]) /\ Last(prog.code[b]).dst # NoSlot => prog.succ[b] = << >>
    BY <1>1, ProgramsAssumption DEF Wired
  <2>. QED  BY <1>3, <1>4, <2>1 DEF Code, G, Last, Closed
<1>6. \A s \in Slots : Code(b)[n].dst # s
  BY <1>5, KAssumption DEF Slots, NoSlot
<1>. HIDE DEF n
<1>7. n \in DOMAIN Code(b)
  BY <1>2
<1>8. ASSUME NEW s \in Slots, LiveAt(b, n + 1, s) PROVE LiveAt(b, n, s)
  BY <1>1, <1>6, <1>7, <1>8, LiveAtEdges
<1>9. ASSUME NEW s \in Slots PROVE Reaching(b, n, s) = Reaching(b, n + 1, s)
  BY <1>1, <1>6, <1>7, LastDefNext DEF Reaching
<1>. QED  BY <1>5, <1>8, <1>9 DEF n

HeldAfter(H, b, insn, pick) ==
    IF insn.of = 0 THEN H ELSE Assigned(H, Code(b)[insn.of], pick)

(* Among the copies in front of a block.                                   *)
LEMMA HeadStep ==
    ASSUME Placed, Supplied, Settled, Plain, Lowered, NEW b \in R, NEW j \in 1 .. Heads(b),
           NEW H, NEW C,
           Held(b - 1, Len(Code(b - 1)) + 1, H, Seen(C)), Moved(b, 1 .. j - 1, C)
    PROVE  Stage(b, j + 1, H, Assigned(C, list[b][j], FALSE))
<1>. DEFINE a == Heads(b)
            p == b - 1
            C2 == Assigned(C, list[b][j], FALSE)
<1>1. Analysed /\ prog \in Programs /\ b \in Blocks
  BY ChainIs DEF Placed, Analysed
<1>2. a \in Nat /\ j \in Nat /\ j >= 1 /\ j <= a /\ \A k \in 1 .. a : IsCopy(p, list[b][k])
  BY <1>1, LaidIs
<1>3. LaidBy(b, list[b], a)
  BY <1>1 DEF Lowered, Heads
<1>. HIDE DEF a
<1>4. a > 0
  BY <1>2
<1>5. p \in R /\ ~Closed(Code(p)) /\ p \in Blocks
  <2>1. p \in R /\ ~Closed(Code(p))
    BY <1>3, <1>4 DEF LaidBy
  <2>. QED  BY <1>1, <2>1, ChainIs
<1>. HIDE DEF p
<1>6. b \in Targets(G, p)
  <2>1. 1 \in 1 .. a
    BY <1>2
  <2>2. PICK t \in Targets(G, p) : TRUE
    BY <1>2, <2>1, CopyIs
  <2>3. t = p + 1
    BY <1>1, <1>5, <2>2, WayOn
  <2>4. p + 1 = b
    BY <1>1 DEF p, Blocks
  <2>. QED  BY <2>2, <2>3, <2>4
<1>7. Held(p, Len(Code(p)) + 1, H, Seen(C2))
  <2>1. IsCopy(p, list[b][j])
    BY <1>2
  <2>2. Held(p, Len(Code(p)) + 1, H, Seen(C))
    BY DEF p
  <2>. QED  BY <1>5, <2>1, <2>2, CopyHeld
<1>8. ASSUME NEW k \in 1 .. j PROVE list[b][k].dst \in C2 <=> list[b][k].src \in C2
  <2>1. IsCopy(p, list[b][j]) /\ IsCopy(p, list[b][k])
    BY <1>2
  <2>2. CASE k = j
    <3>1. PICK v, w : list[b][j] = Copy(v, w)
      BY <2>1, CopyIs
    <3>2. list[b][j].dst = v /\ list[b][j].src = w
      BY <3>1 DEF Copy
    <3>3. (v \in C2 <=> w \in C) /\ (w \in C2 <=> w \in C)
      BY <3>1, CopyMoves
    <3>. QED  BY <2>2, <3>2, <3>3
  <2>3. CASE k # j
    <3>1. k \in 1 .. j - 1
      BY <1>2, <2>3
    <3>2. list[b][k].dst \in C <=> list[b][k].src \in C
      BY <3>1 DEF Moved
    <3>. QED  BY <1>5, <2>1, <3>2, CopyKeepsMoved
  <2>. QED  BY <2>2, <2>3
<1>. HIDE DEF C2
<1>9. PICK i : i = j + 1
  OBVIOUS
<1>10. CASE j < a
  <2>1. i \in 1 .. a /\ i - 1 = j
    BY <1>2, <1>9, <1>10
  <2>2. Moved(b, 1 .. i - 1, C2)
    BY <1>8, <2>1 DEF Moved
  <2>3. Stage(b, i, H, C2)
    BY <1>7, <2>1, <2>2 DEF Stage, a, p
  <2>. QED  BY <1>9, <2>3 DEF C2
<1>11. CASE j = a
  <2>1. Moved(b, 1 .. a, C2)
    BY <1>8, <1>11 DEF Moved
  <2>2. \A s \in Left(b) : \E k \in 1 .. a : list[b][k].dst = PhiOf(b, s)
    BY <1>3, <1>5, <1>6 DEF LaidBy, p
  <2>3. Crossed(p, b, C2)
    BY <1>1, <1>2, <2>1, <2>2, CopiesCross
  <2>4. Held(b, 1, H, Seen(C2))
    BY <1>5, <1>6, <1>7, <2>3, CrossHeld
  <2>5. Stage(b, Heads(b) + 1, H, C2)
    BY <1>1, <2>4, EnterBody
  <2>. QED  BY <1>11, <2>5 DEF C2, a
<1>12. j < a \/ j = a
  BY <1>2
<1>. QED  BY <1>10, <1>11, <1>12

(* In the body, before its last instruction.                               *)
LEMMA BodyStep ==
    ASSUME Placed, Supplied, Plain, Lowered, NEW b \in R,
           NEW i \in 1 .. Len(Code(b)) - 1, NEW H, NEW C, NEW pick \in BOOLEAN,
           pick => Code(b)[i].op \in {"set", "inc"}, Held(b, i, H, Seen(C))
    PROVE  Stage(b, Heads(b) + i + 1, Assigned(H, Code(b)[i], pick),
                 Assigned(C, Body(b, i), pick))
<1>. DEFINE a == Heads(b)
            d == Tails(b)
            n == Len(Code(b))
            H2 == Assigned(H, Code(b)[i], pick)
            C2 == Assigned(C, Body(b, i), pick)
<1>1. Analysed /\ prog \in Programs /\ b \in Blocks
  BY ChainIs DEF Placed, Analysed
<1>2. a \in Nat /\ d \in Nat /\ n \in Nat \ {0} /\ DOMAIN Code(b) = 1 .. n
  BY <1>1, LaidIs
<1>3. i \in 1 .. n - 1
  OBVIOUS
<1>. HIDE DEF a, d, n
<1>4. i \in DOMAIN Code(b)
  BY <1>2, <1>3
<1>5. Held(b, i + 1, H2, Seen(C2))
  BY <1>4, BodyHeld
<1>. HIDE DEF H2, C2
<1>6. PICK k : k = a + i + 1
  OBVIOUS
<1>7. CASE i + 1 < n
  <2>1. k \in a + 1 .. a + n - 1 /\ k - a = i + 1
    BY <1>2, <1>3, <1>6, <1>7
  <2>2. Held(b, k - a, H2, Seen(C2))
    BY <1>5, <2>1
  <2>3. Stage(b, k, H2, C2)
    BY <2>1, <2>2 DEF Stage, a, n
  <2>. QED  BY <1>6, <2>3 DEF H2, C2, a
<1>8. CASE i + 1 = n
  <2>1. k \in a + n .. a + n + d /\ k - 1 < a + n
    BY <1>2, <1>3, <1>6, <1>8
  <2>2. Moved(b, a + n .. k - 1, C2)
    <3>1. \A x \in a + n .. k - 1 : FALSE
      BY <1>2, <1>3, <1>6, <2>1
    <3>. QED  BY <3>1 DEF Moved
  <2>3. Held(b, n, H2, Seen(C2))
    BY <1>5, <1>8
  <2>4. Stage(b, k, H2, C2)
    BY <2>1, <2>2, <2>3 DEF Stage, a, n, d
  <2>. QED  BY <1>6, <2>4 DEF H2, C2, a
<1>. QED  BY <1>2, <1>3, <1>7, <1>8

(* Among the copies in front of a terminator.                              *)
LEMMA TailStep ==
    ASSUME Placed, Supplied, Lowered, NEW b \in R,
           NEW j \in Heads(b) + Len(Code(b)) .. Heads(b) + Len(Code(b)) + Tails(b) - 1,
           NEW H, NEW C, Held(b, Len(Code(b)), H, Seen(C)),
           Moved(b, Heads(b) + Len(Code(b)) .. j - 1, C)
    PROVE  Stage(b, j + 1, H, Assigned(C, list[b][j], FALSE))
<1>. DEFINE a == Heads(b)
            d == Tails(b)
            n == Len(Code(b))
            C2 == Assigned(C, list[b][j], FALSE)
<1>1. Analysed /\ prog \in Programs /\ b \in Blocks
  BY ChainIs DEF Placed, Analysed
<1>2. /\ a \in Nat /\ d \in Nat /\ n \in Nat \ {0}
      /\ \A k \in a + n .. a + n + d - 1 : IsCopy(b, list[b][k])
  BY <1>1, LaidIs
<1>3. j \in a + n .. a + n + d - 1 /\ Moved(b, a + n .. j - 1, C)
  OBVIOUS
<1>4. Held(b, n, H, Seen(C2))
  <2>1. d > 0
    <3>. HIDE DEF a, d, n
    <3>. QED  BY <1>2, <1>3
  <2>2. /\ \A s \in Slots : LiveAt(b, n + 1, s) => LiveAt(b, n, s)
        /\ \A s \in Slots : Reaching(b, n, s) = Reaching(b, n + 1, s)
    BY <2>1, TerminatorWrites
  <2>3. IsCopy(b, list[b][j])
    BY <1>2, <1>3
  <2>. QED  BY <2>2, <2>3, CopyHeld
<1>. HIDE DEF a, d, n
<1>5. ASSUME NEW k \in a + n .. j PROVE list[b][k].dst \in C2 <=> list[b][k].src \in C2
  <2>1. IsCopy(b, list[b][j]) /\ IsCopy(b, list[b][k])
    BY <1>2, <1>3
  <2>2. CASE k = j
    <3>1. PICK v, w : list[b][j] = Copy(v, w)
      BY <2>1, CopyIs
    <3>2. list[b][j].dst = v /\ list[b][j].src = w
      BY <3>1 DEF Copy
    <3>3. (v \in C2 <=> w \in C) /\ (w \in C2 <=> w \in C)
      BY <3>1, CopyMoves
    <3>. QED  BY <2>2, <3>2, <3>3
  <2>3. CASE k # j
    <3>1. k \in a + n .. j - 1
      BY <1>2, <1>3, <2>3
    <3>2. list[b][k].dst \in C <=> list[b][k].src \in C
      BY <1>3, <3>1 DEF Moved
    <3>. QED  BY <2>1, <3>2, CopyKeepsMoved
  <2>. QED  BY <2>2, <2>3
<1>. HIDE DEF C2
<1>6. PICK k : k = j + 1
  OBVIOUS
<1>7. k \in a + n .. a + n + d /\ k - 1 = j
  BY <1>2, <1>3, <1>6
<1>8. Moved(b, a + n .. k - 1, C2)
  BY <1>5, <1>7 DEF Moved
<1>9. Stage(b, k, H, C2)
  BY <1>4, <1>7, <1>8 DEF Stage, a, n, d
<1>. QED  BY <1>6, <1>9 DEF C2

(* The last instruction of the body.                                       *)
LEMMA LastStep ==
    ASSUME Placed, Supplied, Plain, Lowered, NEW b \in R, NEW H, NEW C, NEW pick \in BOOLEAN,
           pick => Code(b)[Len(Code(b))].op \in {"set", "inc"},
           Held(b, Len(Code(b)), H, Seen(C)),
           Moved(b, Heads(b) + Len(Code(b)) .. Heads(b) + Len(Code(b)) + Tails(b) - 1, C)
    PROVE  Stage(b, Len(list[b]) + 1, Assigned(H, Code(b)[Len(Code(b))], pick),
                 Assigned(C, Body(b, Len(Code(b))), pick))
<1>. DEFINE a == Heads(b)
            d == Tails(b)
            n == Len(Code(b))
            h == Body(b, n)
            H2 == Assigned(H, Code(b)[n], pick)
            C2 == Assigned(C, h, pick)
<1>1. Analysed /\ prog \in Programs /\ b \in Blocks
  BY ChainIs DEF Placed, Analysed
<1>2. /\ a \in Nat /\ d \in Nat /\ n \in Nat \ {0} /\ DOMAIN Code(b) = 1 .. n
      /\ Len(list[b]) = a + n + d
      /\ \A k \in a + n .. a + n + d - 1 : IsCopy(b, list[b][k])
  BY <1>1, LaidIs
<1>3. n \in DOMAIN Code(b)
  <2>. HIDE DEF n
  <2>. QED  BY <1>2
<1>4. Held(b, n + 1, H2, Seen(C2))
  BY <1>3, BodyHeld
<1>5. ASSUME NEW k \in a + n .. a + n + d - 1
      PROVE  list[b][k].dst \in C2 <=> list[b][k].src \in C2
  <2>1. d > 0
    <3>. HIDE DEF a, d, n
    <3>. QED  BY <1>2
  <2>2. Code(b)[n].dst = NoSlot /\ Code(b)[n].op \in Terminators
    BY <2>1, TerminatorWrites
  <2>3. ~pick /\ h.op # "move" /\ h.dst = Undefined
    BY <2>2, BodyIs DEF Terminators, Renamed
  <2>. HIDE DEF h
  <2>4. \A v : v # Undefined => (v \in C2 <=> v \in C)
    BY <2>3 DEF Assigned
  <2>5. list[b][k].dst \in C <=> list[b][k].src \in C
    BY DEF Moved
  <2>6. list[b][k].dst # Undefined /\ list[b][k].src # Undefined
    <3>1. PICK t \in Targets(G, b) : \E s \in Left(t) : list[b][k] = EdgeCopy(t, s, b)
      BY <1>2 DEF IsCopy
    <3>2. PICK s \in Left(t) : list[b][k] = EdgeCopy(t, s, b)
      BY <3>1
    <3>3. s \in Slots /\ n + 1 \in Nat
      <4>1. t \in Blocks
        BY <1>1, WayOn
      <4>2. s \in Slots
        BY <4>1 DEF Left, Placed
      <4>. HIDE DEF n
      <4>. QED  BY <1>2, <4>2
    <3>4. Look(Collapse, Reaching(b, n + 1, s)) \in Named(s)
      BY <1>1, <3>3, ReachingNamed, CollapseIs, LookKeeps
    <3>5. Undefined \notin Named(s)
      BY NamedIs DEF Undefined, EntryOf, PhiOf, DefOf
    <3>. QED  BY <3>2, <3>4, <3>5 DEF EdgeCopy, Copy, PhiOf, Undefined
  <2>. QED  BY <2>4, <2>5, <2>6
<1>. HIDE DEF a, d, n, H2, C2
<1>6. PICK k : k = Len(list[b]) + 1
  OBVIOUS
<1>7. k = a + n + d + 1
  BY <1>2, <1>6
<1>8. Moved(b, a + n .. a + n + d - 1, C2)
  BY <1>5 DEF Moved
<1>9. Stage(b, k, H2, C2)
  BY <1>4, <1>7, <1>8 DEF Stage, a, n, d
<1>. QED  BY <1>6, <1>9 DEF H2, C2, n

-----------------------------------------------------------------------------
(* A whole step of the run, wherever it is in its block.                   *)

LEMMA ExecuteStage ==
    ASSUME Placed, Supplied, Settled, Plain, Lowered, NEW b \in R, NEW j \in 1 .. Len(list[b]),
           NEW H, NEW C, NEW pick \in BOOLEAN, pick => list[b][j].op \in {"set", "inc"},
           Stage(b, j, H, C)
    PROVE  Stage(b, j + 1, HeldAfter(H, b, list[b][j], pick), Assigned(C, list[b][j], pick))
<1>. DEFINE a == Heads(b)
            d == Tails(b)
            n == Len(Code(b))
            insn == list[b][j]
            H2 == HeldAfter(H, b, insn, pick)
<1>1. Analysed /\ prog \in Programs /\ b \in Blocks
  BY ChainIs DEF Placed, Analysed
<1>2. /\ a \in Nat /\ d \in Nat /\ n \in Nat \ {0} /\ DOMAIN Code(b) = 1 .. n
      /\ Len(list[b]) = a + n + d
      /\ \A k \in 1 .. a : IsCopy(b - 1, list[b][k])
      /\ \A k \in a + n .. a + n + d - 1 : IsCopy(b, list[b][k])
      /\ \A i \in 1 .. n - 1 : list[b][a + i] = Body(b, i)
      /\ list[b][Len(list[b])] = Body(b, n)
  BY <1>1, LaidIs
<1>3. \/ /\ j \in 1 .. a
         /\ Held(b - 1, Len(Code(b - 1)) + 1, H, Seen(C)) /\ Moved(b, 1 .. j - 1, C)
      \/ j \in a + 1 .. a + n - 1 /\ Held(b, j - a, H, Seen(C))
      \/ j \in a + n .. a + n + d /\ Held(b, n, H, Seen(C)) /\ Moved(b, a + n .. j - 1, C)
      \/ j = a + n + d + 1
  BY DEF Stage
<1>4. j \in Nat /\ j >= 1 /\ j <= a + n + d
  <2>1. j \in 1 .. a + n + d
    BY <1>2
  <2>. HIDE DEF a, n, d
  <2>. QED  BY <1>2, <2>1
<1>5. ASSUME NEW p, IsCopy(p, insn) PROVE pick = FALSE /\ H2 = H
  <2>1. insn.op = "move" /\ insn.of = 0
    BY <1>5, CopyIs
  <2>. QED  BY <2>1 DEF HeldAfter
<1>6. ASSUME NEW i \in 1 .. n, insn = Body(b, i)
      PROVE  H2 = Assigned(H, Code(b)[i], pick) /\ (pick => Code(b)[i].op \in {"set", "inc"})
  <2>1. insn.of = i /\ insn.op = Code(b)[i].op /\ i # 0
    BY <1>6, BodyIs
  <2>. QED  BY <2>1 DEF HeldAfter
<1>7. CASE /\ j \in 1 .. a
           /\ Held(b - 1, Len(Code(b - 1)) + 1, H, Seen(C)) /\ Moved(b, 1 .. j - 1, C)
  <2>1. IsCopy(b - 1, insn)
    BY <1>2, <1>7
  <2>2. Stage(b, j + 1, H, Assigned(C, insn, FALSE))
    BY <1>7, HeadStep
  <2>. QED  BY <1>5, <2>1, <2>2
<1>8. CASE j \in a + 1 .. a + n - 1 /\ Held(b, j - a, H, Seen(C))
  <2>1. PICK i \in 1 .. n - 1 : i = j - a /\ j = a + i
    <3>1. j - a \in 1 .. n - 1 /\ j = a + (j - a)
      <4>. HIDE DEF a, n
      <4>. QED  BY <1>2, <1>4, <1>8
    <3>. QED  BY <3>1
  <2>2. i \in 1 .. n
    <3>. HIDE DEF n
    <3>. QED  BY <1>2
  <2>3. insn = Body(b, i)
    BY <1>2, <2>1
  <2>4. Held(b, i, H, Seen(C))
    BY <1>8, <2>1
  <2>5. Stage(b, a + i + 1, Assigned(H, Code(b)[i], pick), Assigned(C, Body(b, i), pick))
    BY <1>6, <2>2, <2>3, <2>4, BodyStep
  <2>. QED  BY <1>6, <2>1, <2>2, <2>3, <2>5
<1>9. CASE j \in a + n .. a + n + d /\ Held(b, n, H, Seen(C)) /\ Moved(b, a + n .. j - 1, C)
  <2>1. CASE j # a + n + d
    <3>1. j \in a + n .. a + n + d - 1
      <4>. HIDE DEF a, d, n
      <4>. QED  BY <1>2, <1>4, <1>9, <2>1
    <3>2. IsCopy(b, insn)
      BY <1>2, <3>1
    <3>3. Stage(b, j + 1, H, Assigned(C, insn, FALSE))
      BY <1>9, <3>1, TailStep
    <3>. QED  BY <1>5, <3>2, <3>3
  <2>2. CASE j = a + n + d
    <3>1. n \in 1 .. n
      <4>. HIDE DEF n
      <4>. QED  BY <1>2
    <3>2. insn = Body(b, n) /\ j = Len(list[b])
      BY <1>2, <2>2
    <3>3. Moved(b, a + n .. a + n + d - 1, C)
      <4>. HIDE DEF a, d, n
      <4>1. j - 1 = a + n + d - 1
        BY <1>2, <1>4, <2>2
      <4>2. Moved(b, a + n .. j - 1, C)
        BY <1>9
      <4>. QED  BY <4>1, <4>2
    <3>4. Stage(b, Len(list[b]) + 1, Assigned(H, Code(b)[n], pick), Assigned(C, Body(b, n), pick))
      BY <1>6, <1>9, <3>1, <3>2, <3>3, LastStep
    <3>. QED  BY <1>6, <3>1, <3>2, <3>4
  <2>. QED  BY <2>1, <2>2
<1>10. j # a + n + d + 1
  <2>. HIDE DEF a, d, n
  <2>. QED  BY <1>2, <1>4
<1>. QED  BY <1>3, <1>7, <1>8, <1>9, <1>10

(* Out of a block and into the next.                                       *)
LEMMA FollowStage ==
    ASSUME Placed, Supplied, Settled, Plain, Lowered, NEW b \in R, NEW H, NEW C,
           Stage(b, Len(list[b]) + 1, H, C), NEW k \in DOMAIN G[b]
    PROVE  LET t == G[b][k]
           IN  t \in R /\ Stage(t, IF FallsThrough(b, k) THEN 1 ELSE door[t], H, C)
<1>. DEFINE a == Heads(b)
            d == Tails(b)
            n == Len(Code(b))
            S == a + n .. a + n + d - 1
            t == G[b][k]
            u == Heads(t)
<1>1. Analysed /\ prog \in Programs /\ b \in Blocks /\ G \in Graphs
  BY ChainIs, Shape DEF Placed, Analysed
<1>2. /\ a \in Nat /\ d \in Nat /\ n \in Nat \ {0}
      /\ Len(list[b]) = a + n + d
      /\ \A x \in S : IsCopy(b, list[b][x])
  BY <1>1, LaidIs
<1>3. Held(b, n + 1, H, Seen(C)) /\ Moved(b, S, C)
  <2>1. PICK j : j = Len(list[b]) + 1
    OBVIOUS
  <2>2. \/ j \in 1 .. a
        \/ j \in a + 1 .. a + n - 1
        \/ j \in a + n .. a + n + d
        \/ Held(b, n + 1, H, Seen(C)) /\ Moved(b, S, C)
    <3>1. Stage(b, j, H, C)
      BY <2>1
    <3>. QED  BY <3>1 DEF Stage
  <2>3. j = a + n + d + 1
    BY <1>2, <2>1
  <2>. HIDE DEF a, n, d, S
  <2>. QED  BY <1>2, <2>2, <2>3
<1>4. t \in Targets(G, b)
  <2>1. DOMAIN G[b] = 1 .. Len(G[b])
    BY <1>1 DEF Graphs
  <2>. QED  BY <2>1 DEF Targets
<1>5. t \in Blocks /\ (~Closed(Code(b)) => t = b + 1)
  BY <1>1, <1>4, WayOn
<1>6. LaidBy(b, list[b], a) /\ LaidBy(t, list[t], u)
  BY <1>1, <1>5 DEF Lowered, Heads
<1>7. Closed(list[b]) <=> Closed(Code(b))
  <2>1. 1 \in 1 .. Len(list[b]) + 1
    <3>. HIDE DEF a, n, d
    <3>. QED  BY <1>2
  <2>. QED  BY <1>1, <2>1, LeavesLast
<1>8. Last(list[b]).op = Last(Code(b)).op
  <2>1. 1 \in 1 .. Len(list[b]) + 1
    <3>. HIDE DEF a, n, d
    <3>. QED  BY <1>2
  <2>. QED  BY <1>1, <2>1, LeavesLast
<1>9. u \in Nat /\ door[t] = u + 1
  BY <1>1, <1>5, LaidIs DEF Heads, Lowered
<1>. HIDE DEF t
<1>10. CASE Closed(Code(b))
  <2>1. \A s \in Left(t) : \E x \in S : list[b][x].dst = PhiOf(t, s)
    BY <1>4, <1>6, <1>10 DEF LaidBy, Tails
  <2>2. Crossed(b, t, C)
    BY <1>1, <1>2, <1>3, <2>1, CopiesCross
  <2>3. t \in R /\ Held(t, 1, H, Seen(C))
    BY <1>3, <1>4, <2>2, CrossHeld
  <2>4. Stage(t, u + 1, H, C)
    BY <1>1, <1>5, <2>3, EnterBody
  <2>5. (IF FallsThrough(b, k) THEN 1 ELSE door[t]) = u + 1
    <3>1. CASE FallsThrough(b, k)
      <4>1. Last(Code(b)).op = "cond" /\ k = 2
        BY <1>7, <1>8, <1>10, <3>1 DEF FallsThrough
      <4>2. t = b + 1
        BY <1>1, <4>1, ProgramsAssumption DEF Wired, t, G, Code
      <4>3. u = 0
        <5>1. t - 1 = b
          BY <1>1, <4>2 DEF Blocks
        <5>2. ~(u > 0)
          BY <1>6, <1>10, <5>1 DEF LaidBy
        <5>. HIDE DEF u
        <5>. QED  BY <1>9, <5>2
      <4>. QED  BY <3>1, <4>3
    <3>2. CASE ~FallsThrough(b, k)
      BY <1>9, <3>2
    <3>. QED  BY <3>1, <3>2
  <2>. QED  BY <2>3, <2>4, <2>5 DEF t
<1>11. CASE ~Closed(Code(b))
  <2>1. FallsThrough(b, k)
    BY <1>7, <1>11 DEF FallsThrough
  <2>2. t - 1 = b
    BY <1>1, <1>5, <1>11 DEF Blocks
  <2>3. t \in R
    BY <1>1, <1>4, Shape, ReachFacts DEF R
  <2>4. CASE u = 0
    <3>1. Left(t) = {}
      <4>1. \A s \in Left(t) : \E x \in 1 .. u : list[t][x].dst = PhiOf(t, s)
        BY <1>4, <1>6, <1>11, <2>2 DEF LaidBy
      <4>. QED  BY <2>4, <4>1
    <3>2. Crossed(b, t, C)
      BY <3>1 DEF Crossed
    <3>3. Held(t, 1, H, Seen(C))
      BY <1>3, <1>4, <3>2, CrossHeld
    <3>4. Stage(t, u + 1, H, C)
      BY <1>1, <1>5, <3>3, EnterBody
    <3>5. u + 1 = 1
      BY <2>4
    <3>. QED  BY <2>1, <2>3, <3>4, <3>5 DEF t
  <2>5. CASE u > 0
    <3>1. PICK j : j = 1
      OBVIOUS
    <3>2. j \in 1 .. Heads(t) /\ j - 1 < 1
      BY <1>9, <2>5, <3>1
    <3>3. Moved(t, 1 .. j - 1, C)
      BY <3>2 DEF Moved
    <3>4. Held(t - 1, Len(Code(t - 1)) + 1, H, Seen(C))
      BY <1>3, <2>2
    <3>5. Stage(t, j, H, C)
      BY <3>2, <3>3, <3>4 DEF Stage
    <3>. QED  BY <2>1, <2>3, <3>1, <3>5 DEF t
  <2>. QED  BY <1>9, <2>4, <2>5
<1>. QED  BY <1>10, <1>11

LEMMA StartStage ==
    ASSUME Placed, Supplied, EntryApart, Lowered, NEW H, NEW C,
           \/ H = {} /\ C = {}
           \/ \E s \in Slots : H = {s} /\ C = {EntryOf(s)}
    PROVE  Stage(Entry, 1, H, C)
<1>1. Analysed /\ prog \in Programs /\ Entry \in Blocks /\ R \subseteq Blocks
  BY Shape, ReachFacts DEF Placed, Analysed, R
<1>2. Heads(Entry) = 0
  <2>1. Heads(Entry) \in Nat
    BY <1>1, LaidIs
  <2>2. LaidBy(Entry, list[Entry], Heads(Entry))
    BY <1>1 DEF Lowered, Heads
  <2>3. ~(Heads(Entry) > 0)
    <3>1. Entry - 1 \notin R
      BY <1>1 DEF Entry, Blocks
    <3>. QED  BY <2>2, <3>1 DEF LaidBy
  <2>. QED  BY <2>1, <2>3
<1>3. ASSUME NEW s \in Slots PROVE s \in H <=> EntryOf(s) \in Seen(C)
  <2>1. EntryOf(s) \in Names
    BY NamedIs DEF Names
  <2>2. EntryOf(s) \notin DOMAIN Collapse
    BY CollapseIs DEF Kept, EntryOf, PhiOf
  <2>3. s \in H <=> EntryOf(s) \in C
    BY DEF EntryOf
  <2>. QED  BY <2>1, <2>2, <2>3 DEF Seen, Look
<1>4. Held(Entry, 1, H, Seen(C))
  BY <1>3, StartHeld
<1>5. Stage(Entry, Heads(Entry) + 1, H, C)
  BY <1>1, <1>4, EnterBody
<1>. QED  BY <1>2, <1>5

-----------------------------------------------------------------------------
(* The invariant of the lowered listing.                                   *)

(* A run of the lowered listing is somewhere in a block, in step with the  *)
(* program's.                                                              *)
LoweredRan ==
    \E b \in R : \E j \in 1 .. Len(list[b]) + 1 : \E H, C :
        at = <<b, j>> /\ holds = H /\ carries = C /\ Stage(b, j, H, C)

(* What the passes have left so far, and where a run of the lowered        *)
(* listing is: inductive together with SsaInv.                             *)
LowInv ==
    /\ EntryApart /\ form \in {"renamed", "propagated"} => Supplied
    /\ EntryApart /\ form = "propagated" => Origins
    /\ EntryApart /\ form \in {"lowered", "final"} => Placed /\ Supplied
    /\ EntryApart /\ Settled /\ form \in {"lowered", "final"} => Supported
    /\ Plain /\ Lowerable /\ form = "lowered" => Lowered /\ (at # << >> => LoweredRan)

LEMMA SameCollapse ==
    ASSUME prog' = prog, chain' = chain, phis' = phis, args' = args
    PROVE  /\ Collapse' = Collapse /\ Supplied' = Supplied
           /\ Settled' = Settled /\ Lowerable' = Lowerable /\ Names' = Names
           /\ \A t : Left(t)' = Left(t)
           /\ \A p, insn : IsCopy(p, insn)' <=> IsCopy(p, insn)
           /\ \A b, w, a : LaidBy(b, w, a)' <=> LaidBy(b, w, a)
<1>1. Collapse' = Collapse
  BY DEF Collapse, Round, PhiSet, PhiArgs, Look, G, PhiOf, Undefined
<1>2. G' = G /\ R' = R /\ \A b : Code(b)' = Code(b)
  BY SameBody
<1>3. ASSUME NEW p, NEW s
      PROVE  Reaching(p, Len(Code(p)) + 1, s)' = Reaching(p, Len(Code(p)) + 1, s)
  BY DEF Reaching, Inherited, Exit, LastDef, Defined, Code, DefOf, PhiOf, EntryOf
<1>4. Supplied' = Supplied
  BY <1>2, <1>3 DEF Supplied, Undefined
<1>5. Settled' = Settled
  BY <1>1 DEF Settled, Flat
<1>6. Lowerable' = Lowerable
  BY <1>2, <1>5 DEF Lowerable, NoLoneEnds, Closed
<1>7. Names' = Names
  <2>1. ASSUME NEW s PROVE Named(s)' = Named(s)
    BY DEF Named, Code, R, G, EntryOf, PhiOf, DefOf
  <2>. QED  BY <2>1 DEF Names
<1>8. ASSUME NEW t PROVE Left(t)' = Left(t)
  BY <1>1 DEF Left, PhiOf
<1>9. ASSUME NEW p, NEW insn PROVE IsCopy(p, insn)' <=> IsCopy(p, insn)
  <2>1. ASSUME NEW t, NEW s PROVE EdgeCopy(t, s, p)' = EdgeCopy(t, s, p)
    BY <1>1, <1>3 DEF EdgeCopy, Copy, Look, PhiOf
  <2>. QED  BY <1>2, <1>8, <2>1 DEF IsCopy
<1>10. ASSUME NEW b, NEW w, NEW a PROVE LaidBy(b, w, a)' <=> LaidBy(b, w, a)
  <2>1. \A p, i : Renamed(p, i)' = Renamed(p, i)
    BY SameVersions
  <2>2. ASSUME NEW v PROVE Look(Collapse, v)' = Look(Collapse, v)
    BY <1>1 DEF Look
  <2>. QED  BY <1>2, <1>8, <1>9, <2>1, <2>2 DEF LaidBy, Closed, PhiOf
<1>. QED  BY <1>1, <1>4, <1>5, <1>6, <1>7, <1>8, <1>9, <1>10

LEMMA SameStage ==
    ASSUME UNCHANGED <<prog, analysis, tables, list, door>>
    PROVE  /\ Origins' = Origins /\ Lowered' = Lowered /\ Supported' = Supported
           /\ \A b, j, H, C : Stage(b, j, H, C)' <=> Stage(b, j, H, C)
<1>1. /\ prog' = prog /\ chain' = chain /\ frontier' = frontier /\ live' = live
      /\ phis' = phis /\ args' = args /\ list' = list /\ door' = door
  BY DEF analysis, tables
<1>2. G' = G /\ R' = R /\ \A b : Code(b)' = Code(b)
  BY <1>1, SameBody
<1>3. Collapse' = Collapse /\ Names' = Names /\ \A b, w, a : LaidBy(b, w, a)' <=> LaidBy(b, w, a)
  BY <1>1, SameCollapse
<1>4. Origins' = Origins
  BY <1>1, <1>2, <1>3 DEF Origins, Renamings
<1>5. Lowered' = Lowered
  <2>1. ASSUME NEW b \in Blocks
        PROVE  LaidBy(b, list[b], door[b] - 1)' <=> LaidBy(b, list[b], door[b] - 1)
    <3>1. PICK w, a : w = list[b] /\ a = door[b] - 1 /\ w = list'[b] /\ a = door'[b] - 1
      BY <1>1
    <3>. QED  BY <1>3, <3>1
  <2>. QED  BY <1>1, <2>1 DEF Lowered
<1>6. Supported' = Supported
  BY <1>1, <1>2 DEF Supported
<1>7. ASSUME NEW b, NEW i, NEW H, NEW C
      PROVE  Held(b, i, H, C)' <=> Held(b, i, H, C)
  BY <1>1
     DEF Held, Tracked, ZonesTracked, Reaching, Inherited, Exit, LastDef, Defined,
         Code, DefOf, PhiOf, EntryOf, Lone, Zone, Header, Makers, Made, Above, Behind, R, G,
         LiveAt, Defs, Sites
<1>8. ASSUME NEW C PROVE Seen(C)' = Seen(C)
  BY <1>3 DEF Seen, Look
<1>9. ASSUME NEW b, NEW S, NEW C PROVE Moved(b, S, C)' <=> Moved(b, S, C)
  BY <1>1 DEF Moved
<1>10. ASSUME NEW b PROVE Heads(b)' = Heads(b) /\ Tails(b)' = Tails(b)
  BY <1>1, <1>2 DEF Heads, Tails
<1>11. ASSUME NEW b, NEW j, NEW H, NEW C PROVE Stage(b, j, H, C)' <=> Stage(b, j, H, C)
  <2>1. ASSUME NEW c, NEW n PROVE Held(c, n, H, Seen(C))' <=> Held(c, n, H, Seen(C))
    <3>1. PICK S : S = Seen(C)
      OBVIOUS
    <3>2. S = Seen(C)'
      BY <1>8, <3>1
    <3>. QED  BY <1>7, <3>1, <3>2
  <2>. QED  BY <1>2, <1>9, <1>10, <2>1 DEF Stage
<1>. QED  BY <1>4, <1>5, <1>6, <1>11

-----------------------------------------------------------------------------
(* A lowered run step by step, and the invariant it keeps.                 *)

LEMMA RenameSupplies ==
    ASSUME Placed, EntryApart, Rename
    PROVE  Supplied'
<1>1. prog' = prog /\ chain' = chain /\ phis' = phis
  BY DEF Rename, analysis
<1>2. G' = G /\ R' = R /\ \A b : Code(b)' = Code(b)
  BY <1>1, SameBody
<1>3. ASSUME NEW p, NEW s
      PROVE  Reaching(p, Len(Code(p)) + 1, s)' = Reaching(p, Len(Code(p)) + 1, s)
  BY <1>1 DEF Reaching, Inherited, Exit, LastDef, Defined, Code, DefOf, PhiOf, EntryOf
<1>4. ASSUME NEW b \in Blocks, NEW s \in phis[b], NEW p \in Preds(G, b)
      PROVE  args'[b][s][p] =
                IF p \in R THEN Reaching(p, Len(Code(p)) + 1, s) ELSE Undefined
  BY <1>4 DEF Rename, R
<1>. QED  BY <1>1, <1>2, <1>3, <1>4 DEF Supplied, Undefined

(* A step of a lowered run.                                                *)
LEMMA LoweredExecutes ==
    ASSUME Placed, Supplied, Settled, Plain, Lowered, LoweredRan, Execute
    PROVE  LoweredRan'
<1>1. PICK b, j, H, C :
         /\ b \in R /\ j \in 1 .. Len(list[b]) + 1
         /\ at = <<b, j>> /\ holds = H /\ carries = C /\ Stage(b, j, H, C)
  BY DEF LoweredRan
<1>2. /\ prog \in Programs /\ b \in Blocks /\ at[1] = b /\ at[2] = j /\ at # << >>
  BY <1>1, ChainIs DEF Placed, Analysed
<1>3. Len(list[b]) \in Nat
  <2>1. LaidBy(b, list[b], door[b] - 1)
    BY <1>2 DEF Lowered
  <2>. QED  BY <2>1 DEF LaidBy
<1>4. j \in 1 .. Len(list[b]) /\ Here = list[b][j] /\ j + 1 \in 1 .. Len(list[b]) + 1
  BY <1>1, <1>2, <1>3 DEF Execute, InBlock, Leaves, Here
<1>5. PICK pick \in BOOLEAN :
         /\ pick => ~tagged /\ Here.op \in {"set", "inc"}
         /\ carries' = Assigned(carries, Here, pick)
         /\ holds' = IF Here.of = 0 THEN holds ELSE Assigned(holds, Code(at[1])[Here.of], pick)
  BY DEF Execute
<1>6. holds' = HeldAfter(H, b, list[b][j], pick) /\ carries' = Assigned(C, list[b][j], pick)
  BY <1>1, <1>2, <1>4, <1>5 DEF HeldAfter
<1>7. Stage(b, j + 1, HeldAfter(H, b, list[b][j], pick), Assigned(C, list[b][j], pick))
  BY <1>1, <1>4, <1>5, ExecuteStage
<1>8. at' = <<b, j + 1>> /\ prog' = prog /\ list' = list
      /\ UNCHANGED <<prog, analysis, tables, list, door>>
  BY <1>2 DEF Execute
<1>9. PICK n, H2, C2 : n = j + 1 /\ H2 = holds' /\ C2 = carries'
  OBVIOUS
<1>10. Stage(b, n, H2, C2)
  BY <1>6, <1>7, <1>9
<1>11. Stage(b, n, H2, C2)' /\ R' = R
  BY <1>8, <1>10, SameStage, SameBody
<1>12. at' = <<b, n>> /\ b \in R' /\ n \in 1 .. Len(list'[b]) + 1
  BY <1>1, <1>4, <1>8, <1>9, <1>11
<1>. QED  BY <1>9, <1>11, <1>12 DEF LoweredRan

LEMMA LoweredFollows ==
    ASSUME Placed, Supplied, Settled, Plain, Lowered, LoweredRan, Follow, form = "lowered"
    PROVE  LoweredRan'
<1>1. PICK b, j, H, C :
         /\ b \in R /\ j \in 1 .. Len(list[b]) + 1
         /\ at = <<b, j>> /\ holds = H /\ carries = C /\ Stage(b, j, H, C)
  BY DEF LoweredRan
<1>2. /\ prog \in Programs /\ b \in Blocks /\ at[1] = b /\ at[2] = j /\ at # << >>
  BY <1>1, ChainIs DEF Placed, Analysed
<1>3. j = Len(list[b]) + 1
  <2>1. j > Len(list[b]) \/ (j > 1 /\ list[b][j - 1].op \in Terminators)
    BY <1>2 DEF Follow, Leaves
  <2>. QED  BY <1>1, <1>2, <2>1, LeavesLast
<1>. DEFINE into(t, k) ==
              /\ at' = <<t, IF FallsThrough(at[1], k) THEN 1 ELSE door[t]>>
              /\ carries' = (carries \ {PhiOf(t, s) : s \in Merged(t)})
                    \cup {PhiOf(t, s) : s \in {r \in Merged(t) : args[t][r][at[1]] \in carries}}
<1>4. PICK k \in DOMAIN G[b] : into(G[b][k], k)
  <2>1. \E k \in DOMAIN G[at[1]] : into(G[at[1]][k], k)
    BY DEF Follow
  <2>. HIDE DEF into
  <2>. QED  BY <1>2, <2>1
<1>5. PICK t, n : t = G[b][k] /\ n = IF FallsThrough(b, k) THEN 1 ELSE door[t]
  OBVIOUS
<1>6. at' = <<t, n>>
  BY <1>2, <1>4, <1>5
<1>7. carries' = C
  <2>1. Merged(t) = {}
    BY DEF Merged
  <2>. QED  BY <1>1, <1>4, <1>5, <2>1
<1>. HIDE DEF into
<1>8. Stage(b, Len(list[b]) + 1, H, C)
  BY <1>1, <1>3
<1>9. t \in R /\ Stage(t, n, H, C)
  BY <1>1, <1>5, <1>8, FollowStage
<1>10. holds' = H /\ list' = list /\ UNCHANGED <<prog, analysis, tables, list, door>>
  BY <1>1 DEF Follow
<1>11. Stage(t, n, H, C)' /\ R' = R
  BY <1>9, <1>10, SameStage, SameBody
<1>12. n \in 1 .. Len(list[t]) + 1
  <2>1. t \in Blocks
    BY <1>9, ChainIs DEF Placed
  <2>2. Heads(t) \in Nat /\ Tails(t) \in Nat /\ Len(Code(t)) \in Nat \ {0}
        /\ Len(list[t]) = Heads(t) + Len(Code(t)) + Tails(t)
    BY <1>2, <2>1, LaidIs
  <2>3. door[t] = Heads(t) + 1
    BY <2>1 DEF Lowered, Heads
  <2>. QED  BY <1>5, <2>2, <2>3
<1>13. n \in 1 .. Len(list'[t]) + 1 /\ t \in R'
  BY <1>9, <1>10, <1>11, <1>12
<1>14. PICK H2, C2 : H2 = holds' /\ C2 = carries'
  OBVIOUS
<1>15. Stage(t, n, H2, C2)'
  BY <1>7, <1>10, <1>11, <1>14
<1>. QED  BY <1>6, <1>13, <1>14, <1>15 DEF LoweredRan

LEMMA LoweredStarts ==
    ASSUME Placed, Supplied, EntryApart, Lowered, Start, holds = {}, carries = {}
    PROVE  LoweredRan'
<1>1. PICK n, H2, C2 : n = 1 /\ H2 = holds' /\ C2 = carries'
  OBVIOUS
<1>2. \/ H2 = {} /\ C2 = {}
      \/ \E s \in Slots : H2 = {s} /\ C2 = {EntryOf(s)}
  BY <1>1 DEF Start
<1>3. Stage(Entry, 1, H2, C2)
  BY <1>2, StartStage
<1>4. at' = <<Entry, n>> /\ list' = list /\ UNCHANGED <<prog, analysis, tables, list, door>>
  BY <1>1 DEF Start
<1>5. Stage(Entry, n, H2, C2)
  BY <1>1, <1>3
<1>6. Stage(Entry, n, H2, C2)' /\ R' = R
  BY <1>4, <1>5, SameStage, SameBody
<1>7. Entry \in R /\ n \in 1 .. Len(list[Entry]) + 1
  <2>1. Entry \in R /\ Entry \in Blocks /\ prog \in Programs
    BY ChainOfEntry, Shape DEF Placed, Analysed
  <2>2. Len(list[Entry]) \in Nat
    <3>1. LaidBy(Entry, list[Entry], door[Entry] - 1)
      BY <2>1 DEF Lowered
    <3>. QED  BY <3>1 DEF LaidBy
  <2>. QED  BY <1>1, <2>1, <2>2
<1>8. Entry \in R' /\ n \in 1 .. Len(list'[Entry]) + 1
  BY <1>4, <1>6, <1>7
<1>. QED  BY <1>1, <1>4, <1>6, <1>8 DEF LoweredRan

LEMMA EliminateLowers ==
    ASSUME Placed, Supplied, Listed, EntryApart, Eliminate,
           form = "renamed" => Sourced, form = "propagated" => Origins
    PROVE  /\ Placed' /\ Supplied'
           /\ Settled' => Supported'
           /\ form = "renamed" /\ Lowerable' => Lowered'
<1>1. /\ prog' = prog /\ chain' = chain /\ frontier' = frontier /\ live' = live
      /\ phis' = phis /\ args' = args /\ rotated' = rotated /\ form \in {"renamed", "propagated"}
  BY DEF Eliminate, analysis, tables
<1>2. Placed'
  BY <1>1, SamePlacement DEF Placed
<1>3. /\ Supplied' = Supplied /\ Settled' = Settled /\ Lowerable' = Lowerable
      /\ \A b, w, a : LaidBy(b, w, a)' <=> LaidBy(b, w, a)
  BY <1>1, SameCollapse
<1>4. Origins
  BY <1>1, RenamedNamed
<1>5. ASSUME Settled' PROVE Supported'
  BY <1>3, <1>4, <1>5, EliminateSupports
<1>6. ASSUME form = "renamed", Lowerable' PROVE Lowered'
  <2>1. NoLoneEnds /\ Sourced
    BY <1>3, <1>6 DEF Lowerable
  <2>2. ASSUME NEW b \in Blocks
        PROVE  door'[b] \in Nat \ {0} /\ LaidBy(b, list[b], door[b] - 1)'
    <3>1. door'[b] \in Nat \ {0} /\ LaidBy(b, list'[b], door'[b] - 1)
      BY <2>1, EliminateLays
    <3>2. PICK w, a : w = list'[b] /\ a = door'[b] - 1
      OBVIOUS
    <3>. QED  BY <1>3, <3>1, <3>2
  <2>. QED  BY <2>2 DEF Lowered
<1>. QED  BY <1>2, <1>3, <1>5, <1>6

LEMMA LowStarts ==
    ASSUME Init
    PROVE  LowInv
BY DEF Init, LowInv

LEMMA LowStays ==
    ASSUME SsaInv, LowInv, [Next]_vars
    PROVE  LowInv'
<1>1. CASE Analyse \/ PlacePhis
  <2>1. form' \in {"analysed", "placed"}
    BY <1>1 DEF Analyse, PlacePhis
  <2>. QED  BY <2>1 DEF LowInv
<1>2. CASE Rename
  <2>1. prog' = prog /\ form = "placed" /\ form' = "renamed"
    BY <1>2 DEF Rename
  <2>2. EntryApart' => Supplied'
    <3>1. EntryApart => Placed
      BY <2>1 DEF SsaInv
    <3>. QED  BY <1>2, <2>1, <3>1, SameBody, RenameSupplies
  <2>. QED  BY <2>1, <2>2 DEF LowInv
<1>3. CASE Propagate
  <2>1. /\ prog' = prog /\ chain' = chain /\ phis' = phis /\ args' = args
        /\ form = "renamed" /\ form' = "propagated"
    BY <1>3 DEF Propagate, analysis, tables
  <2>2. EntryApart' => Supplied' /\ Origins'
    <3>1. EntryApart => Placed /\ Listed /\ Sourced /\ Supplied
      BY <2>1 DEF SsaInv, LowInv
    <3>. QED  BY <1>3, <2>1, <3>1, SameBody, SameCollapse, PropagatedNamed
  <2>. QED  BY <2>1, <2>2 DEF LowInv
<1>4. CASE Eliminate
  <2>1. /\ prog' = prog /\ form \in {"renamed", "propagated"} /\ at' = << >>
        /\ form' = IF form = "renamed" THEN "lowered" ELSE "final"
    BY <1>4 DEF Eliminate, run
  <2>2. ASSUME EntryApart'
        PROVE  /\ Placed' /\ Supplied'
               /\ Settled' => Supported'
               /\ form = "renamed" /\ Lowerable' => Lowered'
    <3>1. EntryApart
      BY <2>1, <2>2, SameBody
    <3>2. Placed /\ Supplied /\ Listed /\ (form = "renamed" => Sourced)
          /\ (form = "propagated" => Origins)
      BY <2>1, <3>1 DEF SsaInv, LowInv
    <3>. QED  BY <1>4, <3>1, <3>2, EliminateLowers
  <2>3. Plain' => EntryApart'
    BY DEF Plain
  <2>. QED  BY <2>1, <2>2, <2>3 DEF LowInv
<1>5. ASSUME UNCHANGED <<prog, form, analysis, tables, list, door>>,
             Plain /\ Lowerable /\ form = "lowered" /\ Lowered =>
                (at' # << >> => LoweredRan')
      PROVE  LowInv'
  <2>1. prog' = prog /\ chain' = chain /\ phis' = phis /\ args' = args /\ form' = form
        /\ UNCHANGED <<prog, analysis, tables, list, door>>
    BY <1>5 DEF analysis, tables
  <2>2. /\ EntryApart' = EntryApart /\ Plain' = Plain /\ Placed' = Placed
        /\ Supplied' = Supplied /\ Settled' = Settled /\ Lowerable' = Lowerable
        /\ Origins' = Origins /\ Supported' = Supported /\ Lowered' = Lowered
    BY <2>1, SameBody, SameListing, SameCollapse, SameStage
  <2>. QED  BY <1>5, <2>1, <2>2 DEF LowInv
<1>6. ASSUME Plain, Lowerable, form = "lowered"
      PROVE  /\ EntryApart /\ Settled /\ Placed /\ Supplied /\ Lowered
             /\ at # << >> => LoweredRan
             /\ at = << >> => holds = {} /\ carries = {}
  BY <1>6 DEF LowInv, SsaInv, Plain, Lowerable
<1>7. CASE Start
  <2>1. at = << >> /\ UNCHANGED <<prog, form, analysis, tables, list, door>>
    BY <1>7 DEF Start
  <2>2. Plain /\ Lowerable /\ form = "lowered" => LoweredRan'
    BY <1>6, <1>7, <2>1, LoweredStarts
  <2>. QED  BY <1>5, <2>1, <2>2
<1>8. CASE Execute
  <2>1. at # << >> /\ UNCHANGED <<prog, form, analysis, tables, list, door>>
    BY <1>8 DEF Execute, InBlock
  <2>2. Plain /\ Lowerable /\ form = "lowered" => LoweredRan'
    BY <1>6, <1>8, <2>1, LoweredExecutes
  <2>. QED  BY <1>5, <2>1, <2>2
<1>9. CASE Follow
  <2>1. at # << >> /\ UNCHANGED <<prog, form, analysis, tables, list, door>>
    BY <1>9 DEF Follow, Leaves
  <2>2. Plain /\ Lowerable /\ form = "lowered" => LoweredRan'
    BY <1>6, <1>9, <2>1, LoweredFollows
  <2>. QED  BY <1>5, <2>1, <2>2
<1>10. CASE UNCHANGED vars
  <2>1. /\ UNCHANGED <<prog, form, analysis, tables, list, door>>
        /\ UNCHANGED <<prog, analysis, tables, list, door>>
        /\ prog' = prog /\ at' = at /\ holds' = holds /\ carries' = carries /\ list' = list
    BY <1>10 DEF vars, analysis, tables
  <2>2. ASSUME LoweredRan PROVE LoweredRan'
    <3>1. PICK b, j, H, C :
             /\ b \in R /\ j \in 1 .. Len(list[b]) + 1
             /\ at = <<b, j>> /\ holds = H /\ carries = C /\ Stage(b, j, H, C)
      BY <2>2 DEF LoweredRan
    <3>2. Stage(b, j, H, C)' /\ b \in R' /\ j \in 1 .. Len(list'[b]) + 1
      BY <2>1, <3>1, SameStage, SameBody
    <3>. QED  BY <2>1, <3>1, <3>2 DEF LoweredRan
  <2>3. Plain /\ Lowerable /\ form = "lowered" => (at' # << >> => LoweredRan')
    BY <1>6, <2>1, <2>2
  <2>. QED  BY <1>5, <2>1, <2>3
<1>. QED  BY <1>1, <1>2, <1>3, <1>4, <1>7, <1>8, <1>9, <1>10 DEF Next

LEMMA LowInvariant == Spec => []LowInv
<1>1. Init => LowInv
  BY LowStarts
<1>2. SsaInv /\ LowInv /\ [Next]_vars => LowInv'
  BY LowStays
<1>. QED  BY <1>1, <1>2, SsaInvariant, PTL DEF Spec

-----------------------------------------------------------------------------
(* The reads of a lowered run agree: the instruction it is at is one of    *)
(* the body, and its source stands for the version renaming gave it.       *)

LEMMA LoweredInvReads ==
    ASSUME SsaInv, LowInv, Plain, Lowerable, form = "lowered"
    PROVE  ReadAgrees
<1>1. SUFFICES ASSUME InBlock, Here.of > 0, Code(at[1])[Here.of].src # NoSlot
               PROVE  Code(at[1])[Here.of].src \in holds <=> Here.src \in carries
  BY DEF ReadAgrees
<1>2. at # << >> /\ ~Leaves /\ Placed /\ Supplied /\ Lowered /\ LoweredRan
  BY <1>1 DEF InBlock, LowInv, Plain
<1>3. PICK b, j, H, C :
         /\ b \in R /\ j \in 1 .. Len(list[b]) + 1
         /\ at = <<b, j>> /\ holds = H /\ carries = C /\ Stage(b, j, H, C)
  BY <1>2 DEF LoweredRan
<1>4. Analysed /\ prog \in Programs /\ b \in Blocks /\ at[1] = b /\ at[2] = j
  BY <1>2, <1>3, ChainIs DEF Placed, Analysed
<1>. DEFINE a == Heads(b)
            d == Tails(b)
            n == Len(Code(b))
<1>5. /\ a \in Nat /\ d \in Nat /\ n \in Nat \ {0} /\ DOMAIN Code(b) = 1 .. n
      /\ Len(list[b]) = a + n + d
      /\ \A k \in 1 .. a : IsCopy(b - 1, list[b][k])
      /\ \A k \in a + n .. a + n + d - 1 : IsCopy(b, list[b][k])
      /\ \A i \in 1 .. n - 1 : list[b][a + i] = Body(b, i)
      /\ list[b][Len(list[b])] = Body(b, n)
  BY <1>2, <1>4, LaidIs
<1>6. j \in Nat /\ j <= a + n + d /\ Here = list[b][j]
  <2>1. j \in Nat /\ j <= Len(list[b])
    BY <1>2, <1>3, <1>4, <1>5 DEF Leaves
  <2>. QED  BY <1>4, <1>5, <2>1 DEF Here
<1>7. \A p : ~IsCopy(p, list[b][j])
  BY <1>1, <1>6, CopyIs
<1>8. PICK i \in DOMAIN Code(b) : list[b][j] = Body(b, i) /\ Held(b, i, H, Seen(C))
  <2>1. \/ j \in 1 .. a
        \/ j \in a + 1 .. a + n - 1 /\ Held(b, j - a, H, Seen(C))
        \/ j \in a + n .. a + n + d /\ Held(b, n, H, Seen(C))
        \/ j = a + n + d + 1
    BY <1>3 DEF Stage
  <2>2. j \notin 1 .. a
    BY <1>5, <1>7
  <2>3. j # a + n + d + 1
    <3>. HIDE DEF a, d, n
    <3>. QED  BY <1>5, <1>6
  <2>4. CASE j \in a + 1 .. a + n - 1 /\ Held(b, j - a, H, Seen(C))
    <3>1. PICK i \in 1 .. n - 1 : i = j - a /\ j = a + i
      <4>1. j - a \in 1 .. n - 1 /\ j = a + (j - a)
        <5>. HIDE DEF a, d, n
        <5>. QED  BY <1>5, <1>6, <2>4
      <4>. QED  BY <4>1
    <3>2. i \in DOMAIN Code(b)
      <4>1. i \in 1 .. n
        <5>. HIDE DEF n
        <5>. QED  BY <1>5
      <4>. QED  BY <1>5, <4>1
    <3>. QED  BY <1>5, <2>4, <3>1, <3>2
  <2>5. CASE j \in a + n .. a + n + d /\ Held(b, n, H, Seen(C))
    <3>1. j = a + n + d
      <4>1. j \notin a + n .. a + n + d - 1
        BY <1>5, <1>7
      <4>. HIDE DEF a, d, n
      <4>. QED  BY <1>5, <1>6, <2>5, <4>1
    <3>2. n \in DOMAIN Code(b)
      <4>1. n \in 1 .. n
        <5>. HIDE DEF n
        <5>. QED  BY <1>5
      <4>. QED  BY <1>5, <4>1
    <3>. QED  BY <1>5, <2>5, <3>1, <3>2
  <2>. QED  BY <2>1, <2>2, <2>3, <2>4, <2>5
<1>9. Here.of = i /\ Here.src = Look(Collapse, Renamed(b, i).src) /\ i \in Nat
  <2>1. i \in Nat
    BY <1>4, Shape
  <2>. QED  BY <1>6, <1>8, <2>1, BodyIs
<1>. DEFINE s == Code(b)[i].src
<1>10. s \in Slots /\ Renamed(b, i).src = Reaching(b, i, s)
  <2>1. s # NoSlot /\ Code(b)[i] \in Insns
    BY <1>1, <1>4, <1>9, Shape
  <2>. QED  BY <2>1 DEF Insns, Renamed
<1>11. s \in H <=> Reaching(b, i, s) \in Seen(C)
  <2>1. LiveAt(b, i, s)
    BY <1>4, <1>8, <1>10, LiveAtEdges
  <2>. QED  BY <1>8, <1>10, <2>1 DEF Held, Tracked
<1>12. Reaching(b, i, s) \in Names
  BY <1>2, <1>3, <1>4, <1>9, <1>10, ReachingNamed DEF Names
<1>13. Reaching(b, i, s) \in Seen(C) <=> Here.src \in C
  BY <1>9, <1>10, <1>12 DEF Seen
<1>. QED  BY <1>3, <1>4, <1>9, <1>11, <1>13

(* For the same bodies, when no collapsed phi is replaced by one that is   *)
(* collapsed itself (else the later one's version has no definition, see   *)
(* EliminationDefinesReads) and no block control branches from is a        *)
(* terminator alone (else a branch to it passes over the copies in front   *)
(* of it): every read of the lowered listing, phis turned into copies on   *)
(* the edges, sees the value the register held (ssa::eliminate).           *)
THEOREM LoweringKeepsReads == Spec => [](Plain /\ Lowerable => LoweredReadsAgree)
<1>1. SsaInv /\ LowInv => (Plain /\ Lowerable => LoweredReadsAgree)
  BY LoweredInvReads DEF LoweredReadsAgree
<1>. QED  BY <1>1, SsaInvariant, LowInvariant, PTL

(* For every body whose entry no branch leads back to, whatever its loops: *)
(* when no collapsed phi is replaced by a collapsed one, every phi version *)
(* the lowered listing reads is one it defines, also after copies have     *)
(* been forwarded (ssa::eliminate, passes::copy_and_constant_propagation). *)
THEOREM EliminationDefinesReads == Spec => [](EntryApart /\ Settled => EveryReadDefined)
<1>1. ASSUME LowInv, EntryApart, Settled PROVE EveryReadDefined
  <2>1. SUFFICES ASSUME form \in {"lowered", "final"}, NEW b \in R, NEW i \in DOMAIN list[b],
                        list[b][i].src[1] = "phi"
                 PROVE  DefSites(list[b][i].src) # {}
    BY DEF EveryReadDefined, R
  <2>2. Supported
    BY <1>1, <2>1 DEF LowInv
  <2>3. PICK c \in Blocks : \E k \in DOMAIN list[c] : list[c][k].dst = list[b][i].src
    BY <2>1, <2>2 DEF Supported
  <2>. QED  BY <2>3, DefSitesAre
<1>2. LowInv => (EntryApart /\ Settled => EveryReadDefined)
  BY <1>1
<1>. QED  BY <1>2, LowInvariant, PTL

-----------------------------------------------------------------------------
(* Types.                                                                  *)

Sources == Versions \cup {Undefined}
Listings(b) ==
    {insn \in [op : Ops, of : 0 .. Len(Code(b)), dst : Sources, src : Sources] :
        /\ insn.op \in {"set", "inc", "move"} => insn.dst # Undefined
        /\ insn.of # 0 => insn.op = Code(b)[insn.of].op}

LEMMA VersionsAre ==
    ASSUME NEW b \in Blocks
    PROVE  /\ \A s \in Slots : EntryOf(s) \in Versions /\ PhiOf(b, s) \in Versions
           /\ \A i \in DOMAIN Code(b) : DefOf(b, i) \in Versions
           /\ Undefined \notin Versions
BY DEF Versions, Undefined, EntryOf, PhiOf, DefOf

LEMMA ExitTyped ==
    ASSUME prog \in Programs, NEW c \in Blocks, NEW s \in Slots
    PROVE  Exit(c, s) \in Versions
<1>1. Len(Code(c)) + 1 \in Nat
  BY Shape
<1>2. CASE s \in Defined(c)
  <2>1. LastDef(c, Len(Code(c)) + 1, s) \in DOMAIN Code(c)
    BY <1>1, <1>2, LastDefEnd, LastDefIs
  <2>. QED  BY <1>2, <2>1, VersionsAre DEF Exit
<1>3. CASE s \notin Defined(c)
  BY <1>3, VersionsAre DEF Exit
<1>. QED  BY <1>2, <1>3

LEMMA ReachingTyped ==
    ASSUME Analysed, NEW b \in Blocks, NEW n \in Nat, NEW s \in Slots
    PROVE  Reaching(b, n, s) \in Versions
<1>1. prog \in Programs
  BY DEF Analysed
<1>2. Inherited(b, s) \in Versions
  <2>1. CASE b \in R
    <3>1. CASE Makers(b, s) = {}
      BY <2>1, <3>1, TopMaker, VersionsAre
    <3>2. CASE Makers(b, s) # {}
      <4>1. PICK c \in Makers(b, s) : Makers(b, s) \subseteq chain[c]
        BY <2>1, <3>2, TopMaker
      <4>2. Inherited(b, s) = Exit(c, s) /\ c \in Blocks
        BY <2>1, <4>1, TopMaker DEF Makers, Made
      <4>. QED  BY <1>1, <4>2, ExitTyped
    <3>. QED  BY <3>1, <3>2
  <2>2. CASE b \notin R
    <3>1. chain[b] = {b}
      BY <2>2 DEF Analysed, IdomChain, R
    <3>2. {c \in chain[b] \ {b} : s \in Defined(c) \cup phis[c]} = {}
      BY <3>1
    <3>3. Inherited(b, s) = EntryOf(s)
      BY <3>2 DEF Inherited
    <3>. QED  BY <3>3, VersionsAre
  <2>. QED  BY <2>1, <2>2
<1>3. LastDef(b, n, s) > 0 => LastDef(b, n, s) \in DOMAIN Code(b)
  BY <1>1, LastDefIs
<1>. QED  BY <1>2, <1>3, VersionsAre DEF Reaching

LEMMA RenamedTyped ==
    ASSUME Analysed, NEW b \in Blocks, NEW i \in DOMAIN Code(b)
    PROVE  Renamed(b, i) \in Listings(b)
<1>1. /\ Code(b)[i] \in Insns /\ i \in 1 .. Len(Code(b)) /\ Len(Code(b)) \in Nat
      /\ Code(b)[i].op \in {"set", "inc", "move"} => Code(b)[i].dst # NoSlot
  BY Shape DEF Analysed
<1>. DEFINE s == Code(b)[i].src
            r == Code(b)[i].dst
<1>2. s \in Slots \cup {NoSlot} /\ r \in Slots \cup {NoSlot} /\ Code(b)[i].op \in Ops
  BY <1>1 DEF Insns
<1>3. (IF s = NoSlot THEN Undefined ELSE Reaching(b, i, s)) \in Sources
  <2>1. i \in Nat
    BY <1>1
  <2>2. s # NoSlot => Reaching(b, i, s) \in Versions
    BY <1>2, <2>1, ReachingTyped
  <2>. QED  BY <2>2 DEF Sources
<1>4. /\ (IF r = NoSlot THEN Undefined ELSE DefOf(b, i)) \in Sources
      /\ r # NoSlot => DefOf(b, i) # Undefined
  BY VersionsAre DEF Sources
<1>5. i \in 0 .. Len(Code(b))
  BY <1>1
<1>. QED  BY <1>1, <1>2, <1>3, <1>4, <1>5 DEF Renamed, Listings

LEMMA CopyTyped ==
    ASSUME prog \in Programs, NEW b \in Blocks, NEW v \in Versions, NEW w \in Sources
    PROVE  Copy(v, w) \in Listings(b)
<1>1. 0 \in 0 .. Len(Code(b)) /\ v # Undefined /\ v \in Sources /\ "move" \in Ops
  <2>1. Len(Code(b)) \in Nat
    BY Shape
  <2>. QED  BY <2>1, VersionsAre DEF Sources, Ops
<1>. QED  BY <1>1 DEF Copy, Listings

(* The members of a set of registers in their order.                       *)
LEMMA SlotsInOrder ==
    ASSUME NEW S \in SUBSET Slots
    PROVE  LET slots == InOrder(S, <)
           IN  /\ DOMAIN slots = 1 .. Cardinality(S) /\ Cardinality(S) \in Nat
               /\ \A k \in DOMAIN slots : slots[k] \in S
<1>. DEFINE rel == {e \in S \X S : e[1] < e[2]}
            n == Cardinality(S)
            rank(e) == Cardinality({x \in S : x < e})
            slots == [k \in 1 .. n |-> CHOOSE e \in S : rank(e) = k - 1]
<1>1. InOrder(S, <) = slots
  BY DEF InOrder
<1>2. IsFiniteSet(S) /\ S \subseteq Int
  <2>1. IsFiniteSet(Slots) /\ Slots \subseteq Int
    BY FS_Interval, KAssumption DEF Slots
  <2>. QED  BY <2>1, FS_Subset
<1>3. \A x, y : <<x, y>> \in rel <=> x \in S /\ y \in S /\ x < y
  OBVIOUS
<1>4. \A e \in S : {x \in S : <<x, e>> \in rel} = {x \in S : x < e}
  BY <1>3
<1>5. n \in Nat /\ \A k \in 1 .. n : \E e \in S : Cardinality({x \in S : <<x, e>> \in rel}) = k - 1
  <2>1. /\ \A x, y \in S : x = y \/ <<x, y>> \in rel \/ <<y, x>> \in rel
        /\ \A x \in S : <<x, x>> \notin rel
        /\ \A x, y, z \in S : <<x, y>> \in rel /\ <<y, z>> \in rel => <<x, z>> \in rel
    BY <1>2, <1>3
  <2>. HIDE DEF rel
  <2>. QED  BY <1>2, <2>1, Ranks
<1>6. ASSUME NEW k \in 1 .. n PROVE slots[k] \in S
  <2>1. \E e \in S : rank(e) = k - 1
    BY <1>4, <1>5
  <2>. QED  BY <2>1
<1>. QED  BY <1>1, <1>5, <1>6

LEMMA PlacedTyped ==
    ASSUME NEW X, NEW h \in Seq(X) \ {<< >>}, NEW g \in Seq(X)
    PROVE  PlaceCopies(h, g) \in Seq(X) \ {<< >>}
<1>1. CASE ~Closed(h)
  <2>1. h \o g \in Seq(X) /\ Len(h \o g) = Len(h) + Len(g) /\ Len(h) # 0
    OBVIOUS
  <2>2. h \o g # << >>
    BY <2>1
  <2>. QED  BY <1>1, <2>1, <2>2 DEF PlaceCopies
<1>2. CASE Closed(h)
  <2>1. Front(h) \in Seq(X)
    <3>1. Len(h) \in Nat \ {0}
      OBVIOUS
    <3>2. Front(h) = SubSeq(h, 1, Len(h) - 1)
      BY <3>1 DEF Front
    <3>. QED  BY <3>1, <3>2
  <2>2. Last(h) \in X
    BY DEF Last
  <2>. DEFINE r == Front(h)
              l == Last(h)
  <2>. HIDE DEF r, l
  <2>3. r \o g \in Seq(X) /\ <<l>> \in Seq(X) /\ Len(<<l>>) = 1
    BY <2>1, <2>2 DEF r, l
  <2>4. PICK u \in Seq(X) : u = r \o g
    BY <2>3
  <2>5. u \o <<l>> \in Seq(X) /\ Len(u \o <<l>>) = Len(u) + 1 /\ Len(u) \in Nat
    BY <2>3
  <2>6. u \o <<l>> # << >>
    BY <2>5
  <2>. QED  BY <1>2, <2>4, <2>5, <2>6 DEF PlaceCopies, r, l
<1>. QED  BY <1>1, <1>2

(* What the passes have made of the listing and of the arguments.          *)
ListTyped == \A b \in Blocks : list[b] \in Seq(Listings(b)) \ {<< >>}
ArgsTyped == \A b \in Blocks : \A s \in phis[b] : \A p \in Preds(G, b) : args[b][s][p] \in Sources
PhisTyped == phis \in [Blocks -> SUBSET Slots]
DoorTyped == door \in [Blocks -> Nat \ {0}]

LEMMA RenameTypes ==
    ASSUME Analysed, PhisTyped, rotated \subseteq Slots, Rename
    PROVE  ListTyped' /\ ArgsTyped' /\ DoorTyped'
<1>1. /\ prog' = prog /\ chain' = chain /\ phis' = phis /\ prog \in Programs
      /\ Entry \in Blocks /\ G \in Graphs
  BY Shape DEF Rename, analysis, Analysed
<1>2. /\ G' = G /\ \A b : Code(b)' = Code(b)
  BY <1>1, SameBody
<1>3. \A b : Listings(b)' = Listings(b) /\ Sources' = Sources
  BY <1>2 DEF Listings, Sources, Versions
<1>4. CopiesBack \in Seq(Listings(Entry))
  <2>. DEFINE S == rotated \cap Defined(Entry)
              slots == InOrder(S, <)
              copies == [k \in DOMAIN slots |-> Copy(EntryOf(slots[k]), Exit(Entry, slots[k]))]
  <2>1. DOMAIN slots = 1 .. Cardinality(S) /\ Cardinality(S) \in Nat
        /\ \A k \in DOMAIN slots : slots[k] \in S
    BY SlotsInOrder
  <2>2. ASSUME NEW k \in DOMAIN slots
        PROVE  Copy(EntryOf(slots[k]), Exit(Entry, slots[k])) \in Listings(Entry)
    <3>1. PICK s \in Slots : s = slots[k]
      BY <2>1
    <3>2. EntryOf(s) \in Versions /\ Exit(Entry, s) \in Sources
      BY <1>1, VersionsAre, ExitTyped DEF Sources
    <3>. QED  BY <1>1, <3>1, <3>2, CopyTyped
  <2>3. copies \in [1 .. Cardinality(S) -> Listings(Entry)]
    <3>. HIDE DEF slots
    <3>. QED  BY <2>1, <2>2
  <2>4. copies \in Seq(Listings(Entry))
    <3>1. PICK n \in Nat : n = Cardinality(S)
      BY <2>1
    <3>. HIDE DEF copies, S
    <3>2. copies \in [1 .. n -> Listings(Entry)]
      BY <2>3, <3>1
    <3>. QED  BY <3>2
  <2>5. CopiesBack = IF rotated = {} THEN << >> ELSE copies
    BY DEF CopiesBack
  <2>. HIDE DEF copies
  <2>. QED  BY <2>4, <2>5
<1>5. ASSUME NEW b \in Blocks PROVE list'[b] \in Seq(Listings(b)) \ {<< >>}
  <2>. DEFINE h == [i \in DOMAIN Code(b) |-> Renamed(b, i)]
              g == IF b = Entry THEN CopiesBack ELSE << >>
  <2>1. DOMAIN Code(b) = 1 .. Len(Code(b)) /\ Len(Code(b)) \in Nat \ {0}
    BY <1>1, Shape
  <2>2. h \in [1 .. Len(Code(b)) -> Listings(b)]
    BY <1>1, <2>1, RenamedTyped
  <2>3. h \in Seq(Listings(b)) \ {<< >>}
    <3>. HIDE DEF h
    <3>1. h \in Seq(Listings(b)) /\ Len(h) = Len(Code(b))
      BY <2>1, <2>2
    <3>. QED  BY <2>1, <3>1
  <2>4. g \in Seq(Listings(b))
    BY <1>4
  <2>5. list'[b] = PlaceCopies(h, g)
    BY DEF Rename
  <2>. HIDE DEF h, g
  <2>. QED  BY <2>3, <2>4, <2>5, PlacedTyped
<1>6. ASSUME NEW b \in Blocks, NEW s \in phis[b], NEW p \in Preds(G, b)
      PROVE  args'[b][s][p] \in Sources
  <2>1. args'[b][s][p] =
           IF p \in Reachable(G, Entry) THEN Reaching(p, Len(Code(p)) + 1, s) ELSE Undefined
    BY DEF Rename
  <2>2. p \in Blocks /\ s \in Slots /\ Len(Code(p)) + 1 \in Nat
    BY <1>1, Shape DEF PhisTyped, Preds
  <2>3. Reaching(p, Len(Code(p)) + 1, s) \in Versions
    BY <2>2, ReachingTyped
  <2>. QED  BY <2>1, <2>3 DEF Sources
<1>7. DoorTyped'
  <2>1. Len(CopiesBack) \in Nat
    BY <1>4
  <2>. QED  BY <2>1 DEF Rename, DoorTyped
<1>. QED  BY <1>1, <1>2, <1>3, <1>5, <1>6, <1>7 DEF ListTyped, ArgsTyped

-----------------------------------------------------------------------------
(* Propagation and the collapse keep the types.                             *)

LEMMA ListingOf ==
    ASSUME ListTyped, NEW b \in Blocks, NEW i \in DOMAIN list[b]
    PROVE  /\ list[b][i] \in Listings(b)
           /\ list[b][i].op \in Ops /\ list[b][i].of \in 0 .. Len(Code(b))
           /\ list[b][i].dst \in Sources /\ list[b][i].src \in Sources
<1>1. list[b] \in Seq(Listings(b))
  BY DEF ListTyped
<1>2. list[b][i] \in Listings(b)
  BY <1>1
<1>. QED  BY <1>2 DEF Listings

(* An instruction with another source is one still.                        *)
LEMMA Resourced ==
    ASSUME NEW b, NEW insn \in Listings(b), NEW w \in Sources
    PROVE  [insn EXCEPT !.src = w] \in Listings(b)
BY DEF Listings

LEMMA ResolveTyped ==
    ASSUME ListTyped, NEW b, NEW i, NEW v \in Sources
    PROVE  Resolve(v, b, i) \in Sources
<1>1. ASSUME NEW w \in Sources PROVE Forwarded(w, b, i) \in Sources
  <2>1. CASE ~Forwards(w, b, i)
    BY <2>1 DEF Forwarded
  <2>2. CASE Forwards(w, b, i)
    <3>. DEFINE f == CHOOSE e \in DefSites(w) : TRUE
    <3>1. f \in DefSites(w)
      BY <2>2 DEF Forwards
    <3>2. Forwarded(w, b, i) = list[f[1]][f[2]].src
      BY <2>2 DEF Forwarded
    <3>. HIDE DEF f
    <3>3. PICK c \in Blocks : \E j \in DOMAIN list[c] : f = <<c, j>>
      BY <3>1, DefSitesAre
    <3>4. PICK j \in DOMAIN list[c] : f = <<c, j>>
      BY <3>3
    <3>. QED  BY <3>2, <3>4, ListingOf
  <2>. QED  BY <2>1, <2>2
<1>2. PICK hop : /\ hop[0] = v /\ hop[8] = Resolve(v, b, i)
                 /\ \A k \in 1 .. 8 : hop[k] = Forwarded(hop[k - 1], b, i)
  BY ResolveHops
<1>. DEFINE Z == {k \in 0 .. 8 : hop[k] \in Sources}
<1>3. 0 \in Z
  BY <1>2
<1>4. ASSUME NEW k \in 1 .. 8, k - 1 \in Z PROVE k \in Z
  BY <1>1, <1>2, <1>4
<1>5. 8 \in Z
  <2>. HIDE DEF Z
  <2>. QED  BY <1>3, <1>4, Upwards
<1>. QED  BY <1>2, <1>5

LEMMA PropagateTypes ==
    ASSUME prog \in Programs, ListTyped, Propagate
    PROVE  ListTyped'
<1>1. prog' = prog
  BY DEF Propagate
<1>2. \A b : Listings(b)' = Listings(b)
  BY <1>1, SameBody DEF Listings, Sources, Versions
<1>3. ASSUME NEW b \in Blocks PROVE list'[b] \in Seq(Listings(b)) \ {<< >>}
  <2>. DEFINE n == Len(list[b])
              h == list'[b]
  <2>1. list[b] \in Seq(Listings(b)) /\ list[b] # << >> /\ n \in Nat \ {0}
        /\ DOMAIN list[b] = 1 .. n
    BY DEF ListTyped
  <2>2. h = [i \in DOMAIN list[b] |->
               IF list[b][i].op \in {"move", "nop"} THEN list[b][i]
               ELSE [list[b][i] EXCEPT !.src = Resolve(@, b, i)]]
    BY DEF Propagate
  <2>3. ASSUME NEW i \in DOMAIN list[b] PROVE h[i] \in Listings(b)
    <3>1. /\ list[b][i] \in Listings(b) /\ Resolve(list[b][i].src, b, i) \in Sources
      BY ListingOf, ResolveTyped
    <3>2. [list[b][i] EXCEPT !.src = Resolve(list[b][i].src, b, i)] \in Listings(b)
      BY <3>1, Resourced
    <3>. QED  BY <2>2, <3>1, <3>2
  <2>4. DOMAIN h = 1 .. n /\ h = [i \in 1 .. n |-> h[i]]
    BY <2>1, <2>2
  <2>. HIDE DEF n, h
  <2>5. h \in [1 .. n -> Listings(b)]
    BY <2>1, <2>3, <2>4
  <2>6. h \in Seq(Listings(b)) /\ Len(h) = n
    BY <2>1, <2>5
  <2>. QED  BY <2>1, <2>6 DEF h
<1>. QED  BY <1>1, <1>2, <1>3 DEF ListTyped

(* Whatever phis are collapsed, they are replaced by versions.             *)
LEMMA CollapseTyped ==
    ASSUME PhisTyped, ArgsTyped
    PROVE  \A v \in DOMAIN Collapse : Collapse[v] \in Sources
<1>1. /\ \A q : q \in PhiSet <=> \E b \in Blocks : \E s \in phis[b] : q = <<b, s>>
      /\ Cardinality(PhiSet) \in Nat
  <2>1. \A q : q \in PhiSet <=> \E b \in Blocks : \E s \in phis[b] : q = <<b, s>>
    BY DEF PhiSet
  <2>2. PhiSet \subseteq Blocks \X Slots
    BY <2>1 DEF PhisTyped
  <2>3. IsFiniteSet(Slots)
    BY FS_Interval, KAssumption DEF Slots
  <2>4. IsFiniteSet(Blocks \X Slots)
    BY <2>3, BlocksFinite, FS_Product
  <2>. QED  BY <2>1, <2>2, <2>4, FS_Subset, FS_CardinalityType
<1>. DEFINE D == [sub : UNION {[X -> Sources] : X \in SUBSET Sources}, blocked : SUBSET Sources]
<1>2. [sub |-> << >>, blocked |-> {}] \in D
  <2>1. << >> \in [{} -> Sources]
    OBVIOUS
  <2>. QED  BY <2>1
<1>3. ASSUME NEW st \in D PROVE Round(st) \in D
  <2>1. /\ st.sub \in [DOMAIN st.sub -> Sources] /\ DOMAIN st.sub \subseteq Sources
        /\ st.blocked \subseteq Sources
    OBVIOUS
  <2>. HIDE DEF D
  <2>2. ASSUME NEW w \in Sources PROVE Look(st.sub, w) \in Sources
    BY <2>1 DEF Look
  <2>3. ASSUME NEW v \in Dests(st) PROVE v \in Sources /\ ArgOf(st)[v] \in Sources
    <3>1. PICK q \in Candidates(st) : v = PhiOf(q[1], q[2])
      BY DEF Dests
    <3>2. q \in PhiSet /\ Cardinality(Same(st, q)) = 1
      BY DEF Candidates
    <3>3. PICK t \in Blocks : \E s \in phis[t] : q = <<t, s>>
      BY <1>1, <3>2
    <3>4. PICK s \in phis[t] : q = <<t, s>>
      BY <3>3
    <3>5. v = PhiOf(t, s) /\ q = <<v[2], v[3]>> /\ s \in Slots
      BY <3>1, <3>4 DEF PhiOf, PhisTyped
    <3>6. v \in Sources
      BY <3>5, VersionsAre DEF Sources
    <3>7. Same(st, q) \subseteq Sources
      <4>1. PhiArgs(t, s) \subseteq Sources
        BY DEF PhiArgs, ArgsTyped
      <4>. QED  BY <2>2, <3>4, <4>1 DEF Same
    <3>8. Same(st, q) # {}
      BY <3>2, FS_EmptySet
    <3>9. ArgOf(st)[v] \in Same(st, q)
      BY <3>5, <3>8 DEF ArgOf
    <3>. QED  BY <3>6, <3>7, <3>9
  <2>4. \A w \in Sources \cup Dests(st) : Onwards(st, w) \in Sources
    BY <2>2, <2>3 DEF Onwards
  <2>5. ASSUME NEW v \in Dests(st) PROVE End(st)[v] \in Sources
    <3>1. Cardinality(PhiSet) + 1 \in 0 .. Cardinality(PhiSet) + 1
      BY <1>1
    <3>2. \A k \in 0 .. Cardinality(PhiSet) + 1 : Chase(st)[k][v] \in Sources \cup Dests(st)
      BY <1>1, <2>4, ChaseRuns
    <3>. QED  BY <2>3, <3>1, <3>2 DEF End
  <2>. DEFINE X == DOMAIN st.sub \cup (Dests(st) \ Cyclic(st))
              new == [v \in X |-> IF v \in Dests(st) THEN End(st)[v] ELSE st.sub[v]]
  <2>6. X \subseteq Sources /\ new \in [X -> Sources]
    BY <2>1, <2>3, <2>5
  <2>7. st.blocked \cup Cyclic(st) \subseteq Sources
    BY <2>1, <2>3 DEF Cyclic
  <2>8. Round(st) = [sub |-> new, blocked |-> st.blocked \cup Cyclic(st)]
    BY RoundIs
  <2>. HIDE DEF X, new
  <2>. QED  BY <2>6, <2>7, <2>8 DEF D
<1>4. PICK st \in D : Collapse = st.sub
  <2>. HIDE DEF D
  <2>. QED  BY <1>1, <1>2, <1>3, CollapseRuns
<1>. QED  BY <1>4

-----------------------------------------------------------------------------
(* Elimination keeps the types.                                            *)

LEMMA EdgeCopiesTyped ==
    ASSUME prog \in Programs, PhisTyped, ArgsTyped,
           NEW sub, \A v \in DOMAIN sub : sub[v] \in Sources, NEW place, NEW b \in Blocks
    PROVE  EdgeCopies(sub, place) \in Seq(Listings(b))
<1>. DEFINE arg(e) == args[e[1]][e[2]][e[3]]
            edges == {e \in Blocks \X Slots \X Blocks :
                        /\ e[2] \in phis[e[1]] /\ PhiOf(e[1], e[2]) \notin DOMAIN sub
                        /\ e[3] \in Preds(G, e[1]) /\ Spot(EdgeBlock(e[3])) = place
                        /\ arg(e) # Undefined}
            order == InOrder(edges, Earlier)
            copy(e) == Copy(PhiOf(e[1], e[2]), Look(sub, arg(e)))
            cs == [k \in DOMAIN order |-> copy(order[k])]
<1>1. EdgeCopies(sub, place) = cs
  BY DEF EdgeCopies
<1>2. order \in Seq(edges)
  <2>1. edges \in SUBSET (Blocks \X Slots \X Blocks)
    OBVIOUS
  <2>. HIDE DEF edges
  <2>. QED  BY <2>1, EdgesInOrder
<1>3. ASSUME NEW e \in edges PROVE copy(e) \in Listings(b)
  <2>1. e[1] \in Blocks /\ e[2] \in Slots /\ arg(e) \in Sources
    BY DEF ArgsTyped
  <2>2. Look(sub, arg(e)) \in Sources
    BY <2>1 DEF Look
  <2>3. PhiOf(e[1], e[2]) \in Versions
    BY <2>1, VersionsAre
  <2>. QED  BY <2>2, <2>3, CopyTyped
<1>. HIDE DEF edges, order, copy
<1>4. PICK w \in Seq(edges) : w = order
  BY <1>2
<1>5. ASSUME NEW k \in DOMAIN w PROVE copy(w[k]) \in Listings(b)
  <2>1. w[k] \in edges
    OBVIOUS
  <2>. QED  BY <1>3, <2>1
<1>6. DOMAIN w = 1 .. Len(w) /\ Len(w) \in Nat
  OBVIOUS
<1>7. [k \in DOMAIN w |-> copy(w[k])] \in [1 .. Len(w) -> Listings(b)]
  BY <1>5, <1>6
<1>8. [k \in DOMAIN w |-> copy(w[k])] \in Seq(Listings(b))
  <2>1. PICK n \in Nat : n = Len(w)
    BY <1>6
  <2>2. PICK u : u = [k \in DOMAIN w |-> copy(w[k])]
    OBVIOUS
  <2>3. u \in [1 .. n -> Listings(b)]
    BY <1>7, <2>1, <2>2
  <2>4. u \in Seq(Listings(b))
    BY <2>3
  <2>. QED  BY <2>2, <2>4
<1>. QED  BY <1>1, <1>4, <1>8

LEMMA LaidTyped ==
    ASSUME NEW X, NEW f \in Seq(X), NEW g \in Seq(X), NEW h \in Seq(X) \ {<< >>}
    PROVE  f \o Front(h) \o g \o <<Last(h)>> \in Seq(X) \ {<< >>}
<1>1. Len(h) \in Nat \ {0}
  OBVIOUS
<1>2. PICK r \in Seq(X) : r = Front(h)
  <2>1. Front(h) = SubSeq(h, 1, Len(h) - 1)
    BY <1>1 DEF Front
  <2>2. SubSeq(h, 1, Len(h) - 1) \in Seq(X)
    BY <1>1
  <2>. QED  BY <2>1, <2>2
<1>3. PICK l \in X : l = Last(h)
  BY <1>1 DEF Last
<1>4. PICK u \in Seq(X) : u = f \o r \o g
  <2>0. f \o r \in Seq(X)
    OBVIOUS
  <2>1. PICK v \in Seq(X) : v = f \o r
    BY <2>0
  <2>2. v \o g \in Seq(X)
    OBVIOUS
  <2>. QED  BY <2>1, <2>2
<1>5. <<l>> \in Seq(X) /\ Len(<<l>>) = 1
  OBVIOUS
<1>6. u \o <<l>> \in Seq(X) /\ Len(u \o <<l>>) = Len(u) + 1 /\ Len(u) \in Nat
  BY <1>5
<1>7. u \o <<l>> # << >>
  BY <1>6
<1>. QED  BY <1>2, <1>3, <1>4, <1>6, <1>7

LEMMA EliminateTypes ==
    ASSUME prog \in Programs, PhisTyped, ArgsTyped, ListTyped, DoorTyped, Eliminate
    PROVE  ListTyped' /\ DoorTyped'
<1>1. prog' = prog
  BY DEF Eliminate
<1>2. \A b : Listings(b)' = Listings(b)
  BY <1>1, SameBody DEF Listings, Sources, Versions
<1>. DEFINE body(b) == [i \in DOMAIN list[b] |-> [list[b][i] EXCEPT !.src = Look(Collapse, @)]]
            first(b) == EdgeCopies(Collapse, <<b, 1>>)
            last(b) == IF Len(list[b]) = 1 THEN << >> ELSE EdgeCopies(Collapse, <<b, Len(list[b])>>)
<1>3. /\ list' = [b \in Blocks |-> first(b) \o Front(body(b)) \o last(b) \o <<Last(body(b))>>]
      /\ door' = [b \in Blocks |->
           door[b] + Len(first(b)) + IF door[b] = Len(list[b]) THEN Len(last(b)) ELSE 0]
  BY DEF Eliminate
<1>4. \A v \in DOMAIN Collapse : Collapse[v] \in Sources
  BY CollapseTyped
<1>5. ASSUME NEW b \in Blocks
      PROVE  first(b) \in Seq(Listings(b)) /\ last(b) \in Seq(Listings(b))
  <2>1. \A place : EdgeCopies(Collapse, place) \in Seq(Listings(b))
    BY <1>4, EdgeCopiesTyped
  <2>. QED  BY <2>1
<1>6. ASSUME NEW b \in Blocks PROVE body(b) \in Seq(Listings(b)) \ {<< >>}
  <2>1. list[b] \in Seq(Listings(b)) /\ list[b] # << >>
    BY DEF ListTyped
  <2>2. PICK n \in Nat \ {0} : n = Len(list[b]) /\ DOMAIN list[b] = 1 .. n
    BY <2>1
  <2>3. ASSUME NEW i \in DOMAIN list[b]
        PROVE  [list[b][i] EXCEPT !.src = Look(Collapse, list[b][i].src)] \in Listings(b)
    <3>1. Look(Collapse, list[b][i].src) \in Sources
      BY <1>4, ListingOf DEF Look
    <3>. QED  BY <3>1, ListingOf, Resourced
  <2>4. PICK h : h = body(b)
    OBVIOUS
  <2>5. h \in [1 .. n -> Listings(b)]
    BY <2>2, <2>3, <2>4
  <2>6. h \in Seq(Listings(b)) /\ Len(h) = n
    BY <2>5
  <2>7. h # << >>
    BY <2>6
  <2>. QED  BY <2>4, <2>6, <2>7
<1>. HIDE DEF body, first, last
<1>7. ASSUME NEW b \in Blocks PROVE list'[b] \in Seq(Listings(b)) \ {<< >>}
  <2>1. list'[b] = first(b) \o Front(body(b)) \o last(b) \o <<Last(body(b))>>
    BY <1>3
  <2>. QED  BY <1>5, <1>6, <2>1, LaidTyped
<1>8. ASSUME NEW b \in Blocks
      PROVE  door[b] + Len(first(b)) + (IF door[b] = Len(list[b]) THEN Len(last(b)) ELSE 0)
                \in Nat \ {0}
  <2>1. door[b] \in Nat \ {0} /\ Len(first(b)) \in Nat /\ Len(last(b)) \in Nat
    BY <1>5 DEF DoorTyped
  <2>. QED  BY <2>1
<1>9. DoorTyped'
  BY <1>3, <1>8 DEF DoorTyped
<1>. QED  BY <1>1, <1>2, <1>7, <1>9 DEF ListTyped

(* A run keeps the types: what it assigns is a version.                    *)
LEMMA AssignedTyped ==
    ASSUME NEW C \in SUBSET Versions, NEW b, NEW insn \in Listings(b),
           NEW pick \in BOOLEAN, pick => insn.op \in {"set", "inc"}
    PROVE  Assigned(C, insn, pick) \subseteq Versions
<1>1. insn.dst \in Sources /\ (insn.op \in {"set", "inc", "move"} => insn.dst # Undefined)
  BY DEF Listings
<1>. QED  BY <1>1 DEF Assigned, Sources

Running ==
    at # << >> => \E b \in Blocks, n \in Nat \ {0} : at = <<b, n>>

TypeInv ==
    /\ TypeOK
    /\ form \in {"source", "analysed", "placed"} => list = [b \in Blocks |-> << >>]
    /\ form \notin {"source", "analysed", "placed"} => ListTyped /\ ArgsTyped
    /\ Running

(* The type invariant as its parts.                                        *)
LEMMA TypeParts ==
    TypeOK <=>
      /\ form \in {"source", "analysed", "placed", "renamed", "propagated", "lowered", "final"}
      /\ chain \in [Blocks -> SUBSET Blocks] /\ frontier \in [Blocks -> SUBSET Blocks]
      /\ live \in [Blocks -> SUBSET Slots] /\ PhisTyped /\ rotated \subseteq Slots
      /\ at = << >> => \A b \in Blocks : \A i \in DOMAIN list[b] :
            /\ list[b][i].op \in Ops /\ list[b][i].of \in 0 .. Len(Code(b))
            /\ list[b][i].dst \in Sources /\ list[b][i].src \in Sources
      /\ DoorTyped
      /\ tagged \in BOOLEAN /\ holds \subseteq Slots /\ carries \subseteq Versions
BY DEF TypeOK, PhisTyped, DoorTyped, Sources

LEMMA TypeStarts ==
    ASSUME Init
    PROVE  TypeInv
<1>1. /\ form = "source" /\ at = << >> /\ tagged = FALSE /\ holds = {} /\ carries = {}
      /\ chain = [b \in Blocks |-> {}] /\ frontier = [b \in Blocks |-> {}]
      /\ live = [b \in Blocks |-> {}] /\ phis = [b \in Blocks |-> {}] /\ rotated = {}
      /\ list = [b \in Blocks |-> << >>] /\ door = [b \in Blocks |-> 1]
  BY DEF Init
<1>2. /\ chain \in [Blocks -> SUBSET Blocks] /\ frontier \in [Blocks -> SUBSET Blocks]
      /\ live \in [Blocks -> SUBSET Slots] /\ PhisTyped /\ DoorTyped
  BY <1>1 DEF PhisTyped, DoorTyped
<1>3. \A b \in Blocks : DOMAIN list[b] = {}
  BY <1>1
<1>4. TypeOK
  BY <1>1, <1>2, <1>3, TypeParts
<1>. QED  BY <1>1, <1>4 DEF TypeInv, Running

-----------------------------------------------------------------------------
(* The steps of a run keep the types.                                      *)

LEMMA SameTyped ==
    ASSUME UNCHANGED <<prog, analysis, tables, list, door>>
    PROVE  /\ ListTyped' = ListTyped /\ ArgsTyped' = ArgsTyped /\ Versions' = Versions
           /\ Sources' = Sources /\ \A b : Code(b)' = Code(b)
<1>1. /\ prog' = prog /\ list' = list /\ args' = args /\ phis' = phis
  BY DEF tables
<1>2. G' = G /\ \A b : Code(b)' = Code(b)
  BY <1>1, SameBody
<1>3. Versions' = Versions /\ Sources' = Sources
  BY <1>2 DEF Versions, Sources
<1>4. \A b : Listings(b)' = Listings(b)
  BY <1>2, <1>3 DEF Listings
<1>. QED  BY <1>1, <1>2, <1>3, <1>4 DEF ListTyped, ArgsTyped

LEMMA ExecuteTypes ==
    ASSUME prog \in Programs, ListTyped, Running, Execute,
           tagged \in BOOLEAN, holds \subseteq Slots, carries \subseteq Versions
    PROVE  /\ tagged' \in BOOLEAN /\ holds' \subseteq Slots /\ carries' \subseteq Versions
           /\ at' # << >> /\ Running'
<1>1. at # << >> /\ ~Leaves /\ at' = <<at[1], at[2] + 1>>
  BY DEF Execute, InBlock
<1>2. PICK b \in Blocks, n \in Nat \ {0} : at = <<b, n>>
  BY <1>1 DEF Running
<1>3. list[b] \in Seq(Listings(b)) /\ n \in DOMAIN list[b]
  <2>1. list[b] \in Seq(Listings(b))
    BY DEF ListTyped
  <2>2. ~(n > Len(list[b]))
    BY <1>1, <1>2 DEF Leaves
  <2>. QED  BY <2>1, <2>2
<1>4. PICK insn \in Listings(b) : insn = Here
  BY <1>2, <1>3, ListingOf DEF Here
<1>5. PICK pick \in BOOLEAN :
         /\ pick => ~tagged /\ insn.op \in {"set", "inc"}
         /\ tagged' = (tagged \/ pick)
         /\ carries' = Assigned(carries, insn, pick)
         /\ holds' = IF insn.of = 0 THEN holds ELSE Assigned(holds, Code(b)[insn.of], pick)
  BY <1>2, <1>4 DEF Execute
<1>6. carries' \subseteq Versions
  BY <1>5, AssignedTyped
<1>7. ASSUME insn.of # 0 PROVE Assigned(holds, Code(b)[insn.of], pick) \subseteq Slots
  <2>1. insn.of \in 0 .. Len(Code(b)) /\ insn.op = Code(b)[insn.of].op
    BY <1>7 DEF Listings
  <2>2. insn.of \in DOMAIN Code(b)
    BY <1>7, <2>1, Shape
  <2>3. PICK c \in Insns : c = Code(b)[insn.of]
    BY <2>2, Shape
  <2>4. c.op \in {"set", "inc", "move"} => c.dst # NoSlot
    BY <2>2, <2>3, Shape
  <2>5. pick => c.op \in {"set", "inc"}
    BY <1>5, <2>1, <2>3
  <2>6. c.dst \in Slots \cup {NoSlot}
    BY DEF Insns
  <2>7. Assigned(holds, c, pick) \subseteq Slots
    BY <2>4, <2>5, <2>6 DEF Assigned
  <2>. QED  BY <2>3, <2>7
<1>8. at' = <<b, n + 1>> /\ n + 1 \in Nat \ {0}
  BY <1>1, <1>2
<1>. QED  BY <1>1, <1>5, <1>6, <1>7, <1>8 DEF Running

LEMMA FollowTypes ==
    ASSUME prog \in Programs, PhisTyped, DoorTyped, Running, Follow, carries \subseteq Versions
    PROVE  carries' \subseteq Versions /\ at' # << >> /\ Running'
<1>1. at # << >>
  BY DEF Follow, Leaves
<1>2. PICK b \in Blocks, n \in Nat \ {0} : at = <<b, n>>
  BY <1>1 DEF Running
<1>3. PICK k \in DOMAIN G[b] :
         /\ at' = <<G[b][k], IF FallsThrough(b, k) THEN 1 ELSE door[G[b][k]]>>
         /\ carries' = (carries \ {PhiOf(G[b][k], s) : s \in Merged(G[b][k])})
               \cup {PhiOf(G[b][k], s) :
                       s \in {r \in Merged(G[b][k]) : args[G[b][k]][r][b] \in carries}}
  BY <1>2 DEF Follow
<1>4. PICK t \in Blocks : t = G[b][k]
  <2>1. G \in Graphs
    BY Shape
  <2>2. G[b] \in Seq(Blocks)
    BY <2>1 DEF Graphs
  <2>. QED  BY <2>2
<1>5. Merged(t) \subseteq Slots
  BY DEF Merged, PhisTyped
<1>6. \A s \in Merged(t) : PhiOf(t, s) \in Versions
  BY <1>5, VersionsAre
<1>7. carries' \subseteq Versions
  BY <1>3, <1>4, <1>6
<1>8. PICK m \in Nat \ {0} : at' = <<t, m>>
  <2>1. door[t] \in Nat \ {0}
    BY DEF DoorTyped
  <2>. QED  BY <1>3, <1>4, <2>1
<1>. QED  BY <1>7, <1>8 DEF Running

LEMMA TypeStays ==
    ASSUME SsaInv, TypeInv, [Next]_vars
    PROVE  TypeInv'
<1>0. /\ prog \in Programs
      /\ form # "source" => Analysed
      /\ form \in {"source", "analysed", "placed"} => at = << >>
  BY DEF SsaInv
<1>1. /\ form \in {"source", "analysed", "placed", "renamed", "propagated", "lowered", "final"}
      /\ chain \in [Blocks -> SUBSET Blocks] /\ frontier \in [Blocks -> SUBSET Blocks]
      /\ live \in [Blocks -> SUBSET Slots] /\ PhisTyped /\ rotated \subseteq Slots
      /\ DoorTyped
      /\ tagged \in BOOLEAN /\ holds \subseteq Slots /\ carries \subseteq Versions
  BY TypeParts DEF TypeInv
<1>2. /\ form \in {"source", "analysed", "placed"} => list = [b \in Blocks |-> << >>]
      /\ form \notin {"source", "analysed", "placed"} => ListTyped /\ ArgsTyped
      /\ Running
  BY DEF TypeInv
<1>3. ASSUME prog' = prog,
             form' \in {"source", "analysed", "placed", "renamed", "propagated", "lowered", "final"},
             chain' \in [Blocks -> SUBSET Blocks], frontier' \in [Blocks -> SUBSET Blocks],
             live' \in [Blocks -> SUBSET Slots], PhisTyped', rotated' \subseteq Slots, DoorTyped',
             tagged' \in BOOLEAN, holds' \subseteq Slots, carries' \subseteq Versions,
             form' \in {"source", "analysed", "placed"} => list' = [b \in Blocks |-> << >>],
             form' \notin {"source", "analysed", "placed"} => ListTyped' /\ ArgsTyped',
             Running'
      PROVE  TypeInv'
  <2>1. \A b \in Blocks : \A i \in DOMAIN list'[b] :
            /\ list'[b][i].op \in Ops /\ list'[b][i].of \in 0 .. Len(Code(b)')
            /\ {list'[b][i].dst, list'[b][i].src} \subseteq Versions' \cup {Undefined}
    <3>1. CASE form' \in {"source", "analysed", "placed"}
      BY <1>3, <3>1
    <3>2. ASSUME form' \notin {"source", "analysed", "placed"},
                 NEW b \in Blocks, NEW i \in DOMAIN list'[b]
          PROVE  /\ list'[b][i].op \in Ops /\ list'[b][i].of \in 0 .. Len(Code(b)')
                 /\ {list'[b][i].dst, list'[b][i].src} \subseteq Versions' \cup {Undefined}
      <4>1. list'[b] \in Seq(Listings(b)')
        BY <1>3, <3>2 DEF ListTyped
      <4>2. list'[b][i] \in Listings(b)'
        BY <4>1
      <4>. QED  BY <4>2 DEF Listings, Sources
    <3>. QED  BY <3>1, <3>2
  <2>2. Versions' = Versions
    BY <1>3, SameBody DEF Versions
  <2>3. TypeOK'
    BY <1>3, <2>1, <2>2 DEF TypeOK, PhisTyped, DoorTyped
  <2>. QED  BY <1>3, <2>3 DEF TypeInv
<1>4. CASE Analyse
  <2>1. /\ prog' = prog /\ form = "source" /\ form' = "analysed" /\ list' = list /\ door' = door
        /\ phis' = phis /\ rotated' = rotated /\ at' = at /\ tagged' = tagged /\ holds' = holds
        /\ carries' = carries /\ live' = LiveIn
        /\ chain' = [b \in Blocks |-> IdomChain(G, Entry, b)]
        /\ frontier' = [b \in Blocks |-> JoinFrontier(G, Entry, b)]
    BY <1>4 DEF Analyse, tables, run
  <2>2. live' \in [Blocks -> SUBSET Slots]
    BY <1>0, <2>1, LiveInFlows DEF LiveSets
  <2>3. \A b \in Blocks : IdomChain(G, Entry, b) \subseteq Blocks
                         /\ JoinFrontier(G, Entry, b) \subseteq Blocks
    BY DEF IdomChain, SDoms, JoinFrontier
  <2>4. chain' \in [Blocks -> SUBSET Blocks] /\ frontier' \in [Blocks -> SUBSET Blocks]
    BY <2>1, <2>3
  <2>5. PhisTyped' /\ DoorTyped' /\ Running' /\ carries' \subseteq Versions'
    BY <1>1, <1>2, <2>1, SameBody DEF PhisTyped, DoorTyped, Running, Versions
  <2>. QED  BY <1>1, <1>2, <1>3, <2>1, <2>2, <2>4, <2>5
<1>5. CASE PlacePhis
  <2>. DEFINE sites == [b \in Blocks |-> {s \in Slots : b \in PhiBlocks(s)}]
  <2>1. /\ prog' = prog /\ form = "analysed" /\ form' = "placed" /\ list' = list /\ door' = door
        /\ chain' = chain /\ frontier' = frontier /\ live' = live /\ at' = at
        /\ tagged' = tagged /\ holds' = holds /\ carries' = carries
        /\ rotated' = IF SelfLatched THEN sites[Entry] ELSE {}
        /\ phis' = [sites EXCEPT ![Entry] = @ \ rotated']
    BY <1>5 DEF PlacePhis, analysis, run
  <2>2. sites \in [Blocks -> SUBSET Slots] /\ Entry \in Blocks
    BY <1>0, Shape
  <2>. HIDE DEF sites
  <2>3. rotated' \subseteq Slots /\ PhisTyped'
    BY <2>1, <2>2 DEF PhisTyped
  <2>4. DoorTyped' /\ Running' /\ carries' \subseteq Versions'
    BY <1>1, <1>2, <2>1, SameBody DEF DoorTyped, Running, Versions
  <2>. QED  BY <1>1, <1>2, <1>3, <2>1, <2>3, <2>4
<1>6. CASE Rename
  <2>1. /\ prog' = prog /\ form = "placed" /\ form' = "renamed" /\ phis' = phis
        /\ chain' = chain /\ frontier' = frontier /\ live' = live /\ rotated' = rotated
        /\ at' = at /\ tagged' = tagged /\ holds' = holds /\ carries' = carries
    BY <1>6 DEF Rename, analysis, run
  <2>2. ListTyped' /\ ArgsTyped' /\ DoorTyped'
    BY <1>0, <1>1, <1>6, <2>1, RenameTypes
  <2>3. PhisTyped' /\ Running' /\ carries' \subseteq Versions'
    BY <1>1, <1>2, <2>1, SameBody DEF PhisTyped, Running, Versions
  <2>. QED  BY <1>1, <1>3, <2>1, <2>2, <2>3
<1>7. CASE Propagate
  <2>1. /\ prog' = prog /\ form = "renamed" /\ form' = "propagated" /\ phis' = phis
        /\ chain' = chain /\ frontier' = frontier /\ live' = live /\ rotated' = rotated
        /\ args' = args /\ door' = door
        /\ at' = at /\ tagged' = tagged /\ holds' = holds /\ carries' = carries
    BY <1>7 DEF Propagate, analysis, tables, run
  <2>2. ListTyped'
    BY <1>0, <1>2, <1>7, <2>1, PropagateTypes
  <2>3. PhisTyped' /\ DoorTyped' /\ Running' /\ Versions' = Versions /\ G' = G
    BY <1>1, <1>2, <2>1, SameBody DEF PhisTyped, DoorTyped, Running, Versions
  <2>4. ArgsTyped'
    BY <1>2, <2>1, <2>3 DEF ArgsTyped, Sources
  <2>. QED  BY <1>1, <1>3, <2>1, <2>2, <2>3, <2>4
<1>8. CASE Eliminate
  <2>1. /\ prog' = prog /\ form \in {"renamed", "propagated"} /\ form' \in {"lowered", "final"}
        /\ phis' = phis /\ chain' = chain /\ frontier' = frontier /\ live' = live
        /\ rotated' = rotated /\ args' = args
        /\ at' = at /\ tagged' = tagged /\ holds' = holds /\ carries' = carries
    BY <1>8 DEF Eliminate, analysis, tables, run
  <2>2. ListTyped' /\ DoorTyped'
    BY <1>0, <1>1, <1>2, <1>8, <2>1, EliminateTypes
  <2>3. PhisTyped' /\ Running' /\ Versions' = Versions /\ G' = G
    BY <1>1, <1>2, <2>1, SameBody DEF PhisTyped, Running, Versions
  <2>4. ArgsTyped'
    BY <1>2, <2>1, <2>3 DEF ArgsTyped, Sources
  <2>. QED  BY <1>1, <1>3, <2>1, <2>2, <2>3, <2>4
<1>9. ASSUME UNCHANGED <<prog, form, analysis, tables, list, door>>, tagged' \in BOOLEAN,
             holds' \subseteq Slots, carries' \subseteq Versions, Running'
      PROVE  TypeInv'
  <2>1. /\ prog' = prog /\ form' = form /\ list' = list /\ door' = door /\ chain' = chain
        /\ frontier' = frontier /\ live' = live /\ phis' = phis /\ rotated' = rotated
        /\ UNCHANGED <<prog, analysis, tables, list, door>>
    BY <1>9 DEF analysis, tables
  <2>2. /\ ListTyped' = ListTyped /\ ArgsTyped' = ArgsTyped /\ Versions' = Versions
    BY <2>1, SameTyped
  <2>3. PhisTyped' /\ DoorTyped'
    BY <1>1, <2>1 DEF PhisTyped, DoorTyped
  <2>. QED  BY <1>1, <1>2, <1>3, <1>9, <2>1, <2>2, <2>3
<1>10. CASE Start
  <2>1. /\ UNCHANGED <<prog, form, analysis, tables, list, door>> /\ at' = <<Entry, 1>>
        /\ \/ UNCHANGED <<tagged, holds, carries>>
           \/ \E s \in Slots : tagged' = TRUE /\ holds' = {s} /\ carries' = {EntryOf(s)}
    BY <1>10 DEF Start
  <2>2. Entry \in Blocks /\ \A s \in Slots : EntryOf(s) \in Versions
    BY <1>0, Shape, VersionsAre
  <2>3. Running'
    BY <2>1, <2>2 DEF Running
  <2>4. tagged' \in BOOLEAN /\ holds' \subseteq Slots /\ carries' \subseteq Versions
    <3>1. CASE UNCHANGED <<tagged, holds, carries>>
      BY <1>1, <3>1
    <3>2. ASSUME NEW s \in Slots, tagged' = TRUE, holds' = {s}, carries' = {EntryOf(s)}
          PROVE  tagged' \in BOOLEAN /\ holds' \subseteq Slots /\ carries' \subseteq Versions
      BY <2>2, <3>2
    <3>. QED  BY <2>1, <3>1, <3>2
  <2>. QED  BY <1>9, <2>1, <2>3, <2>4
<1>11. CASE Execute
  <2>1. UNCHANGED <<prog, form, analysis, tables, list, door>> /\ at # << >>
    BY <1>11 DEF Execute, InBlock
  <2>2. ListTyped
    BY <1>0, <1>1, <1>2, <2>1
  <2>. QED  BY <1>0, <1>1, <1>2, <1>9, <1>11, <2>1, <2>2, ExecuteTypes
<1>12. CASE Follow
  <2>1. UNCHANGED <<prog, form, analysis, tables, list, door>> /\ tagged' = tagged /\ holds' = holds
    BY <1>12 DEF Follow
  <2>. QED  BY <1>0, <1>1, <1>2, <1>9, <1>12, <2>1, FollowTypes
<1>13. CASE UNCHANGED vars
  <2>1. /\ UNCHANGED <<prog, form, analysis, tables, list, door>> /\ tagged' = tagged
        /\ holds' = holds /\ carries' = carries /\ at' = at
    BY <1>13 DEF vars, analysis, tables
  <2>. QED  BY <1>1, <1>2, <1>9, <2>1 DEF Running
<1>. QED  BY <1>4, <1>5, <1>6, <1>7, <1>8, <1>10, <1>11, <1>12, <1>13 DEF Next

LEMMA TypeInvariant == Spec => []TypeInv
<1>1. Init => TypeInv
  BY TypeStarts
<1>2. SsaInv /\ TypeInv /\ [Next]_vars => TypeInv'
  BY TypeStays
<1>. QED  BY <1>1, <1>2, SsaInvariant, PTL DEF Spec

(* Every variable of the construction, the propagation, the lowering and   *)
(* the runs has its type, for every body, looping entries included: the    *)
(* versions a listing names are ones the method has (ssa::build, the copy  *)
(* propagation and ssa::eliminate).                                        *)
THEOREM SsaTypes == Spec => []TypeOK
<1>1. TypeInv => TypeOK
  BY DEF TypeInv
<1>. QED  BY <1>1, TypeInvariant, PTL
=============================================================================
