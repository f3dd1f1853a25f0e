----------------------------- MODULE FlowProofs -----------------------------
(***************************************************************************)
(* What the operators of module Flow compute, for every graph: the set of  *)
(* blocks a recursive function collects in N steps is the least one that   *)
(* is closed under its edges, and the facts about dominance and frontiers  *)
(* that the passes rest on.                                                *)
(***************************************************************************)
EXTENDS Flow, FiniteSetTheorems, SequenceTheorems, TLAPS

(* Every set of numbers has a least element. *)
LEMMA LeastNumber ==
    ASSUME NEW S \in SUBSET Nat, S # {}
    PROVE  \E x \in S : \A y \in S : x <= y
<1>. DEFINE LessThan == {ss \in Nat \X Nat : ss[1] < ss[2]}
<1>1. OpToRel(<, Nat) = LessThan
  BY Zenon DEF OpToRel
<1>2. IsWellFoundedOn(LessThan, Nat)
  BY <1>1, NatLessThanWellFounded, Zenon
<1>. HIDE DEF LessThan
<1>3. PICK x \in S : \A y \in S : <<y, x>> \notin LessThan
  BY <1>2, WFMin, Zenon
<1>4. ASSUME NEW y \in S PROVE x <= y
  <2>1. x \in Nat /\ y \in Nat /\ <<y, x>> \notin LessThan
    BY <1>3
  <2>2. y < x => <<y, x>> \in LessThan
    BY <2>1 DEF LessThan
  <2>. QED  BY <2>1, <2>2
<1>. QED  BY <1>4

(***************************************************************************)
(* Iteration.  F is applied n times to S; f[k] is what k times give.       *)
(***************************************************************************)
Iterates(f, D, S, F, n) ==
    /\ f \in [0 .. n -> D]
    /\ f[0] = S
    /\ \A k \in 1 .. n : f[k] = F[f[k - 1]]

(* F does not lead out of X. *)
Keeps(F, T, X) == \A Y \in SUBSET T : Y \subseteq X => F[Y] \subseteq X

LEMMA IteratesExist ==
    ASSUME NEW D, NEW S \in D, NEW F \in [D -> D], NEW n \in Nat
    PROVE  \E f : Iterates(f, D, S, F, n)
<1>. DEFINE Bad == {m \in Nat : ~ \E f : Iterates(f, D, S, F, m)}
<1>1. SUFFICES Bad = {}
  OBVIOUS
<1>2. SUFFICES ASSUME Bad # {} PROVE FALSE
  OBVIOUS
<1>3. PICK m \in Bad : \A y \in Bad : m <= y
  <2>1. Bad \in SUBSET Nat
    OBVIOUS
  <2>. HIDE DEF Bad
  <2>. QED  BY <1>2, <2>1, LeastNumber
<1>4. m \in Nat /\ ~ \E f : Iterates(f, D, S, F, m)
  BY <1>3
<1>5. CASE m = 0
  <2>1. Iterates([k \in 0 .. 0 |-> S], D, S, F, 0)
    BY DEF Iterates
  <2>. QED  BY <2>1, <1>4, <1>5
<1>6. CASE m # 0
  <2>1. m - 1 \in Nat /\ m - 1 \notin Bad
    BY <1>3, <1>4, <1>6
  <2>2. PICK f : Iterates(f, D, S, F, m - 1)
    BY <2>1
  <2>. DEFINE h == [k \in 0 .. m |-> IF k = m THEN F[f[m - 1]] ELSE f[k]]
  <2>3. f[m - 1] \in D
    BY <2>1, <2>2 DEF Iterates
  <2>4. h \in [0 .. m -> D]
    BY <2>1, <2>2, <2>3, <1>4 DEF Iterates
  <2>5. h[0] = S
    BY <2>1, <2>2, <1>4, <1>6 DEF Iterates
  <2>6. ASSUME NEW k \in 1 .. m PROVE h[k] = F[h[k - 1]]
    <3>1. k - 1 \in 0 .. m - 1 /\ k \in 0 .. m /\ k - 1 # m /\ k - 1 \in 0 .. m
      BY <1>4
    <3>2. h[k - 1] = f[k - 1]
      BY <3>1
    <3>3. CASE k = m
      BY <3>1, <3>2, <3>3
    <3>4. CASE k # m
      <4>1. k \in 1 .. m - 1
        BY <1>4, <3>4
      <4>. QED  BY <4>1, <3>1, <3>2, <3>4, <2>2 DEF Iterates
    <3>. QED  BY <3>3, <3>4
  <2>. HIDE DEF h
  <2>7. Iterates(h, D, S, F, m)
    BY <2>4, <2>5, <2>6 DEF Iterates
  <2>. QED  BY <2>7, <1>4
<1>. QED  BY <1>5, <1>6

(* Each further application of a function that only adds goes beyond n.    *)
LEMMA IteratesGrow ==
    ASSUME NEW T, NEW S \in SUBSET T, NEW F \in [SUBSET T -> SUBSET T],
           \A X \in SUBSET T : X \subseteq F[X],
           NEW n \in Nat, NEW f, Iterates(f, SUBSET T, S, F, n),
           IsFiniteSet(T), Cardinality(T) <= n
    PROVE  F[f[n]] = f[n]
<1>. SUFFICES ASSUME F[f[n]] # f[n] PROVE FALSE
  OBVIOUS
<1>0. /\ f \in [0 .. n -> SUBSET T]
      /\ f[0] = S
      /\ \A k \in 1 .. n : f[k] = F[f[k - 1]]
  BY DEF Iterates
<1>1. \A k \in 0 .. n : F[f[k]] # f[k]
  <2>. DEFINE Bad == {j \in Nat : j <= n /\ F[f[n - j]] = f[n - j]}
  <2>1. SUFFICES Bad = {}
    <3>1. ASSUME Bad = {}, NEW k \in 0 .. n PROVE F[f[k]] # f[k]
      <4>1. n - k \in Nat /\ n - k <= n /\ n - (n - k) = k
        OBVIOUS
      <4>2. n - k \notin Bad
        BY <3>1
      <4>. QED  BY <4>1, <4>2
    <3>. QED  BY <3>1
  <2>2. SUFFICES ASSUME Bad # {} PROVE FALSE
    OBVIOUS
  <2>3. PICK j \in Bad : \A y \in Bad : j <= y
    <3>1. Bad \in SUBSET Nat
      OBVIOUS
    <3>. HIDE DEF Bad
    <3>. QED  BY <2>2, <3>1, LeastNumber
  <2>4. j \in Nat /\ j <= n /\ F[f[n - j]] = f[n - j]
    BY <2>3
  <2>5. j # 0
    BY <2>4
  <2>6. j - 1 \in Nat /\ j - 1 <= n /\ n - (j - 1) \in 1 .. n /\ (n - (j - 1)) - 1 = n - j
    BY <2>4, <2>5
  <2>7. f[n - (j - 1)] = F[f[n - j]]
    BY <1>0, <2>6
  <2>8. F[f[n - (j - 1)]] = f[n - (j - 1)]
    BY <2>4, <2>7
  <2>9. j - 1 \in Bad
    BY <2>6, <2>8
  <2>10. j <= j - 1
    BY <2>3, <2>9
  <2>. QED  BY <2>4, <2>10
<1>2. \A k \in 0 .. n : IsFiniteSet(f[k]) /\ Cardinality(f[k]) >= k
  <2>. DEFINE Bad == {k \in Nat : k <= n /\ ~(Cardinality(f[k]) >= k)}
  <2>1. \A k \in 0 .. n : IsFiniteSet(f[k]) /\ Cardinality(f[k]) \in Nat
    BY <1>0, FS_Subset, FS_CardinalityType
  <2>2. SUFFICES ASSUME Bad # {} PROVE FALSE
    BY <2>1
  <2>3. PICK k \in Bad : \A y \in Bad : k <= y
    <3>1. Bad \in SUBSET Nat
      OBVIOUS
    <3>. HIDE DEF Bad
    <3>. QED  BY <2>2, <3>1, LeastNumber
  <2>4. k \in Nat /\ k <= n /\ ~(Cardinality(f[k]) >= k)
    BY <2>3
  <2>5. k # 0
    BY <2>1, <2>4
  <2>6. k - 1 \in 0 .. n /\ k \in 1 .. n /\ k \in 0 .. n /\ k - 1 \in Nat /\ k - 1 <= n
    BY <2>4, <2>5
  <2>7. Cardinality(f[k - 1]) >= k - 1
    BY <2>3, <2>4, <2>6
  <2>8. f[k] = F[f[k - 1]] /\ f[k - 1] \in SUBSET T
    BY <1>0, <2>6
  <2>9. f[k - 1] \subseteq f[k] /\ f[k - 1] # f[k]
    BY <1>1, <2>6, <2>8
  <2>10. Cardinality(f[k - 1]) <= Cardinality(f[k]) /\ Cardinality(f[k - 1]) # Cardinality(f[k])
    BY <2>9, <2>1, <2>6, FS_Subset
  <2>. QED  BY <2>1, <2>4, <2>6, <2>7, <2>10
<1>3. n \in 0 .. n /\ f[n] \in SUBSET T /\ F[f[n]] \in SUBSET T /\ f[n] \subseteq F[f[n]]
  BY <1>0
<1>4. /\ IsFiniteSet(F[f[n]]) /\ Cardinality(F[f[n]]) <= Cardinality(T)
      /\ Cardinality(f[n]) <= Cardinality(F[f[n]])
      /\ Cardinality(f[n]) # Cardinality(F[f[n]])
  BY <1>3, FS_Subset
<1>5. Cardinality(f[n]) >= n /\ Cardinality(f[n]) \in Nat /\ Cardinality(F[f[n]]) \in Nat
      /\ Cardinality(T) \in Nat
  BY <1>2, <1>3, <1>4, FS_CardinalityType
<1>. QED  BY <1>4, <1>5

(* What was there at the start stays.                                      *)
LEMMA IteratesKeep ==
    ASSUME NEW T, NEW S \in SUBSET T, NEW F \in [SUBSET T -> SUBSET T],
           \A X \in SUBSET T : X \subseteq F[X],
           NEW n \in Nat, NEW f, Iterates(f, SUBSET T, S, F, n)
    PROVE  \A k \in 0 .. n : S \subseteq f[k]
<1>0. /\ f \in [0 .. n -> SUBSET T]
      /\ f[0] = S
      /\ \A k \in 1 .. n : f[k] = F[f[k - 1]]
  BY DEF Iterates
<1>. DEFINE Bad == {k \in Nat : k <= n /\ ~(S \subseteq f[k])}
<1>1. SUFFICES ASSUME Bad # {} PROVE FALSE
  OBVIOUS
<1>2. PICK k \in Bad : \A y \in Bad : k <= y
  <2>1. Bad \in SUBSET Nat
    OBVIOUS
  <2>. HIDE DEF Bad
  <2>. QED  BY <1>1, <2>1, LeastNumber
<1>3. k \in Nat /\ k <= n /\ ~(S \subseteq f[k]) /\ k # 0
  BY <1>0, <1>2
<1>4. k - 1 \in Nat /\ k - 1 <= n /\ k - 1 \in 0 .. n /\ k \in 1 .. n
  BY <1>3
<1>5. S \subseteq f[k - 1]
  <2>1. k - 1 \notin Bad
    BY <1>2, <1>3
  <2>. QED  BY <2>1, <1>4
<1>6. f[k] = F[f[k - 1]] /\ f[k - 1] \subseteq F[f[k - 1]]
  BY <1>0, <1>4
<1>. QED  BY <1>3, <1>5, <1>6

(* What is iterated stays in every set that the function does not leave.   *)
LEMMA IteratesWithin ==
    ASSUME NEW T, NEW S \in SUBSET T, NEW F \in [SUBSET T -> SUBSET T],
           NEW n \in Nat, NEW f, Iterates(f, SUBSET T, S, F, n),
           NEW X, S \subseteq X, Keeps(F, T, X)
    PROVE  \A k \in 0 .. n : f[k] \subseteq X
<1>0. /\ f \in [0 .. n -> SUBSET T]
      /\ f[0] = S
      /\ \A k \in 1 .. n : f[k] = F[f[k - 1]]
  BY DEF Iterates
<1>. DEFINE Bad == {k \in Nat : k <= n /\ ~(f[k] \subseteq X)}
<1>1. SUFFICES ASSUME Bad # {} PROVE FALSE
  OBVIOUS
<1>2. PICK k \in Bad : \A y \in Bad : k <= y
  <2>1. Bad \in SUBSET Nat
    OBVIOUS
  <2>. HIDE DEF Bad
  <2>. QED  BY <1>1, <2>1, LeastNumber
<1>3. k \in Nat /\ k <= n /\ ~(f[k] \subseteq X)
  BY <1>2
<1>4. k # 0
  BY <1>0, <1>3
<1>5. k - 1 \in 0 .. n /\ k - 1 \in Nat /\ k - 1 <= n /\ k \in 1 .. n
  BY <1>3, <1>4
<1>6. f[k - 1] \subseteq X
  <2>1. k - 1 \notin Bad
    BY <1>2, <1>3
  <2>. QED  BY <2>1, <1>5
<1>7. f[k] = F[f[k - 1]] /\ f[k - 1] \in SUBSET T
  BY <1>0, <1>5
<1>. QED  BY <1>3, <1>6, <1>7 DEF Keeps

(* Two tables that agree at 0, and at k when they do at k - 1, agree.      *)
LEMMA SameTable ==
    ASSUME NEW n \in Nat, NEW f, NEW h, h[0] = f[0],
           \A k \in 1 .. n : h[k - 1] = f[k - 1] => h[k] = f[k]
    PROVE  \A k \in 0 .. n : h[k] = f[k]
<1>. DEFINE Bad == {k \in Nat : k <= n /\ h[k] # f[k]}
<1>1. SUFFICES ASSUME Bad # {} PROVE FALSE
  OBVIOUS
<1>2. PICK k \in Bad : \A y \in Bad : k <= y
  <2>1. Bad \in SUBSET Nat
    OBVIOUS
  <2>. HIDE DEF Bad
  <2>. QED  BY <1>1, <2>1, LeastNumber
<1>3. k \in Nat /\ k <= n /\ h[k] # f[k] /\ k # 0
  BY <1>2
<1>4. k - 1 \in Nat /\ k - 1 <= n /\ k \in 1 .. n
  BY <1>3
<1>5. h[k - 1] = f[k - 1]
  <2>1. k - 1 \notin Bad
    BY <1>2, <1>3
  <2>. QED  BY <2>1, <1>4
<1>. QED  BY <1>3, <1>4, <1>5

-----------------------------------------------------------------------------
(***************************************************************************)
(* The blocks that can be reached.                                         *)
(***************************************************************************)
Graphs == [Blocks -> Seq(Blocks)]

LEMMA BlocksFinite == IsFiniteSet(Blocks) /\ Cardinality(Blocks) = N /\ NoBlock \notin Blocks
<1>1. N - 1 - 0 + 1 = N /\ 0 \in Int /\ N - 1 \in Int /\ 0 <= N - 1
  BY NAssumption
<1>. QED  BY <1>1, FS_Interval, NAssumption DEF Blocks, NoBlock

LEMMA TargetsAreBlocks ==
    ASSUME NEW g \in Graphs, NEW b \in Blocks
    PROVE  Targets(g, b) \subseteq Blocks
<1>1. g[b] \in Seq(Blocks)
  BY DEF Graphs
<1>. QED  BY <1>1 DEF Targets

(* Reach is the least set with the root that the edges do not leave.       *)
LEMMA ReachIsLeast ==
    ASSUME NEW g \in Graphs, NEW r \in Blocks, NEW shut
    PROVE  /\ Reach(g, r, shut) \subseteq Blocks
           /\ {r} \ shut \subseteq Reach(g, r, shut)
           /\ \A b \in Reach(g, r, shut) : Targets(g, b) \ shut \subseteq Reach(g, r, shut)
           /\ \A X : /\ {r} \ shut \subseteq X
                     /\ \A b \in X \cap Blocks : Targets(g, b) \ shut \subseteq X
                     => Reach(g, r, shut) \subseteq X
<1>. DEFINE out(Y) == (UNION {Targets(g, b) : b \in Y}) \ shut
            F == [Y \in SUBSET Blocks |-> Y \cup out(Y)]
            Rhs(s) == [k \in 0 .. N |->
                          IF k = 0 THEN {r} \ shut ELSE s[k - 1] \cup out(s[k - 1])]
            step == CHOOSE s : s = Rhs(s)
<1>1. Reach(g, r, shut) = step[N]
  BY DEF Reach
<1>2. F \in [SUBSET Blocks -> SUBSET Blocks]
  BY TargetsAreBlocks
<1>3. \A Y \in SUBSET Blocks : Y \subseteq F[Y]
  OBVIOUS
<1>4. {r} \ shut \in SUBSET Blocks /\ N \in Nat
  BY NAssumption
<1>5. PICK f : Iterates(f, SUBSET Blocks, {r} \ shut, F, N)
  <2>. HIDE DEF F
  <2>. QED  BY <1>2, <1>4, IteratesExist
<1>6. f = Rhs(f)
  <2>1. /\ f \in [0 .. N -> SUBSET Blocks]
        /\ f[0] = {r} \ shut
        /\ \A k \in 1 .. N : f[k] = F[f[k - 1]]
    BY <1>5 DEF Iterates
  <2>2. ASSUME NEW k \in 0 .. N
        PROVE  f[k] = IF k = 0 THEN {r} \ shut ELSE f[k - 1] \cup out(f[k - 1])
    <3>1. CASE k = 0
      BY <2>1, <3>1
    <3>2. CASE k # 0
      <4>1. k \in 1 .. N /\ k - 1 \in 0 .. N
        BY <1>4, <3>2
      <4>2. f[k - 1] \in SUBSET Blocks /\ f[k] = F[f[k - 1]]
        BY <2>1, <4>1
      <4>. QED  BY <4>2, <3>2
    <3>. QED  BY <3>1, <3>2
  <2>. QED  BY <2>1, <2>2
<1>7. step = Rhs(step)
  <2>. HIDE DEF Rhs
  <2>. QED  BY <1>6
<1>8. step[N] = f[N] /\ N \in 0 .. N
  <2>. HIDE DEF out, step
  <2>1. step[0] = f[0]
    <3>1. step[0] = {r} \ shut /\ f[0] = {r} \ shut
      BY <1>4, <1>6, <1>7
    <3>. QED  BY <3>1
  <2>2. ASSUME NEW k \in 1 .. N, step[k - 1] = f[k - 1] PROVE step[k] = f[k]
    <3>1. k \in 0 .. N /\ k # 0
      BY <1>4
    <3>2. step[k] = step[k - 1] \cup out(step[k - 1])
      BY <1>7, <3>1
    <3>3. f[k] = f[k - 1] \cup out(f[k - 1])
      BY <1>6, <3>1
    <3>. QED  BY <2>2, <3>2, <3>3
  <2>. HIDE DEF Rhs
  <2>3. \A k \in 0 .. N : step[k] = f[k]
    BY <2>1, <2>2, <1>4, SameTable
  <2>. QED  BY <2>3, <1>4
<1>. HIDE DEF step, Rhs
<1>9. F[f[N]] = f[N]
  <2>. HIDE DEF F
  <2>1. IsFiniteSet(Blocks) /\ Cardinality(Blocks) <= N
    BY <1>4, BlocksFinite
  <2>. QED  BY <1>2, <1>3, <1>4, <1>5, <2>1, IteratesGrow
<1>10. f[N] \in SUBSET Blocks /\ f[N] \cup out(f[N]) = f[N]
  <2>1. f[N] \in SUBSET Blocks
    BY <1>5, <1>8 DEF Iterates
  <2>. QED  BY <2>1, <1>9
<1>11. {r} \ shut \subseteq f[N]
  <2>. HIDE DEF F
  <2>. QED  BY <1>2, <1>3, <1>4, <1>5, <1>8, IteratesKeep
<1>12. ASSUME NEW X, {r} \ shut \subseteq X,
              \A b \in X \cap Blocks : Targets(g, b) \ shut \subseteq X
       PROVE  f[N] \subseteq X
  <2>1. Keeps(F, Blocks, X)
    BY <1>12 DEF Keeps
  <2>. HIDE DEF F, out
  <2>2. \A k \in 0 .. N : f[k] \subseteq X
    <3>. DEFINE S == {r} \ shut
    <3>1. S \in SUBSET Blocks /\ N \in Nat /\ S \subseteq X /\ Iterates(f, SUBSET Blocks, S, F, N)
      BY <1>12, <1>4, <1>5
    <3>. HIDE DEF S
    <3>. QED  BY <3>1, <2>1, <1>2, IteratesWithin
  <2>. QED  BY <2>2, <1>8
<1>. QED  BY <1>1, <1>8, <1>10, <1>11, <1>12

(* X holds the root and, with a block, what its edges lead to. *)
ClosedSet(g, r, shut, X) ==
    {r} \ shut \subseteq X /\ \A b \in X \cap Blocks : Targets(g, b) \ shut \subseteq X

LEMMA ReachWithin ==
    ASSUME NEW g \in Graphs, NEW r \in Blocks, NEW shut, NEW X, ClosedSet(g, r, shut, X)
    PROVE  Reach(g, r, shut) \subseteq X
BY ReachIsLeast DEF ClosedSet

(* Every reached block but the root is reached from a reached block.       *)
LEMMA LastEdge ==
    ASSUME NEW g \in Graphs, NEW r \in Blocks, NEW shut,
           NEW b \in Reach(g, r, shut), b # r
    PROVE  \E p \in Reach(g, r, shut) : p \in Preds(g, b)
<1>. DEFINE R == Reach(g, r, shut)
            X == R \ {b}
<1>1. SUFFICES ASSUME \A p \in R : p \notin Preds(g, b) PROVE FALSE
  OBVIOUS
<1>2. R \subseteq Blocks /\ {r} \ shut \subseteq R /\ b \in Blocks
      /\ \A c \in R : Targets(g, c) \ shut \subseteq R
  BY ReachIsLeast
<1>3. ClosedSet(g, r, shut, X)
  BY <1>1, <1>2 DEF Preds, ClosedSet
<1>4. R \subseteq X
  <2>. HIDE DEF X
  <2>. QED  BY <1>3, ReachWithin
<1>. QED  BY <1>4

LEMMA ReachFacts ==
    ASSUME NEW g \in Graphs, NEW r \in Blocks, NEW a
    PROVE  /\ Reachable(g, r) \subseteq Blocks /\ r \in Reachable(g, r)
           /\ \A b \in Reachable(g, r) : Targets(g, b) \subseteq Reachable(g, r)
           /\ a \notin Reach(g, r, {a})
           /\ r # a => r \in Reach(g, r, {a})
           /\ \A b \in Reach(g, r, {a}) : Targets(g, b) \ {a} \subseteq Reach(g, r, {a})
           /\ Reach(g, r, {a}) \subseteq Reachable(g, r)
<1>1. /\ Reachable(g, r) \subseteq Blocks /\ r \in Reachable(g, r)
      /\ \A b \in Reachable(g, r) : Targets(g, b) \subseteq Reachable(g, r)
  BY ReachIsLeast DEF Reachable
<1>. DEFINE R == Reach(g, r, {a})
<1>2. /\ R \subseteq Blocks /\ {r} \ {a} \subseteq R
      /\ \A b \in R : Targets(g, b) \ {a} \subseteq R
  BY ReachIsLeast
<1>3. a \notin R
  <2>. DEFINE X == R \ {a}
  <2>1. ClosedSet(g, r, {a}, X)
    BY <1>2 DEF ClosedSet
  <2>2. R \subseteq X
    <3>. HIDE DEF X
    <3>. QED  BY <2>1, ReachWithin
  <2>. QED  BY <2>2
<1>4. R \subseteq Reachable(g, r)
  <2>1. ClosedSet(g, r, {a}, Reachable(g, r))
    BY <1>1 DEF ClosedSet
  <2>. QED  BY <2>1, ReachWithin
<1>. QED  BY <1>1, <1>2, <1>3, <1>4

(***************************************************************************)
(* Dominance.                                                              *)
(***************************************************************************)
(* What lies on every path to a block lies on every path to the blocks     *)
(* before it.                                                              *)
LEMMA SDomsOfPreds ==
    ASSUME NEW g \in Graphs, NEW r \in Blocks, NEW b \in Blocks, NEW p \in Preds(g, b),
           NEW a \in SDoms(g, r, b)
    PROVE  a \in {p} \cup SDoms(g, r, p)
<1>1. a \in Blocks /\ a # b /\ b \notin Reach(g, r, {a}) /\ p \in Blocks /\ b \in Targets(g, p)
  BY DEF SDoms, Dominates, Preds
<1>2. p \notin Reach(g, r, {a})
  BY <1>1, ReachFacts
<1>. QED  BY <1>1, <1>2 DEF SDoms, Dominates

LEMMA SDomsOfRoot ==
    ASSUME NEW g \in Graphs, NEW r \in Blocks
    PROVE  SDoms(g, r, r) = {}
BY ReachFacts DEF SDoms, Dominates

LEMMA SDomsReachable ==
    ASSUME NEW g \in Graphs, NEW r \in Blocks, NEW b \in Reachable(g, r), NEW a \in SDoms(g, r, b)
    PROVE  a \in Reachable(g, r) \ {b}
<1>. SUFFICES ASSUME a \notin Reachable(g, r) PROVE FALSE
  BY DEF SDoms
<1>1. b \notin Reach(g, r, {a})
  BY DEF SDoms, Dominates
<1>2. Reachable(g, r) \subseteq Reach(g, r, {a})
  <2>1. r \in Reach(g, r, {a}) /\ Reach(g, r, {a}) \subseteq Reachable(g, r)
    BY ReachFacts
  <2>2. \A c \in Reach(g, r, {a}) : Targets(g, c) \subseteq Reach(g, r, {a})
    BY <2>1, ReachFacts
  <2>3. ClosedSet(g, r, {}, Reach(g, r, {a}))
    BY <2>1, <2>2 DEF ClosedSet
  <2>. QED  BY <2>3, ReachWithin DEF Reachable
<1>. QED  BY <1>1, <1>2

(***************************************************************************)
(* Frontiers.                                                              *)
(***************************************************************************)
LEMMA FiniteUnion ==
    ASSUME NEW S, IsFiniteSet(S), NEW f, \A x \in S : IsFiniteSet(f[x])
    PROVE  IsFiniteSet(UNION {f[x] : x \in S})
<1>. DEFINE h == [x \in S |-> f[x]]
            T == {f[x] : x \in S}
<1>1. h \in Surjection(S, T)
  BY DEF Surjection
<1>2. IsFiniteSet(T)
  <2>. HIDE DEF T, h
  <2>. QED  BY <1>1, FS_Surjection
<1>3. \A X \in T : IsFiniteSet(X)
  OBVIOUS
<1>4. IsFiniteSet(UNION T)
  <2>. HIDE DEF T
  <2>. QED  BY <1>2, <1>3, FS_UNION
<1>. QED  BY <1>4

LEMMA InEdgesFinite ==
    ASSUME NEW g \in Graphs, NEW b \in Blocks
    PROVE  /\ IsFiniteSet(InEdges(g, b))
           /\ \A e : e \in InEdges(g, b) <=>
                 \E p \in Preds(g, b) : \E k \in 1 .. Len(g[p]) : g[p][k] = b /\ e = <<p, k>>
<1>. DEFINE from(p) == {p} \X {k \in 1 .. Len(g[p]) : g[p][k] = b}
            f == [p \in Blocks |-> from(p)]
<1>1. \A p \in Blocks : Len(g[p]) \in Nat
  BY DEF Graphs
<1>2. ASSUME NEW p \in Blocks PROVE IsFiniteSet(from(p))
  <2>1. IsFiniteSet(1 .. Len(g[p]))
    BY <1>1, FS_Interval
  <2>2. IsFiniteSet({k \in 1 .. Len(g[p]) : g[p][k] = b})
    BY <2>1, FS_Subset
  <2>. QED  BY <2>2, FS_Singleton, FS_Product
<1>3. IsFiniteSet(UNION {f[p] : p \in Blocks})
  <2>1. \A p \in Blocks : IsFiniteSet(f[p])
    <3>. HIDE DEF from
    <3>. QED  BY <1>2
  <2>. HIDE DEF f
  <2>. QED  BY <2>1, BlocksFinite, FiniteUnion
<1>4. UNION {f[p] : p \in Blocks} = InEdges(g, b)
  BY DEF InEdges
<1>7. \A e : e \in InEdges(g, b) <=>
         \E p \in Preds(g, b) : \E k \in 1 .. Len(g[p]) : g[p][k] = b /\ e = <<p, k>>
  BY DEF InEdges, Preds, Targets
<1>. QED  BY <1>3, <1>4, <1>7

(* A block that is no join has at most one block before it, not itself.    *)
LEMMA NoJoinOnePred ==
    ASSUME NEW g \in Graphs, NEW b \in Blocks, ~IsJoin(g, b),
           NEW p \in Preds(g, b)
    PROVE  Preds(g, b) = {p} /\ p # b
<1>. DEFINE E == InEdges(g, b)
<1>1. IsFiniteSet(E) /\ Cardinality(E) \in Nat /\ ~(Cardinality(E) >= 2)
  BY InEdgesFinite, FS_CardinalityType DEF IsJoin
<1>2. ASSUME NEW q \in Preds(g, b) PROVE \E k : <<q, k>> \in E
  <2>1. b \in Targets(g, q)
    BY DEF Preds
  <2>2. PICK k \in 1 .. Len(g[q]) : g[q][k] = b
    BY <2>1 DEF Targets
  <2>. QED  BY <2>2, InEdgesFinite
<1>3. PICK k : <<p, k>> \in E
  BY <1>2
<1>. HIDE DEF E
<1>4. Cardinality(E) = 1
  <2>1. Cardinality(E) # 0
    BY <1>1, <1>3, FS_EmptySet
  <2>. QED  BY <1>1, <2>1
<1>5. ASSUME NEW q \in Preds(g, b) PROVE q = p
  <2>1. PICK l : <<q, l>> \in E
    BY <1>2
  <2>2. PICK x : E = {x}
    BY <1>1, <1>4, FS_Singleton
  <2>. QED  BY <1>3, <2>1, <2>2
<1>6. Preds(g, b) = {p}
  BY <1>5
<1>. QED  BY <1>4, <1>6 DEF IsJoin, SelfOnly, E

(* The joins that the finished tree finds for a block are Cytron's, but    *)
(* for the root, where control also comes in from outside.                 *)
LEMMA JoinFrontierIsCytron ==
    ASSUME NEW g \in Graphs, NEW r \in Blocks, NEW a \in Reachable(g, r)
    PROVE  JoinFrontier(g, r, a) \ {r} = Cytron(g, r, a) \ {r}
<1>0. a \in Blocks /\ Reachable(g, r) \subseteq Blocks
  BY ReachFacts
<1>1. ASSUME NEW b \in JoinFrontier(g, r, a), b # r PROVE b \in Cytron(g, r, a)
  <2>1. b \in Blocks /\ a \notin IdomChain(g, r, b) \ {b}
    BY DEF JoinFrontier
  <2>2. PICK p \in Preds(g, b) : a \in IdomChain(g, r, p)
    BY DEF JoinFrontier
  <2>3. p \in Reachable(g, r) /\ Dominates(g, r, a, p)
    BY <2>2 DEF IdomChain, SDoms, Dominates
  <2>4. b \in Reachable(g, r)
    <3>1. b \in Targets(g, p)
      BY <2>2 DEF Preds
    <3>. QED  BY <2>3, <3>1, ReachFacts
  <2>5. a \notin SDoms(g, r, b)
    BY <2>1, <2>4 DEF IdomChain, SDoms
  <2>. QED  BY <2>2, <2>3, <2>4, <2>5 DEF Cytron
<1>2. ASSUME NEW b \in Cytron(g, r, a), b # r PROVE b \in JoinFrontier(g, r, a)
  <2>1. b \in Reachable(g, r) /\ b \in Blocks /\ a \notin SDoms(g, r, b)
    BY <1>0 DEF Cytron
  <2>2. PICK p \in Preds(g, b) \cap Reachable(g, r) : Dominates(g, r, a, p)
    BY DEF Cytron
  <2>3. a \in IdomChain(g, r, p)
    BY <2>2, <1>0 DEF IdomChain, SDoms
  <2>4. a \notin IdomChain(g, r, b) \ {b}
    BY <2>1 DEF IdomChain
  <2>5. IsJoin(g, b)
    <3>. SUFFICES ASSUME ~IsJoin(g, b) PROVE FALSE
      OBVIOUS
    <3>1. Preds(g, b) = {p} /\ p # b
      BY <2>1, <2>2, NoJoinOnePred
    <3>2. CASE a # b
      <4>1. b \in Reach(g, r, {a})
        BY <2>1, <1>0, <3>2 DEF SDoms, Dominates
      <4>2. PICK q \in Reach(g, r, {a}) : q \in Preds(g, b)
        BY <4>1, <1>2, LastEdge
      <4>3. p \in Reach(g, r, {a})
        BY <4>2, <3>1
      <4>. QED  BY <4>3, <2>2, ReachFacts DEF Dominates
    <3>3. CASE a = b
      <4>1. p \notin Reach(g, r, {b})
        BY <2>2, <3>1, <3>3 DEF Dominates
      <4>2. r \in Reach(g, r, {b}) /\ b \notin Reach(g, r, {b})
        BY <1>2, ReachFacts
      <4>3. \A c \in Reach(g, r, {b}) \cap Blocks : b \notin Targets(g, c)
        BY <4>1, <3>1 DEF Preds
      <4>4. \A c \in Reach(g, r, {b}) \cap Blocks : Targets(g, c) \subseteq Reach(g, r, {b})
        <5>1. \A c \in Reach(g, r, {b}) : Targets(g, c) \ {b} \subseteq Reach(g, r, {b})
          BY ReachFacts
        <5>. QED  BY <5>1, <4>3
      <4>6. ClosedSet(g, r, {}, Reach(g, r, {b}))
        BY <4>2, <4>4 DEF ClosedSet
      <4>5. Reachable(g, r) \subseteq Reach(g, r, {b})
        BY <4>6, ReachWithin DEF Reachable
      <4>. QED  BY <4>2, <4>5, <2>1
    <3>. QED  BY <3>2, <3>3
  <2>. QED  BY <2>1, <2>2, <2>3, <2>4, <2>5 DEF JoinFrontier
<1>. QED  BY <1>1, <1>2
=============================================================================
