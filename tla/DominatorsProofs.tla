-------------------------- MODULE DominatorsProofs --------------------------
(***************************************************************************)
(* compute_from on every graph: the two-finger walk never leaves the tree, *)
(* so expect("dominator walk before entry") cannot abort the program; the  *)
(* chains of the tree hold every true dominator while the sweeps still     *)
(* correct them, and nothing else once they end; the frontiers follow.     *)
(***************************************************************************)
EXTENDS Dominators, FlowProofs

(* The search keeps the entry at the bottom of its stack, so the entry     *)
(* leaves last and heads the reverse postorder, once.                      *)
EntryFirst ==
    /\ rpo # << >> /\ rpo[1] = entry
    /\ \A k \in 2 .. Len(rpo) : rpo[k] # entry

Frames == Blocks \X (Nat \ {0})

SearchInv ==
    /\ g \in [Blocks -> Seq(Blocks)] /\ entry \in Blocks
    /\ stack \in Seq(Frames) /\ rpo \in Seq(Blocks)
    /\ entry \in visited
    /\ stack # << >> =>
          /\ stack[1][1] = entry
          /\ \A k \in 2 .. Len(stack) : stack[k][1] # entry
          /\ \A k \in 1 .. Len(rpo) : rpo[k] # entry
    /\ stack = << >> => EntryFirst
    /\ pc # "search" => stack = << >>

(* Everything the fingers can stand on has a place in the tree, and only   *)
(* the entry has nothing above it.                                         *)
TreeInv ==
    /\ idom \in [Blocks -> Blocks \cup {NoBlock}]
    /\ processed \subseteq Blocks /\ entry \in processed
    /\ \A b \in processed \ {entry} : idom[b] \in processed

WalkInv ==
    /\ at \in Nat \ {0}
    /\ pc \in {"meet", "climb"} => at <= Len(rpo)
    /\ todo \subseteq processed
    /\ cand \in processed \cup {NoBlock}
    /\ pc = "climb" => f1 \in processed /\ f2 \in processed

WInv == SearchInv /\ TreeInv /\ WalkInv /\ WalkStaysInTree

(* The frames below the top of a stack. *)
LEMMA FrontOf ==
    ASSUME NEW S, NEW s \in Seq(S), s # << >>
    PROVE  /\ SubSeq(s, 1, Len(s) - 1) \in Seq(S)
           /\ Len(SubSeq(s, 1, Len(s) - 1)) = Len(s) - 1
           /\ \A k \in 1 .. Len(s) - 1 : SubSeq(s, 1, Len(s) - 1)[k] = s[k]
<1>. DEFINE n == Len(s) - 1
<1>1. n \in Nat /\ \A k \in 1 .. n : s[k] \in S
  OBVIOUS
<1>. HIDE DEF n
<1>2. /\ SubSeq(s, 1, n) \in Seq(S)
      /\ Len(SubSeq(s, 1, n)) = n
      /\ \A k \in 1 .. n : SubSeq(s, 1, n)[k] = s[k]
  BY <1>1, SubSeqProperties
<1>. QED  BY <1>2 DEF n

(* Replacing the counter of the top frame leaves the blocks of all. *)
LEMMA Recounted ==
    ASSUME NEW s \in Seq(Frames), s # << >>, NEW t \in Nat \ {0}
    PROVE  LET r == Append(SubSeq(s, 1, Len(s) - 1), <<s[Len(s)][1], t>>)
           IN  /\ r \in Seq(Frames) /\ Len(r) = Len(s)
               /\ \A k \in 1 .. Len(s) : r[k][1] = s[k][1]
               /\ \A k \in 1 .. Len(s) - 1 : r[k][2] = s[k][2]
               /\ r[Len(s)][2] = t
<1>. DEFINE n == Len(s)
            f == SubSeq(s, 1, n - 1)
            e == <<s[n][1], t>>
            r == Append(f, e)
<1>1. n \in Nat \ {0} /\ s[n] \in Frames /\ e \in Frames
  BY DEF Frames
<1>2. /\ f \in Seq(Frames) /\ Len(f) = n - 1
      /\ \A k \in 1 .. n - 1 : f[k] = s[k]
  BY FrontOf
<1>3. e[1] = s[n][1]
  OBVIOUS
<1>4. r = Append(f, e)
  OBVIOUS
<1>. HIDE DEF f, e, r
<1>5. r \in Seq(Frames) /\ Len(r) = n
  BY <1>1, <1>2, <1>4
<1>6. r[n] = e /\ \A k \in 1 .. n - 1 : r[k] = f[k]
  BY <1>1, <1>2, <1>4, AppendProperties
<1>7. \A k \in 1 .. n - 1 : r[k] = s[k]
  BY <1>2, <1>6, Zenon
<1>8. ASSUME NEW k \in 1 .. n
      PROVE  r[k][1] = s[k][1]
  <2>1. k = n \/ k \in 1 .. n - 1
    BY <1>1
  <2>. QED  BY <2>1, <1>3, <1>6, <1>7, Zenon
<1>9. \A k \in 1 .. n - 1 : r[k][2] = s[k][2]
  BY <1>7, Zenon
<1>10. r[n][2] = t
  BY <1>6 DEF e
<1>. QED  BY <1>5, <1>8, <1>9, <1>10 DEF r, f, e

(* A block put in front of the order. *)
LEMMA Prepended ==
    ASSUME NEW S, NEW s \in Seq(S), NEW x \in S
    PROVE  /\ <<x>> \o s \in Seq(S)
           /\ Len(<<x>> \o s) = Len(s) + 1
           /\ (<<x>> \o s)[1] = x
           /\ \A k \in 2 .. Len(s) + 1 : (<<x>> \o s)[k] = s[k - 1]
<1>1. <<x>> \in Seq(S) /\ Len(<<x>>) = 1 /\ <<x>>[1] = x /\ Len(s) \in Nat
  OBVIOUS
<1>. DEFINE o == <<x>>
<1>. HIDE DEF o
<1>2. o \in Seq(S) /\ Len(o) = 1 /\ o[1] = x
  BY <1>1 DEF o
<1>3. /\ o \o s \in Seq(S) /\ Len(o \o s) = Len(s) + 1 /\ (o \o s)[1] = x
      /\ \A k \in 2 .. Len(s) + 1 : (o \o s)[k] = s[k - 1]
  BY <1>1, <1>2, ConcatProperties
<1>. QED  BY <1>3 DEF o

LEMMA NoBlockIsNone == NoBlock \notin Blocks
BY NAssumption DEF NoBlock, Blocks

(* The entry's position is 1 and no other block has it. *)
LEMMA EntryOrder ==
    ASSUME SearchInv, stack = << >>
    PROVE  /\ Order(entry) = 1
           /\ \A b \in Blocks : Order(b) \in Nat /\ Order(b) >= 1
           /\ \A b \in Blocks : Order(b) = 1 => b = entry
<1>1. rpo \in Seq(Blocks) /\ EntryFirst
  BY DEF SearchInv
<1>2. Len(rpo) \in Nat /\ 1 \in 1 .. Len(rpo)
  BY <1>1 DEF EntryFirst
<1>3. ASSUME NEW b, \E k \in 1 .. Len(rpo) : rpo[k] = b
      PROVE  Order(b) \in 1 .. Len(rpo) /\ rpo[Order(b)] = b
  BY <1>3 DEF Order
<1>4. ASSUME NEW b, ~ \E k \in 1 .. Len(rpo) : rpo[k] = b
      PROVE  Order(b) = N + 1
  BY <1>4 DEF Order
<1>5. Order(entry) = 1
  BY <1>1, <1>2, <1>3 DEF EntryFirst
<1>6. ASSUME NEW b \in Blocks
      PROVE  Order(b) \in Nat /\ Order(b) >= 1 /\ (Order(b) = 1 => b = entry)
  <2>1. CASE \E k \in 1 .. Len(rpo) : rpo[k] = b
    BY <2>1, <1>1, <1>2, <1>3 DEF EntryFirst
  <2>2. CASE ~ \E k \in 1 .. Len(rpo) : rpo[k] = b
    BY <2>2, <1>4, NAssumption
  <2>. QED  BY <2>1, <2>2
<1>. QED  BY <1>5, <1>6

(* The finger that has to go up is never the entry, so it can. *)
LEMMA LowerHasParent ==
    ASSUME WInv, pc = "climb", f1 # f2
    PROVE  /\ Lower \in {f1, f2} /\ Lower \in processed \ {entry}
           /\ idom[Lower] \in processed /\ idom[Lower] # NoBlock
<1>1. stack = << >> /\ SearchInv
  BY DEF WInv, SearchInv
<1>2. f1 \in processed /\ f2 \in processed /\ processed \subseteq Blocks
  BY DEF WInv, WalkInv, TreeInv
<1>3. Lower \in {f1, f2}
  BY DEF Lower
<1>4. Lower # entry
  <2>1. /\ Order(entry) = 1
        /\ Order(f1) \in Nat /\ Order(f1) >= 1 /\ (Order(f1) = 1 => f1 = entry)
        /\ Order(f2) \in Nat /\ Order(f2) >= 1
    BY <1>1, <1>2, EntryOrder
  <2>2. CASE Order(f1) > Order(f2)
    BY <2>1, <2>2 DEF Lower
  <2>3. CASE ~(Order(f1) > Order(f2))
    BY <2>1, <2>3 DEF Lower
  <2>. QED  BY <2>2, <2>3
<1>5. idom[Lower] \in processed
  BY <1>2, <1>3, <1>4 DEF WInv, TreeInv
<1>. QED  BY <1>2, <1>3, <1>4, <1>5, NoBlockIsNone

LEMMA WInit == Init => WInv
<1>. SUFFICES ASSUME Init PROVE WInv
  OBVIOUS
<1>1. SearchInv
  BY RootedAssumption DEF Init, SearchInv, EntryFirst, Frames
<1>2. TreeInv
  BY RootedAssumption DEF Init, TreeInv
<1>3. WalkInv
  BY DEF Init, WalkInv
<1>. QED  BY <1>1, <1>2, <1>3 DEF WInv, Init, WalkStaysInTree

(* A child of a block is a block. *)
LEMMA ChildIsBlock ==
    ASSUME g \in [Blocks -> Seq(Blocks)], NEW b \in Blocks, NEW k \in 1 .. Len(g[b])
    PROVE  g[b][k] \in Blocks
OBVIOUS

LEMMA DescendKeeps == WInv /\ Descend => WInv'
<1>. SUFFICES ASSUME WInv, Descend PROVE WInv'
  OBVIOUS
<1>. USE DEF WInv
<1>1. TreeInv' /\ WalkInv' /\ WalkStaysInTree'
  BY DEF Descend, TreeInv, WalkInv, WalkStaysInTree, tree, walk, input
<1>2. SearchInv'
  <2>. DEFINE n == Len(stack)
              child == g[Top[1]][Top[2]]
              resumed == Append(Below, <<Top[1], Top[2] + 1>>)
  <2>1. stack \in Seq(Frames) /\ stack # << >> /\ n \in Nat \ {0}
    BY DEF Descend, SearchInv
  <2>2. Top = stack[n] /\ Top[1] \in Blocks /\ Top[2] \in Nat \ {0}
    BY <2>1 DEF Top, Frames
  <2>3. Top[2] + 1 \in Nat \ {0} /\ resumed = Append(SubSeq(stack, 1, n - 1), <<stack[n][1], Top[2] + 1>>)
    BY <2>2 DEF Below
  <2>4. /\ resumed \in Seq(Frames) /\ Len(resumed) = n
        /\ \A k \in 1 .. n : resumed[k][1] = stack[k][1]
    <3>. DEFINE t == Top[2] + 1
    <3>1. t \in Nat \ {0} /\ resumed = Append(SubSeq(stack, 1, n - 1), <<stack[n][1], t>>)
      BY <2>3
    <3>. HIDE DEF t, resumed
    <3>. QED  BY <2>1, <3>1, Recounted
  <2>5. /\ stack' = IF Unseen(child) THEN Append(resumed, <<child, 1>>) ELSE resumed
        /\ rpo' = rpo /\ pc' = pc /\ g' = g /\ entry' = entry /\ visited' = visited \cup {child}
        /\ pc = "search"
    BY DEF Descend, input
  <2>6. child \in Blocks /\ <<child, 1>> \in Frames
    <3>1. Top[2] \in 1 .. Len(g[Top[1]])
      <4>1. g \in [Blocks -> Seq(Blocks)]
        BY DEF SearchInv
      <4>. QED  BY <4>1, <2>2 DEF Descend
    <3>2. child \in Blocks
      BY <3>1, <2>2, ChildIsBlock DEF SearchInv
    <3>. QED  BY <3>2 DEF Frames
  <2>. HIDE DEF n, child, resumed
  <2>7. CASE Unseen(child)
    <3>1. child # entry
      BY <2>7 DEF Unseen, SearchInv
    <3>2. /\ stack' \in Seq(Frames) /\ stack' # << >> /\ Len(stack') = n + 1
          /\ \A k \in 1 .. n : stack'[k] = resumed[k]
          /\ stack'[n + 1] = <<child, 1>>
      BY <2>4, <2>5, <2>6, <2>7, AppendProperties
    <3>3. stack'[1][1] = entry
      <4>1. stack'[1] = resumed[1] /\ resumed[1][1] = stack[1][1] /\ stack[1][1] = entry
        BY <3>2, <2>1, <2>4 DEF SearchInv
      <4>. QED  BY <4>1, Zenon
    <3>4. ASSUME NEW k \in 2 .. n + 1 PROVE stack'[k][1] # entry
      <4>1. CASE k = n + 1
        BY <4>1, <3>1, <3>2
      <4>2. CASE k # n + 1
        <5>1. k \in 1 .. n /\ k \in 2 .. Len(stack)
          BY <4>2, <2>1 DEF n
        <5>2. stack'[k] = resumed[k] /\ resumed[k][1] = stack[k][1]
          BY <5>1, <3>2, <2>4
        <5>. QED  BY <5>1, <5>2, <2>1 DEF SearchInv
      <4>. QED  BY <4>1, <4>2
    <3>. QED  BY <3>2, <3>3, <3>4, <2>1, <2>5 DEF SearchInv
  <2>8. CASE ~Unseen(child)
    <3>1. /\ stack' \in Seq(Frames) /\ stack' # << >> /\ Len(stack') = n
          /\ \A k \in 1 .. n : stack'[k][1] = stack[k][1]
      BY <2>1, <2>4, <2>5, <2>8
    <3>2. stack'[1][1] = entry /\ \A k \in 2 .. n : stack'[k][1] # entry
      BY <3>1, <2>1 DEF SearchInv, n
    <3>. QED  BY <3>1, <3>2, <2>1, <2>5 DEF SearchInv
  <2>. QED  BY <2>7, <2>8
<1>. QED  BY <1>1, <1>2

LEMMA RetreatKeeps == WInv /\ Retreat => WInv'
<1>. SUFFICES ASSUME WInv, Retreat PROVE WInv'
  OBVIOUS
<1>. USE DEF WInv
<1>1. TreeInv' /\ WalkInv' /\ WalkStaysInTree'
  BY DEF Retreat, TreeInv, WalkInv, WalkStaysInTree, tree, walk, input
<1>2. SearchInv'
  <2>. DEFINE n == Len(stack)
  <2>1. stack \in Seq(Frames) /\ stack # << >> /\ n \in Nat \ {0} /\ rpo \in Seq(Blocks)
    BY DEF Retreat, SearchInv
  <2>2. Top = stack[n] /\ Top[1] \in Blocks
    BY <2>1 DEF Top, Frames
  <2>3. /\ stack' = SubSeq(stack, 1, n - 1) /\ rpo' = <<Top[1]>> \o rpo
        /\ pc' = pc /\ g' = g /\ entry' = entry /\ visited' = visited /\ pc = "search"
    BY DEF Retreat, Below, input
  <2>4. /\ stack' \in Seq(Frames) /\ Len(stack') = n - 1
        /\ \A k \in 1 .. n - 1 : stack'[k] = stack[k]
    BY <2>1, <2>3, FrontOf
  <2>5. /\ rpo' \in Seq(Blocks) /\ Len(rpo') = Len(rpo) + 1 /\ rpo' # << >> /\ rpo'[1] = Top[1]
        /\ \A k \in 2 .. Len(rpo') : rpo'[k] = rpo[k - 1]
    BY <2>1, <2>2, <2>3, Prepended
  <2>6. \A k \in 2 .. Len(rpo') : rpo'[k] # entry
    <3>. TAKE k \in 2 .. Len(rpo')
    <3>1. k - 1 \in 1 .. Len(rpo)
      BY <2>1, <2>5
    <3>. QED  BY <3>1, <2>1, <2>5 DEF SearchInv
  <2>. HIDE DEF n
  <2>7. CASE n = 1
    <3>1. stack' = << >>
      BY <2>4, <2>7
    <3>2. Top[1] = entry
      BY <2>1, <2>2, <2>7 DEF SearchInv
    <3>. QED  BY <3>1, <3>2, <2>3, <2>4, <2>5, <2>6 DEF SearchInv, EntryFirst
  <2>8. CASE n # 1
    <3>1. stack' # << >> /\ 1 \in 1 .. n - 1
      BY <2>1, <2>4, <2>8
    <3>2. Top[1] # entry
      <4>1. n \in 2 .. n
        BY <2>1, <2>8
      <4>2. stack[n][1] # entry
        BY <4>1, <2>1 DEF SearchInv, n
      <4>. QED  BY <4>2, <2>2, Zenon
    <3>3. \A k \in 1 .. Len(rpo') : rpo'[k] # entry
      BY <3>2, <2>1, <2>5, <2>6
    <3>4. stack'[1][1] = entry /\ \A k \in 2 .. Len(stack') : stack'[k][1] # entry
      BY <3>1, <2>1, <2>4 DEF SearchInv, n
    <3>. QED  BY <3>1, <3>3, <3>4, <2>3, <2>4, <2>5 DEF SearchInv
  <2>. QED  BY <2>7, <2>8
<1>. QED  BY <1>1, <1>2

(* The sweeps leave the search as it ended. *)
LEMMA SearchKept ==
    ASSUME SearchInv, UNCHANGED input, UNCHANGED search, pc' # "search" => stack = << >>
    PROVE  SearchInv'
BY DEF SearchInv, EntryFirst, search, input

LEMMA StartSweepsKeeps == WInv /\ StartSweeps => WInv'
<1>. SUFFICES ASSUME WInv, StartSweeps PROVE WInv'
  OBVIOUS
<1>. USE DEF WInv
<1>1. SearchInv'
  BY SearchKept DEF StartSweeps
<1>2. TreeInv' /\ WalkInv' /\ WalkStaysInTree'
  BY DEF StartSweeps, TreeInv, WalkInv, WalkStaysInTree, walk, input
<1>. QED  BY <1>1, <1>2

LEMMA PickBlockKeeps == WInv /\ PickBlock => WInv'
<1>. SUFFICES ASSUME WInv, PickBlock PROVE WInv'
  OBVIOUS
<1>. USE DEF WInv
<1>1. SearchInv'
  BY SearchKept DEF PickBlock, SearchInv
<1>2. TreeInv' /\ WalkStaysInTree'
  BY DEF PickBlock, TreeInv, WalkStaysInTree, tree, input
<1>3. WalkInv'
  <2>1. processed' = processed /\ at <= Len(rpo) /\ rpo' = rpo
    BY DEF PickBlock, tree, search, input
  <2>2. CASE rpo[at] = entry
    BY <2>1, <2>2 DEF PickBlock, WalkInv
  <2>3. CASE rpo[at] # entry
    BY <2>1, <2>3 DEF PickBlock, WalkInv, Usable, Unset
  <2>. QED  BY <2>2, <2>3
<1>. QED  BY <1>1, <1>2, <1>3

(* The first of a set of numbers is one of them. *)
LEMMA SmallestIsIn ==
    ASSUME NEW S \in SUBSET Nat, S # {}
    PROVE  Smallest(S) \in S
<1>1. PICK x \in S : \A y \in S : x <= y
  BY LeastNumber
<1>. QED  BY <1>1 DEF Smallest

LEMMA NextPredKeeps == WInv /\ NextPred => WInv'
<1>. SUFFICES ASSUME WInv, NextPred PROVE WInv'
  OBVIOUS
<1>. USE DEF WInv
<1>1. SearchInv'
  BY SearchKept DEF NextPred, SearchInv
<1>2. TreeInv' /\ WalkStaysInTree'
  BY DEF NextPred, TreeInv, WalkStaysInTree, tree, input
<1>3. WalkInv'
  <2>1. todo \in SUBSET Nat /\ todo # {} /\ todo \subseteq processed
    BY NAssumption DEF NextPred, WalkInv, TreeInv, Blocks
  <2>2. Smallest(todo) \in processed
    BY <2>1, SmallestIsIn
  <2>3. /\ processed' = processed /\ rpo' = rpo /\ at' = at /\ pc = "meet"
        /\ todo' \subseteq todo
    BY DEF NextPred, tree, search, input
  <2>4. CASE cand = NoBlock
    BY <2>1, <2>2, <2>3, <2>4 DEF NextPred, WalkInv
  <2>5. CASE cand # NoBlock
    BY <2>1, <2>2, <2>3, <2>5 DEF NextPred, WalkInv
  <2>. QED  BY <2>4, <2>5
<1>. QED  BY <1>1, <1>2, <1>3

LEMMA ClimbKeeps == WInv /\ Climb => WInv'
<1>. SUFFICES ASSUME WInv, Climb PROVE WInv'
  OBVIOUS
<1>1. SearchInv'
  BY SearchKept DEF Climb, SearchInv, WInv
<1>2. TreeInv'
  BY DEF Climb, TreeInv, tree, WInv, input
<1>3. idom[Lower] \in processed /\ idom[Lower] # NoBlock /\ Lower \in {f1, f2}
  BY LowerHasParent DEF Climb
<1>4. /\ f1' = (IF Lower = f1 THEN idom[f1] ELSE f1)
      /\ f2' = (IF Lower = f1 THEN f2 ELSE idom[f2])
      /\ pc' = pc /\ pc = "climb"
      /\ processed' = processed /\ rpo' = rpo /\ at' = at /\ todo' = todo /\ cand' = cand
  BY <1>3 DEF Climb, tree, search, input
<1>5. WalkInv' /\ WalkStaysInTree'
  BY <1>3, <1>4 DEF WInv, WalkInv, WalkStaysInTree
<1>. QED  BY <1>1, <1>2, <1>5 DEF WInv

LEMMA MetKeeps == WInv /\ Met => WInv'
<1>. SUFFICES ASSUME WInv, Met PROVE WInv'
  OBVIOUS
<1>. USE DEF WInv
<1>1. SearchInv'
  BY SearchKept DEF Met, SearchInv
<1>2. TreeInv' /\ WalkStaysInTree'
  BY DEF Met, TreeInv, WalkStaysInTree, tree, input
<1>3. WalkInv'
  BY DEF Met, WalkInv, tree, search, input
<1>. QED  BY <1>1, <1>2, <1>3

(* A block is put under a block that has a place, so it has one too. *)
LEMMA PlaceKeeps == WInv /\ Place => WInv'
<1>. SUFFICES ASSUME WInv, Place PROVE WInv'
  OBVIOUS
<1>. USE DEF WInv
<1>1. SearchInv'
  BY SearchKept DEF Place, SearchInv
<1>2. rpo[at] \in Blocks
  BY DEF Place, SearchInv, WalkInv
<1>3. TreeInv'
  <2>1. CASE Moves
    <3>1. cand \in processed
      BY <2>1 DEF Moves, WalkInv
    <3>2. /\ idom' = [idom EXCEPT ![rpo[at]] = cand]
          /\ processed' = processed \cup {rpo[at]} /\ entry' = entry
      BY <2>1 DEF Place, input
    <3>. QED  BY <1>2, <3>1, <3>2 DEF TreeInv
  <2>2. CASE ~Moves
    BY <2>2 DEF Place, TreeInv, tree, input
  <2>. QED  BY <2>1, <2>2
<1>4. WalkInv' /\ WalkStaysInTree'
  <2>1. processed \subseteq processed' /\ todo' = todo /\ cand' = cand /\ at' = at + 1 /\ pc' = "sweep"
    BY DEF Place, tree, walk, input
  <2>. QED  BY <2>1 DEF WalkInv, WalkStaysInTree
<1>. QED  BY <1>1, <1>3, <1>4

LEMMA EndSweepKeeps == WInv /\ EndSweep => WInv'
<1>. SUFFICES ASSUME WInv, EndSweep PROVE WInv'
  OBVIOUS
<1>. USE DEF WInv
<1>1. SearchInv'
  BY SearchKept DEF EndSweep, SearchInv
<1>2. TreeInv' /\ WalkInv' /\ WalkStaysInTree'
  BY DEF EndSweep, TreeInv, WalkInv, WalkStaysInTree, walk, Again, input
<1>. QED  BY <1>1, <1>2

LEMMA FrontiersKeeps == WInv /\ Frontiers => WInv'
<1>. SUFFICES ASSUME WInv, Frontiers PROVE WInv'
  OBVIOUS
<1>. USE DEF WInv
<1>1. UNCHANGED input /\ UNCHANGED search /\ UNCHANGED tree /\ UNCHANGED walk /\ at' = at
      /\ pc' = "done" /\ pc = "frontiers"
  BY DEF Frontiers
<1>2. SearchInv'
  BY <1>1, SearchKept DEF SearchInv
<1>3. TreeInv' /\ WalkInv' /\ WalkStaysInTree'
  BY <1>1 DEF TreeInv, WalkInv, WalkStaysInTree, tree, walk, input
<1>. QED  BY <1>2, <1>3

LEMMA StutterKeeps == WInv /\ UNCHANGED vars => WInv'
BY DEF WInv, SearchInv, EntryFirst, TreeInv, WalkInv, WalkStaysInTree, vars

(* The walk of intersect always finds a way up: on no graph does           *)
(* compute_from abort with "dominator walk before entry", also not while   *)
(* it climbs a tree that later sweeps still correct.                       *)
THEOREM WalkNeverAborts == Spec => []WalkStaysInTree
<1>1. WInv /\ [Next]_vars => WInv'
  BY DescendKeeps, RetreatKeeps, StartSweepsKeeps, PickBlockKeeps, NextPredKeeps, ClimbKeeps,
     MetKeeps, PlaceKeeps, EndSweepKeeps, FrontiersKeeps, StutterKeeps DEF Next
<1>2. WInv => WalkStaysInTree
  BY DEF WInv
<1>. QED  BY WInit, <1>1, <1>2, PTL DEF Spec

-----------------------------------------------------------------------------
(***************************************************************************)
(* Chains.                                                                 *)
(***************************************************************************)

(* One step up the tree. *)
Up(b) == IF idom[b] = NoBlock THEN {} ELSE {idom[b]}

(* The chain `dominates` walks is the least set with the block that the    *)
(* way up does not leave.                                                  *)
LEMMA ChainIsLeast ==
    ASSUME idom \in [Blocks -> Blocks \cup {NoBlock}], NEW b \in Blocks
    PROVE  /\ Chain(b) \subseteq Blocks
           /\ b \in Chain(b)
           /\ \A x \in Chain(b) : Up(x) \subseteq Chain(b)
           /\ \A X : b \in X /\ (\A x \in X \cap Blocks : Up(x) \subseteq X) => Chain(b) \subseteq X
<1>. DEFINE out(Y) == {idom[x] : x \in Y} \ {NoBlock}
            F == [Y \in SUBSET Blocks |-> Y \cup out(Y)]
            Rhs(s) == [k \in 0 .. N |->
                          IF k = 0 THEN {b} ELSE s[k - 1] \cup out(s[k - 1])]
            step == CHOOSE s : s = Rhs(s)
<1>1. Chain(b) = step[N]
  BY DEF Chain
<1>2. F \in [SUBSET Blocks -> SUBSET Blocks]
  OBVIOUS
<1>3. \A Y \in SUBSET Blocks : Y \subseteq F[Y]
  OBVIOUS
<1>4. {b} \in SUBSET Blocks /\ N \in Nat
  BY NAssumption
<1>5. PICK f : Iterates(f, SUBSET Blocks, {b}, F, N)
  <2>. HIDE DEF F
  <2>. QED  BY <1>2, <1>4, IteratesExist
<1>6. f = Rhs(f)
  <2>1. /\ f \in [0 .. N -> SUBSET Blocks]
        /\ f[0] = {b}
        /\ \A k \in 1 .. N : f[k] = F[f[k - 1]]
    BY <1>5 DEF Iterates
  <2>2. ASSUME NEW k \in 0 .. N
        PROVE  f[k] = IF k = 0 THEN {b} ELSE f[k - 1] \cup out(f[k - 1])
    <3>1. CASE k = 0
      BY <2>1, <3>1
    <3>2. CASE k # 0
      <4>1. k \in 1 .. N /\ k - 1 \in 0 .. N
        BY <1>4, <3>2
      <4>2. f[k - 1] \in SUBSET Blocks /\ f[k] = F[f[k - 1]]
        BY <2>1, <4>1
      <4>. QED  BY <4>2, <3>2
    <3>. QED  BY <3>1, <3>2
  <2>. QED  BY <2>1, <2>2
<1>7. step = Rhs(step)
  <2>. HIDE DEF Rhs
  <2>. QED  BY <1>6
<1>8. step[N] = f[N] /\ N \in 0 .. N
  <2>. HIDE DEF out, step
  <2>1. step[0] = f[0]
    <3>1. step[0] = {b} /\ f[0] = {b}
      BY <1>4, <1>6, <1>7
    <3>. QED  BY <3>1
  <2>2. ASSUME NEW k \in 1 .. N, step[k - 1] = f[k - 1] PROVE step[k] = f[k]
    <3>1. k \in 0 .. N /\ k # 0
      BY <1>4
    <3>2. step[k] = step[k - 1] \cup out(step[k - 1])
      BY <1>7, <3>1
    <3>3. f[k] = f[k - 1] \cup out(f[k - 1])
      BY <1>6, <3>1
    <3>. QED  BY <2>2, <3>2, <3>3
  <2>. HIDE DEF Rhs
  <2>3. \A k \in 0 .. N : step[k] = f[k]
    BY <2>1, <2>2, <1>4, SameTable
  <2>. QED  BY <2>3, <1>4
<1>. HIDE DEF step, Rhs
<1>9. F[f[N]] = f[N]
  <2>. HIDE DEF F
  <2>1. IsFiniteSet(Blocks) /\ Cardinality(Blocks) <= N
    BY <1>4, BlocksFinite
  <2>. QED  BY <1>2, <1>3, <1>4, <1>5, <2>1, IteratesGrow
<1>10. f[N] \in SUBSET Blocks /\ f[N] \cup out(f[N]) = f[N]
  <2>1. f[N] \in SUBSET Blocks
    BY <1>5, <1>8 DEF Iterates
  <2>. QED  BY <2>1, <1>9
<1>11. {b} \subseteq f[N]
  <2>. DEFINE S == {b}
  <2>1. S \in SUBSET Blocks /\ Iterates(f, SUBSET Blocks, S, F, N)
    BY <1>4, <1>5
  <2>. HIDE DEF F, S
  <2>2. S \subseteq f[N]
    BY <2>1, <1>2, <1>3, <1>4, <1>8, IteratesKeep
  <2>. QED  BY <2>2 DEF S
<1>12. ASSUME NEW X, b \in X, \A x \in X \cap Blocks : Up(x) \subseteq X
       PROVE  f[N] \subseteq X
  <2>1. Keeps(F, Blocks, X)
    BY <1>12 DEF Keeps, Up
  <2>. DEFINE S == {b}
  <2>2. S \in SUBSET Blocks /\ N \in Nat /\ S \subseteq X /\ Iterates(f, SUBSET Blocks, S, F, N)
    BY <1>12, <1>4, <1>5
  <2>. HIDE DEF F, out, S
  <2>3. \A k \in 0 .. N : f[k] \subseteq X
    BY <2>1, <2>2, <1>2, IteratesWithin
  <2>. QED  BY <2>3, <1>8
<1>13. \A x \in f[N] : Up(x) \subseteq f[N]
  BY <1>10 DEF Up
<1>. QED  BY <1>1, <1>8, <1>10, <1>11, <1>12, <1>13

LEMMA ChainFacts ==
    ASSUME idom \in [Blocks -> Blocks \cup {NoBlock}]
    PROVE  /\ \A b \in Blocks : Chain(b) \subseteq Blocks /\ b \in Chain(b)
           /\ \A b \in Blocks : \A x \in Chain(b) : Chain(x) \subseteq Chain(b)
           /\ \A b \in Blocks : idom[b] = NoBlock => Chain(b) = {b}
           /\ \A b \in Blocks : idom[b] # NoBlock => Chain(b) = {b} \cup Chain(idom[b])
<1>1. ASSUME NEW b \in Blocks PROVE Chain(b) \subseteq Blocks /\ b \in Chain(b)
  BY ChainIsLeast
<1>2. ASSUME NEW b \in Blocks, NEW x \in Chain(b) PROVE Chain(x) \subseteq Chain(b)
  <2>1. x \in Blocks /\ \A y \in Chain(b) : Up(y) \subseteq Chain(b)
    BY ChainIsLeast
  <2>. QED  BY <2>1, ChainIsLeast
<1>3. ASSUME NEW b \in Blocks, idom[b] = NoBlock PROVE Chain(b) = {b}
  <2>1. \A x \in {b} \cap Blocks : Up(x) \subseteq {b}
    BY <1>3 DEF Up
  <2>2. Chain(b) \subseteq {b}
    BY <2>1, ChainIsLeast
  <2>. QED  BY <2>2, <1>1
<1>4. ASSUME NEW b \in Blocks, idom[b] # NoBlock PROVE Chain(b) = {b} \cup Chain(idom[b])
  <2>. DEFINE X == {b} \cup Chain(idom[b])
  <2>1. idom[b] \in Blocks /\ Up(b) = {idom[b]}
    BY <1>4 DEF Up
  <2>2. \A x \in X \cap Blocks : Up(x) \subseteq X
    BY <2>1, ChainIsLeast
  <2>3. Chain(b) \subseteq X
    <3>1. b \in X
      OBVIOUS
    <3>. HIDE DEF X
    <3>. QED  BY <3>1, <2>2, ChainIsLeast
  <2>4. idom[b] \in Chain(b)
    BY <2>1, ChainIsLeast
  <2>. QED  BY <2>3, <2>4, <2>1, <1>1, <1>2
<1>. QED  BY <1>1, <1>2, <1>3, <1>4

-----------------------------------------------------------------------------
(***************************************************************************)
(* The search lists every block a path reaches, once, after a block that   *)
(* leads to it.                                                            *)
(***************************************************************************)

OnStack == {stack[j][1] : j \in 1 .. Len(stack)}
Finished == {rpo[k] : k \in 1 .. Len(rpo)}

(* A block is met once: it waits on the stack or has its place in the      *)
(* order.                                                                  *)
MetOnce ==
    /\ \A j, k \in 1 .. Len(rpo) : rpo[j] = rpo[k] => j = k
    /\ \A j, k \in 1 .. Len(stack) : stack[j][1] = stack[k][1] => j = k
    /\ OnStack \cap Finished = {}
    /\ visited = OnStack \cup Finished
    /\ visited \subseteq Reachable(g, entry)

(* Tried children have been met, so a finished block's all have.           *)
ChildrenMet ==
    /\ \A j \in 1 .. Len(stack) : \A c \in 1 .. stack[j][2] - 1 : g[stack[j][1]][c] \in visited
    /\ \A b \in Finished : Targets(g, b) \subseteq visited

(* The block that led to a block lies below it on the stack, or before it  *)
(* in the order, or is still to be put there.                              *)
Parents ==
    /\ \A k \in 2 .. Len(stack) : stack[k - 1][1] \in Preds(g, stack[k][1])
    /\ \A k \in 1 .. Len(rpo) : rpo[k] # entry =>
          \/ \E j \in 1 .. k - 1 : rpo[j] \in Preds(g, rpo[k])
          \/ OnStack \cap Preds(g, rpo[k]) # {}

DfsInv == MetOnce /\ ChildrenMet /\ Parents

LEMMA DescendEffect ==
    ASSUME SearchInv, Descend
    PROVE  LET n == Len(stack)
               child == g[stack[n][1]][stack[n][2]]
           IN  /\ n \in Nat \ {0} /\ stack \in Seq(Frames)
               /\ stack[n][1] \in Blocks /\ child \in Blocks /\ child \in Targets(g, stack[n][1])
               /\ \A k \in 1 .. n : stack'[k][1] = stack[k][1]
               /\ \A k \in 1 .. n - 1 : stack'[k][2] = stack[k][2]
               /\ stack'[n][2] = stack[n][2] + 1
               /\ child \in visited => Len(stack') = n
               /\ child \notin visited =>
                     Len(stack') = n + 1 /\ stack'[n + 1][1] = child /\ stack'[n + 1][2] = 1
               /\ visited' = visited \cup {child}
               /\ rpo' = rpo /\ g' = g /\ entry' = entry
<1>. DEFINE n == Len(stack)
            child == g[stack[n][1]][stack[n][2]]
            resumed == Append(Below, <<Top[1], Top[2] + 1>>)
            t == Top[2] + 1
<1>1. stack \in Seq(Frames) /\ stack # << >> /\ n \in Nat \ {0}
  BY DEF Descend, SearchInv
<1>2. Top = stack[n] /\ Top[1] \in Blocks /\ Top[2] \in Nat \ {0}
  BY <1>1 DEF Top, Frames
<1>3. t \in Nat \ {0} /\ t = stack[n][2] + 1
      /\ resumed = Append(SubSeq(stack, 1, n - 1), <<stack[n][1], t>>)
  BY <1>2 DEF Below
<1>4. /\ stack' = IF child \notin visited THEN Append(resumed, <<child, 1>>) ELSE resumed
      /\ rpo' = rpo /\ g' = g /\ entry' = entry /\ visited' = visited \cup {child}
  BY <1>2 DEF Descend, input, Unseen
<1>5. Top[2] \in 1 .. Len(g[Top[1]])
  <2>1. g \in [Blocks -> Seq(Blocks)]
    BY DEF SearchInv
  <2>. QED  BY <2>1, <1>2 DEF Descend
<1>6. child \in Blocks /\ child \in Targets(g, stack[n][1])
  BY <1>2, <1>5, ChildIsBlock DEF SearchInv, Targets
<1>. HIDE DEF t, resumed, child, n
<1>7. /\ resumed \in Seq(Frames) /\ Len(resumed) = n
      /\ \A k \in 1 .. n : resumed[k][1] = stack[k][1]
      /\ \A k \in 1 .. n - 1 : resumed[k][2] = stack[k][2]
      /\ resumed[n][2] = t
  BY <1>1, <1>3, Recounted DEF n
<1>8. /\ \A k \in 1 .. n : stack'[k] = resumed[k]
      /\ child \in visited => Len(stack') = n
      /\ child \notin visited => Len(stack') = n + 1 /\ stack'[n + 1] = <<child, 1>>
  <2>1. <<child, 1>> \in Frames
    BY <1>6 DEF Frames
  <2>. QED  BY <2>1, <1>4, <1>7, AppendProperties
<1>9. \A k \in 1 .. n : stack'[k][1] = stack[k][1]
  BY <1>7, <1>8, Zenon
<1>10. \A k \in 1 .. n - 1 : stack'[k][2] = stack[k][2]
  <2>1. \A k \in 1 .. n - 1 : k \in 1 .. n
    BY <1>1
  <2>. QED  BY <2>1, <1>7, <1>8, Zenon
<1>11. stack'[n][2] = stack[n][2] + 1
  <2>1. n \in 1 .. n
    BY <1>1
  <2>. QED  BY <2>1, <1>3, <1>7, <1>8, Zenon
<1>12. child \notin visited => stack'[n + 1][1] = child /\ stack'[n + 1][2] = 1
  BY <1>8
<1>13. stack[n][1] \in Blocks
  BY <1>2
<1>. QED  BY <1>1, <1>4, <1>6, <1>8, <1>9, <1>10, <1>11, <1>12, <1>13 DEF n, child

LEMMA RetreatEffect ==
    ASSUME SearchInv, Retreat
    PROVE  LET n == Len(stack)
               b == stack[n][1]
           IN  /\ n \in Nat \ {0} /\ stack \in Seq(Frames) /\ b \in Blocks
               /\ stack[n][2] \in Nat /\ stack[n][2] > Len(g[b])
               /\ Len(stack') = n - 1 /\ \A k \in 1 .. n - 1 : stack'[k] = stack[k]
               /\ Len(rpo) \in Nat /\ Len(rpo') = Len(rpo) + 1 /\ rpo'[1] = b
               /\ \A k \in 2 .. Len(rpo) + 1 : rpo'[k] = rpo[k - 1]
               /\ visited' = visited /\ g' = g /\ entry' = entry
<1>. DEFINE n == Len(stack)
<1>1. stack \in Seq(Frames) /\ stack # << >> /\ n \in Nat \ {0} /\ rpo \in Seq(Blocks)
  BY DEF Retreat, SearchInv
<1>2. Top = stack[n] /\ Top[1] \in Blocks /\ Top[2] \in Nat
  BY <1>1 DEF Top, Frames
<1>3. /\ stack' = SubSeq(stack, 1, n - 1) /\ rpo' = <<Top[1]>> \o rpo
      /\ g' = g /\ entry' = entry /\ visited' = visited /\ Top[2] > Len(g[Top[1]])
  BY DEF Retreat, Below, input
<1>4. Len(stack') = n - 1 /\ \A k \in 1 .. n - 1 : stack'[k] = stack[k]
  BY <1>1, <1>3, FrontOf
<1>5. /\ Len(rpo') = Len(rpo) + 1 /\ rpo'[1] = Top[1] /\ Len(rpo) \in Nat
      /\ \A k \in 2 .. Len(rpo) + 1 : rpo'[k] = rpo[k - 1]
  BY <1>1, <1>2, <1>3, Prepended
<1>. HIDE DEF n
<1>6. Top = stack[n]
  BY <1>2
<1>7. n \in Nat \ {0} /\ stack \in Seq(Frames) /\ stack[n][1] \in Blocks
      /\ stack[n][2] \in Nat /\ stack[n][2] > Len(g[stack[n][1]]) /\ rpo'[1] = stack[n][1]
  BY <1>1, <1>2, <1>3, <1>5, <1>6
<1>. QED  BY <1>3, <1>4, <1>5, <1>7 DEF n

LEMMA DescendKeepsDfs == SearchInv /\ DfsInv /\ Descend => DfsInv'
<1>. SUFFICES ASSUME SearchInv, DfsInv, Descend PROVE DfsInv'
  OBVIOUS
<1>. DEFINE n == Len(stack)
            b == stack[n][1]
            child == g[stack[n][1]][stack[n][2]]
<1>1. /\ n \in Nat \ {0} /\ stack \in Seq(Frames) /\ b \in Blocks
      /\ child \in Blocks /\ child \in Targets(g, b)
      /\ \A k \in 1 .. n : stack'[k][1] = stack[k][1]
      /\ \A k \in 1 .. n - 1 : stack'[k][2] = stack[k][2]
      /\ stack'[n][2] = stack[n][2] + 1
      /\ child \in visited => Len(stack') = n
      /\ child \notin visited =>
            Len(stack') = n + 1 /\ stack'[n + 1][1] = child /\ stack'[n + 1][2] = 1
      /\ visited' = visited \cup {child}
      /\ rpo' = rpo /\ g' = g /\ entry' = entry
  BY DescendEffect
<1>2. stack[n][2] \in Nat \ {0} /\ n \in 1 .. n
  BY <1>1 DEF Frames
<1>3. g \in Graphs /\ entry \in Blocks
  BY DEF SearchInv, Graphs
<1>4. b \in OnStack
  BY <1>2 DEF OnStack
<1>. HIDE DEF n, b, child
<1>5. Finished' = Finished
  BY <1>1 DEF Finished
<1>6. OnStack' = OnStack \cup (IF child \in visited THEN {} ELSE {child})
  <2>1. OnStack = {stack[j][1] : j \in 1 .. n}
    BY DEF OnStack, n
  <2>2. CASE child \in visited
    <3>1. OnStack' = {stack'[j][1] : j \in 1 .. n}
      BY <1>1, <2>2 DEF OnStack
    <3>. QED  BY <3>1, <2>1, <2>2, <1>1
  <2>3. CASE child \notin visited
    <3>1. OnStack' = {stack'[j][1] : j \in 1 .. n + 1}
      BY <1>1, <2>3 DEF OnStack
    <3>2. 1 .. n + 1 = (1 .. n) \cup {n + 1}
      BY <1>1
    <3>3. OnStack' = {stack'[j][1] : j \in 1 .. n} \cup {stack'[n + 1][1]}
      BY <3>1, <3>2
    <3>. QED  BY <3>3, <2>1, <2>3, <1>1
  <2>. QED  BY <2>2, <2>3
<1>7. MetOnce'
  <2>1. child \in Reachable(g, entry)
    BY <1>1, <1>3, <1>4, ReachFacts DEF DfsInv, MetOnce
  <2>2. ASSUME NEW j \in 1 .. Len(stack'), NEW k \in 1 .. Len(stack'), stack'[j][1] = stack'[k][1]
        PROVE  j = k
    <3>1. \A i \in 1 .. n : stack'[i][1] = stack[i][1] /\ stack[i][1] \in OnStack
      BY <1>1 DEF OnStack, n
    <3>2. CASE child \in visited
      BY <1>1, <2>2, <3>1, <3>2 DEF DfsInv, MetOnce, n
    <3>3. CASE child \notin visited
      <4>1. child \notin OnStack
        BY <3>3 DEF DfsInv, MetOnce
      <4>2. j \in 1 .. n + 1 /\ k \in 1 .. n + 1 /\ stack'[n + 1][1] = child
        BY <1>1, <3>3
      <4>3. j \in 1 .. n /\ k \in 1 .. n => j = k
        BY <2>2, <3>1 DEF DfsInv, MetOnce, n
      <4>. QED  BY <4>1, <4>2, <4>3, <2>2, <3>1, <1>1
    <3>. QED  BY <3>2, <3>3
  <2>3. OnStack' \cap Finished' = {} /\ visited' = OnStack' \cup Finished'
    BY <1>1, <1>5, <1>6 DEF DfsInv, MetOnce
  <2>4. visited' \subseteq Reachable(g', entry')
    BY <1>1, <2>1 DEF DfsInv, MetOnce
  <2>5. \A j, k \in 1 .. Len(rpo') : rpo'[j] = rpo'[k] => j = k
    BY <1>1 DEF DfsInv, MetOnce
  <2>. QED  BY <2>2, <2>3, <2>4, <2>5 DEF MetOnce
<1>8. ChildrenMet'
  <2>1. ASSUME NEW j \in 1 .. Len(stack'), NEW c \in 1 .. stack'[j][2] - 1
        PROVE  g[stack'[j][1]][c] \in visited'
    <3>1. j \in 1 .. n - 1 \/ j = n \/ (j = n + 1 /\ child \notin visited)
      BY <1>1
    <3>2. CASE j \in 1 .. n - 1
      <4>1. j \in 1 .. n /\ stack'[j][1] = stack[j][1] /\ stack'[j][2] = stack[j][2]
        BY <1>1, <3>2
      <4>2. g[stack[j][1]][c] \in visited
        BY <4>1, <2>1 DEF DfsInv, ChildrenMet, n
      <4>. QED  BY <4>1, <4>2, <1>1
    <3>3. CASE j = n
      <4>1. stack'[j][1] = stack[n][1] /\ c \in 1 .. stack[n][2]
        BY <1>1, <1>2, <3>3
      <4>2. CASE c = stack[n][2]
        BY <4>1, <4>2, <1>1 DEF child
      <4>3. CASE c # stack[n][2]
        <5>1. c \in 1 .. stack[n][2] - 1
          BY <4>1, <4>3, <1>2
        <5>2. g[stack[n][1]][c] \in visited
          BY <5>1, <1>2 DEF DfsInv, ChildrenMet, n
        <5>. QED  BY <5>2, <4>1, <1>1
      <4>. QED  BY <4>2, <4>3
    <3>4. CASE j = n + 1 /\ child \notin visited
      BY <3>4, <2>1, <1>1
    <3>. QED  BY <3>1, <3>2, <3>3, <3>4
  <2>2. \A x \in Finished' : Targets(g, x) \subseteq visited'
    BY <1>1, <1>5 DEF DfsInv, ChildrenMet
  <2>. QED  BY <2>1, <2>2, <1>1 DEF ChildrenMet
<1>9. Parents'
  <2>1. ASSUME NEW k \in 2 .. Len(stack') PROVE stack'[k - 1][1] \in Preds(g, stack'[k][1])
    <3>1. k \in 2 .. n \/ (k = n + 1 /\ child \notin visited)
      BY <1>1
    <3>2. CASE k \in 2 .. n
      <4>1. k \in 1 .. n /\ k - 1 \in 1 .. n
        BY <3>2, <1>1
      <4>2. stack'[k - 1][1] = stack[k - 1][1] /\ stack'[k][1] = stack[k][1]
        BY <4>1, <1>1
      <4>3. stack[k - 1][1] \in Preds(g, stack[k][1])
        BY <3>2 DEF DfsInv, Parents, n
      <4>. QED  BY <4>2, <4>3, Zenon
    <3>3. CASE k = n + 1 /\ child \notin visited
      <4>1. k - 1 = n /\ stack'[k][1] = child /\ stack'[n][1] = b
        BY <3>3, <1>1, <1>2 DEF b
      <4>. QED  BY <4>1, <1>1 DEF Preds
    <3>. QED  BY <3>1, <3>2, <3>3
  <2>2. \A k \in 1 .. Len(rpo') : rpo'[k] # entry' =>
          \/ \E j \in 1 .. k - 1 : rpo'[j] \in Preds(g, rpo'[k])
          \/ OnStack' \cap Preds(g, rpo'[k]) # {}
    BY <1>1, <1>6 DEF DfsInv, Parents
  <2>. QED  BY <2>1, <2>2, <1>1 DEF Parents
<1>. QED  BY <1>7, <1>8, <1>9 DEF DfsInv

LEMMA RetreatKeepsDfs == SearchInv /\ DfsInv /\ Retreat => DfsInv'
<1>. SUFFICES ASSUME SearchInv, DfsInv, Retreat PROVE DfsInv'
  OBVIOUS
<1>. DEFINE n == Len(stack)
            b == stack[n][1]
            m == Len(rpo)
<1>1. /\ n \in Nat \ {0} /\ stack \in Seq(Frames) /\ b \in Blocks
      /\ stack[n][2] \in Nat /\ stack[n][2] > Len(g[b])
      /\ Len(stack') = n - 1 /\ \A k \in 1 .. n - 1 : stack'[k] = stack[k]
      /\ m \in Nat /\ Len(rpo') = m + 1 /\ rpo'[1] = b
      /\ \A k \in 2 .. m + 1 : rpo'[k] = rpo[k - 1]
      /\ visited' = visited /\ g' = g /\ entry' = entry
  BY RetreatEffect
<1>2. n \in 1 .. n /\ g \in Graphs
  BY <1>1 DEF SearchInv, Graphs
<1>. HIDE DEF n, b, m
<1>3. Finished' = Finished \cup {b}
  <2>1. Finished' = {rpo'[k] : k \in 1 .. m + 1} /\ Finished = {rpo[k] : k \in 1 .. m}
    BY <1>1 DEF Finished, m
  <2>2. ASSUME NEW k \in 1 .. m + 1 PROVE rpo'[k] \in Finished \cup {b}
    <3>1. k = 1 \/ (k \in 2 .. m + 1 /\ k - 1 \in 1 .. m)
      BY <1>1
    <3>. QED  BY <3>1, <1>1, <2>1
  <2>3. ASSUME NEW k \in 1 .. m PROVE rpo[k] \in Finished'
    <3>1. k + 1 \in 2 .. m + 1 /\ k + 1 \in 1 .. m + 1 /\ (k + 1) - 1 = k
      BY <1>1
    <3>2. rpo'[k + 1] = rpo[k]
      BY <3>1, <1>1
    <3>. QED  BY <3>1, <3>2, <2>1
  <2>4. b \in Finished'
    <3>1. 1 \in 1 .. m + 1
      BY <1>1
    <3>. QED  BY <3>1, <1>1, <2>1
  <2>. QED  BY <2>1, <2>2, <2>3, <2>4
<1>4. OnStack = {stack[j][1] : j \in 1 .. n}
  BY DEF OnStack, n
<1>5. OnStack' = {stack[j][1] : j \in 1 .. n - 1}
  BY <1>1 DEF OnStack
<1>6. OnStack = OnStack' \cup {b} /\ b \notin OnStack'
  <2>1. 1 .. n = (1 .. n - 1) \cup {n}
    BY <1>1
  <2>2. OnStack = OnStack' \cup {b}
    BY <1>4, <1>5, <2>1 DEF b
  <2>3. ASSUME NEW j \in 1 .. n - 1 PROVE stack[j][1] # b
    <3>1. j \in 1 .. n /\ j # n
      BY <1>1
    <3>. QED  BY <3>1, <1>2 DEF DfsInv, MetOnce, b, n
  <2>. QED  BY <2>2, <2>3, <1>5
<1>7. MetOnce'
  <2>1. ASSUME NEW j \in 1 .. Len(rpo'), NEW k \in 1 .. Len(rpo'), rpo'[j] = rpo'[k]
        PROVE  j = k
    <3>1. b \notin Finished
      BY <1>6 DEF DfsInv, MetOnce
    <3>2. \A i \in 1 .. m + 1 : i = 1 \/ (i \in 2 .. m + 1 /\ i - 1 \in 1 .. m)
      BY <1>1
    <3>3. \A i \in 1 .. m : rpo[i] # b
      BY <3>1 DEF Finished, m
    <3>4. j \in 1 .. m + 1 /\ k \in 1 .. m + 1
      BY <1>1
    <3>5. CASE j = 1 \/ k = 1
      BY <1>1, <2>1, <3>2, <3>3, <3>4, <3>5
    <3>6. CASE j # 1 /\ k # 1
      <4>1. rpo[j - 1] = rpo[k - 1] /\ j - 1 \in 1 .. m /\ k - 1 \in 1 .. m
        BY <1>1, <2>1, <3>2, <3>4, <3>6
      <4>2. j - 1 = k - 1
        BY <4>1 DEF DfsInv, MetOnce, m
      <4>. QED  BY <4>2, <3>4
    <3>. QED  BY <3>5, <3>6
  <2>2. ASSUME NEW j \in 1 .. Len(stack'), NEW k \in 1 .. Len(stack'), stack'[j][1] = stack'[k][1]
        PROVE  j = k
    <3>1. j \in 1 .. n - 1 /\ k \in 1 .. n - 1 /\ j \in 1 .. n /\ k \in 1 .. n
      BY <1>1
    <3>2. stack[j][1] = stack[k][1]
      BY <2>2, <3>1, <1>1
    <3>. QED  BY <3>1, <3>2 DEF DfsInv, MetOnce, n
  <2>3. OnStack' \cap Finished' = {} /\ visited' = OnStack' \cup Finished'
    BY <1>1, <1>3, <1>6 DEF DfsInv, MetOnce
  <2>. QED  BY <2>1, <2>2, <2>3, <1>1 DEF DfsInv, MetOnce
<1>8. ChildrenMet'
  <2>1. ASSUME NEW x \in Targets(g, b) PROVE x \in visited
    <3>1. PICK c \in 1 .. Len(g[b]) : x = g[b][c]
      BY DEF Targets
    <3>2. Len(g[b]) \in Nat
      BY <1>1, <1>2 DEF Graphs
    <3>3. c \in 1 .. stack[n][2] - 1
      BY <3>1, <3>2, <1>1
    <3>. QED  BY <3>1, <3>3, <1>2 DEF DfsInv, ChildrenMet, n, b
  <2>2. ASSUME NEW j \in 1 .. Len(stack'), NEW c \in 1 .. stack'[j][2] - 1
        PROVE  g[stack'[j][1]][c] \in visited
    <3>1. j \in 1 .. n /\ stack'[j] = stack[j]
      BY <1>1
    <3>. QED  BY <3>1, <2>2 DEF DfsInv, ChildrenMet, n
  <2>3. \A x \in Finished' : Targets(g, x) \subseteq visited
    BY <2>1, <1>3 DEF DfsInv, ChildrenMet
  <2>. QED  BY <2>2, <2>3, <1>1 DEF ChildrenMet
<1>9. Parents'
  <2>1. ASSUME NEW k \in 2 .. Len(stack') PROVE stack'[k - 1][1] \in Preds(g, stack'[k][1])
    <3>1. k \in 1 .. n - 1 /\ k - 1 \in 1 .. n - 1 /\ k \in 2 .. n
      BY <1>1
    <3>2. stack'[k - 1] = stack[k - 1] /\ stack'[k] = stack[k]
      BY <3>1, <1>1
    <3>3. stack[k - 1][1] \in Preds(g, stack[k][1])
      BY <3>1 DEF DfsInv, Parents, n
    <3>. QED  BY <3>2, <3>3, Zenon
  <2>2. ASSUME NEW k \in 1 .. Len(rpo'), rpo'[k] # entry
        PROVE  \/ \E j \in 1 .. k - 1 : rpo'[j] \in Preds(g, rpo'[k])
               \/ OnStack' \cap Preds(g, rpo'[k]) # {}
    <3>1. k \in 1 .. m + 1
      BY <1>1
    <3>2. CASE k = 1
      <4>1. rpo'[k] = b /\ b # entry
        BY <1>1, <2>2, <3>2
      <4>2. n # 1
        <5>1. stack # << >>
          BY DEF Retreat
        <5>2. stack[1][1] = entry
          BY <5>1 DEF SearchInv
        <5>. QED  BY <5>2, <4>1 DEF b
      <4>3. n - 1 \in 1 .. n - 1 /\ n \in 2 .. n
        BY <4>2, <1>1
      <4>4. stack[n - 1][1] \in Preds(g, b) /\ stack[n - 1][1] \in OnStack'
        BY <4>3, <1>5 DEF DfsInv, Parents, n, b
      <4>. QED  BY <4>1, <4>4
    <3>3. CASE k # 1
      <4>1. k \in 2 .. m + 1 /\ k - 1 \in 1 .. m /\ rpo'[k] = rpo[k - 1]
        BY <3>1, <3>3, <1>1
      <4>2. CASE \E j \in 1 .. (k - 1) - 1 : rpo[j] \in Preds(g, rpo[k - 1])
        <5>1. PICK j \in 1 .. (k - 1) - 1 : rpo[j] \in Preds(g, rpo[k - 1])
          BY <4>2
        <5>2. j + 1 \in 2 .. m + 1 /\ j + 1 \in 1 .. k - 1 /\ (j + 1) - 1 = j
          BY <4>1, <5>1, <1>1
        <5>3. rpo'[j + 1] = rpo[j]
          BY <5>2, <1>1
        <5>. QED  BY <5>1, <5>2, <5>3, <4>1
      <4>3. CASE OnStack \cap Preds(g, rpo[k - 1]) # {}
        <5>1. CASE b \in Preds(g, rpo[k - 1])
          <6>1. 1 \in 1 .. k - 1
            BY <4>1, <1>1
          <6>. QED  BY <5>1, <6>1, <4>1, <1>1
        <5>2. CASE b \notin Preds(g, rpo[k - 1])
          BY <5>2, <4>1, <4>3, <1>6
        <5>. QED  BY <5>1, <5>2
      <4>. QED  BY <4>1, <4>2, <4>3, <2>2 DEF DfsInv, Parents, m
    <3>. QED  BY <3>2, <3>3
  <2>. QED  BY <2>1, <2>2, <1>1 DEF Parents
<1>. QED  BY <1>7, <1>8, <1>9 DEF DfsInv

LEMMA DfsInit == Init => DfsInv
<1>. SUFFICES ASSUME Init PROVE DfsInv
  OBVIOUS
<1>1. g \in Graphs /\ entry \in Blocks /\ rpo = << >> /\ stack = << <<entry, 1>> >>
      /\ visited = {entry}
  BY RootedAssumption DEF Init, Graphs
<1>2. Len(rpo) = 0 /\ Len(stack) = 1 /\ stack[1][1] = entry /\ stack[1][2] = 1
  BY <1>1
<1>3. OnStack = {entry} /\ Finished = {}
  BY <1>2 DEF OnStack, Finished
<1>4. entry \in Reachable(g, entry)
  BY <1>1, ReachFacts
<1>. QED  BY <1>1, <1>2, <1>3, <1>4 DEF DfsInv, MetOnce, ChildrenMet, Parents

LEMMA DfsKept ==
    ASSUME DfsInv, UNCHANGED input, UNCHANGED search
    PROVE  DfsInv'
<1>1. g' = g /\ entry' = entry /\ stack' = stack /\ visited' = visited /\ rpo' = rpo
  BY DEF input, search
<1>2. OnStack' = OnStack /\ Finished' = Finished
  BY <1>1 DEF OnStack, Finished
<1>3. MetOnce'
  BY <1>1, <1>2 DEF DfsInv, MetOnce
<1>4. ChildrenMet'
  BY <1>1, <1>2 DEF DfsInv, ChildrenMet
<1>5. Parents'
  BY <1>1, <1>2 DEF DfsInv, Parents
<1>. QED  BY <1>3, <1>4, <1>5 DEF DfsInv

(* No more blocks than there are can be listed without a repetition.       *)
LEMMA Pigeonhole ==
    ASSUME NEW m \in Nat, NEW f \in [1 .. m -> Blocks],
           \A j, k \in 1 .. m : f[j] = f[k] => j = k
    PROVE  m <= N
<1>1. f \in Injection(1 .. m, Blocks)
  BY DEF Injection, IsInjective
<1>2. IsFiniteSet(1 .. m) /\ Cardinality(1 .. m) = m
  <2>1. CASE m = 0
    BY <2>1, FS_EmptySet
  <2>2. CASE m # 0
    BY <2>2, FS_Interval
  <2>. QED  BY <2>1, <2>2
<1>. QED  BY <1>1, <1>2, BlocksFinite, FS_Injection

Live == Reachable(g, entry)

(* What the search leaves behind: every block a path reaches has one       *)
(* position, after that of a block that leads to it.                       *)
Ordered ==
    /\ Live \subseteq Blocks /\ entry \in Live
    /\ \A b \in Live : Order(b) \in 1 .. Len(rpo) /\ rpo[Order(b)] = b
    /\ \A k \in 1 .. Len(rpo) : rpo[k] \in Live /\ Order(rpo[k]) = k
    /\ \A b \in Live \ {entry} : \E p \in Preds(g, b) \cap Live : Order(p) < Order(b)
    /\ Order(entry) = 1
    /\ Len(rpo) \in 1 .. N

LEMMA SearchIsOrdered ==
    ASSUME SearchInv, DfsInv, stack = << >>
    PROVE  Ordered
<1>1. /\ g \in Graphs /\ entry \in Blocks /\ rpo \in Seq(Blocks) /\ EntryFirst
      /\ Len(rpo) \in Nat /\ Len(stack) = 0
  BY DEF SearchInv, Graphs
<1>2. OnStack = {} /\ visited = Finished
  <2>1. OnStack = {}
    BY <1>1 DEF OnStack
  <2>. QED  BY <2>1 DEF DfsInv, MetOnce
<1>3. Finished = Live
  <2>1. Finished \subseteq Live
    BY <1>2 DEF DfsInv, MetOnce, Live
  <2>2. entry \in Finished
    <3>1. 1 \in 1 .. Len(rpo)
      BY <1>1 DEF EntryFirst
    <3>. QED  BY <3>1, <1>1 DEF EntryFirst, Finished
  <2>3. \A b \in Finished : Targets(g, b) \subseteq Finished
    BY <1>2 DEF DfsInv, ChildrenMet
  <2>4. ClosedSet(g, entry, {}, Finished)
    BY <2>2, <2>3 DEF ClosedSet
  <2>. QED  BY <2>1, <2>4, <1>1, ReachWithin DEF Live, Reachable
<1>4. ASSUME NEW k \in 1 .. Len(rpo) PROVE rpo[k] \in Live /\ Order(rpo[k]) = k
  <2>1. \E j \in 1 .. Len(rpo) : rpo[j] = rpo[k]
    OBVIOUS
  <2>2. Order(rpo[k]) \in 1 .. Len(rpo) /\ rpo[Order(rpo[k])] = rpo[k]
    BY <2>1 DEF Order
  <2>3. Order(rpo[k]) = k
    BY <2>2 DEF DfsInv, MetOnce
  <2>4. rpo[k] \in Finished
    BY DEF Finished
  <2>. QED  BY <2>3, <2>4, <1>3
<1>5. ASSUME NEW b \in Live PROVE \E k \in 1 .. Len(rpo) : rpo[k] = b /\ Order(b) = k
  <2>1. PICK k \in 1 .. Len(rpo) : rpo[k] = b
    BY <1>3 DEF Finished
  <2>. QED  BY <2>1, <1>4
<1>6. ASSUME NEW b \in Live \ {entry} PROVE \E p \in Preds(g, b) \cap Live : Order(p) < Order(b)
  <2>1. PICK k \in 1 .. Len(rpo) : rpo[k] = b /\ Order(b) = k
    BY <1>5
  <2>2. PICK j \in 1 .. k - 1 : rpo[j] \in Preds(g, rpo[k])
    <3>1. OnStack \cap Preds(g, rpo[k]) = {} /\ rpo[k] # entry
      BY <1>2, <2>1
    <3>. QED  BY <3>1 DEF DfsInv, Parents
  <2>3. j \in 1 .. Len(rpo) /\ j < k
    BY <1>1
  <2>. QED  BY <2>1, <2>2, <2>3, <1>4
<1>7. Len(rpo) \in 1 .. N
  <2>1. Len(rpo) # 0
    BY <1>1 DEF EntryFirst
  <2>. DEFINE f == [k \in 1 .. Len(rpo) |-> rpo[k]]
  <2>2. f \in [1 .. Len(rpo) -> Blocks] /\ \A j, k \in 1 .. Len(rpo) : f[j] = f[k] => j = k
    BY <1>1 DEF DfsInv, MetOnce
  <2>. HIDE DEF f
  <2>3. Len(rpo) <= N
    BY <1>1, <2>2, Pigeonhole
  <2>. QED  BY <2>1, <2>3, <1>1, NAssumption
<1>8. Order(entry) = 1
  <2>1. 1 \in 1 .. Len(rpo)
    BY <1>7
  <2>. QED  BY <2>1, <1>4, <1>1 DEF EntryFirst
<1>9. Live \subseteq Blocks /\ entry \in Live
  BY <1>1, ReachFacts DEF Live
<1>. QED  BY <1>4, <1>5, <1>6, <1>7, <1>8, <1>9 DEF Ordered

(* The blocks on every path to a block come before it in the order.        *)
LEMMA SDomsComeFirst ==
    ASSUME Ordered, g \in Graphs, entry \in Blocks, NEW b \in Live, NEW a \in SDoms(g, entry, b)
    PROVE  Order(a) \in Nat /\ Order(b) \in Nat /\ Order(a) < Order(b)
<1>0. \A x \in Live : Order(x) \in Nat /\ Order(x) >= 1 /\ x \in Blocks
  BY DEF Ordered
<1>1. \A x \in Live : \A y \in SDoms(g, entry, x) : y \in Live
  BY SDomsReachable DEF Live
<1>. DEFINE Bad == {n \in Nat : \E x \in Live : \E y \in SDoms(g, entry, x) :
                       Order(x) = n /\ ~(Order(y) < Order(x))}
<1>2. Bad = {}
  <2>1. SUFFICES ASSUME Bad # {} PROVE FALSE
    OBVIOUS
  <2>2. PICK n \in Bad : \A m \in Bad : n <= m
    <3>1. Bad \in SUBSET Nat
      OBVIOUS
    <3>. HIDE DEF Bad
    <3>. QED  BY <2>1, <3>1, LeastNumber
  <2>3. PICK x \in Live : \E y \in SDoms(g, entry, x) : Order(x) = n /\ ~(Order(y) < Order(x))
    BY <2>2
  <2>4. PICK y \in SDoms(g, entry, x) : Order(x) = n /\ ~(Order(y) < Order(x))
    BY <2>3
  <2>5. x # entry
    BY <2>4, SDomsOfRoot
  <2>6. PICK p \in Preds(g, x) \cap Live : Order(p) < Order(x)
    BY <2>5 DEF Ordered
  <2>7. y \in {p} \cup SDoms(g, entry, p)
    BY <1>0, SDomsOfPreds
  <2>8. Order(p) \in Nat /\ Order(p) \notin Bad
    BY <1>0, <2>2, <2>4, <2>6
  <2>9. y \in SDoms(g, entry, p) => Order(y) < Order(p)
    BY <2>8
  <2>10. Order(y) \in Nat /\ Order(x) \in Nat
    BY <1>0, <1>1
  <2>. QED  BY <2>4, <2>6, <2>7, <2>8, <2>9, <2>10
<1>3. Order(a) \in Nat /\ Order(b) \in Nat
  BY <1>0, <1>1
<1>. QED  BY <1>2, <1>3

-----------------------------------------------------------------------------
(***************************************************************************)
(* The sweeps.  A block's dominators are in its chain because each is the  *)
(* block it hangs under or dominates that one: the walk climbs from the    *)
(* finger that comes later in the order, which no dominator does.          *)
(***************************************************************************)

(* The tree holds blocks a path reaches, each under a block that comes     *)
(* before it and above which all its other dominators are.                 *)
InTree ==
    /\ pc = "search" => processed = {entry}
    /\ processed \subseteq Live
    /\ \A b \in Blocks \ (processed \ {entry}) : idom[b] = NoBlock
    /\ \A b \in processed \ {entry} :
          /\ Order(idom[b]) < Order(b)
          /\ SDoms(g, entry, b) \subseteq {idom[b]} \cup SDoms(g, entry, idom[b])

(* A sweep places every block it has passed; one that has moved no block   *)
(* leaves the blocks it has passed under a block of the chain of each of   *)
(* their predecessors.                                                     *)
Swept ==
    pc # "search" =>
      /\ \A k \in 1 .. Len(rpo) : k < at => rpo[k] \in processed
      /\ ~changed =>
            \A k \in 2 .. Len(rpo) : k < at =>
                \A p \in Preds(g, rpo[k]) \cap processed : idom[rpo[k]] \in Chain(p)
      /\ pc \in {"frontiers", "done"} => at > Len(rpo) /\ ~changed

(* The dominators of the block that is being placed are x and above x.     *)
AllAbove(x) == SDoms(g, entry, rpo[at]) \subseteq {x} \cup SDoms(g, entry, x)

PredsMet == (Preds(g, rpo[at]) \cap processed) \ todo

(* The candidate, and the fingers on their way to the next, are in the     *)
(* chain of the predecessors met so far and below no dominator.            *)
Meeting ==
    /\ pc \in {"meet", "climb"} => at \in 2 .. Len(rpo) /\ todo \subseteq Preds(g, rpo[at])
    /\ pc = "meet" => /\ cand # NoBlock => AllAbove(cand)
                      /\ \A p \in PredsMet : cand \in Chain(p)
    /\ pc = "climb" => /\ AllAbove(f1) /\ AllAbove(f2)
                       /\ \A p \in PredsMet : f1 \in Chain(p) \/ f2 \in Chain(p)

DomInv == DfsInv /\ InTree /\ Swept /\ Meeting

LEMMA OrderKept == ASSUME rpo' = rpo PROVE \A b : Order(b)' = Order(b)
BY DEF Order

LEMMA ChainKept == ASSUME idom' = idom PROVE \A b : Chain(b)' = Chain(b)
BY DEF Chain

(* Once the search is over. *)
LEMMA AfterSearch ==
    ASSUME WInv, DomInv, pc # "search"
    PROVE  /\ Ordered /\ EntryFirst /\ g \in Graphs /\ entry \in Blocks
           /\ \A b \in Live : Order(b) \in Nat /\ b \in Blocks
           /\ processed \subseteq Live /\ entry \in processed
           /\ idom \in [Blocks -> Blocks \cup {NoBlock}]
           /\ \A b \in processed \ {entry} : idom[b] \in processed /\ idom[b] # NoBlock
           /\ at \in Nat \ {0}
<1>1. SearchInv /\ DfsInv /\ stack = << >>
  BY DEF WInv, SearchInv, DomInv
<1>2. Ordered
  BY <1>1, SearchIsOrdered
<1>3. \A b \in Live : Order(b) \in Nat /\ b \in Blocks
  BY <1>2 DEF Ordered
<1>4. EntryFirst /\ g \in Graphs /\ entry \in Blocks
  BY <1>1 DEF SearchInv, Graphs
<1>. QED  BY <1>2, <1>3, <1>4, NoBlockIsNone DEF WInv, TreeInv, WalkInv, DomInv, InTree

(* The chain of a placed block goes down in the order to the entry. *)
LEMMA TreeChains ==
    ASSUME WInv, DomInv, pc # "search"
    PROVE  /\ \A b \in processed : \A x \in Chain(b) : x \in processed /\ Order(x) <= Order(b)
           /\ \A b \in processed \ {entry} :
                 Chain(b) = {b} \cup Chain(idom[b]) /\ b \notin Chain(idom[b])
           /\ \A b \in Blocks \ (processed \ {entry}) : Chain(b) = {b}
<1>1. /\ \A b \in Live : Order(b) \in Nat /\ b \in Blocks
      /\ processed \subseteq Live /\ entry \in processed
      /\ idom \in [Blocks -> Blocks \cup {NoBlock}]
      /\ \A b \in processed \ {entry} : idom[b] \in processed /\ idom[b] # NoBlock
  BY AfterSearch
<1>2. idom[entry] = NoBlock /\ \A b \in processed \ {entry} : Order(idom[b]) < Order(b)
  BY <1>1 DEF DomInv, InTree
<1>3. ASSUME NEW b \in processed, NEW x \in Chain(b)
      PROVE  x \in processed /\ Order(x) <= Order(b)
  <2>. DEFINE X == {y \in processed : Order(y) <= Order(b)}
  <2>1. b \in X /\ b \in Blocks
    BY <1>1
  <2>2. ASSUME NEW y \in X \cap Blocks PROVE Up(y) \subseteq X
    <3>1. CASE y = entry
      BY <3>1, <1>2 DEF Up
    <3>2. CASE y # entry
      <4>1. /\ idom[y] \in processed /\ Order(idom[y]) < Order(y) /\ Order(y) <= Order(b)
            /\ Order(idom[y]) \in Nat /\ Order(y) \in Nat /\ Order(b) \in Nat
        BY <3>2, <1>1, <1>2
      <4>2. idom[y] \in X
        BY <4>1
      <4>. QED  BY <4>2 DEF Up
    <3>. QED  BY <3>1, <3>2
  <2>3. Chain(b) \subseteq X
    <3>. HIDE DEF X
    <3>. QED  BY <2>1, <2>2, <1>1, ChainIsLeast
  <2>. QED  BY <2>3
<1>4. ASSUME NEW b \in processed \ {entry}
      PROVE  Chain(b) = {b} \cup Chain(idom[b]) /\ b \notin Chain(idom[b])
  <2>1. Chain(b) = {b} \cup Chain(idom[b])
    BY <1>1, ChainFacts
  <2>2. Order(idom[b]) \in Nat /\ Order(b) \in Nat /\ Order(idom[b]) < Order(b)
    BY <1>1, <1>2
  <2>3. b \in Chain(idom[b]) => Order(b) <= Order(idom[b])
    BY <1>1, <1>3
  <2>. QED  BY <2>1, <2>2, <2>3
<1>5. ASSUME NEW b \in Blocks \ (processed \ {entry}) PROVE Chain(b) = {b}
  BY <1>1, ChainFacts DEF DomInv, InTree
<1>. QED  BY <1>3, <1>4, <1>5

(* All that dominates a placed block is in its chain. *)
LEMMA ChainsHoldDominators ==
    ASSUME WInv, DomInv, pc # "search", NEW b \in processed
    PROVE  SDoms(g, entry, b) \subseteq Chain(b)
<1>1. /\ \A c \in Live : Order(c) \in Nat /\ c \in Blocks
      /\ processed \subseteq Live /\ entry \in processed
      /\ \A c \in processed \ {entry} : idom[c] \in processed
      /\ idom \in [Blocks -> Blocks \cup {NoBlock}]
      /\ g \in Graphs /\ entry \in Blocks
  BY AfterSearch
<1>. DEFINE Bad == {n \in Nat : \E c \in processed :
                       Order(c) = n /\ ~(SDoms(g, entry, c) \subseteq Chain(c))}
<1>2. Bad = {}
  <2>1. SUFFICES ASSUME Bad # {} PROVE FALSE
    OBVIOUS
  <2>2. PICK n \in Bad : \A m \in Bad : n <= m
    <3>1. Bad \in SUBSET Nat
      OBVIOUS
    <3>. HIDE DEF Bad
    <3>. QED  BY <2>1, <3>1, LeastNumber
  <2>3. PICK c \in processed : Order(c) = n /\ ~(SDoms(g, entry, c) \subseteq Chain(c))
    BY <2>2
  <2>4. c # entry
    BY <2>3, <1>1, SDomsOfRoot
  <2>5. /\ Order(idom[c]) < Order(c) /\ idom[c] \in processed
        /\ SDoms(g, entry, c) \subseteq {idom[c]} \cup SDoms(g, entry, idom[c])
    BY <2>4, <1>1 DEF DomInv, InTree
  <2>6. Order(idom[c]) \in Nat /\ Order(c) \in Nat /\ Order(idom[c]) \notin Bad
    BY <2>2, <2>3, <2>5, <1>1
  <2>7. SDoms(g, entry, idom[c]) \subseteq Chain(idom[c])
    BY <2>5, <2>6
  <2>8. Chain(c) = {c} \cup Chain(idom[c]) /\ idom[c] \in Chain(idom[c])
    BY <2>4, <2>5, <1>1, TreeChains, ChainFacts
  <2>. QED  BY <2>3, <2>5, <2>7, <2>8
<1>3. Order(b) \in Nat
  BY <1>1
<1>. QED  BY <1>2, <1>3

(* A step that leaves the order and the tree alone. *)
LEMMA InTreeKept ==
    ASSUME InTree, UNCHANGED input, rpo' = rpo, idom' = idom, processed' = processed,
           pc' = "search" => pc = "search"
    PROVE  InTree'
<1>1. g' = g /\ entry' = entry
  BY DEF input
<1>2. \A b : Order(b)' = Order(b)
  BY OrderKept
<1>3. Live' = Live
  BY <1>1 DEF Live
<1>4. /\ pc' = "search" => processed' = {entry'}
      /\ processed' \subseteq Live'
      /\ \A b \in Blocks \ (processed' \ {entry'}) : idom'[b] = NoBlock
  BY <1>1, <1>3 DEF InTree
<1>5. ASSUME NEW b \in processed' \ {entry'}
      PROVE  /\ Order(idom[b])' < Order(b)'
             /\ SDoms(g', entry', b) \subseteq {idom'[b]} \cup SDoms(g', entry', idom'[b])
  <2>1. /\ Order(idom[b]) < Order(b)
        /\ SDoms(g, entry, b) \subseteq {idom[b]} \cup SDoms(g, entry, idom[b])
    BY <1>1 DEF InTree
  <2>2. Order(idom[b])' = Order(idom[b]) /\ Order(b)' = Order(b) /\ idom'[b] = idom[b]
    BY <1>2
  <2>. QED  BY <2>1, <2>2, <1>1
<1>. QED  BY <1>4, <1>5 DEF InTree

(* A step that also stays in its place of the sweep. *)
LEMMA SweptKept ==
    ASSUME Swept, UNCHANGED input, rpo' = rpo, idom' = idom, processed' = processed,
           at' = at, changed' = changed, pc # "search",
           pc' \in {"frontiers", "done"} => pc \in {"frontiers", "done"}
    PROVE  Swept'
<1>1. g' = g /\ entry' = entry
  BY DEF input
<1>2. \A b : Chain(b)' = Chain(b)
  BY ChainKept
<1>. QED  BY <1>1, <1>2 DEF Swept

LEMMA DomInit == Init => DomInv
<1>. SUFFICES ASSUME Init PROVE DomInv
  OBVIOUS
<1>1. DfsInv
  BY DfsInit
<1>2. g \in Graphs /\ entry \in Blocks
  BY RootedAssumption DEF Init, Graphs
<1>3. entry \in Live
  BY <1>2, ReachFacts DEF Live
<1>4. InTree
  BY <1>3 DEF Init, InTree
<1>. QED  BY <1>1, <1>4 DEF DomInv, Init, Swept, Meeting

LEMMA SearchKeepsDom ==
    ASSUME WInv, DomInv, Descend \/ Retreat
    PROVE  DomInv'
<1>1. DfsInv'
  BY DescendKeepsDfs, RetreatKeepsDfs DEF DomInv, WInv
<1>2. g' = g /\ entry' = entry /\ pc = "search" /\ pc' = pc /\ idom' = idom /\ processed' = processed
  BY DEF Descend, Retreat, input, tree
<1>3. InTree'
  <2>1. Live' = Live
    BY <1>2 DEF Live
  <2>. QED  BY <1>2, <2>1 DEF DomInv, InTree
<1>. QED  BY <1>1, <1>2, <1>3 DEF DomInv, Swept, Meeting

LEMMA StartSweepsKeepsDom == WInv /\ DomInv /\ StartSweeps => DomInv'
<1>. SUFFICES ASSUME WInv, DomInv, StartSweeps PROVE DomInv'
  OBVIOUS
<1>1. UNCHANGED input /\ UNCHANGED search /\ idom' = idom /\ processed' = processed
      /\ rpo' = rpo /\ at' = 1 /\ pc' = "sweep" /\ pc = "search"
  BY DEF StartSweeps, search
<1>2. DfsInv' /\ InTree'
  BY <1>1, DfsKept, InTreeKept DEF DomInv
<1>3. Len(rpo) \in Nat
  BY DEF WInv, SearchInv
<1>4. Swept'
  BY <1>1, <1>3 DEF Swept
<1>. QED  BY <1>1, <1>2, <1>4 DEF DomInv, Meeting

LEMMA PickBlockKeepsDom == WInv /\ DomInv /\ PickBlock => DomInv'
<1>. SUFFICES ASSUME WInv, DomInv, PickBlock PROVE DomInv'
  OBVIOUS
<1>1. /\ UNCHANGED input /\ UNCHANGED search /\ idom' = idom /\ processed' = processed
      /\ rpo' = rpo /\ g' = g /\ entry' = entry /\ changed' = changed /\ pc = "sweep" /\ at <= Len(rpo)
  BY DEF PickBlock, search, tree, input
<1>2. /\ Ordered /\ EntryFirst /\ processed \subseteq Live /\ entry \in processed
      /\ at \in Nat \ {0} /\ Len(rpo) \in 1 .. N
  BY <1>1, AfterSearch DEF Ordered
<1>3. CASE rpo[at] = entry
  <2>1. at' = at + 1 /\ pc' = pc
    BY <1>3 DEF PickBlock
  <2>2. DfsInv' /\ InTree'
    BY <1>1, <2>1, DfsKept, InTreeKept DEF DomInv
  <2>3. at = 1
    <3>1. at \in 1 .. Len(rpo) /\ 1 \in 1 .. Len(rpo)
      BY <1>1, <1>2
    <3>2. Order(rpo[at]) = at
      BY <3>1, <1>2 DEF Ordered
    <3>. QED  BY <3>2, <1>2, <1>3 DEF Ordered
  <2>4. Swept'
    <3>1. rpo[1] \in processed
      BY <1>2 DEF EntryFirst
    <3>2. \A k \in 1 .. Len(rpo) : k < 2 => k = 1
      BY <1>2
    <3>3. ~ \E k \in 2 .. Len(rpo) : k < 2
      BY <1>2
    <3>. QED  BY <3>1, <3>2, <3>3, <2>1, <2>3, <1>1 DEF Swept
  <2>. QED  BY <1>1, <2>1, <2>2, <2>4 DEF DomInv, Meeting
<1>4. CASE rpo[at] # entry
  <2>1. /\ pc' = "meet" /\ cand' = NoBlock /\ at' = at
        /\ todo' = {p \in Preds(g, rpo[at]) : Usable(p)}
    BY <1>4 DEF PickBlock, Unset
  <2>2. DfsInv' /\ InTree' /\ Swept'
    BY <1>1, <2>1, DfsKept, InTreeKept, SweptKept DEF DomInv
  <2>3. at \in 2 .. Len(rpo)
    BY <1>1, <1>2, <1>4 DEF EntryFirst
  <2>4. ASSUME NEW p \in processed PROVE Usable(p)
    <3>1. Order(p) \in 1 .. Len(rpo) /\ Len(rpo) \in 1 .. N
      BY <1>2 DEF Ordered
    <3>. QED  BY <3>1, NAssumption DEF Usable
  <2>5. PredsMet' = {}
    BY <1>1, <2>1, <2>4 DEF PredsMet
  <2>6. todo' \subseteq Preds(g, rpo[at])
    BY <2>1
  <2>. QED  BY <1>1, <2>1, <2>2, <2>3, <2>5, <2>6 DEF DomInv, Meeting
<1>. QED  BY <1>3, <1>4

LEMMA NextPredKeepsDom == WInv /\ DomInv /\ NextPred => DomInv'
<1>. SUFFICES ASSUME WInv, DomInv, NextPred PROVE DomInv'
  OBVIOUS
<1>. DEFINE s == Smallest(todo)
<1>1. /\ UNCHANGED input /\ UNCHANGED search /\ idom' = idom /\ processed' = processed /\ rpo' = rpo
      /\ g' = g /\ entry' = entry /\ changed' = changed /\ pc = "meet" /\ at' = at
      /\ todo # {} /\ todo' = todo \ {s}
  BY DEF NextPred, search, tree, input
<1>2. /\ processed \subseteq Live /\ \A b \in Live : b \in Blocks
      /\ g \in Graphs /\ entry \in Blocks /\ idom \in [Blocks -> Blocks \cup {NoBlock}]
  BY <1>1, AfterSearch
<1>3. s \in todo /\ s \in processed /\ s \in Blocks
  <2>1. todo \subseteq processed /\ processed \subseteq Blocks
    BY <1>2 DEF WInv, WalkInv
  <2>2. todo \in SUBSET Nat
    BY <2>1, NAssumption DEF Blocks
  <2>. QED  BY <2>1, <2>2, <1>1, SmallestIsIn
<1>. HIDE DEF s
<1>4. at \in 2 .. Len(rpo) /\ todo \subseteq Preds(g, rpo[at]) /\ rpo[at] \in Blocks
  <2>1. at \in 2 .. Len(rpo) /\ todo \subseteq Preds(g, rpo[at])
    BY <1>1 DEF DomInv, Meeting
  <2>2. rpo \in Seq(Blocks)
    BY DEF WInv, SearchInv
  <2>. QED  BY <2>1, <2>2
<1>5. /\ cand # NoBlock => AllAbove(cand)
      /\ \A p \in PredsMet : cand \in Chain(p)
  BY <1>1 DEF DomInv, Meeting
<1>6. AllAbove(s)
  BY <1>2, <1>3, <1>4, SDomsOfPreds DEF AllAbove
<1>7. \A x : AllAbove(x) => AllAbove(x)'
  BY <1>1 DEF AllAbove
<1>8. PredsMet' \subseteq PredsMet \cup {s} /\ PredsMet \subseteq Blocks
  BY <1>1, <1>2 DEF PredsMet, Preds
<1>9. \A b : Chain(b)' = Chain(b)
  BY <1>1, ChainKept
<1>10. s \in Chain(s) /\ \A p \in PredsMet : Chain(p) \subseteq Blocks
  BY <1>2, <1>3, <1>8, ChainFacts
<1>11. todo' \subseteq Preds(g', rpo'[at']) /\ at' \in 2 .. Len(rpo')
  BY <1>1, <1>4
<1>12. CASE cand = NoBlock
  <2>1. cand' = s /\ pc' = "meet"
    BY <1>12, <1>1 DEF NextPred, s
  <2>2. DfsInv' /\ InTree' /\ Swept'
    BY <1>1, <2>1, DfsKept, InTreeKept, SweptKept DEF DomInv
  <2>3. PredsMet = {}
    BY <1>5, <1>10, <1>12, NoBlockIsNone
  <2>4. \A p \in PredsMet' : cand' \in Chain(p)'
    BY <2>1, <2>3, <1>8, <1>9, <1>10
  <2>5. AllAbove(cand)'
    BY <2>1, <1>6, <1>1 DEF AllAbove
  <2>. QED  BY <1>11, <2>1, <2>2, <2>4, <2>5 DEF DomInv, Meeting
<1>13. CASE cand # NoBlock
  <2>1. pc' = "climb" /\ f1' = cand /\ f2' = s
    BY <1>13, <1>1 DEF NextPred, s
  <2>2. DfsInv' /\ InTree' /\ Swept'
    BY <1>1, <2>1, DfsKept, InTreeKept, SweptKept DEF DomInv
  <2>3. \A p \in PredsMet' : f1' \in Chain(p)' \/ f2' \in Chain(p)'
    BY <2>1, <1>5, <1>8, <1>9, <1>10
  <2>4. AllAbove(f1)' /\ AllAbove(f2)'
    BY <2>1, <1>5, <1>6, <1>13, <1>1 DEF AllAbove
  <2>. QED  BY <1>11, <2>1, <2>2, <2>3, <2>4 DEF DomInv, Meeting
<1>. QED  BY <1>12, <1>13

(* The lower of two blocks that all dominators are above is none of them.  *)
LEMMA ClimbOne ==
    ASSUME WInv, DomInv, pc = "climb", NEW x \in processed \ {entry}, NEW y \in processed,
           x # y, Order(x) >= Order(y), AllAbove(x), AllAbove(y)
    PROVE  AllAbove(idom[x])
<1>1. /\ Ordered /\ g \in Graphs /\ entry \in Blocks /\ processed \subseteq Live
      /\ \A b \in Live : Order(b) \in Nat
  BY AfterSearch
<1>2. ASSUME NEW a \in SDoms(g, entry, rpo[at]) PROVE a \in {idom[x]} \cup SDoms(g, entry, idom[x])
  <2>1. a \in {x} \cup SDoms(g, entry, x) /\ a \in {y} \cup SDoms(g, entry, y)
    BY DEF AllAbove
  <2>2. a # x
    <3>1. x \in SDoms(g, entry, y) => Order(x) < Order(y)
      BY <1>1, SDomsComeFirst
    <3>2. Order(x) \in Nat /\ Order(y) \in Nat
      BY <1>1
    <3>. QED  BY <2>1, <3>1, <3>2
  <2>. QED  BY <2>1, <2>2 DEF DomInv, InTree
<1>. QED  BY <1>2 DEF AllAbove

LEMMA ClimbKeepsDom == WInv /\ DomInv /\ Climb => DomInv'
<1>. SUFFICES ASSUME WInv, DomInv, Climb PROVE DomInv'
  OBVIOUS
<1>1. pc = "climb" /\ f1 # f2
  BY DEF Climb
<1>2. /\ Lower \in processed \ {entry} /\ Lower \in {f1, f2}
      /\ idom[Lower] \in processed /\ idom[Lower] # NoBlock
  BY <1>1, LowerHasParent
<1>3. /\ f1' = (IF Lower = f1 THEN idom[f1] ELSE f1)
      /\ f2' = (IF Lower = f1 THEN f2 ELSE idom[f2])
      /\ pc' = pc /\ UNCHANGED input /\ UNCHANGED search /\ idom' = idom /\ processed' = processed
      /\ rpo' = rpo /\ g' = g /\ entry' = entry /\ changed' = changed /\ at' = at /\ todo' = todo
  BY <1>2 DEF Climb, tree, search, input
<1>4. DfsInv' /\ InTree' /\ Swept'
  BY <1>1, <1>3, DfsKept, InTreeKept, SweptKept DEF DomInv
<1>5. f1 \in processed /\ f2 \in processed
  BY <1>1 DEF WInv, WalkInv
<1>6. /\ processed \subseteq Live /\ \A b \in Live : Order(b) \in Nat /\ b \in Blocks
      /\ idom \in [Blocks -> Blocks \cup {NoBlock}]
  BY <1>1, AfterSearch
<1>7. /\ AllAbove(f1) /\ AllAbove(f2)
      /\ \A p \in PredsMet : f1 \in Chain(p) \/ f2 \in Chain(p)
      /\ at \in 2 .. Len(rpo) /\ todo \subseteq Preds(g, rpo[at])
  BY <1>1 DEF DomInv, Meeting
<1>8. Order(f1) \in Nat /\ Order(f2) \in Nat
  BY <1>5, <1>6
<1>9. AllAbove(f1') /\ AllAbove(f2')
  <2>1. CASE Order(f1) > Order(f2)
    <3>1. Lower = f1 /\ Order(f1) >= Order(f2)
      BY <2>1, <1>8 DEF Lower
    <3>2. AllAbove(idom[f1])
      BY <3>1, <1>1, <1>2, <1>5, <1>7, ClimbOne
    <3>. QED  BY <3>1, <3>2, <1>3, <1>7
  <2>2. CASE ~(Order(f1) > Order(f2))
    <3>1. Lower = f2 /\ Order(f2) >= Order(f1)
      BY <2>2, <1>8 DEF Lower
    <3>2. AllAbove(idom[f2])
      BY <3>1, <1>1, <1>2, <1>5, <1>7, ClimbOne
    <3>. QED  BY <3>1, <3>2, <1>1, <1>3, <1>7
  <2>. QED  BY <2>1, <2>2
<1>10. AllAbove(f1)' /\ AllAbove(f2)'
  BY <1>3, <1>9 DEF AllAbove
<1>11. ASSUME NEW p \in PredsMet PROVE f1' \in Chain(p) \/ f2' \in Chain(p)
  <2>1. p \in Blocks
    BY <1>6 DEF PredsMet
  <2>2. Lower \in Chain(p) => idom[Lower] \in Chain(p)
    BY <2>1, <1>2, <1>6, ChainIsLeast DEF Up
  <2>. QED  BY <2>2, <1>1, <1>2, <1>3, <1>7
<1>12. PredsMet' = PredsMet
  BY <1>3 DEF PredsMet
<1>13. \A b : Chain(b)' = Chain(b)
  BY <1>3, ChainKept
<1>14. Meeting'
  BY <1>1, <1>3, <1>7, <1>10, <1>11, <1>12, <1>13 DEF Meeting
<1>. QED  BY <1>4, <1>14 DEF DomInv

LEMMA MetKeepsDom == WInv /\ DomInv /\ Met => DomInv'
<1>. SUFFICES ASSUME WInv, DomInv, Met PROVE DomInv'
  OBVIOUS
<1>1. /\ UNCHANGED input /\ UNCHANGED search /\ idom' = idom /\ processed' = processed /\ rpo' = rpo
      /\ g' = g /\ entry' = entry /\ changed' = changed /\ at' = at /\ todo' = todo
      /\ pc = "climb" /\ pc' = "meet" /\ f1 = f2 /\ cand' = f1
  BY DEF Met, search, tree, input
<1>2. DfsInv' /\ InTree' /\ Swept'
  BY <1>1, DfsKept, InTreeKept, SweptKept DEF DomInv
<1>3. /\ AllAbove(f1)
      /\ \A p \in PredsMet : f1 \in Chain(p)
      /\ at \in 2 .. Len(rpo) /\ todo \subseteq Preds(g, rpo[at])
  BY <1>1 DEF DomInv, Meeting
<1>4. PredsMet' = PredsMet /\ AllAbove(cand)'
  BY <1>1, <1>3 DEF PredsMet, AllAbove
<1>5. \A b : Chain(b)' = Chain(b)
  BY <1>1, ChainKept
<1>6. Meeting'
  BY <1>1, <1>3, <1>4, <1>5 DEF Meeting
<1>. QED  BY <1>2, <1>6 DEF DomInv

LEMMA PlaceKeepsDom == WInv /\ DomInv /\ Place => DomInv'
<1>. SUFFICES ASSUME WInv, DomInv, Place PROVE DomInv'
  OBVIOUS
<1>. DEFINE b == rpo[at]
<1>1. /\ UNCHANGED input /\ UNCHANGED search /\ rpo' = rpo /\ g' = g /\ entry' = entry
      /\ pc = "meet" /\ pc' = "sweep" /\ at' = at + 1 /\ todo = {}
  BY DEF Place, search, input
<1>2. /\ Ordered /\ g \in Graphs /\ entry \in Blocks /\ processed \subseteq Live /\ entry \in processed
      /\ \A x \in Live : Order(x) \in Nat /\ x \in Blocks
      /\ idom \in [Blocks -> Blocks \cup {NoBlock}]
  BY <1>1, AfterSearch
<1>3. /\ at \in 2 .. Len(rpo)
      /\ cand # NoBlock => AllAbove(cand)
      /\ \A p \in Preds(g, b) \cap processed : cand \in Chain(p)
  BY <1>1 DEF DomInv, Meeting, PredsMet
<1>4. Len(rpo) \in Nat /\ at \in 1 .. Len(rpo) /\ at # 1
  BY <1>2, <1>3, NAssumption DEF Ordered
<1>5. b \in Live /\ Order(b) = at /\ b # entry /\ b \in Blocks
  BY <1>2, <1>4 DEF Ordered
<1>. HIDE DEF b
<1>6. PICK q \in Preds(g, b) \cap processed : Order(q) < at /\ Order(q) \in Nat
  <2>1. PICK p \in Preds(g, b) \cap Live : Order(p) < Order(b)
    BY <1>2, <1>5 DEF Ordered
  <2>2. Order(p) \in 1 .. Len(rpo) /\ rpo[Order(p)] = p /\ Order(p) < at
    BY <1>2, <1>5, <2>1 DEF Ordered
  <2>3. p \in processed
    BY <2>2, <1>1 DEF DomInv, Swept
  <2>. QED  BY <2>1, <2>2, <2>3, <1>4
<1>7. cand \in processed /\ Order(cand) <= Order(q)
  BY <1>1, <1>3, <1>6, TreeChains
<1>8. cand # NoBlock /\ Order(cand) < at
  <2>1. Order(cand) \in Nat
    BY <1>2, <1>7
  <2>. QED  BY <2>1, <1>2, <1>4, <1>6, <1>7, NoBlockIsNone
<1>9. SDoms(g, entry, b) \subseteq {cand} \cup SDoms(g, entry, cand)
  BY <1>3, <1>8 DEF AllAbove, b
<1>10. DfsInv'
  BY <1>1, DfsKept DEF DomInv
<1>11. Meeting'
  BY <1>1 DEF Meeting
<1>12. \A x : Order(x)' = Order(x)
  BY <1>1, OrderKept
<1>13. Live' = Live
  BY <1>1 DEF Live
<1>14. CASE Moves
  <2>1. idom' = [idom EXCEPT ![b] = cand] /\ processed' = processed \cup {b} /\ changed' = TRUE
    BY <1>14 DEF Place, b
  <2>2. idom'[b] = cand /\ \A x \in Blocks \ {b} : idom'[x] = idom[x]
    BY <2>1, <1>2, <1>5
  <2>3. ASSUME NEW x \in processed' \ {entry'}
        PROVE  /\ Order(idom[x])' < Order(x)'
               /\ SDoms(g', entry', x) \subseteq {idom'[x]} \cup SDoms(g', entry', idom'[x])
    <3>1. CASE x = b
      <4>1. Order(idom[x])' = Order(cand) /\ Order(x)' = at
        BY <3>1, <2>2, <1>1, <1>5 DEF Order
      <4>. QED  BY <3>1, <4>1, <2>2, <1>1, <1>8, <1>9
    <3>2. CASE x # b
      <4>1. x \in processed \ {entry} /\ idom'[x] = idom[x]
        BY <3>2, <2>1, <2>2, <1>1, <1>2
      <4>2. Order(idom[x])' = Order(idom[x]) /\ Order(x)' = Order(x)
        BY <4>1, <1>1 DEF Order
      <4>. QED  BY <4>1, <4>2, <1>1 DEF DomInv, InTree
    <3>. QED  BY <3>1, <3>2
  <2>4. processed' \subseteq Live'
    BY <2>1, <1>2, <1>5, <1>13
  <2>5. \A x \in Blocks \ (processed' \ {entry'}) : idom'[x] = NoBlock
    BY <2>1, <2>2, <1>1, <1>5 DEF DomInv, InTree
  <2>6. InTree'
    BY <2>3, <2>4, <2>5, <1>1 DEF InTree
  <2>7. Swept'
    <3>1. ASSUME NEW k \in 1 .. Len(rpo), k < at + 1 PROVE rpo[k] \in processed'
      <4>1. k < at \/ k = at
        BY <3>1, <1>4
      <4>. QED  BY <4>1, <2>1, <1>1 DEF DomInv, Swept, b
    <3>. QED  BY <3>1, <2>1, <1>1 DEF Swept
  <2>. QED  BY <2>6, <2>7, <1>10, <1>11 DEF DomInv
<1>15. CASE ~Moves
  <2>1. idom' = idom /\ processed' = processed /\ changed' = changed
    BY <1>15 DEF Place, tree
  <2>2. idom[b] = cand
    BY <1>8, <1>15 DEF Moves, b
  <2>3. b \in processed
    BY <2>2, <1>5, <1>8 DEF DomInv, InTree
  <2>4. InTree'
    BY <2>1, <1>1, InTreeKept DEF DomInv
  <2>5. \A x : Chain(x)' = Chain(x)
    BY <2>1, ChainKept
  <2>6. ASSUME NEW k \in 1 .. Len(rpo), k < at + 1 PROVE rpo[k] \in processed
    <3>1. k < at \/ k = at
      BY <2>6, <1>4
    <3>. QED  BY <3>1, <2>3, <1>1 DEF DomInv, Swept, b
  <2>7. ASSUME ~changed, NEW k \in 2 .. Len(rpo), k < at + 1,
               NEW p \in Preds(g, rpo[k]) \cap processed
        PROVE  idom[rpo[k]] \in Chain(p)
    <3>1. k < at \/ k = at
      BY <2>7, <1>4
    <3>. QED  BY <3>1, <2>7, <2>2, <1>1, <1>3 DEF DomInv, Swept, b
  <2>8. Swept'
    BY <2>1, <2>5, <2>6, <2>7, <1>1 DEF Swept
  <2>. QED  BY <2>4, <2>8, <1>10, <1>11 DEF DomInv
<1>. QED  BY <1>14, <1>15

LEMMA EndSweepKeepsDom == WInv /\ DomInv /\ EndSweep => DomInv'
<1>. SUFFICES ASSUME WInv, DomInv, EndSweep PROVE DomInv'
  OBVIOUS
<1>1. /\ UNCHANGED input /\ UNCHANGED search /\ rpo' = rpo /\ g' = g /\ entry' = entry
      /\ idom' = idom /\ processed' = processed
      /\ pc = "sweep" /\ at > Len(rpo)
  BY DEF EndSweep, search, input
<1>2. Ordered /\ at \in Nat /\ Len(rpo) \in Nat
  BY <1>1, AfterSearch, NAssumption DEF Ordered
<1>3. CASE changed
  <2>1. at' = 1 /\ changed' = FALSE /\ pc' = pc
    BY <1>3 DEF EndSweep, Again
  <2>2. DfsInv' /\ InTree'
    BY <1>1, <2>1, DfsKept, InTreeKept DEF DomInv
  <2>3. /\ \A k \in 1 .. Len(rpo) : ~(k < 1)
        /\ \A k \in 2 .. Len(rpo) : ~(k < 1)
    BY <1>2
  <2>4. Swept'
    BY <1>1, <2>1, <2>3 DEF Swept
  <2>. QED  BY <1>1, <2>1, <2>2, <2>4 DEF DomInv, Meeting
<1>4. CASE ~changed
  <2>1. at' = at /\ changed' = changed /\ pc' = "frontiers"
    BY <1>4 DEF EndSweep, Again
  <2>2. DfsInv' /\ InTree'
    BY <1>1, <2>1, DfsKept, InTreeKept DEF DomInv
  <2>3. \A x : Chain(x)' = Chain(x)
    BY <1>1, ChainKept
  <2>4. Swept'
    BY <1>1, <1>4, <2>1, <2>3 DEF DomInv, Swept
  <2>. QED  BY <2>1, <2>2, <2>4 DEF DomInv, Meeting
<1>. QED  BY <1>3, <1>4

LEMMA FrontiersKeepsDom == WInv /\ DomInv /\ Frontiers => DomInv'
<1>. SUFFICES ASSUME WInv, DomInv, Frontiers PROVE DomInv'
  OBVIOUS
<1>1. /\ UNCHANGED input /\ UNCHANGED search /\ rpo' = rpo /\ idom' = idom /\ processed' = processed
      /\ changed' = changed /\ at' = at /\ pc = "frontiers" /\ pc' = "done"
  BY DEF Frontiers, search, tree
<1>2. DfsInv' /\ InTree' /\ Swept'
  BY <1>1, DfsKept, InTreeKept, SweptKept DEF DomInv
<1>. QED  BY <1>1, <1>2 DEF DomInv, Meeting

LEMMA StutterKeepsDom == WInv /\ DomInv /\ UNCHANGED vars => DomInv'
<1>. SUFFICES ASSUME WInv, DomInv, UNCHANGED vars PROVE DomInv'
  OBVIOUS
<1>1. /\ UNCHANGED input /\ UNCHANGED search /\ g' = g /\ entry' = entry /\ rpo' = rpo /\ idom' = idom
      /\ processed' = processed /\ changed' = changed /\ at' = at /\ pc' = pc /\ todo' = todo
      /\ cand' = cand /\ f1' = f1 /\ f2' = f2
  BY DEF vars, input, search
<1>2. DfsInv' /\ InTree'
  BY <1>1, DfsKept, InTreeKept DEF DomInv
<1>3. \A b : Chain(b)' = Chain(b)
  BY <1>1, ChainKept
<1>4. Swept'
  BY <1>1, <1>3 DEF DomInv, Swept
<1>5. PredsMet' = PredsMet /\ (\A x : AllAbove(x)' <=> AllAbove(x))
  BY <1>1 DEF PredsMet, AllAbove
<1>6. /\ AllAbove(cand)' <=> AllAbove(cand)
      /\ AllAbove(f1)' <=> AllAbove(f1)
      /\ AllAbove(f2)' <=> AllAbove(f2)
  BY <1>1 DEF AllAbove
<1>7. Meeting'
  BY <1>1, <1>3, <1>5, <1>6 DEF DomInv, Meeting
<1>. QED  BY <1>2, <1>4, <1>7 DEF DomInv

-----------------------------------------------------------------------------
(* What the other invariants do not say of the state. *)
Rest ==
    /\ pc \in Stages /\ changed \in BOOLEAN
    /\ {f1, f2} \subseteq Blocks \cup {NoBlock}
    /\ frontiers \in [Blocks -> SUBSET Blocks]
    /\ pc = "done" =>
          \A r \in Blocks : frontiers[r] =
              {b \in Blocks : IsJoin(g, b) /\ \E p \in Preds(g, b) : r \in Runners(p, b)}

IInv == WInv /\ DomInv /\ Rest

LEMMA IInvInit == Init => IInv
<1>. SUFFICES ASSUME Init PROVE IInv
  OBVIOUS
<1>1. Rest
  BY DEF Init, Rest, Stages
<1>. QED  BY <1>1, WInit, DomInit DEF IInv

LEMMA RestKept == IInv /\ [Next]_vars => Rest'
<1>. SUFFICES ASSUME IInv, [Next]_vars PROVE Rest'
  OBVIOUS
<1>. USE DEF Rest
<1>1. Rest
  BY DEF IInv
<1>2. CASE Descend \/ Retreat \/ StartSweeps \/ PickBlock
  BY <1>1, <1>2 DEF Descend, Retreat, StartSweeps, PickBlock, tree, walk, Stages
<1>3. CASE NextPred
  <2>1. cand \in Blocks \cup {NoBlock} /\ todo \subseteq Blocks
    BY DEF IInv, WInv, TreeInv, WalkInv
  <2>2. todo # {} => Smallest(todo) \in todo
    <3>1. todo \in SUBSET Nat
      BY <2>1, NAssumption DEF Blocks
    <3>. QED  BY <3>1, SmallestIsIn
  <2>. QED  BY <1>1, <1>3, <2>1, <2>2 DEF NextPred, tree, Stages
<1>4. CASE Climb
  <2>1. idom \in [Blocks -> Blocks \cup {NoBlock}] /\ f1 \in Blocks /\ f2 \in Blocks
    BY <1>4 DEF Climb, IInv, WInv, TreeInv, WalkInv
  <2>2. pc = "climb" /\ pc' \in {"climb", "panic"} /\ frontiers' = frontiers /\ changed' = changed
    BY <1>4 DEF Climb, tree
  <2>3. {f1', f2'} \subseteq Blocks \cup {NoBlock}
    BY <1>4, <2>1 DEF Climb
  <2>. QED  BY <1>1, <2>2, <2>3 DEF Stages
<1>5. CASE Met \/ Place \/ EndSweep
  BY <1>1, <1>5 DEF Met, Place, EndSweep, tree, walk, Stages
<1>6. CASE Frontiers
  <2>1. \A p, b : Runners(p, b)' = Runners(p, b)
    BY <1>6 DEF Frontiers, tree, Runners, Chain
  <2>2. /\ frontiers' = [r \in Blocks |->
              {b \in Blocks : IsJoin(g, b) /\ \E p \in Preds(g, b) : r \in Runners(p, b)}]
        /\ g' = g /\ pc' = "done" /\ changed' = changed /\ f1' = f1 /\ f2' = f2
    BY <1>6 DEF Frontiers, input, tree, walk
  <2>3. \A r \in Blocks : frontiers'[r] =
            {b \in Blocks : IsJoin(g, b) /\ \E p \in Preds(g, b) : r \in Runners(p, b)}
    BY <2>2
  <2>. QED  BY <1>1, <2>1, <2>2, <2>3 DEF Stages
<1>7. CASE UNCHANGED vars
  <2>1. \A p, b : Runners(p, b)' = Runners(p, b)
    BY <1>7 DEF vars, Runners, Chain
  <2>. QED  BY <1>1, <1>7, <2>1 DEF vars
<1>. QED  BY <1>2, <1>3, <1>4, <1>5, <1>6, <1>7 DEF Next

LEMMA IInvInductive == IInv /\ [Next]_vars => IInv'
<1>. SUFFICES ASSUME IInv, [Next]_vars PROVE IInv'
  OBVIOUS
<1>1. WInv'
  BY DescendKeeps, RetreatKeeps, StartSweepsKeeps, PickBlockKeeps, NextPredKeeps, ClimbKeeps,
     MetKeeps, PlaceKeeps, EndSweepKeeps, FrontiersKeeps, StutterKeeps DEF Next, IInv
<1>2. DomInv'
  BY SearchKeepsDom, StartSweepsKeepsDom, PickBlockKeepsDom, NextPredKeepsDom, ClimbKeepsDom,
     MetKeepsDom, PlaceKeepsDom, EndSweepKeepsDom, FrontiersKeepsDom, StutterKeepsDom
     DEF Next, IInv
<1>3. Rest'
  BY RestKept
<1>. QED  BY <1>1, <1>2, <1>3 DEF IInv

LEMMA IInvHolds == Spec => []IInv
BY IInvInit, IInvInductive, PTL DEF Spec

-----------------------------------------------------------------------------
(* The state keeps its type: in particular the explicit stack of the       *)
(* search never holds more frames than there are blocks.                   *)
THEOREM DominatorTypes == Spec => []TypeOK
<1>1. IInv => TypeOK
  <2>. SUFFICES ASSUME IInv PROVE TypeOK
    OBVIOUS
  <2>1. /\ g \in [Blocks -> Seq(Blocks)] /\ entry \in Blocks
        /\ stack \in Seq(Frames) /\ rpo \in Seq(Blocks)
    BY DEF IInv, WInv, SearchInv
  <2>2. Len(stack) <= N
    <3>. DEFINE f == [k \in 1 .. Len(stack) |-> stack[k][1]]
    <3>1. Len(stack) \in Nat /\ f \in [1 .. Len(stack) -> Blocks]
      BY <2>1 DEF Frames
    <3>2. \A j, k \in 1 .. Len(stack) : f[j] = f[k] => j = k
      BY DEF IInv, DomInv, DfsInv, MetOnce
    <3>. HIDE DEF f
    <3>. QED  BY <3>1, <3>2, Pigeonhole
  <2>3. stack \in Seq(Blocks \X Nat)
    BY <2>1 DEF Frames
  <2>4. visited \subseteq Blocks
    BY <2>1, ReachFacts DEF IInv, DomInv, DfsInv, MetOnce, Graphs
  <2>5. /\ processed \subseteq Blocks /\ idom \in [Blocks -> Blocks \cup {NoBlock}]
        /\ at \in Nat /\ todo \subseteq Blocks /\ cand \in Blocks \cup {NoBlock}
    BY DEF IInv, WInv, TreeInv, WalkInv
  <2>. QED  BY <2>1, <2>2, <2>3, <2>4, <2>5 DEF IInv, Rest, TypeOK
<1>. QED  BY <1>1, IInvHolds, PTL

(* While the sweeps run, no true dominator of a placed block is missing    *)
(* from the chain above it: the tree is corrected from below only.         *)
THEOREM DominatorsKept == Spec => []ChainKeepsDominators
<1>1. IInv => ChainKeepsDominators
  BY ChainsHoldDominators DEF IInv, ChainKeepsDominators
<1>. QED  BY <1>1, IInvHolds, PTL

(* A sweep that moves no block leaves every block under a block of the     *)
(* chain of each of its predecessors.                                      *)
LEMMA Settled ==
    ASSUME IInv, pc \in {"frontiers", "done"}
    PROVE  /\ processed = Live
           /\ \A b \in Live \ {entry} : \A p \in Preds(g, b) \cap Live : idom[b] \in Chain(p)
<1>1. /\ Ordered /\ processed \subseteq Live /\ at \in Nat
      /\ WInv /\ DomInv /\ pc # "search"
  BY AfterSearch DEF IInv
<1>2. /\ at > Len(rpo) /\ ~changed
      /\ \A k \in 1 .. Len(rpo) : k < at => rpo[k] \in processed
      /\ \A k \in 2 .. Len(rpo) : k < at =>
              \A p \in Preds(g, rpo[k]) \cap processed : idom[rpo[k]] \in Chain(p)
  BY <1>1 DEF DomInv, Swept
<1>3. Len(rpo) \in Nat
  BY <1>1, NAssumption DEF Ordered
<1>4. Live \subseteq processed
  <2>. SUFFICES ASSUME NEW b \in Live PROVE b \in processed
    OBVIOUS
  <2>1. Order(b) \in 1 .. Len(rpo) /\ rpo[Order(b)] = b
    BY <1>1 DEF Ordered
  <2>. QED  BY <2>1, <1>1, <1>2, <1>3
<1>5. ASSUME NEW b \in Live \ {entry}, NEW p \in Preds(g, b) \cap Live PROVE idom[b] \in Chain(p)
  <2>1. Order(b) \in 1 .. Len(rpo) /\ rpo[Order(b)] = b
    BY <1>1 DEF Ordered
  <2>2. Order(b) # 1
    <3>1. EntryFirst
      BY <1>1, AfterSearch
    <3>. QED  BY <2>1, <3>1 DEF EntryFirst
  <2>3. Order(b) \in 2 .. Len(rpo) /\ Order(b) < at
    BY <2>1, <2>2, <1>1, <1>2, <1>3
  <2>. QED  BY <2>1, <2>3, <1>2, <1>4
<1>. QED  BY <1>1, <1>4, <1>5

(* Then every block of a chain dominates the block the chain starts from.  *)
LEMMA ChainsDominate ==
    ASSUME IInv, pc \in {"frontiers", "done"}, NEW b \in Live, NEW a \in Chain(b), a # b
    PROVE  a \in SDoms(g, entry, b)
<1>1. /\ g \in Graphs /\ entry \in Blocks /\ Live \subseteq Blocks /\ entry \in Live
      /\ idom \in [Blocks -> Blocks \cup {NoBlock}] /\ processed = Live
      /\ WInv /\ DomInv /\ pc # "search"
  BY AfterSearch, Settled DEF IInv, Ordered
<1>2. a \in Blocks
  BY <1>1, ChainFacts
<1>. DEFINE X == {x \in Live : a \notin Chain(x)}
<1>3. ClosedSet(g, entry, {a}, X)
  <2>1. entry # a => entry \in X
    BY <1>1, TreeChains
  <2>2. ASSUME NEW x \in X, NEW t \in Targets(g, x), t # a PROVE t \in X
    <3>1. x \in Live /\ t \in Live
      BY <1>1, ReachFacts DEF Live
    <3>2. CASE t = entry
      BY <3>2, <2>1, <2>2
    <3>3. CASE t # entry
      <4>1. x \in Preds(g, t)
        BY <3>1, <1>1 DEF Preds
      <4>2. idom[t] \in Chain(x)
        BY <3>1, <3>3, <4>1, Settled
      <4>3. Chain(t) = {t} \cup Chain(idom[t])
        BY <3>1, <3>3, <1>1, TreeChains
      <4>4. Chain(idom[t]) \subseteq Chain(x)
        BY <3>1, <4>2, <1>1, ChainFacts
      <4>. QED  BY <2>2, <3>1, <4>3, <4>4
    <3>. QED  BY <3>2, <3>3
  <2>. QED  BY <2>1, <2>2 DEF ClosedSet
<1>4. Reach(g, entry, {a}) \subseteq X
  <2>. HIDE DEF X
  <2>. QED  BY <1>1, <1>3, ReachWithin
<1>. QED  BY <1>2, <1>4 DEF SDoms, Dominates

(* The chains are the closed form of module Flow. *)
LEMMA ChainsAreClosedForm ==
    ASSUME IInv, pc \in {"frontiers", "done"}
    PROVE  \A b \in Blocks : Chain(b) = IdomChain(g, entry, b)
<1>1. /\ Live \subseteq Blocks /\ idom \in [Blocks -> Blocks \cup {NoBlock}] /\ processed = Live
      /\ WInv /\ DomInv /\ pc # "search"
  BY AfterSearch, Settled DEF IInv, Ordered
<1>2. ASSUME NEW b \in Live PROVE Chain(b) = {b} \cup SDoms(g, entry, b)
  <2>1. SDoms(g, entry, b) \subseteq Chain(b)
    BY <1>1, ChainsHoldDominators
  <2>2. \A a \in Chain(b) : a # b => a \in SDoms(g, entry, b)
    BY ChainsDominate
  <2>3. b \in Chain(b)
    BY <1>1, ChainFacts
  <2>. QED  BY <2>1, <2>2, <2>3
<1>3. ASSUME NEW b \in Blocks \ Live PROVE Chain(b) = {b}
  BY <1>1, TreeChains
<1>. QED  BY <1>2, <1>3 DEF IdomChain, Live

LEMMA IdomIsDominator ==
    ASSUME IInv, pc = "done"
    PROVE  TreeIsDominance
<1>1. /\ processed = Live /\ WInv /\ DomInv /\ pc # "search" /\ Live \subseteq Blocks
      /\ idom \in [Blocks -> Blocks \cup {NoBlock}]
      /\ \A b \in processed \ {entry} : idom[b] \in processed
  BY AfterSearch, Settled DEF IInv, Ordered
<1>2. ASSUME NEW b \in Live \ {entry}
      PROVE  /\ idom[b] \in SDoms(g, entry, b)
             /\ SDoms(g, entry, b) \ {idom[b]} \subseteq SDoms(g, entry, idom[b])
  <2>1. Chain(b) = {b} \cup Chain(idom[b]) /\ b \notin Chain(idom[b])
    BY <1>1, TreeChains
  <2>2. idom[b] \in Chain(idom[b])
    BY <1>1, ChainFacts
  <2>3. idom[b] \in SDoms(g, entry, b)
    BY <2>1, <2>2, ChainsDominate
  <2>. QED  BY <2>3, <1>1 DEF DomInv, InTree
<1>3. \A b \in Blocks \ (Live \ {entry}) : idom[b] = NoBlock
  BY <1>1 DEF DomInv, InTree
<1>. QED  BY <1>2, <1>3 DEF TreeIsDominance, Live

(* The finished tree names the immediate dominator of every block a path   *)
(* reaches but the entry, and of no other.                                 *)
THEOREM TreeNamesDominators == Spec => []TreeIsDominance
<1>1. IInv => TreeIsDominance
  BY IdomIsDominator DEF TreeIsDominance
<1>. QED  BY <1>1, IInvHolds, PTL

(* The runner of the frontiers visits what is in the chain of the          *)
(* predecessor and not strictly above the join, also when the walk does    *)
(* not meet the join's dominator.                                          *)
LEMMA RunnersVisit ==
    ASSUME IInv, pc = "done", NEW b \in Blocks, NEW p \in Preds(g, b)
    PROVE  Runners(p, b) = IdomChain(g, entry, p) \ (IdomChain(g, entry, b) \ {b})
<1>1. /\ processed = Live /\ WInv /\ DomInv /\ pc # "search" /\ Live \subseteq Blocks
      /\ idom \in [Blocks -> Blocks \cup {NoBlock}] /\ p \in Blocks
      /\ g \in Graphs /\ entry \in Blocks /\ entry \in Live
  BY AfterSearch, Settled DEF IInv, Ordered, Preds
<1>2. Chain(p) = IdomChain(g, entry, p) /\ Chain(b) = IdomChain(g, entry, b)
  BY <1>1, ChainsAreClosedForm
<1>3. Chain(p) \subseteq Blocks
  BY <1>1, ChainFacts
<1>4. CASE b \in Live \ {entry}
  <2>1. Chain(b) = {b} \cup Chain(idom[b]) /\ b \notin Chain(idom[b])
    BY <1>1, <1>4, TreeChains
  <2>2. CASE p \in Live
    <3>1. idom[b] \in Chain(p)
      BY <1>4, <2>2, Settled
    <3>. QED  BY <1>2, <2>1, <3>1 DEF Runners
  <2>3. CASE p \notin Live
    <3>1. Chain(p) = {p}
      BY <1>1, <2>3, TreeChains
    <3>2. idom[b] \in Live /\ Chain(idom[b]) \subseteq Live
      BY <1>1, <1>4, AfterSearch, TreeChains
    <3>. QED  BY <1>2, <2>1, <2>3, <3>1, <3>2 DEF Runners
  <2>. QED  BY <2>2, <2>3
<1>5. CASE b \notin Live \ {entry}
  <2>1. idom[b] = NoBlock /\ Chain(b) = {b}
    BY <1>1, <1>5, TreeChains DEF DomInv, InTree
  <2>2. Runners(p, b) = Chain(p)
    BY <2>1, <1>3, NoBlockIsNone DEF Runners
  <2>. QED  BY <1>2, <2>1, <2>2
<1>. QED  BY <1>4, <1>5

LEMMA FrontiersAreClosedForm ==
    ASSUME IInv, pc = "done", NEW a \in Blocks
    PROVE  frontiers[a] = JoinFrontier(g, entry, a)
<1>1. frontiers[a] =
        {b \in Blocks : IsJoin(g, b) /\ \E p \in Preds(g, b) : a \in Runners(p, b)}
  BY DEF IInv, Rest
<1>2. \A b \in Blocks : \A p \in Preds(g, b) :
          a \in Runners(p, b) <=> a \in IdomChain(g, entry, p) \ (IdomChain(g, entry, b) \ {b})
  BY RunnersVisit
<1>. QED  BY <1>1, <1>2 DEF JoinFrontier

(* What the later passes read has the closed form by which the modules Ssa *)
(* and DeadCode know it.                                                   *)
THEOREM ClosedFormReached == Spec => []ClosedForm
<1>1. IInv => ClosedForm
  BY ChainsAreClosedForm, FrontiersAreClosedForm DEF ClosedForm
<1>. QED  BY <1>1, IInvHolds, PTL

(* At every join but the entry the runner finds Cytron's frontier.         *)
THEOREM FrontiersAreCytron == Spec => []JoinFrontiersAreCytron
<1>1. IInv => JoinFrontiersAreCytron
  <2>. SUFFICES ASSUME IInv, pc = "done", NEW a \in Reachable(g, entry)
                PROVE  frontiers[a] \ {entry} = Cytron(g, entry, a) \ {entry}
    BY DEF JoinFrontiersAreCytron
  <2>1. g \in Graphs /\ entry \in Blocks /\ a \in Blocks
    BY AfterSearch DEF IInv, Live, Ordered
  <2>. QED  BY <2>1, FrontiersAreClosedForm, JoinFrontierIsCytron
<1>. QED  BY <1>1, IInvHolds, PTL
=============================================================================
