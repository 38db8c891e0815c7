---------------------------- MODULE Smt2_proofs ----------------------------
(***************************************************************************)
(* Proofs about the tree of Smt2, for keys of any number of bits and any   *)
(* map of leaves: the witness of a map leads the guest to the root of the  *)
(* map with the key written, and no other witness leads it elsewhere.      *)
(*                                                                         *)
(* The argument.  A hash is a node over two children in one way only.  So  *)
(* a witness that folds to the root of a map has the siblings of the map,  *)
(* level by level from the root, and ends where the path of the map ends:  *)
(* there is one such witness, but for the kind.  Along its path the map    *)
(* that is written has the same siblings, or one end of the path is        *)
(* longer, or shorter, by the levels that the step adds, or leaves out.    *)
(***************************************************************************)
EXTENDS Smt2, WellFoundedInduction, TLAPS

-----------------------------------------------------------------------------
(* Induction over numbers, without an operator for the hypothesis. *)

LEMMA LeastNumber ==
    ASSUME NEW S, S \subseteq Nat, S # {}
    PROVE  \E n \in S : \A e \in S : n <= e
<1>1. IsWellFoundedOn(OpToRel(<, Nat), Nat)
  BY NatLessThanWellFounded
<1>2. PICK n \in S : \A e \in S : <<e, n>> \notin OpToRel(<, Nat)
  BY <1>1, WFMin
<1>3. ASSUME NEW e \in S PROVE n <= e
  <2>1. ~(e < n)
    BY <1>2 DEF OpToRel
  <2> QED BY <2>1
<1> QED BY <1>3

LEMMA UpTo ==
    ASSUME NEW N \in Nat, NEW Good, 0 \in Good,
           \A n \in 0..N : n \in Good /\ n # N => n + 1 \in Good
    PROVE  \A n \in 0..N : n \in Good
<1> DEFINE Bad == {n \in 0..N : n \notin Good}
<1> SUFFICES ASSUME Bad # {} PROVE FALSE
  OBVIOUS
<1>1. PICK n \in Bad : \A e \in Bad : n <= e
  <2>1. Bad \subseteq Nat
    OBVIOUS
  <2> HIDE DEF Bad
  <2> QED BY <2>1, LeastNumber
<1>2. n \in 0..N /\ n \notin Good /\ n # 0
  BY <1>1
<1>3. n - 1 \in 0..N /\ n - 1 # N /\ ~(n <= n - 1)
  BY <1>2
<1>4. n - 1 \in Good
  BY <1>1, <1>3
<1> QED BY <1>2, <1>3, <1>4

-----------------------------------------------------------------------------
(* Hashes. *)

LEMMA LeavesDiffer ==
    ASSUME NEW k, NEW v, NEW j, NEW u, Leaf(k, v) = Leaf(j, u)
    PROVE  k = j /\ v = u
BY DEF Leaf

LEMMA NodesDiffer ==
    ASSUME NEW a, NEW b, NEW c, NEW d, Node(a, b) = Node(c, d)
    PROVE  a = c /\ b = d
BY DEF Node

LEMMA KindsDiffer ==
    ASSUME NEW k, NEW v, NEW l, NEW r
    PROVE  /\ Leaf(k, v) # EMPTY /\ Node(l, r) # EMPTY /\ Leaf(k, v) # Node(l, r)
           /\ Leaf(k, v)[1] = "leaf" /\ Node(l, r)[1] = "node"
           /\ KeyOf(Leaf(k, v)) = k /\ ValueOf(Leaf(k, v)) = v
BY DEF Leaf, Node, EMPTY, KeyOf, ValueOf

IsNode(h) == \E l, r : h = Node(l, r)
IsLeaf(h) == \E k, v : h = Leaf(k, v)

LEMMA OverIsNode == ASSUME NEW b, NEW c, NEW s PROVE IsNode(Over(b, c, s))
BY DEF Over, IsNode

LEMMA OversDiffer ==
    ASSUME NEW b, NEW c, NEW s, NEW d, NEW t, Over(b, c, s) = Over(b, d, t)
    PROVE  c = d /\ s = t
BY NodesDiffer DEF Over

LEMMA NodeIsNoLeaf ==
    ASSUME NEW h, IsNode(h)
    PROVE  h # EMPTY /\ ~IsLeaf(h) /\ h[1] = "node"
BY KindsDiffer DEF IsNode, IsLeaf

-----------------------------------------------------------------------------
(* The recursive functions have the values that they are defined to have.  *)

\* The roots with n bits below them, from those with one bit less.
LevelOf(m, below, n) ==
    [keys \in SUBSET DOMAIN m |->
       IF n = 0 \/ Lone(keys) THEN LoneRoot(m, keys)
       ELSE LET right == {k \in keys : KeyBit(k, Depth - n) = 1}
            IN  Node(below[keys \ right], below[right])]

IsRoots(m, N, g) == g = [n \in 0..N |-> LevelOf(m, g[n - 1], n)]

LEMMA LevelZero == ASSUME NEW m, NEW a, NEW b PROVE LevelOf(m, a, 0) = LevelOf(m, b, 0)
BY DEF LevelOf

LEMMA RootsExist == ASSUME NEW m, NEW N \in Nat PROVE \E g : IsRoots(m, N, g)
<1> DEFINE Good == {n \in 0..N : \E g : IsRoots(m, n, g)}
<1>1. 0 \in Good
  <2> DEFINE g == [n \in 0..0 |-> LevelOf(m, EMPTY, n)]
  <2>1. g = [n \in 0..0 |-> LevelOf(m, g[n - 1], n)]
    BY LevelZero
  <2> QED BY <2>1 DEF IsRoots
<1>2. ASSUME NEW n \in 0..N, n \in Good, n # N PROVE n + 1 \in Good
  <2>1. PICK g : IsRoots(m, n, g)
    BY <1>2
  <2> DEFINE h == [i \in 0..(n + 1) |-> IF i <= n THEN g[i] ELSE LevelOf(m, g[n], n + 1)]
  <2>2. ASSUME NEW i \in 0..(n + 1) PROVE h[i] = LevelOf(m, h[i - 1], i)
    <3>1. CASE i = 0
      BY <2>1, <3>1, LevelZero DEF IsRoots
    <3>2. CASE i # 0 /\ i <= n
      <4>1. i \in 0..n /\ i - 1 \in 0..(n + 1) /\ i - 1 <= n
        BY <3>2
      <4>2. h[i - 1] = g[i - 1] /\ h[i] = g[i]
        BY <4>1
      <4>3. g[i] = LevelOf(m, g[i - 1], i)
        BY <2>1, <4>1 DEF IsRoots
      <4> QED BY <4>2, <4>3
    <3>3. CASE i = n + 1
      <4>1. n \in 0..(n + 1) /\ i - 1 = n /\ ~(i <= n)
        BY <3>3
      <4>2. h[n] = g[n] /\ h[i] = LevelOf(m, g[n], n + 1)
        BY <4>1
      <4> QED BY <3>3, <4>1, <4>2
    <3> QED BY <3>1, <3>2, <3>3
  <2>3. h = [i \in 0..(n + 1) |-> LevelOf(m, h[i - 1], i)]
    <3>1. h = [i \in 0..(n + 1) |-> h[i]]
      OBVIOUS
    <3> HIDE DEF h
    <3> QED BY <2>2, <3>1
  <2>4. IsRoots(m, n + 1, h)
    BY <2>3 DEF IsRoots
  <2> HIDE DEF h
  <2> QED BY <1>2, <2>4
<1>3. N \in Good
  <2> HIDE DEF Good
  <2> QED BY <1>1, <1>2, UpTo
<1> QED BY <1>3

LEMMA RootsIs == ASSUME NEW m PROVE IsRoots(m, Depth, Roots(m))
<1>1. Roots(m) = CHOOSE g : IsRoots(m, Depth, g)
  BY DEF Roots, IsRoots, LevelOf
<1> QED BY <1>1, RootsExist, TreeAssumption

\* A subtree of one leaf at most, and one of more.
LEMMA RootOfLone ==
    ASSUME NEW m, NEW K \in SUBSET DOMAIN m, Lone(K), NEW d \in 0..Depth
    PROVE  SubtreeRoot(m, K, d) = LoneRoot(m, K)
<1>1. Depth - d \in 0..Depth
  BY TreeAssumption
<1>2. Roots(m)[Depth - d] = LevelOf(m, Roots(m)[Depth - d - 1], Depth - d)
  BY <1>1, RootsIs DEF IsRoots
<1> QED BY <1>2 DEF SubtreeRoot, LevelOf

LEMMA RootOfMany ==
    ASSUME NEW m, NEW K \in SUBSET DOMAIN m, ~Lone(K), NEW d \in 0..(Depth - 1),
           NEW R, R = {k \in K : KeyBit(k, d) = 1}
    PROVE  SubtreeRoot(m, K, d) = Node(SubtreeRoot(m, K \ R, d + 1), SubtreeRoot(m, R, d + 1))
<1>1. /\ Depth - d \in 0..Depth /\ Depth - d # 0
      /\ Depth - d - 1 = Depth - (d + 1) /\ Depth - (Depth - d) = d
  BY TreeAssumption
<1>2. Roots(m)[Depth - d] = LevelOf(m, Roots(m)[Depth - (d + 1)], Depth - d)
  BY <1>1, RootsIs DEF IsRoots
<1>3. LevelOf(m, Roots(m)[Depth - (d + 1)], Depth - d)[K]
         = Node(Roots(m)[Depth - (d + 1)][K \ R], Roots(m)[Depth - (d + 1)][R])
  BY <1>1 DEF LevelOf
<1> QED BY <1>2, <1>3 DEF SubtreeRoot

\* A subtree does not depend on the leaves beside it.
LEMMA RootsAgree ==
    ASSUME NEW m, NEW p, NEW K, K \subseteq DOMAIN m, K \subseteq DOMAIN p,
           \A k \in K : m[k] = p[k], NEW d \in 0..Depth
    PROVE  SubtreeRoot(m, K, d) = SubtreeRoot(p, K, d)
<1> DEFINE Good == {n \in 0..Depth : \A T \in SUBSET K :
                      SubtreeRoot(m, T, Depth - n) = SubtreeRoot(p, T, Depth - n)}
<1>1. ASSUME NEW T \in SUBSET K, NEW e \in 0..Depth, Lone(T)
      PROVE  SubtreeRoot(m, T, e) = SubtreeRoot(p, T, e)
  <2>1. LoneRoot(m, T) = LoneRoot(p, T)
    BY DEF LoneRoot
  <2>2. T \in SUBSET DOMAIN m /\ T \in SUBSET DOMAIN p
    OBVIOUS
  <2> QED BY <1>1, <2>1, <2>2, RootOfLone
<1>2. 0 \in Good
  <2>1. ASSUME NEW T \in SUBSET K
        PROVE  SubtreeRoot(m, T, Depth) = SubtreeRoot(p, T, Depth)
    <3>1. Roots(m)[0] = LevelOf(m, Roots(m)[0 - 1], 0) /\ Roots(p)[0] = LevelOf(p, Roots(p)[0 - 1], 0)
      BY RootsIs, TreeAssumption DEF IsRoots
    <3>2. LoneRoot(m, T) = LoneRoot(p, T)
      BY DEF LoneRoot
    <3>3. Roots(m)[0][T] = LoneRoot(m, T) /\ Roots(p)[0][T] = LoneRoot(p, T)
      BY <3>1 DEF LevelOf
    <3>4. Depth - Depth = 0
      BY TreeAssumption
    <3> QED BY <3>2, <3>3, <3>4 DEF SubtreeRoot
  <2>2. 0 \in 0..Depth /\ Depth - 0 = Depth
    BY TreeAssumption
  <2> QED BY <2>1, <2>2
<1>3. ASSUME NEW n \in 0..Depth, n \in Good, n # Depth PROVE n + 1 \in Good
  <2>1. /\ n + 1 \in 0..Depth /\ Depth - (n + 1) \in 0..(Depth - 1)
        /\ Depth - (n + 1) + 1 = Depth - n /\ Depth - (n + 1) \in 0..Depth
    BY <1>3, TreeAssumption
  <2>2. ASSUME NEW T \in SUBSET K, ~Lone(T)
        PROVE  SubtreeRoot(m, T, Depth - (n + 1)) = SubtreeRoot(p, T, Depth - (n + 1))
    <3> DEFINE e == Depth - (n + 1)
               R == {k \in T : KeyBit(k, e) = 1}
    <3>1. e \in 0..(Depth - 1) /\ e + 1 = Depth - n
      BY <2>1
    <3>2. T \in SUBSET DOMAIN m /\ T \in SUBSET DOMAIN p /\ R \in SUBSET K /\ T \ R \in SUBSET K
      OBVIOUS
    <3>3. /\ SubtreeRoot(m, T \ R, e + 1) = SubtreeRoot(p, T \ R, e + 1)
          /\ SubtreeRoot(m, R, e + 1) = SubtreeRoot(p, R, e + 1)
      BY <1>3, <3>1, <3>2
    <3> HIDE DEF e
    <3>4. /\ SubtreeRoot(m, T, e) = Node(SubtreeRoot(m, T \ R, e + 1), SubtreeRoot(m, R, e + 1))
          /\ SubtreeRoot(p, T, e) = Node(SubtreeRoot(p, T \ R, e + 1), SubtreeRoot(p, R, e + 1))
      BY <2>2, <3>1, <3>2, RootOfMany
    <3> QED BY <3>3, <3>4 DEF e
  <2>3. \A T \in SUBSET K :
           SubtreeRoot(m, T, Depth - (n + 1)) = SubtreeRoot(p, T, Depth - (n + 1))
    BY <1>1, <2>1, <2>2
  <2> QED BY <2>1, <2>3
<1>4. \A n \in 0..Depth : n \in Good
  <2> HIDE DEF Good
  <2> QED BY <1>2, <1>3, UpTo, TreeAssumption
<1>5. Depth - d \in 0..Depth /\ Depth - (Depth - d) = d
  BY TreeAssumption
<1> QED BY <1>4, <1>5

-----------------------------------------------------------------------------
(* The path of a key: what is under each level of it, and what beside. *)

SubAt(m, key, d) == SubtreeRoot(m, Under(m, key, d), d)
SiblingAt(m, key, d) == SubtreeRoot(m, Beside(m, key, d), d + 1)

LEMMA UnderTop == ASSUME NEW m, NEW key PROVE Under(m, key, 0) = DOMAIN m
BY DEF Under

LEMMA UnderNext ==
    ASSUME NEW m, NEW key, NEW d \in Nat
    PROVE  Under(m, key, d + 1) = {k \in Under(m, key, d) : KeyBit(k, d) = KeyBit(key, d)}
BY DEF Under

LEMMA UnderShrinks ==
    ASSUME NEW m, NEW key, NEW d \in Nat, NEW e \in 0..d
    PROVE  Under(m, key, d) \subseteq Under(m, key, e)
BY DEF Under

LEMMA BesideIs ==
    ASSUME NEW m, NEW key, NEW d \in Nat
    PROVE  /\ Beside(m, key, d) = {k \in Under(m, key, d) : KeyBit(k, d) # KeyBit(key, d)}
           /\ Under(m, key, d) = Under(m, key, d + 1) \cup Beside(m, key, d)
           /\ Under(m, key, d + 1) \cap Beside(m, key, d) = {}
BY UnderNext DEF Beside

LEMMA UnderBottom ==
    ASSUME NEW m, DOMAIN m \subseteq Key, NEW key \in Key, NEW d \in 0..Depth,
           ~Lone(Under(m, key, d))
    PROVE  d \in 0..(Depth - 1)
<1>1. SUFFICES ASSUME d = Depth PROVE Lone(Under(m, key, d))
  BY TreeAssumption
<1>2. Under(m, key, d) \subseteq {key}
  BY <1>1, TreeAssumption DEF Under
<1> QED BY <1>2 DEF Lone

\* The root at a level of the path is a node over the next one and the sibling.
LEMMA PathStep ==
    ASSUME NEW m, DOMAIN m \subseteq Key, NEW key \in Key, NEW d \in 0..(Depth - 1),
           ~Lone(Under(m, key, d))
    PROVE  SubAt(m, key, d) = Over(KeyBit(key, d), SubAt(m, key, d + 1), SiblingAt(m, key, d))
<1> DEFINE U == Under(m, key, d)
           R == {k \in U : KeyBit(k, d) = 1}
<1>1. U \in SUBSET DOMAIN m
  BY DEF Under
<1>2. SubAt(m, key, d) = Node(SubtreeRoot(m, U \ R, d + 1), SubtreeRoot(m, R, d + 1))
  <2>1. ~Lone(U)
    OBVIOUS
  <2> HIDE DEF U
  <2>2. SubtreeRoot(m, U, d) = Node(SubtreeRoot(m, U \ R, d + 1), SubtreeRoot(m, R, d + 1))
    BY <1>1, <2>1, RootOfMany
  <2> QED BY <2>2 DEF SubAt, U
<1>3. \A k \in U : KeyBit(k, d) \in {0, 1}
  BY <1>1, TreeAssumption
<1>4. KeyBit(key, d) \in {0, 1}
  BY TreeAssumption
<1>5. /\ Under(m, key, d + 1) = {k \in U : KeyBit(k, d) = KeyBit(key, d)}
      /\ Beside(m, key, d) = {k \in U : KeyBit(k, d) # KeyBit(key, d)}
  BY UnderNext, BesideIs
<1> HIDE DEF U
<1>6. CASE KeyBit(key, d) = 1
  <2>1. Under(m, key, d + 1) = R /\ Beside(m, key, d) = U \ R
    BY <1>5, <1>6
  <2> QED BY <1>2, <1>6, <2>1 DEF SubAt, SiblingAt, Over
<1>7. CASE KeyBit(key, d) = 0
  <2>1. Under(m, key, d + 1) = U \ R /\ Beside(m, key, d) = R
    BY <1>3, <1>5, <1>7
  <2> QED BY <1>2, <1>7, <2>1 DEF SubAt, SiblingAt, Over
<1> QED BY <1>4, <1>6, <1>7

\* The root of keys which share d bits is a node if, and only if, it is of many.
LEMMA ManyIsNode ==
    ASSUME NEW m, DOMAIN m \subseteq Key, NEW K \in SUBSET DOMAIN m, NEW d \in 0..Depth,
           \A j, k \in K : \A b \in 0..(d - 1) : KeyBit(j, b) = KeyBit(k, b), ~Lone(K)
    PROVE  IsNode(SubtreeRoot(m, K, d))
<1>1. d # Depth
  <2>1. SUFFICES ASSUME d = Depth PROVE Lone(K)
    OBVIOUS
  <2> QED BY <2>1, TreeAssumption DEF Lone
<1>2. d \in 0..(Depth - 1)
  BY <1>1, TreeAssumption
<1> DEFINE R == {k \in K : KeyBit(k, d) = 1}
<1>3. SubtreeRoot(m, K, d) = Node(SubtreeRoot(m, K \ R, d + 1), SubtreeRoot(m, R, d + 1))
  BY <1>2, RootOfMany
<1> QED BY <1>3 DEF IsNode

LEMMA LoneIsNoNode ==
    ASSUME NEW m, NEW K \in SUBSET DOMAIN m, NEW d \in 0..Depth, Lone(K)
    PROVE  \A k \in K : K = {k} /\ SubtreeRoot(m, K, d) = Leaf(k, m[k])
<1>1. SubtreeRoot(m, K, d) = LoneRoot(m, K)
  BY RootOfLone
<1>2. ASSUME NEW k \in K PROVE K = {k} /\ LoneRoot(m, K) = Leaf(k, m[k])
  <2>1. \A j \in K : j = k
    BY DEF Lone
  <2> QED BY <2>1 DEF LoneRoot
<1> QED BY <1>1, <1>2 DEF LoneRoot

\* Keys beside the path share the bit that they part with it at.
LEMMA BesideBits ==
    ASSUME NEW m, DOMAIN m \subseteq Key, NEW key \in Key, NEW d \in 0..(Depth - 1),
           NEW j \in Beside(m, key, d), NEW k \in Beside(m, key, d), NEW b \in 0..(d + 1 - 1)
    PROVE  KeyBit(j, b) = KeyBit(k, b)
<1>1. d \in Nat
  BY TreeAssumption
<1>2. /\ j \in Under(m, key, d) /\ KeyBit(j, d) # KeyBit(key, d)
      /\ k \in Under(m, key, d) /\ KeyBit(k, d) # KeyBit(key, d)
  BY <1>1, BesideIs
<1>3. CASE b = d
  <2>1. j \in Key /\ k \in Key
    BY <1>2 DEF Under
  <2>2. KeyBit(j, d) \in {0, 1} /\ KeyBit(k, d) \in {0, 1} /\ KeyBit(key, d) \in {0, 1}
    BY <2>1, TreeAssumption
  <2> QED BY <1>2, <1>3, <2>2
<1>4. CASE b \in 0..(d - 1)
  BY <1>2, <1>4 DEF Under
<1>5. b = d \/ b \in 0..(d - 1)
  BY <1>1
<1> QED BY <1>3, <1>4, <1>5

LEMMA NoneIsEmpty ==
    ASSUME NEW m, NEW d \in 0..Depth
    PROVE  SubtreeRoot(m, {}, d) = EMPTY
<1>1. {} \in SUBSET DOMAIN m /\ Lone({})
  BY DEF Lone
<1>2. SubtreeRoot(m, {}, d) = LoneRoot(m, {})
  BY <1>1, RootOfLone
<1> QED BY <1>2 DEF LoneRoot

LEMMA UnderIsLone ==
    ASSUME NEW m, DOMAIN m \subseteq Key, NEW key \in Key, NEW d \in 0..Depth,
           ~IsNode(SubAt(m, key, d))
    PROVE  Lone(Under(m, key, d))
<1>1. SUFFICES ASSUME ~Lone(Under(m, key, d)) PROVE FALSE
  OBVIOUS
<1>2. Under(m, key, d) \in SUBSET DOMAIN m
  BY DEF Under
<1>3. \A j, k \in Under(m, key, d) : \A b \in 0..(d - 1) : KeyBit(j, b) = KeyBit(k, b)
  BY DEF Under
<1> QED BY <1>1, <1>2, <1>3, ManyIsNode DEF SubAt

\* A path is n levels long if there it ends, and not before.
EndsAt(m, key, n) ==
    /\ n \in 0..Depth
    /\ Lone(Under(m, key, n))
    /\ \A e \in 0..(n - 1) : ~Lone(Under(m, key, e))

LEMMA PathEnds ==
    ASSUME NEW m, DOMAIN m \subseteq Key, NEW key \in Key
    PROVE  EndsAt(m, key, PathDepth(m, key))
<1> DEFINE S == {d \in 0..Depth : Lone(Under(m, key, d))}
<1>1. Depth \in S
  BY UnderBottom, TreeAssumption
<1>2. PICK n \in S : \A e \in S : n <= e
  <2>1. S \subseteq Nat /\ S # {}
    BY <1>1
  <2> HIDE DEF S
  <2> QED BY <2>1, LeastNumber
<1>3. ASSUME NEW e \in 0..(n - 1) PROVE ~Lone(Under(m, key, e))
  <2>1. e \in 0..Depth /\ ~(n <= e)
    BY TreeAssumption
  <2> QED BY <1>2, <2>1
<1> QED BY <1>2, <1>3 DEF PathDepth, EndsAt

LEMMA PathEndsOnce ==
    ASSUME NEW m, NEW key, NEW n, EndsAt(m, key, n), NEW d, EndsAt(m, key, d)
    PROVE  n = d
<1>1. ~(n < d) /\ ~(d < n)
  BY TreeAssumption DEF EndsAt
<1> QED BY <1>1, TreeAssumption DEF EndsAt

-----------------------------------------------------------------------------
(* Folds. *)

IsFold(key, siblings, start, i, cur) ==
    \A j \in 0..Len(siblings) :
       cur[j] = IF j < i THEN start
                ELSE Over(KeyBit(key, Len(siblings) - j), cur[j - 1], siblings[j])

FoldTable(key, siblings, start, i, N, cur) ==
    cur = [j \in 0..N |-> IF j < i THEN start
                          ELSE Over(KeyBit(key, Len(siblings) - j), cur[j - 1], siblings[j])]

LEMMA FoldExists ==
    ASSUME NEW key, NEW s, NEW start, NEW i \in Nat, i # 0, NEW N \in Nat
    PROVE  \E cur : FoldTable(key, s, start, i, N, cur)
<1> DEFINE Good == {n \in 0..N : \E cur : FoldTable(key, s, start, i, n, cur)}
           F(cur, j) == IF j < i THEN start
                        ELSE Over(KeyBit(key, Len(s) - j), cur[j - 1], s[j])
<1>1. 0 \in Good
  <2> DEFINE g == [j \in 0..0 |-> start]
  <2>1. g = [j \in 0..0 |-> F(g, j)]
    OBVIOUS
  <2> QED BY <2>1 DEF FoldTable
<1>2. ASSUME NEW n \in 0..N, n \in Good, n # N PROVE n + 1 \in Good
  <2>1. PICK g : FoldTable(key, s, start, i, n, g)
    BY <1>2
  <2>2. \A j \in 0..n : g[j] = F(g, j)
    BY <2>1 DEF FoldTable
  <2> DEFINE h == [j \in 0..(n + 1) |-> IF j <= n THEN g[j] ELSE F(g, n + 1)]
  <2>3. ASSUME NEW j \in 0..(n + 1) PROVE h[j] = F(h, j)
    <3>1. CASE j = 0
      BY <2>2, <3>1
    <3>2. CASE j # 0 /\ j <= n
      <4>1. j \in 0..n /\ j - 1 \in 0..(n + 1) /\ j - 1 <= n
        BY <3>2
      <4>2. h[j - 1] = g[j - 1] /\ h[j] = g[j]
        BY <4>1
      <4> HIDE DEF h
      <4> QED BY <2>2, <4>1, <4>2
    <3>3. CASE j = n + 1
      <4>1. n \in 0..(n + 1) /\ j - 1 = n /\ ~(j <= n)
        BY <3>3
      <4>2. h[n] = g[n] /\ h[j] = F(g, n + 1)
        BY <4>1
      <4> HIDE DEF h
      <4> QED BY <3>3, <4>1, <4>2
    <3> QED BY <3>1, <3>2, <3>3
  <2>4. h = [j \in 0..(n + 1) |-> F(h, j)]
    <3>1. h = [j \in 0..(n + 1) |-> h[j]]
      OBVIOUS
    <3> HIDE DEF h, F
    <3> QED BY <2>3, <3>1
  <2>5. FoldTable(key, s, start, i, n + 1, h)
    BY <2>4 DEF FoldTable
  <2> HIDE DEF h
  <2> QED BY <1>2, <2>5
<1>3. N \in Good
  <2> HIDE DEF Good
  <2> QED BY <1>1, <1>2, UpTo
<1> QED BY <1>3

LEMMA FoldUpIs ==
    ASSUME NEW key, NEW s, Len(s) \in Nat, NEW start, NEW i \in Nat, i # 0
    PROVE  \E cur : IsFold(key, s, start, i, cur) /\ FoldUp(key, s, start, i) = cur[Len(s)]
<1> DEFINE cur == CHOOSE g : FoldTable(key, s, start, i, Len(s), g)
<1>1. FoldTable(key, s, start, i, Len(s), cur)
  BY FoldExists
<1>2. FoldUp(key, s, start, i) = cur[Len(s)]
  BY DEF FoldUp, FoldTable
<1> HIDE DEF cur
<1>3. IsFold(key, s, start, i, cur)
  BY <1>1 DEF FoldTable, IsFold
<1> QED BY <1>2, <1>3

\* The siblings from the i-th up are those of m.
SiblingsFrom(m, key, s, i) ==
    \A j \in i..Len(s) :
       /\ ~Lone(Under(m, key, Len(s) - j))
       /\ s[j] = SiblingAt(m, key, Len(s) - j)

\* From a root on the path of m, and through the siblings of m, to the root.
LEMMA Climb ==
    ASSUME NEW m, DOMAIN m \subseteq Key, NEW key \in Key, NEW s, Len(s) \in 0..Depth,
           NEW i \in 1..(Len(s) + 1), SiblingsFrom(m, key, s, i),
           NEW start, start = SubAt(m, key, Len(s) - i + 1)
    PROVE  FoldUp(key, s, start, i) = Root(m)
<1> DEFINE n == Len(s)
<1>1. n \in Nat /\ i \in Nat /\ i # 0
  BY TreeAssumption
<1>2. PICK cur : IsFold(key, s, start, i, cur) /\ FoldUp(key, s, start, i) = cur[n]
  BY <1>1, FoldUpIs
<1> DEFINE Good == {j \in 0..n : j >= i - 1 => cur[j] = SubAt(m, key, n - j)}
<1>3. 0 \in Good
  <2>1. SUFFICES ASSUME 0 >= i - 1 PROVE cur[0] = SubAt(m, key, n - 0)
    BY <1>1
  <2>2. i = 1 /\ 0 \in 0..n /\ 0 < i /\ n - 0 = n - i + 1
    BY <1>1, <2>1
  <2>3. cur[0] = start
    BY <1>2, <2>2 DEF IsFold
  <2> QED BY <2>2, <2>3
<1>4. ASSUME NEW j \in 0..n, j \in Good, j # n PROVE j + 1 \in Good
  <2>1. j + 1 \in 0..n /\ j + 1 - 1 = j /\ n - (j + 1) + 1 = n - j /\ n - (j + 1) \in 0..(Depth - 1)
    BY <1>1, <1>4, TreeAssumption
  <2>2. CASE j + 1 >= i
    <3>1. j >= i - 1 /\ ~(j + 1 < i) /\ j + 1 \in i..n
      BY <1>1, <2>1, <2>2
    <3>2. cur[j + 1] = Over(KeyBit(key, n - (j + 1)), cur[j], s[j + 1])
      BY <1>2, <2>1, <3>1 DEF IsFold
    <3>3. ~Lone(Under(m, key, n - (j + 1))) /\ s[j + 1] = SiblingAt(m, key, n - (j + 1))
      BY <3>1 DEF SiblingsFrom
    <3>4. cur[j] = SubAt(m, key, n - (j + 1) + 1)
      BY <1>4, <2>1, <3>1
    <3>5. cur[j + 1] = SubAt(m, key, n - (j + 1))
      BY <2>1, <3>2, <3>3, <3>4, PathStep
    <3> QED BY <2>1, <3>5
  <2>3. CASE j + 1 = i - 1
    <3>1. cur[j + 1] = start
      BY <1>1, <1>2, <2>1, <2>3 DEF IsFold
    <3>2. n - (j + 1) = n - i + 1
      BY <1>1, <2>3
    <3> QED BY <2>1, <3>1, <3>2
  <2>4. CASE ~(j + 1 >= i - 1)
    BY <2>1, <2>4
  <2>5. j + 1 >= i \/ j + 1 = i - 1 \/ ~(j + 1 >= i - 1)
    BY <1>1
  <2> QED BY <2>2, <2>3, <2>4, <2>5
<1>5. n \in Good
  <2>1. n \in 0..n
    BY <1>1
  <2> HIDE DEF Good
  <2> QED BY <1>1, <1>3, <1>4, <2>1, UpTo
<1>6. n >= i - 1 /\ n - n = 0
  BY <1>1
<1>7. cur[n] = SubAt(m, key, 0)
  BY <1>5, <1>6
<1> QED BY <1>2, <1>7, UnderTop DEF SubAt, Root

\* What folds to the root of m has the siblings of m, and starts on its path.
LEMMA Descend ==
    ASSUME NEW m, DOMAIN m \subseteq Key, NEW key \in Key, NEW s, Len(s) \in 0..Depth,
           NEW start, FoldUp(key, s, start, 1) = Root(m)
    PROVE  SiblingsFrom(m, key, s, 1) /\ start = SubAt(m, key, Len(s))
<1> DEFINE n == Len(s)
<1>1. n \in Nat
  BY TreeAssumption
<1>2. PICK cur : IsFold(key, s, start, 1, cur) /\ FoldUp(key, s, start, 1) = cur[n]
  BY <1>1, FoldUpIs
<1> DEFINE Fits(d) == ~Lone(Under(m, key, d)) /\ s[n - d] = SiblingAt(m, key, d)
           Good == {e \in 0..n : cur[n - e] = SubAt(m, key, e) /\ \A d \in 0..(e - 1) : Fits(d)}
<1>3. 0 \in Good
  <2>1. cur[n] = SubAt(m, key, 0)
    BY <1>2, UnderTop DEF SubAt, Root
  <2>2. n - 0 = n /\ 0 \in 0..n /\ 0..(0 - 1) = {}
    BY <1>1
  <2> QED BY <2>1, <2>2
<1>4. ASSUME NEW e \in 0..n, e \in Good, e # n PROVE e + 1 \in Good
  <2>1. /\ e + 1 \in 0..n /\ n - e \in 0..n /\ ~(n - e < 1) /\ n - e - 1 = n - (e + 1)
        /\ n - (n - e) = e /\ e \in 0..Depth /\ e \in 0..(Depth - 1)
    BY <1>1, <1>4, TreeAssumption
  <2>2. cur[n - e] = Over(KeyBit(key, e), cur[n - (e + 1)], s[n - e])
    <3>1. cur[n - e] = Over(KeyBit(key, n - (n - e)), cur[n - e - 1], s[n - e])
      BY <1>2, <2>1 DEF IsFold
    <3> QED BY <2>1, <3>1
  <2>3. cur[n - e] = SubAt(m, key, e)
    BY <1>4
  <2>4. ~Lone(Under(m, key, e))
    <3>1. SUFFICES ASSUME Lone(Under(m, key, e)) PROVE FALSE
      OBVIOUS
    <3>2. IsNode(SubtreeRoot(m, Under(m, key, e), e))
      BY <2>2, <2>3, OverIsNode DEF SubAt
    <3>3. Under(m, key, e) \in SUBSET DOMAIN m
      BY DEF Under
    <3>4. \/ SubtreeRoot(m, Under(m, key, e), e) = EMPTY
          \/ \E k : SubtreeRoot(m, Under(m, key, e), e) = Leaf(k, m[k])
      <4>1. CASE Under(m, key, e) = {}
        BY <2>1, <4>1, NoneIsEmpty
      <4>2. CASE Under(m, key, e) # {}
        <5>1. PICK k \in Under(m, key, e) : TRUE
          BY <4>2
        <5>2. SubtreeRoot(m, Under(m, key, e), e) = Leaf(k, m[k])
          BY <2>1, <3>1, <3>3, LoneIsNoNode
        <5> QED BY <5>2
      <4> QED BY <4>1, <4>2
    <3> QED BY <3>2, <3>4, NodeIsNoLeaf DEF IsLeaf
  <2>5. SubAt(m, key, e) = Over(KeyBit(key, e), SubAt(m, key, e + 1), SiblingAt(m, key, e))
    BY <2>1, <2>4, PathStep
  <2>6. cur[n - (e + 1)] = SubAt(m, key, e + 1) /\ s[n - e] = SiblingAt(m, key, e)
    <3>1. Over(KeyBit(key, e), cur[n - (e + 1)], s[n - e])
             = Over(KeyBit(key, e), SubAt(m, key, e + 1), SiblingAt(m, key, e))
      BY <2>2, <2>3, <2>5
    <3> QED BY <3>1, OversDiffer
  <2>7. ASSUME NEW d \in 0..(e + 1 - 1) PROVE Fits(d)
    <3>1. d = e \/ d \in 0..(e - 1)
      BY <1>1
    <3>2. CASE d = e
      BY <2>4, <2>6, <3>2
    <3>3. CASE d \in 0..(e - 1)
      BY <1>4, <3>3
    <3> QED BY <3>1, <3>2, <3>3
  <2> HIDE DEF Fits
  <2> QED BY <2>1, <2>6, <2>7
<1>5. n \in Good
  <2>1. n \in 0..n
    BY <1>1
  <2> HIDE DEF Good
  <2> QED BY <1>1, <1>3, <1>4, <2>1, UpTo
<1>6. start = SubAt(m, key, n)
  <2>1. n - n = 0 /\ 0 \in 0..n /\ 0 < 1
    BY <1>1
  <2>2. cur[0] = start
    BY <1>2, <2>1 DEF IsFold
  <2> QED BY <1>5, <2>1, <2>2
<1>7. ASSUME NEW j \in 1..n
      PROVE  ~Lone(Under(m, key, n - j)) /\ s[j] = SiblingAt(m, key, n - j)
  <2>1. n - j \in 0..(n - 1) /\ n - (n - j) = j
    BY <1>1
  <2>2. Fits(n - j)
    BY <1>5, <2>1
  <2> QED BY <2>1, <2>2
<1> QED BY <1>6, <1>7 DEF SiblingsFrom

-----------------------------------------------------------------------------
(* One witness of a key is true, but for its kind. *)

\* The leaves of m are present.
IsMap(m) == DOMAIN m \subseteq Key /\ \A k \in DOMAIN m : m[k] # Absent

\* The siblings and the end of the path are those of m.
TrueOf(m, w) ==
    /\ w.key \in Key
    /\ EndsAt(m, w.key, Len(w.siblings))
    /\ SiblingsFrom(m, w.key, w.siblings, 1)
    /\ w.terminal = SubAt(m, w.key, Len(w.siblings))

LEMMA LenIs ==
    ASSUME NEW n \in Nat, NEW S, NEW s \in [1..n -> S]
    PROVE  Len(s) = n
<1>1. s \in Seq(S)
  OBVIOUS
<1> QED BY <1>1

LEMMA KeyIsUnder ==
    ASSUME NEW m, NEW key, NEW d
    PROVE  key \in Under(m, key, d) <=> key \in DOMAIN m
BY DEF Under

LEMMA WitnessIsTrue ==
    ASSUME NEW m, IsMap(m), NEW key \in Key
    PROVE  LET w == Witness(m, key)
           IN  w.key = key /\ TrueOf(m, w) /\ Proves(Root(m), w, At(m, key))
<1>0. DOMAIN m \subseteq Key
  BY DEF IsMap
<1> DEFINE w == Witness(m, key)
           n == PathDepth(m, key)
           s == [i \in 1..n |-> SubtreeRoot(m, Beside(m, key, n - i), n - i + 1)]
           U == Under(m, key, n)
<1>1. w.key = key /\ w.siblings = s /\ w.terminal = LoneRoot(m, U)
  BY DEF Witness, Siblings, Terminal
<1>2. EndsAt(m, key, n)
  BY <1>0, PathEnds
<1>3. n \in Nat /\ n \in 0..Depth
  BY <1>2, TreeAssumption DEF EndsAt
<1> HIDE DEF w, n
<1>4. Len(s) = n
  <2>1. s \in [1..n -> {s[i] : i \in 1..n}]
    OBVIOUS
  <2> HIDE DEF s
  <2> QED BY <1>3, <2>1, LenIs
<1>5. SiblingsFrom(m, key, s, 1)
  <2>1. ASSUME NEW j \in 1..n PROVE ~Lone(Under(m, key, n - j))
    <3>1. n - j \in 0..(n - 1)
      BY <1>3
    <3> QED BY <1>2, <3>1 DEF EndsAt
  <2>2. \A j \in 1..n : s[j] = SiblingAt(m, key, n - j)
    BY DEF SiblingAt
  <2> HIDE DEF s
  <2> QED BY <1>4, <2>1, <2>2 DEF SiblingsFrom
<1> HIDE DEF s
<1>6. U \in SUBSET DOMAIN m /\ Lone(U)
  BY <1>2 DEF Under, EndsAt
<1>7. w.terminal = SubAt(m, key, n)
  BY <1>1, <1>3, <1>6, RootOfLone DEF SubAt
<1>8. TrueOf(m, w)
  BY <1>1, <1>2, <1>4, <1>5, <1>7 DEF TrueOf
<1>9. FoldUp(key, s, w.terminal, 1) = Root(m)
  <2>1. 1 \in 1..(Len(s) + 1) /\ Len(s) - 1 + 1 = Len(s)
    BY <1>3, <1>4
  <2> QED BY <1>0, <1>3, <1>4, <1>5, <1>7, <2>1, Climb
<1>10. IF At(m, key) = Absent THEN w.terminal = EMPTY \/ OnPath(w)
       ELSE w.terminal = Leaf(key, At(m, key))
  <2>1. CASE key \in DOMAIN m
    <3>1. key \in U
      BY <2>1, KeyIsUnder
    <3>2. w.terminal = Leaf(key, m[key])
      BY <1>3, <1>6, <1>7, <3>1, LoneIsNoNode DEF SubAt
    <3> QED BY <2>1, <3>2 DEF At, IsMap
  <2>2. CASE key \notin DOMAIN m /\ U = {}
    <3>1. w.terminal = EMPTY
      BY <1>1, <2>2 DEF LoneRoot
    <3> QED BY <2>2, <3>1 DEF At
  <2>3. CASE key \notin DOMAIN m /\ U # {}
    <3>1. PICK k \in U : TRUE
      BY <2>3
    <3>2. w.terminal = Leaf(k, m[k])
      BY <1>3, <1>6, <1>7, LoneIsNoNode DEF SubAt
    <3>3. k # key /\ \A b \in 0..(n - 1) : KeyBit(k, b) = KeyBit(key, b)
      BY <2>3, <3>1 DEF Under
    <3>4. OnPath(w)
      BY <1>1, <1>4, <3>2, <3>3, KindsDiffer DEF OnPath
    <3> QED BY <2>3, <3>4 DEF At
  <2> QED BY <2>1, <2>2, <2>3
<1> QED BY <1>1, <1>3, <1>4, <1>8, <1>9, <1>10 DEF Proves, w

LEMMA ProvesOnlyTruth ==
    ASSUME NEW m, IsMap(m), NEW w, WellFormed(w), NEW old, Proves(Root(m), w, old)
    PROVE  TrueOf(m, w) /\ old = At(m, w.key)
<1> DEFINE key == w.key
           n == Len(w.siblings)
           U == Under(m, key, n)
<1>1. DOMAIN m \subseteq Key /\ key \in Key /\ n \in 0..Depth
  BY TreeAssumption DEF IsMap, WellFormed, Proves
<1>2. SiblingsFrom(m, key, w.siblings, 1) /\ w.terminal = SubAt(m, key, n)
  BY <1>1, Descend DEF Proves
<1>3. Lone(U)
  <2>1. ~IsNode(w.terminal)
    BY NodeIsNoLeaf DEF WellFormed, IsLeaf
  <2> QED BY <1>1, <1>2, <2>1, UnderIsLone
<1>4. EndsAt(m, key, n)
  <2>1. ASSUME NEW e \in 0..(n - 1) PROVE ~Lone(Under(m, key, e))
    <3>1. n - e \in 1..n /\ n - (n - e) = e
      BY <1>1, TreeAssumption
    <3> QED BY <1>2, <3>1 DEF SiblingsFrom
  <2> QED BY <1>1, <1>3, <2>1 DEF EndsAt
<1>5. TrueOf(m, w)
  BY <1>1, <1>2, <1>4 DEF TrueOf
<1>6. U \in SUBSET DOMAIN m
  BY DEF Under
<1>7. CASE U = {}
  <2>1. w.terminal = EMPTY
    BY <1>1, <1>2, <1>7, NoneIsEmpty DEF SubAt
  <2>2. old = Absent
    BY <2>1, KindsDiffer DEF Proves
  <2>3. key \notin DOMAIN m
    BY <1>7, KeyIsUnder
  <2> QED BY <1>5, <2>2, <2>3 DEF At
<1>8. CASE U # {}
  <2>1. PICK k \in U : TRUE
    BY <1>8
  <2>2. U = {k} /\ w.terminal = Leaf(k, m[k])
    BY <1>1, <1>2, <1>3, <1>6, LoneIsNoNode DEF SubAt
  <2>3. CASE old = Absent
    <3>1. OnPath(w)
      BY <2>2, <2>3, KindsDiffer DEF Proves
    <3>2. k # key
      BY <2>2, <3>1, KindsDiffer DEF OnPath
    <3>3. key \notin DOMAIN m
      BY <2>2, <3>2, KeyIsUnder
    <3> QED BY <1>5, <2>3, <3>3 DEF At
  <2>4. CASE old # Absent
    <3>1. Leaf(k, m[k]) = Leaf(key, old)
      BY <2>2, <2>4 DEF Proves
    <3>2. k = key /\ m[k] = old
      BY <3>1, LeavesDiffer
    <3> QED BY <1>5, <1>6, <2>1, <3>2 DEF At
  <2> QED BY <2>3, <2>4
<1> QED BY <1>7, <1>8

-----------------------------------------------------------------------------
(* The map that is written, along the path of its key. *)

LEMMA PutUnder ==
    ASSUME NEW m, IsMap(m), NEW key \in Key, NEW new, NEW p, p = Put(m, key, new)
    PROVE  /\ IsMap(p)
           /\ new # Absent => key \in DOMAIN p /\ p[key] = new
           /\ \A d \in Nat : Under(p, key, d) = IF new = Absent THEN Under(m, key, d) \ {key}
                                                ELSE Under(m, key, d) \cup {key}
           /\ \A d \in Nat : Beside(p, key, d) = Beside(m, key, d)
           /\ \A d \in 0..(Depth - 1) : SiblingAt(p, key, d) = SiblingAt(m, key, d)
<1> DEFINE D == IF new = Absent THEN DOMAIN m \ {key} ELSE DOMAIN m \cup {key}
<1>1. DOMAIN p = D /\ \A j \in D : p[j] = IF j = key THEN new ELSE m[j]
  BY DEF Put
<1>2. IsMap(p)
  BY <1>1 DEF IsMap
<1>3. ASSUME NEW d \in Nat
      PROVE  Under(p, key, d) = IF new = Absent THEN Under(m, key, d) \ {key}
                                ELSE Under(m, key, d) \cup {key}
  BY <1>1 DEF Under
<1>4. ASSUME NEW d \in Nat PROVE Beside(p, key, d) = Beside(m, key, d)
  <2>1. d + 1 \in Nat /\ (key \in Under(m, key, d) => key \in Under(m, key, d + 1))
    BY KeyIsUnder
  <2>2. /\ Under(p, key, d) \ Under(p, key, d + 1) = Under(m, key, d) \ Under(m, key, d + 1)
    <3>1. CASE new = Absent
      BY <1>3, <2>1, <3>1
    <3>2. CASE new # Absent
      <4>1. /\ Under(p, key, d) = Under(m, key, d) \cup {key}
            /\ Under(p, key, d + 1) = Under(m, key, d + 1) \cup {key}
        BY <1>3, <2>1, <3>2
      <4> QED BY <2>1, <4>1
    <3> QED BY <3>1, <3>2
  <2> QED BY <2>2 DEF Beside
<1>5. ASSUME NEW d \in 0..(Depth - 1) PROVE SiblingAt(p, key, d) = SiblingAt(m, key, d)
  <2>1. d \in Nat /\ d + 1 \in 0..Depth
    BY TreeAssumption
  <2> DEFINE K == Beside(m, key, d)
  <2>2. K \subseteq DOMAIN m /\ key \notin K
    BY KeyIsUnder DEF Beside, Under
  <2>3. K \subseteq DOMAIN p /\ \A k \in K : m[k] = p[k]
    BY <1>1, <2>2
  <2>4. Beside(p, key, d) = K
    BY <1>4, <2>1
  <2> HIDE DEF K
  <2>5. SubtreeRoot(m, K, d + 1) = SubtreeRoot(p, K, d + 1)
    BY <2>1, <2>2, <2>3, RootsAgree
  <2> QED BY <2>4, <2>5 DEF SiblingAt, K
<1>6. new # Absent => key \in DOMAIN p /\ p[key] = new
  BY <1>1
<1> QED BY <1>2, <1>3, <1>4, <1>5, <1>6

\* A leaf is written where the path ends with it, or with nothing.
LEMMA WriteAtEnd ==
    ASSUME NEW m, IsMap(m), NEW w, TrueOf(m, w), NEW new, new # Absent,
           Under(m, w.key, Len(w.siblings)) \subseteq {w.key}
    PROVE  FoldUp(w.key, w.siblings, Leaf(w.key, new), 1) = Root(Put(m, w.key, new))
<1> DEFINE key == w.key
           s == w.siblings
           n == Len(s)
           p == Put(m, key, new)
<1>1. key \in Key /\ n \in 0..Depth /\ n \in Nat /\ SiblingsFrom(m, key, s, 1)
  BY TreeAssumption DEF TrueOf, EndsAt
<1>2. p = Put(m, key, new)
  OBVIOUS
<1> HIDE DEF p, s, key
<1>3. /\ IsMap(p) /\ key \in DOMAIN p /\ p[key] = new
      /\ \A d \in Nat : Under(p, key, d) = Under(m, key, d) \cup {key}
      /\ \A d \in 0..(Depth - 1) : SiblingAt(p, key, d) = SiblingAt(m, key, d)
  BY <1>1, <1>2, PutUnder
<1>4. SubAt(p, key, n) = Leaf(key, new)
  <2>1. Under(p, key, n) = {key}
    BY <1>1, <1>3 DEF key, s
  <2>2. {key} \in SUBSET DOMAIN p /\ Lone({key}) /\ key \in {key}
    BY <1>3 DEF Lone
  <2>3. SubtreeRoot(p, {key}, n) = Leaf(key, p[key])
    BY <1>1, <2>2, LoneIsNoNode
  <2> QED BY <1>3, <2>1, <2>3 DEF SubAt
<1>5. SiblingsFrom(p, key, s, 1)
  <2>1. ASSUME NEW j \in 1..n
        PROVE  ~Lone(Under(p, key, n - j)) /\ s[j] = SiblingAt(p, key, n - j)
    <3>1. n - j \in Nat /\ n - j \in 0..(Depth - 1)
      BY <1>1, TreeAssumption
    <3>2. ~Lone(Under(m, key, n - j)) /\ s[j] = SiblingAt(m, key, n - j)
      BY <1>1 DEF SiblingsFrom
    <3>3. Under(p, key, n - j) = Under(m, key, n - j) \cup {key}
      BY <1>3, <3>1
    <3> QED BY <1>3, <3>1, <3>2, <3>3 DEF Lone
  <2> QED BY <2>1 DEF SiblingsFrom
<1>6. 1 \in 1..(n + 1) /\ n - 1 + 1 = n
  BY <1>1
<1>7. FoldUp(key, s, Leaf(key, new), 1) = Root(p)
  BY <1>1, <1>3, <1>4, <1>5, <1>6, Climb DEF IsMap
<1> QED BY <1>7 DEF p, s, key

\* Two keys fork at the first bit in which they differ.
LEMMA ForkIs ==
    ASSUME NEW j \in Key, NEW k \in Key, j # k
    PROVE  /\ Fork(j, k) \in 0..(Depth - 1)
           /\ KeyBit(j, Fork(j, k)) # KeyBit(k, Fork(j, k))
           /\ \A e \in 0..(Fork(j, k) - 1) : KeyBit(j, e) = KeyBit(k, e)
<1> DEFINE S == {d \in 0..(Depth - 1) : KeyBit(j, d) # KeyBit(k, d)}
<1>1. PICK n \in S : \A e \in S : n <= e
  <2>1. S \subseteq Nat /\ S # {}
    BY TreeAssumption
  <2> HIDE DEF S
  <2> QED BY <2>1, LeastNumber
<1>2. ASSUME NEW e \in 0..(n - 1) PROVE KeyBit(j, e) = KeyBit(k, e)
  <2>1. e \in 0..(Depth - 1) /\ ~(n <= e)
    BY TreeAssumption
  <2> QED BY <1>1, <2>1
<1> QED BY <1>1, <1>2 DEF Fork

LEMMA SplitIs ==
    ASSUME NEW w, NEW f, f = Fork(w.key, KeyOf(w.terminal)), f \in Nat, Len(w.siblings) \in Nat
    PROVE  SplitSiblings(w) =
             [i \in 1..(f + 1) |-> IF i = 1 THEN w.terminal
                                   ELSE IF i <= f + 1 - Len(w.siblings) THEN EMPTY
                                   ELSE w.siblings[i - (f + 1 - Len(w.siblings))]]
BY DEF SplitSiblings

\* A leaf is written next to another one, at the fork of their keys.
LEMMA WriteAtFork ==
    ASSUME NEW m, IsMap(m), NEW w, TrueOf(m, w), NEW new, new # Absent,
           NEW o, o # w.key, Under(m, w.key, Len(w.siblings)) = {o},
           w.terminal = Leaf(o, m[o])
    PROVE  FoldUp(w.key, SplitSiblings(w), Leaf(w.key, new), 1) = Root(Put(m, w.key, new))
<1> DEFINE key == w.key
           s == w.siblings
           n == Len(s)
           p == Put(m, key, new)
           f == Fork(key, KeyOf(w.terminal))
           t == SplitSiblings(w)
           U(d) == Under(m, key, d)
<1>1. key \in Key /\ n \in 0..Depth /\ n \in Nat /\ SiblingsFrom(m, key, s, 1)
  BY TreeAssumption DEF TrueOf, EndsAt
<1>2. o \in DOMAIN m /\ o \in Key /\ DOMAIN m \subseteq Key
  <2>1. {o} \subseteq DOMAIN m
    BY DEF Under
  <2> QED BY <2>1 DEF IsMap
<1>3. /\ f \in 0..(Depth - 1) /\ KeyBit(key, f) # KeyBit(o, f)
      /\ \A e \in 0..(f - 1) : KeyBit(key, e) = KeyBit(o, e)
  <2>1. KeyOf(w.terminal) = o
    BY KindsDiffer
  <2> HIDE DEF f
  <2>2. f = Fork(key, o)
    BY <2>1 DEF f
  <2> QED BY <1>1, <1>2, <2>2, ForkIs
<1>4. t = [i \in 1..(f + 1) |-> IF i = 1 THEN w.terminal
                                ELSE IF i <= f + 1 - n THEN EMPTY
                                ELSE s[i - (f + 1 - n)]]
  <2>1. f \in Nat
    <3> HIDE DEF f
    <3> QED BY <1>3, TreeAssumption
  <2> QED BY <1>1, <2>1, SplitIs
<1>5. p = Put(m, key, new)
  OBVIOUS
<1>u. U(n) = {o}
  OBVIOUS
<1>k. key # o
  OBVIOUS
<1> HIDE DEF p, f, t, s, key
<1>6. f \in Nat /\ f + 1 \in Nat /\ f + 1 \in 0..Depth
  BY <1>3, TreeAssumption
<1>7. Len(t) = f + 1
  <2>1. t \in [1..(f + 1) -> {t[i] : i \in 1..(f + 1)}]
    BY <1>4
  <2> QED BY <1>6, <2>1, LenIs
<1>8. n <= f
  <2>1. SUFFICES ASSUME f < n PROVE FALSE
    BY <1>1, <1>6
  <2>2. f \in 0..(n - 1)
    BY <1>1, <1>6, <2>1
  <2>3. KeyBit(o, f) = KeyBit(key, f)
    BY <1>u, <2>2 DEF Under
  <2> QED BY <1>3, <2>3
<1>9. ASSUME NEW d \in n..f PROVE U(d) = {o}
  <2>1. U(d) \subseteq {o}
    BY <1>1, <1>6, <1>u, UnderShrinks
  <2>2. o \in U(d)
    BY <1>1, <1>2, <1>3, <1>6 DEF Under
  <2> QED BY <2>1, <2>2
<1>10. o \notin U(f + 1) /\ U(f + 1) \subseteq U(f)
  <2>1. U(f + 1) = {k \in U(f) : KeyBit(k, f) = KeyBit(key, f)}
    BY <1>6, UnderNext
  <2> QED BY <1>3, <2>1
<1>11. Beside(m, key, f) = {o} /\ U(f + 1) = {}
  <2>1. U(f) = {o}
    BY <1>1, <1>6, <1>8, <1>9
  <2> QED BY <1>10, <2>1 DEF Beside
<1>12. /\ IsMap(p) /\ DOMAIN p \subseteq Key /\ key \in DOMAIN p /\ p[key] = new
       /\ \A d \in Nat : Under(p, key, d) = U(d) \cup {key}
       /\ \A d \in 0..(Depth - 1) : SiblingAt(p, key, d) = SiblingAt(m, key, d)
  BY <1>1, <1>5, PutUnder DEF IsMap
<1>13. SubAt(p, key, f + 1) = Leaf(key, new)
  <2>1. Under(p, key, f + 1) = {key}
    BY <1>6, <1>11, <1>12
  <2>2. {key} \in SUBSET DOMAIN p /\ Lone({key}) /\ key \in {key}
    BY <1>12 DEF Lone
  <2>3. SubtreeRoot(p, {key}, f + 1) = Leaf(key, p[key])
    BY <1>6, <2>2, LoneIsNoNode
  <2> QED BY <1>12, <2>1, <2>3 DEF SubAt
<1>14. ASSUME NEW j \in 1..(f + 1)
       PROVE  ~Lone(Under(p, key, f + 1 - j)) /\ t[j] = SiblingAt(m, key, f + 1 - j)
  <2> DEFINE d == f + 1 - j
  <2>1. d \in Nat /\ d \in 0..f /\ d \in 0..(Depth - 1) /\ d + 1 \in 0..Depth
    BY <1>3, <1>6, TreeAssumption
  <2>2. Under(p, key, d) = U(d) \cup {key}
    BY <1>12, <2>1
  <2>3. CASE j = 1
    <3>1. d = f /\ d \in n..f
      BY <1>1, <1>6, <1>8, <2>3
    <3>2. U(d) = {o}
      BY <1>9, <3>1
    <3>3. t[j] = Leaf(o, m[o])
      BY <1>4, <2>3
    <3>4. {o} \in SUBSET DOMAIN m /\ Lone({o}) /\ o \in {o}
      BY <1>2 DEF Lone
    <3>5. SubtreeRoot(m, {o}, f + 1) = Leaf(o, m[o])
      BY <1>6, <3>4, LoneIsNoNode
    <3>6. SiblingAt(m, key, d) = Leaf(o, m[o])
      BY <1>11, <3>1, <3>5 DEF SiblingAt
    <3>7. ~Lone(Under(p, key, d))
      BY <1>k, <2>2, <3>2 DEF Lone
    <3> QED BY <3>3, <3>6, <3>7
  <2>4. CASE j # 1 /\ j <= f + 1 - n
    <3>1. d \in n..f /\ d + 1 \in n..f
      BY <1>1, <1>6, <2>1, <2>4
    <3>2. U(d) = {o} /\ U(d + 1) = {o}
      BY <1>9, <3>1
    <3>3. t[j] = EMPTY
      BY <1>4, <2>4
    <3>4. Beside(m, key, d) = {}
      BY <3>2 DEF Beside
    <3>5. SiblingAt(m, key, d) = EMPTY
      BY <2>1, <3>4, NoneIsEmpty DEF SiblingAt
    <3>6. ~Lone(Under(p, key, d))
      BY <1>k, <2>2, <3>2 DEF Lone
    <3> QED BY <3>3, <3>5, <3>6
  <2>5. CASE j # 1 /\ ~(j <= f + 1 - n)
    <3> DEFINE i == j - (f + 1 - n)
    <3>1. i \in 1..n /\ n - i = d
      BY <1>1, <1>6, <1>8, <2>5
    <3>2. t[j] = s[i]
      BY <1>4, <2>5
    <3>3. ~Lone(U(d)) /\ s[i] = SiblingAt(m, key, d)
      BY <1>1, <3>1 DEF SiblingsFrom
    <3>4. ~Lone(Under(p, key, d))
      BY <2>2, <3>3 DEF Lone
    <3> QED BY <3>2, <3>3, <3>4
  <2> QED BY <2>3, <2>4, <2>5
<1>15. SiblingsFrom(p, key, t, 1)
  <2>1. ASSUME NEW j \in 1..Len(t)
        PROVE  ~Lone(Under(p, key, Len(t) - j)) /\ t[j] = SiblingAt(p, key, Len(t) - j)
    <3>1. j \in 1..(f + 1) /\ f + 1 - j \in 0..(Depth - 1) /\ Len(t) - j = f + 1 - j
      BY <1>3, <1>6, <1>7, TreeAssumption
    <3> QED BY <1>12, <1>14, <3>1
  <2> QED BY <2>1 DEF SiblingsFrom
<1>16. 1 \in 1..(Len(t) + 1) /\ Len(t) - 1 + 1 = f + 1 /\ Len(t) \in 0..Depth
  BY <1>6, <1>7
<1>17. FoldUp(key, t, Leaf(key, new), 1) = Root(p)
  BY <1>1, <1>12, <1>13, <1>15, <1>16, Climb
<1> QED BY <1>17 DEF p, t, key

\* A leaf is removed.  The first sibling is that of the last level; a lone leaf
\* rises to the next level that has another one, many stay where they are.
LEMMA NonEmptyLeast ==
    ASSUME NEW s, Len(s) \in Nat, NEW from \in Nat, NonEmpty(s, from) # {}
    PROVE  LET i == LeastOf(NonEmpty(s, from))
           IN  i \in from..Len(s) /\ s[i] # EMPTY /\ \A j \in from..(i - 1) : s[j] = EMPTY
<1> DEFINE S == NonEmpty(s, from)
<1>1. S \subseteq Nat /\ S # {}
  BY DEF NonEmpty
<1>2. \E n \in S : \A e \in S : n <= e
  <2> HIDE DEF S
  <2> QED BY <1>1, LeastNumber
<1>3. LeastOf(S) \in S /\ \A e \in S : LeastOf(S) <= e
  <2> HIDE DEF S
  <2> QED BY <1>2 DEF LeastOf
<1> DEFINE i == LeastOf(S)
<1>4. i \in from..Len(s) /\ s[i] # EMPTY
  BY <1>3 DEF NonEmpty
<1> HIDE DEF i
<1>5. ASSUME NEW j \in from..(i - 1) PROVE s[j] = EMPTY
  <2>1. j \in from..Len(s) /\ ~(i <= j)
    BY <1>4
  <2>2. j \notin S
    BY <1>3, <2>1 DEF i
  <2> QED BY <2>1, <2>2 DEF NonEmpty
<1> QED BY <1>4, <1>5 DEF i

\* Where the siblings are empty, what is under two levels is the same.
LEMMA EmptySibling ==
    ASSUME NEW m, DOMAIN m \subseteq Key, NEW key \in Key, NEW d \in 0..(Depth - 1),
           SiblingAt(m, key, d) = EMPTY
    PROVE  Beside(m, key, d) = {}
<1> DEFINE K == Beside(m, key, d)
<1>1. d \in Nat /\ d + 1 \in 0..Depth /\ K \in SUBSET DOMAIN m
  BY TreeAssumption DEF Beside, Under
<1>2. SubtreeRoot(m, K, d + 1) = EMPTY
  BY DEF SiblingAt
<1>3. \A j, k \in K : \A b \in 0..(d + 1 - 1) : KeyBit(j, b) = KeyBit(k, b)
  BY BesideBits
<1> HIDE DEF K
<1>4. Lone(K)
  BY <1>1, <1>2, <1>3, ManyIsNode, NodeIsNoLeaf
<1>5. SUFFICES ASSUME NEW k \in K PROVE FALSE
  BY DEF K
<1>6. SubtreeRoot(m, K, d + 1) = Leaf(k, m[k])
  BY <1>1, <1>4, LoneIsNoNode
<1> QED BY <1>2, <1>6, KindsDiffer

LEMMA NothingBeside ==
    ASSUME NEW m, NEW key, NEW b \in Nat, NEW e \in 0..b,
           \A d \in e..(b - 1) : Beside(m, key, d) = {}
    PROVE  Under(m, key, e) = Under(m, key, b)
<1> DEFINE Good == {i \in 0..(b - e) : Under(m, key, b - i) = Under(m, key, b)}
<1>1. 0 \in Good
  OBVIOUS
<1>2. ASSUME NEW i \in 0..(b - e), i \in Good, i # b - e PROVE i + 1 \in Good
  <2>1. /\ b - (i + 1) \in e..(b - 1) /\ b - (i + 1) \in Nat /\ b - (i + 1) + 1 = b - i
        /\ i + 1 \in 0..(b - e)
    BY <1>2
  <2>2. Under(m, key, b - (i + 1)) = Under(m, key, b - i)
    <3>1. Under(m, key, b - (i + 1))
             = Under(m, key, b - (i + 1) + 1) \cup Beside(m, key, b - (i + 1))
      BY <2>1, BesideIs
    <3> QED BY <2>1, <3>1
  <2> QED BY <1>2, <2>1, <2>2
<1>3. b - e \in Good
  <2>1. b - e \in Nat /\ b - e \in 0..(b - e)
    OBVIOUS
  <2> HIDE DEF Good
  <2> QED BY <1>1, <1>2, <2>1, UpTo
<1>4. b - (b - e) = e
  OBVIOUS
<1> QED BY <1>3, <1>4

LEMMA FirstSibling ==
    ASSUME NEW m, IsMap(m), NEW key \in Key, NEW s, EndsAt(m, key, Len(s)),
           SiblingsFrom(m, key, s, 1), Under(m, key, Len(s)) = {key}
    PROVE  /\ Len(s) = 0 => NonEmpty(s, 1) = {}
           /\ Len(s) # 0 => /\ NonEmpty(s, 1) # {} /\ LeastOf(NonEmpty(s, 1)) = 1
                            /\ s[1] = SiblingAt(m, key, Len(s) - 1)
                            /\ Beside(m, key, Len(s) - 1) # {}
<1>1. CASE Len(s) = 0
  BY <1>1 DEF NonEmpty
<1>2. CASE Len(s) # 0
  <2>1. /\ Len(s) \in Nat /\ 1 \in 1..Len(s) /\ Len(s) - 1 \in 0..(Depth - 1)
        /\ Len(s) - 1 \in Nat /\ Len(s) - 1 + 1 = Len(s)
    BY <1>2, TreeAssumption DEF EndsAt
  <2>2. ~Lone(Under(m, key, Len(s) - 1)) /\ s[1] = SiblingAt(m, key, Len(s) - 1)
    BY <2>1 DEF SiblingsFrom
  <2>3. Under(m, key, Len(s) - 1) = {key} \cup Beside(m, key, Len(s) - 1)
    <3>1. Under(m, key, Len(s) - 1)
             = Under(m, key, Len(s) - 1 + 1) \cup Beside(m, key, Len(s) - 1)
      BY <2>1, BesideIs
    <3> QED BY <2>1, <3>1
  <2>4. Beside(m, key, Len(s) - 1) # {}
    BY <2>2, <2>3 DEF Lone
  <2>5. s[1] # EMPTY
    BY <2>1, <2>2, <2>4, EmptySibling DEF IsMap
  <2>6. 1 \in NonEmpty(s, 1) /\ \A j \in NonEmpty(s, 1) : 1 <= j
    BY <2>1, <2>5 DEF NonEmpty
  <2>7. \A i \in NonEmpty(s, 1) : (\A j \in NonEmpty(s, 1) : i <= j) => i = 1
    BY <2>1, <2>6 DEF NonEmpty
  <2>8. LeastOf(NonEmpty(s, 1)) = 1
    BY <2>6, <2>7 DEF LeastOf
  <2> QED BY <1>2, <2>2, <2>4, <2>6, <2>8
<1> QED BY <1>1, <1>2

LEMMA RemoveAtEnd ==
    ASSUME NEW m, IsMap(m), NEW w, TrueOf(m, w), Under(m, w.key, Len(w.siblings)) = {w.key}
    PROVE  /\ Len(w.siblings) = 0 \/ w.kind = w.siblings[1]
                 => Delete(w) = Root(Put(m, w.key, Absent))
           /\ Delete(w) \in {Panic, Root(Put(m, w.key, Absent))}
<1> DEFINE key == w.key
           s == w.siblings
           n == Len(s)
           p == Put(m, key, Absent)
           b == n - 1
           K == Beside(m, key, b)
<1>1. /\ key \in Key /\ n \in 0..Depth /\ n \in Nat /\ SiblingsFrom(m, key, s, 1)
      /\ EndsAt(m, key, n) /\ DOMAIN m \subseteq Key
  BY TreeAssumption DEF TrueOf, EndsAt, IsMap
<1>2. p = Put(m, key, Absent) /\ Under(m, key, n) = {key}
  OBVIOUS
<1>3. /\ IsMap(p) /\ DOMAIN p \subseteq Key
      /\ \A d \in Nat : Under(p, key, d) = Under(m, key, d) \ {key}
      /\ \A d \in 0..(Depth - 1) : SiblingAt(p, key, d) = SiblingAt(m, key, d)
  <2> HIDE DEF p, key
  <2> QED BY <1>1, <1>2, PutUnder DEF IsMap
<1>4. /\ n = 0 => NonEmpty(s, 1) = {}
      /\ n # 0 => /\ NonEmpty(s, 1) # {} /\ LeastOf(NonEmpty(s, 1)) = 1
                  /\ s[1] = SiblingAt(m, key, b) /\ K # {}
  <2> HIDE DEF s, key
  <2> QED BY <1>1, <1>2, FirstSibling
<1>5. CASE n = 0
  <2>1. Delete(w) = EMPTY
    BY <1>4, <1>5 DEF Delete
  <2>2. DOMAIN p = {}
    BY <1>2, <1>3, <1>5, UnderTop
  <2>3. Root(p) = EMPTY
    BY <2>2, NoneIsEmpty, TreeAssumption DEF Root
  <2> QED BY <2>1, <2>3
<1>6. CASE n # 0 /\ w.kind # s[1]
  <2>1. Delete(w) = Panic
    BY <1>4, <1>6 DEF Delete
  <2> QED BY <1>6, <2>1
<1>7. CASE n # 0 /\ w.kind = s[1]
  <2>1. /\ b \in Nat /\ b \in 0..(Depth - 1) /\ b + 1 = n /\ b \in 0..n
        /\ 1 \in 1..(n + 1) /\ n - 1 + 1 = n /\ n - n = 0
    BY <1>1, <1>7, TreeAssumption
  <2>2. s[1] = SubtreeRoot(m, K, n) /\ K # {} /\ K \in SUBSET DOMAIN m
    BY <1>4, <1>7, <2>1 DEF SiblingAt, Beside, Under
  <2>3. Under(m, key, b) = {key} \cup K /\ key \notin K
    <3>1. Under(m, key, b) = Under(m, key, b + 1) \cup K /\ Under(m, key, b + 1) \cap K = {}
      BY <2>1, BesideIs
    <3> QED BY <1>2, <2>1, <3>1
  <2>4. CASE ~Lone(K)
    <3>1. IsNode(s[1])
      <4>1. \A j, k \in K : \A i \in 0..(b + 1 - 1) : KeyBit(j, i) = KeyBit(k, i)
        <5> HIDE DEF b, key, s
        <5> QED BY <1>1, <2>1, BesideBits
      <4> HIDE DEF K, s
      <4> QED BY <1>1, <2>1, <2>2, <2>4, <4>1, ManyIsNode
    <3>2. Delete(w) = FoldUp(key, s, EMPTY, 1)
      <4>1. w.kind[1] = "node"
        BY <1>7, <3>1, NodeIsNoLeaf
      <4> QED BY <1>4, <1>7, <4>1 DEF Delete
    <3>3. EMPTY = SubAt(p, key, n - 1 + 1)
      <4>1. Under(p, key, n) = {}
        BY <1>1, <1>2, <1>3
      <4> HIDE DEF n, p
      <4> QED BY <1>1, <2>1, <4>1, NoneIsEmpty DEF SubAt
    <3>4. ASSUME NEW j \in 1..n
          PROVE  ~Lone(Under(p, key, n - j)) /\ s[j] = SiblingAt(p, key, n - j)
      <4>1. n - j \in 0..b /\ n - j \in Nat /\ n - j \in 0..(Depth - 1)
        BY <1>1, TreeAssumption
      <4>2. s[j] = SiblingAt(m, key, n - j)
        BY <1>1 DEF SiblingsFrom
      <4>3. K \subseteq Under(m, key, n - j)
        BY <2>1, <2>3, <4>1, UnderShrinks
      <4>4. K \subseteq Under(p, key, n - j)
        BY <1>3, <2>3, <4>1, <4>3
      <4> HIDE DEF K, p, s
      <4> QED BY <1>3, <2>4, <4>1, <4>2, <4>4 DEF Lone
    <3>5. SiblingsFrom(p, key, s, 1)
      BY <3>4 DEF SiblingsFrom
    <3>6. FoldUp(key, s, EMPTY, 1) = Root(p)
      <4> HIDE DEF p, s, key
      <4> QED BY <1>1, <1>3, <2>1, <3>3, <3>5, Climb
    <3> QED BY <3>2, <3>6
  <2>5. CASE Lone(K)
    <3>1. PICK o \in K : TRUE
      BY <2>2
    <3>2. K = {o} /\ s[1] = Leaf(o, m[o])
      <4> HIDE DEF K, s
      <4> QED BY <1>1, <2>2, <2>5, <3>1, LoneIsNoNode
    <3>3. Under(m, key, b) = {key, o} /\ o # key /\ o \in DOMAIN m
      BY <2>2, <2>3, <3>1, <3>2
    <3>4. w.kind[1] # "node"
      BY <1>7, <3>2, KindsDiffer
    <3>5. /\ o \in DOMAIN p /\ p[o] = m[o]
      BY <3>3 DEF Put
    <3>6. ASSUME NEW d \in 0..Depth, Under(m, key, d) = {key, o}
          PROVE  Under(p, key, d) = {o} /\ SubAt(p, key, d) = s[1]
      <4>1. Under(p, key, d) = {o}
        <5>1. d \in Nat
          BY TreeAssumption
        <5> QED BY <1>3, <3>3, <3>6, <5>1
      <4>2. {o} \in SUBSET DOMAIN p /\ Lone({o}) /\ o \in {o}
        BY <3>5 DEF Lone
      <4>3. SubtreeRoot(p, {o}, d) = Leaf(o, p[o])
        <5> HIDE DEF p
        <5> QED BY <4>2, LoneIsNoNode
      <4> QED BY <3>2, <3>5, <4>1, <4>3 DEF SubAt
    <3>7. ASSUME NEW d \in 0..(b - 1), s[n - d] = EMPTY PROVE Beside(m, key, d) = {}
      <4>1. n - d \in 1..n /\ n - (n - d) = d /\ d \in 0..(Depth - 1)
        BY <1>1, <2>1, TreeAssumption
      <4>2. s[n - d] = SiblingAt(m, key, d)
        BY <1>1, <4>1 DEF SiblingsFrom
      <4> QED BY <1>1, <3>7, <4>1, <4>2, EmptySibling
    <3>8. CASE NonEmpty(s, 2) = {}
      <4>1. Delete(w) = s[1]
        BY <1>4, <1>7, <3>4, <3>8 DEF Delete
      <4>2. ASSUME NEW d \in 0..(b - 1) PROVE Beside(m, key, d) = {}
        <5>1. n - d \in 2..n
          BY <1>1, <2>1
        <5> QED BY <3>7, <3>8, <5>1 DEF NonEmpty
      <4>3. Under(m, key, 0) = {key, o}
        <5>1. 0 \in 0..b
          BY <2>1
        <5> HIDE DEF b, key
        <5>2. Under(m, key, 0) = Under(m, key, b)
          BY <2>1, <4>2, <5>1, NothingBeside
        <5> QED BY <3>3, <5>2
      <4>4. SubAt(p, key, 0) = s[1]
        BY <3>6, <4>3, TreeAssumption
      <4>5. Root(p) = s[1]
        BY <4>4, UnderTop DEF Root, SubAt
      <4> QED BY <4>1, <4>5
    <3>9. CASE NonEmpty(s, 2) # {}
      <4> DEFINE i == LeastOf(NonEmpty(s, 2))
                 e == n - i + 1
      <4>1. i \in 2..n /\ s[i] # EMPTY /\ \A j \in 2..(i - 1) : s[j] = EMPTY
        <5> HIDE DEF s
        <5> QED BY <1>1, <3>9, NonEmptyLeast
      <4>2. Delete(w) = FoldUp(key, s, s[1], i)
        BY <1>4, <1>7, <3>4, <3>9 DEF Delete
      <4> HIDE DEF i
      <4>3. /\ e \in 0..b /\ e \in 0..Depth /\ e \in Nat /\ e - 1 \in 0..(Depth - 1) /\ e - 1 \in Nat
            /\ i \in 1..(n + 1) /\ e - 1 + 1 = e /\ n - i = e - 1
        BY <1>1, <2>1, <4>1, TreeAssumption
      <4>4. ASSUME NEW d \in e..(b - 1) PROVE Beside(m, key, d) = {}
        <5>1. n - d \in 2..(i - 1) /\ d \in 0..(b - 1)
          BY <1>1, <2>1, <4>1
        <5> QED BY <3>7, <4>1, <5>1
      <4>5. Under(m, key, e) = {key, o}
        <5> HIDE DEF b, e, key
        <5>1. Under(m, key, e) = Under(m, key, b)
          BY <2>1, <4>3, <4>4, NothingBeside
        <5> QED BY <3>3, <5>1
      <4>6. SubAt(p, key, e) = s[1]
        BY <3>6, <4>3, <4>5
      <4>7. Beside(m, key, e - 1) # {}
        <5>1. SUFFICES ASSUME Beside(m, key, e - 1) = {} PROVE FALSE
          OBVIOUS
        <5>2. i \in 1..n
          BY <1>1, <4>1
        <5>3. s[i] = SiblingAt(m, key, e - 1)
          BY <1>1, <4>3, <5>2 DEF SiblingsFrom
        <5>4. SubtreeRoot(m, {}, e - 1 + 1) = EMPTY
          BY <4>3, NoneIsEmpty
        <5> QED BY <4>1, <5>1, <5>3, <5>4 DEF SiblingAt
      <4>8. PICK x \in Beside(m, key, e - 1) : TRUE
        BY <4>7
      <4>9. x \in Under(m, key, e - 1) /\ o \in Under(m, key, e - 1) /\ x # o /\ x # key
        <5>1. /\ Under(m, key, e - 1) = Under(m, key, e - 1 + 1) \cup Beside(m, key, e - 1)
              /\ Under(m, key, e - 1 + 1) \cap Beside(m, key, e - 1) = {}
          BY <4>3, BesideIs
        <5> QED BY <4>3, <4>5, <4>8, <5>1
      <4>10. ASSUME NEW j \in i..n
             PROVE  ~Lone(Under(p, key, n - j)) /\ s[j] = SiblingAt(p, key, n - j)
        <5>1. /\ n - j \in 0..(e - 1) /\ n - j \in Nat /\ n - j \in 0..(Depth - 1)
              /\ j \in 1..n
          BY <1>1, <4>1, <4>3, TreeAssumption
        <5>2. s[j] = SiblingAt(m, key, n - j)
          BY <1>1, <5>1 DEF SiblingsFrom
        <5>3. x \in Under(m, key, n - j) /\ o \in Under(m, key, n - j)
          BY <4>3, <4>9, <5>1, UnderShrinks
        <5>4. x \in Under(p, key, n - j) /\ o \in Under(p, key, n - j)
          BY <1>3, <3>3, <4>9, <5>1, <5>3
        <5> HIDE DEF p, s
        <5> QED BY <1>3, <4>9, <5>1, <5>2, <5>4 DEF Lone
      <4>11. SiblingsFrom(p, key, s, i)
        BY <4>10 DEF SiblingsFrom
      <4>12. FoldUp(key, s, s[1], i) = Root(p)
        <5> HIDE DEF p, s, key
        <5> QED BY <1>1, <1>3, <4>3, <4>6, <4>11, Climb
      <4> QED BY <4>2, <4>12
    <3> QED BY <3>8, <3>9
  <2> QED BY <2>4, <2>5
<1> QED BY <1>5, <1>6, <1>7

-----------------------------------------------------------------------------
(* The step. *)

LEMMA EndOfPath ==
    ASSUME NEW m, IsMap(m), NEW w, TrueOf(m, w)
    PROVE  LET U == Under(m, w.key, Len(w.siblings))
           IN  /\ U = {} <=> w.terminal = EMPTY
               /\ \A k \in U : U = {k} /\ w.terminal = Leaf(k, m[k])
<1> DEFINE U == Under(m, w.key, Len(w.siblings))
<1>1. Len(w.siblings) \in 0..Depth /\ Lone(U) /\ U \in SUBSET DOMAIN m
  BY DEF TrueOf, EndsAt, Under
<1>2. w.terminal = SubtreeRoot(m, U, Len(w.siblings))
  BY DEF TrueOf, SubAt
<1> HIDE DEF U
<1>3. \A k \in U : U = {k} /\ w.terminal = Leaf(k, m[k])
  BY <1>1, <1>2, LoneIsNoNode
<1>4. U = {} => w.terminal = EMPTY
  BY <1>1, <1>2, NoneIsEmpty
<1> QED BY <1>3, <1>4, KindsDiffer DEF U

LEMMA TrueStep ==
    ASSUME NEW m, IsMap(m), NEW w, TrueOf(m, w), NEW new,
           Proves(Root(m), w, At(m, w.key))
    PROVE  LET step == ApplyStep(Root(m), w, At(m, w.key), new)
           IN  /\ new # Absent => step = Root(Put(m, w.key, new))
               /\ new = Absent /\ w.key \notin DOMAIN m => step = Panic
               /\ new = Absent /\ w.key \in DOMAIN m =>
                     /\ step \in {Panic, Root(Put(m, w.key, new))}
                     /\ Len(w.siblings) = 0 \/ w.kind = w.siblings[1]
                           => step = Root(Put(m, w.key, new))
<1> DEFINE key == w.key
           U == Under(m, key, Len(w.siblings))
           step == ApplyStep(Root(m), w, At(m, key), new)
<1>1. /\ U = {} <=> w.terminal = EMPTY
      /\ \A k \in U : U = {k} /\ w.terminal = Leaf(k, m[k])
  BY EndOfPath
<1>2. CASE key \in DOMAIN m
  <2>1. At(m, key) # Absent
    BY <1>2 DEF At, IsMap
  <2>2. U = {key}
    <3>1. key \in U
      BY <1>2, KeyIsUnder
    <3> QED BY <1>1, <3>1
  <2>3. CASE new # Absent
    <3>1. step = FoldUp(key, w.siblings, Leaf(key, new), 1)
      BY <2>1, <2>3 DEF ApplyStep
    <3> QED BY <1>2, <2>2, <2>3, <3>1, WriteAtEnd
  <2>4. CASE new = Absent
    <3>1. step = Delete(w)
      BY <2>1, <2>4 DEF ApplyStep
    <3> HIDE DEF step
    <3>2. /\ Len(w.siblings) = 0 \/ w.kind = w.siblings[1]
                => Delete(w) = Root(Put(m, w.key, Absent))
          /\ Delete(w) \in {Panic, Root(Put(m, w.key, Absent))}
      BY <2>2, RemoveAtEnd
    <3> QED BY <1>2, <2>4, <3>1, <3>2 DEF step
  <2> QED BY <2>3, <2>4
<1>3. CASE key \notin DOMAIN m
  <2>1. At(m, key) = Absent
    BY <1>3 DEF At
  <2>2. key \notin U
    BY <1>3, KeyIsUnder
  <2>3. CASE new = Absent
    BY <1>3, <2>1, <2>3 DEF ApplyStep
  <2>4. CASE new # Absent /\ U = {}
    <3>1. step = FoldUp(key, w.siblings, Leaf(key, new), 1)
      BY <1>1, <2>4 DEF ApplyStep
    <3>2. U \subseteq {key}
      BY <2>4
    <3> QED BY <1>3, <2>4, <3>1, <3>2, WriteAtEnd
  <2>5. CASE new # Absent /\ U # {}
    <3>1. PICK o \in U : TRUE
      BY <2>5
    <3>2. U = {o} /\ o # key /\ w.terminal = Leaf(o, m[o])
      BY <1>1, <2>2, <3>1
    <3>3. step = FoldUp(key, SplitSiblings(w), Leaf(key, new), 1)
      BY <1>1, <2>1, <2>5 DEF ApplyStep
    <3> QED BY <1>3, <2>5, <3>2, <3>3, WriteAtFork
  <2> QED BY <2>3, <2>4, <2>5
<1> QED BY <1>2, <1>3

\* With the witness of a map, a step leads from its root to that of the map that
\* is written: an update, an insert with or without a split, a delete.
THEOREM WitnessLeads ==
    ASSUME NEW m, IsMap(m), NEW key \in Key, NEW new,
           At(m, key) # Absent \/ new # Absent
    PROVE  ApplyStep(Root(m), Witness(m, key), At(m, key), new) = Root(Put(m, key, new))
<1> DEFINE w == Witness(m, key)
<1>1. w.key = key /\ TrueOf(m, w) /\ Proves(Root(m), w, At(m, key))
  BY WitnessIsTrue
<1>2. CASE new # Absent
  <2> HIDE DEF w
  <2> QED BY <1>1, <1>2, TrueStep DEF w
<1>3. CASE new = Absent
  <2>1. key \in DOMAIN m
    BY <1>3 DEF At
  <2>2. Len(w.siblings) = 0 \/ w.kind = w.siblings[1]
    <3>1. Under(m, key, Len(w.siblings)) = {key}
      <4>1. key \in Under(m, key, Len(w.siblings))
        BY <2>1, KeyIsUnder
      <4> HIDE DEF w
      <4> QED BY <1>1, <4>1, EndOfPath
    <3>2. Len(w.siblings) # 0 =>
             NonEmpty(w.siblings, 1) # {} /\ LeastOf(NonEmpty(w.siblings, 1)) = 1
      <4> HIDE DEF w
      <4> QED BY <1>1, <3>1, FirstSibling DEF TrueOf
    <3> QED BY <2>1, <3>2 DEF Witness
  <2> HIDE DEF w
  <2>3. ApplyStep(Root(m), w, At(m, w.key), new) = Root(Put(m, w.key, new))
    BY <1>1, <1>3, <2>1, <2>2, TrueStep
  <2> QED BY <1>1, <2>3 DEF w
<1> QED BY <1>2, <1>3

\* With any other witness, a step from the root of a map panics, or claims what
\* is there and leads to the same root.
THEOREM NoWitnessMisleads ==
    ASSUME NEW m, IsMap(m), NEW w, WellFormed(w), NEW old, NEW new,
           ApplyStep(Root(m), w, old, new) # Panic
    PROVE  old = At(m, w.key) /\ ApplyStep(Root(m), w, old, new) = Root(Put(m, w.key, new))
<1>1. Proves(Root(m), w, old)
  BY DEF ApplyStep
<1>2. TrueOf(m, w) /\ old = At(m, w.key)
  BY <1>1, ProvesOnlyTruth
<1> QED BY <1>1, <1>2, TrueStep
=============================================================================
