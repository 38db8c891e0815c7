-------------------------------- MODULE Smt2 --------------------------------
(***************************************************************************)
(* The keyed tree of im-state (smt2.rs): canonical root, witness, and the  *)
(* step that the guest applies.  A map of leaves is a function from keys   *)
(* to values.  Hashing is taken to be injective: a hash is its preimage,   *)
(* and so the kind of a sibling, which a delete has to prove, is the       *)
(* sibling itself.                                                         *)
(***************************************************************************)
EXTENDS Integers, Sequences

CONSTANTS
    Key,            \* account ids
    Depth,          \* bits of a key, the code's 256
    KeyBit(_, _),   \* key, level from the root -> the bit of the key
    Absent,         \* no value at a key
    Panic           \* apply_step panics

ASSUME TreeAssumption ==
    /\ Depth \in Nat
    /\ \A k \in Key : \A i \in 0..(Depth - 1) : KeyBit(k, i) \in {0, 1}
    /\ \A j, k \in Key : (\A i \in 0..(Depth - 1) : KeyBit(j, i) = KeyBit(k, i)) => j = k

Map(V) == UNION {[keys -> V] : keys \in SUBSET Key}

At(m, k) == IF k \in DOMAIN m THEN m[k] ELSE Absent

\* Mutant: a leaf that goes is written as absent, and kept.
PutKeeping(m, k, v) == [j \in DOMAIN m \cup {k} |-> IF j = k THEN v ELSE m[j]]

\* m with v at k, or without k.
Put(m, k, v) ==
    [j \in IF v = Absent THEN DOMAIN m \ {k} ELSE DOMAIN m \cup {k} |->
       IF j = k THEN v ELSE m[j]]

-----------------------------------------------------------------------------
(* The canonical root. *)

EMPTY == <<>>
Leaf(k, v) == <<"leaf", <<k, v>>>>
Node(l, r) == <<"node", l, r>>

KeyOf(leaf) == leaf[2][1]
ValueOf(leaf) == leaf[2][2]

\* The node over two children that one descends with bit b to child.
Over(b, child, sibling) == IF b = 1 THEN Node(sibling, child) ELSE Node(child, sibling)

\* One key at most.
Lone(keys) == \A j, k \in keys : j = k

\* The subtree of one key at most, at any level.
LoneRoot(m, keys) ==
    IF keys = {} THEN EMPTY ELSE LET k == CHOOSE k \in keys : TRUE IN Leaf(k, m[k])

\* The roots of subtrees with n more bits below them.  No two keys are left
\* when there are no more bits.
Roots(m) ==
    LET roots[n \in 0..Depth] ==
          [keys \in SUBSET DOMAIN m |->
             IF n = 0 \/ Lone(keys) THEN LoneRoot(m, keys)
             ELSE LET right == {k \in keys : KeyBit(k, Depth - n) = 1}
                  IN  Node(roots[n - 1][keys \ right], roots[n - 1][right])]
    IN  roots

\* Canonical root of the leaves of m at these keys, which share d bits.
SubtreeRoot(m, keys, d) == Roots(m)[Depth - d][keys]

Root(m) == SubtreeRoot(m, DOMAIN m, 0)

-----------------------------------------------------------------------------
(* The witness of a key. *)

\* Keys of m that share the first d bits of key.
Under(m, key, d) ==
    {k \in DOMAIN m : \A b \in 0..(d - 1) : KeyBit(k, b) = KeyBit(key, b)}

\* Those of them that part with key at the next bit.
Beside(m, key, d) == Under(m, key, d) \ Under(m, key, d + 1)

\* The level at which the path ends: one leaf is left, or none.
PathDepth(m, key) ==
    CHOOSE d \in 0..Depth :
       /\ Lone(Under(m, key, d))
       /\ \A e \in 0..(d - 1) : ~Lone(Under(m, key, e))

Terminal(m, key) == LoneRoot(m, Under(m, key, PathDepth(m, key)))

\* Siblings go from the leaf to the root.
Siblings(m, key) ==
    LET depth == PathDepth(m, key)
    IN  [i \in 1..depth |-> SubtreeRoot(m, Beside(m, key, depth - i), depth - i + 1)]

NonEmpty(siblings, from) == {i \in from..Len(siblings) : siblings[i] # EMPTY}

LeastOf(S) == CHOOSE i \in S : \A j \in S : i <= j

\* No proof of a sibling's kind.
NoKind == EMPTY

\* The kind of the first sibling that is not empty, for a key that is present.
Witness(m, key) ==
    LET siblings == Siblings(m, key)
        some == NonEmpty(siblings, 1)
    IN  [key |-> key, siblings |-> siblings, terminal |-> Terminal(m, key),
         kind |-> IF key \in DOMAIN m /\ some # {} THEN siblings[LeastOf(some)] ELSE NoKind]

\* What a prover can come with: any siblings, and nothing or a leaf at the end.
WellFormed(w) ==
    /\ w.key \in Key
    /\ Len(w.siblings) \in Nat /\ DOMAIN w.siblings = 1..Len(w.siblings)
    /\ w.terminal = EMPTY \/ w.terminal = Leaf(KeyOf(w.terminal), ValueOf(w.terminal))

-----------------------------------------------------------------------------
(* One step of the guest. *)

\* start, lifted along the path of key through the siblings from the i-th up.
FoldUp(key, siblings, start, i) ==
    LET depth == Len(siblings)
        cur[j \in 0..depth] ==
            IF j < i THEN start
            ELSE Over(KeyBit(key, depth - j), cur[j - 1], siblings[j])
    IN  cur[depth]

\* The path of the other leaf is the path of the key.
OnPath(w) ==
    /\ KeyOf(w.terminal) # w.key
    /\ \A b \in 0..(Len(w.siblings) - 1) : KeyBit(KeyOf(w.terminal), b) = KeyBit(w.key, b)

\* The terminal says what is claimed of the key, and folds to the root.
Proves(running, w, old) ==
    /\ Len(w.siblings) <= Depth
    /\ IF old = Absent THEN w.terminal = EMPTY \/ OnPath(w)
       ELSE w.terminal = Leaf(w.key, old)
    /\ FoldUp(w.key, w.siblings, w.terminal, 1) = running

\* The first bit in which two keys differ.
Fork(j, k) ==
    CHOOSE d \in 0..(Depth - 1) :
       KeyBit(j, d) # KeyBit(k, d) /\ \A e \in 0..(d - 1) : KeyBit(j, e) = KeyBit(k, e)

\* The siblings of a key next to the other leaf: that leaf at their fork, and
\* empty ones from there to the end of the path.
SplitSiblings(w) ==
    LET depth == Fork(w.key, KeyOf(w.terminal)) + 1
        more == depth - Len(w.siblings)
    IN  [i \in 1..depth |-> IF i = 1 THEN w.terminal
                            ELSE IF i <= more THEN EMPTY
                            ELSE w.siblings[i - more]]

\* Mutant: the sibling does not rise.
DeleteInPlace(w) ==
    IF NonEmpty(w.siblings, 1) = {} THEN EMPTY ELSE FoldUp(w.key, w.siblings, EMPTY, 1)

\* A lone sibling leaf rises to the next sibling, a node stays where it is.
Delete(w) ==
    LET some == NonEmpty(w.siblings, 1)
        i == LeastOf(some)
        above == NonEmpty(w.siblings, i + 1)
    IN  IF some = {} THEN EMPTY
        ELSE IF w.kind # w.siblings[i] THEN Panic
        ELSE IF w.kind[1] = "node" THEN FoldUp(w.key, w.siblings, EMPTY, i)
        ELSE IF above = {} THEN w.siblings[i]
        ELSE FoldUp(w.key, w.siblings, w.siblings[i], LeastOf(above))

ApplyStep(running, w, old, new) ==
    LET leaf == Leaf(w.key, new)
    IN  IF ~Proves(running, w, old) THEN Panic
        ELSE IF new # Absent THEN
             IF old # Absent \/ w.terminal = EMPTY THEN FoldUp(w.key, w.siblings, leaf, 1)
             ELSE FoldUp(w.key, SplitSiblings(w), leaf, 1)
        ELSE IF old # Absent THEN Delete(w)
        ELSE Panic
=============================================================================
