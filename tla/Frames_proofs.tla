---------------------------- MODULE Frames_proofs ----------------------------
(***************************************************************************)
(* Proofs about Frames: any keys, any leaves, any number of rows.  What    *)
(* they need of the tree is that its steps are exact (Smt2_proofs).        *)
(***************************************************************************)
EXTENDS Frames, Smt2_proofs

-----------------------------------------------------------------------------
(* Maps, and steps of their trees. *)

LEMMA MapIsFunction ==
    ASSUME NEW V, NEW m
    PROVE  m \in Map(V) <=> (DOMAIN m \subseteq Key /\ m \in [DOMAIN m -> V])
BY Zenon DEF Map

LEMMA IsMapOf ==
    ASSUME NEW V, Absent \notin V, NEW m \in Map(V)
    PROVE  IsMap(m)
BY MapIsFunction DEF IsMap

LEMMA PutType ==
    ASSUME NEW V, Absent \notin V, NEW m \in Map(V), NEW k \in Key,
           NEW v \in V \cup {Absent}
    PROVE  /\ Put(m, k, v) \in Map(V)
           /\ \A j \in Key : At(Put(m, k, v), j) = IF j = k THEN v ELSE At(m, j)
<1>1. DOMAIN m \subseteq Key /\ m \in [DOMAIN m -> V]
  BY MapIsFunction
<1> DEFINE D == IF v = Absent THEN DOMAIN m \ {k} ELSE DOMAIN m \cup {k}
           p == Put(m, k, v)
<1>2. p = [j \in D |-> IF j = k THEN v ELSE m[j]]
  BY DEF Put
<1>3. DOMAIN p = D /\ p \in [D -> V]
  BY <1>1, <1>2
<1>4. p \in Map(V)
  BY <1>1, <1>3, MapIsFunction
<1>5. ASSUME NEW j \in Key PROVE At(p, j) = IF j = k THEN v ELSE At(m, j)
  BY <1>2, <1>3 DEF At
<1> QED
  BY <1>4, <1>5

\* A map is told by what is at each key.
LEMMA SameAt ==
    ASSUME NEW V, Absent \notin V, NEW m \in Map(V), NEW n \in Map(V),
           \A k \in Key : At(m, k) = At(n, k)
    PROVE  m = n
<1>1. /\ DOMAIN m \subseteq Key /\ m \in [DOMAIN m -> V]
      /\ DOMAIN n \subseteq Key /\ n \in [DOMAIN n -> V]
  BY MapIsFunction
<1>2. DOMAIN m = DOMAIN n
  BY <1>1 DEF At
<1>3. \A k \in DOMAIN m : m[k] = n[k]
  BY <1>1, <1>2 DEF At
<1> QED
  BY <1>1, <1>2, <1>3

LEMMA StepIsExact ==
    ASSUME NEW V, Absent \notin V, NEW m \in Map(V)
    PROVE  ExactAt(m, V)
<1>1. IsMap(m)
  BY IsMapOf
<1>2. ASSUME NEW k \in Key, NEW new \in V \cup {Absent}, At(m, k) # Absent \/ new # Absent
      PROVE  ApplyStep(Root(m), Witness(m, k), At(m, k), new) = Root(Put(m, k, new))
  BY <1>1, <1>2, WitnessLeads
<1>3. ASSUME NEW w \in SmtWitness, NEW v \in Altered(w),
             NEW old \in V \cup {Absent}, NEW new \in V \cup {Absent}
      PROVE  \/ ApplyStep(Root(m), v, old, new) = Panic
             \/ /\ old = At(m, v.key)
                /\ ApplyStep(Root(m), v, old, new) = Root(Put(m, v.key, new))
  <2>1. v.key \in Key /\ v.siblings = w.siblings /\ v.terminal = w.terminal /\ WellFormed(w)
    BY FramesAssumption DEF Altered, WellFormed
  <2>2. WellFormed(v)
    BY <2>1 DEF WellFormed
  <2> QED
    BY <1>1, <2>2, NoWitnessMisleads
<1> QED
  BY <1>2, <1>3 DEF ExactAt

LEMMA TreeIsExact ==
    /\ \A m \in Map(Value) : ExactAt(m, Value)
    /\ \A m \in Map({RegistryLeaf}) : ExactAt(m, {RegistryLeaf})
BY StepIsExact, FramesAssumption

LEMMA WitnessKey == ASSUME NEW m, NEW k PROVE Witness(m, k).key = k
BY DEF Witness

LEMMA AtType ==
    ASSUME NEW V, NEW m \in Map(V), NEW k
    PROVE  At(m, k) \in V \cup {Absent}
BY MapIsFunction DEF At

LEMMA RegistryType ==
    ASSUME NEW m \in Map(Value)
    PROVE  /\ Registry(m) \in Map({RegistryLeaf})
           /\ \A k \in Key : At(Registry(m), k) = IF At(m, k) = Absent THEN Absent
                                                  ELSE RegistryLeaf
<1>1. DOMAIN m \subseteq Key /\ m \in [DOMAIN m -> Value]
  BY MapIsFunction
<1>2. Registry(m) \in [DOMAIN m -> {RegistryLeaf}]
  BY DEF Registry
<1>3. Registry(m) \in Map({RegistryLeaf})
  BY <1>1, <1>2, MapIsFunction
<1>4. ASSUME NEW k \in Key
      PROVE  At(Registry(m), k) = IF At(m, k) = Absent THEN Absent ELSE RegistryLeaf
  BY <1>1, FramesAssumption DEF Registry, At
<1> QED
  BY <1>3, <1>4

\* A row moves the registry if, and only if, its account comes or goes.
LEMMA RegistryOfPut ==
    ASSUME NEW m \in Map(Value), NEW k \in Key, NEW v \in Value \cup {Absent}
    PROVE  /\ Membership(At(m, k), v) =>
                 Registry(Put(m, k, v)) =
                    Put(Registry(m), k, IF v = Absent THEN Absent ELSE RegistryLeaf)
           /\ ~Membership(At(m, k), v) => Registry(Put(m, k, v)) = Registry(m)
<1> DEFINE p == Put(m, k, v)
           r == IF v = Absent THEN Absent ELSE RegistryLeaf
           q == Put(Registry(m), k, r)
<1>1. Absent \notin Value /\ Absent \notin {RegistryLeaf}
  BY FramesAssumption
<1>2. p \in Map(Value) /\ \A j \in Key : At(p, j) = IF j = k THEN v ELSE At(m, j)
  BY <1>1, PutType
<1>3. /\ Registry(m) \in Map({RegistryLeaf}) /\ Registry(p) \in Map({RegistryLeaf})
      /\ \A j \in Key :
            /\ At(Registry(m), j) = IF At(m, j) = Absent THEN Absent ELSE RegistryLeaf
            /\ At(Registry(p), j) = IF At(p, j) = Absent THEN Absent ELSE RegistryLeaf
  BY <1>2, RegistryType
<1>4. r \in {RegistryLeaf} \cup {Absent}
  OBVIOUS
<1>5. /\ q \in Map({RegistryLeaf})
      /\ \A j \in Key : At(q, j) = IF j = k THEN r ELSE At(Registry(m), j)
  BY <1>1, <1>3, <1>4, PutType
<1>6. \A j \in Key : At(Registry(p), j) = At(q, j)
  BY <1>2, <1>3, <1>5
<1>7. Registry(p) = q
  BY <1>1, <1>3, <1>5, <1>6, SameAt
<1>8. ASSUME ~Membership(At(m, k), v) PROVE Registry(p) = Registry(m)
  <2>1. \A j \in Key : At(Registry(p), j) = At(Registry(m), j)
    BY <1>2, <1>3, <1>8 DEF Membership
  <2> QED
    BY <2>1, <1>1, <1>3, SameAt
<1> QED
  BY <1>7, <1>8

-----------------------------------------------------------------------------
(* Steps of the guest. *)

\* The row of k in a tree that holds b, for an account that becomes v.
MadeRow(b, k, v) ==
    [old |-> At(b, k), new |-> v, sw |-> Witness(b, k),
     rw |-> IF Membership(At(b, k), v) THEN Witness(Registry(b), k) ELSE NoWitness,
     before |-> b]

\* The running roots stand for m.
RunOn(m) == running = Root(m) /\ registryRunning = Root(Registry(m))

\* Both steps lead to the roots of n.
StepTo(sw, rw, old, new, n) ==
    StateStep(sw, old, new) = Root(n) /\ RegistryStep(rw, old, new) = Root(Registry(n))

\* A row that the guest accepts sets the leaf, whatever its witnesses are.
LEMMA AcceptedIsSound ==
    ASSUME NEW m \in Map(Value), RunOn(m),
           NEW sw \in SmtWitness,
           NEW rw \in {NoWitness} \cup {w \in SmtWitness : w.key = sw.key},
           NEW old \in Value \cup {Absent}, NEW new \in Value \cup {Absent},
           StateStep(sw, old, new) # Panic, RegistryStep(rw, old, new) # Panic
    PROVE  StepTo(sw, rw, old, new, Put(m, sw.key, new))
<1> DEFINE k == sw.key
<1>1. k \in Key
  BY FramesAssumption DEF WellFormed
<1>2. ExactAt(m, Value) /\ ExactAt(Registry(m), {RegistryLeaf})
  BY RegistryType, TreeIsExact
<1>3. sw \in Altered(sw)
  BY DEF Altered
<1>4. old = At(m, k) /\ StateStep(sw, old, new) = Root(Put(m, k, new))
  BY <1>2, <1>3 DEF ExactAt, StateStep, RunOn
<1>5. CASE ~Membership(old, new)
  BY <1>1, <1>4, <1>5, RegistryOfPut DEF RegistryStep, RunOn, StepTo
<1>6. CASE Membership(old, new)
  <2> DEFINE was == IF old = Absent THEN Absent ELSE RegistryLeaf
             is == IF new = Absent THEN Absent ELSE RegistryLeaf
  <2>1. rw \in SmtWitness /\ rw.key = k /\ rw \in Altered(rw)
    BY <1>6 DEF RegistryStep, Altered
  <2>2. RegistryStep(rw, old, new) = ApplyStep(Root(Registry(m)), rw, was, is)
    BY <1>6, <2>1, FramesAssumption DEF RegistryStep, RunOn, Membership
  <2>3. was \in {RegistryLeaf} \cup {Absent} /\ is \in {RegistryLeaf} \cup {Absent}
    OBVIOUS
  <2>4. RegistryStep(rw, old, new) = Root(Put(Registry(m), k, is))
    BY <1>2, <2>1, <2>2, <2>3 DEF ExactAt
  <2>5. Registry(Put(m, k, new)) = Put(Registry(m), k, is)
    BY <1>1, <1>4, <1>6, RegistryOfPut
  <2> QED
    BY <1>4, <2>4, <2>5 DEF StepTo
<1> QED
  BY <1>5, <1>6

\* The guest accepts a row that is made of the tree it has come to.
LEMMA MadeIsAccepted ==
    ASSUME NEW m \in Map(Value), RunOn(m), NEW k \in Key,
           NEW v \in Value \cup {Absent}, At(m, k) # Absent \/ v # Absent
    PROVE  LET r == MadeRow(m, k, v) IN StepTo(r.sw, r.rw, r.old, r.new, Put(m, k, v))
<1> DEFINE r == MadeRow(m, k, v)
           g == Registry(m)
           was == IF At(m, k) = Absent THEN Absent ELSE RegistryLeaf
           is == IF v = Absent THEN Absent ELSE RegistryLeaf
<1>1. ExactAt(m, Value) /\ ExactAt(g, {RegistryLeaf})
  BY RegistryType, TreeIsExact
<1>2. r.sw = Witness(m, k) /\ r.old = At(m, k) /\ r.new = v
  BY DEF MadeRow
<1>3. StateStep(r.sw, r.old, r.new) = Root(Put(m, k, v))
  BY <1>1, <1>2 DEF ExactAt, StateStep, RunOn
<1>4. CASE ~Membership(At(m, k), v)
  <2>1. r.rw = NoWitness
    BY <1>4 DEF MadeRow
  <2>2. RegistryStep(r.rw, r.old, r.new) = Root(g)
    BY <1>2, <1>4, <2>1 DEF RegistryStep, RunOn
  <2> QED
    BY <1>3, <1>4, <2>2, RegistryOfPut DEF StepTo
<1>5. CASE Membership(At(m, k), v)
  <2>1. r.rw = Witness(g, k)
    BY <1>5 DEF MadeRow
  <2>2. g \in Map({RegistryLeaf}) /\ At(g, k) = was
    BY RegistryType
  <2>3. r.rw # NoWitness
    BY <2>1, <2>2, FramesAssumption
  <2>4. RegistryStep(r.rw, r.old, r.new) = ApplyStep(Root(g), r.rw, was, is)
    BY <1>2, <1>5, <2>3, FramesAssumption DEF RegistryStep, RunOn, Membership
  <2>5. was # Absent \/ is # Absent
    BY FramesAssumption
  <2>6. is \in {RegistryLeaf} \cup {Absent}
    OBVIOUS
  <2>7. ApplyStep(Root(g), Witness(g, k), was, is) = Root(Put(g, k, is))
    BY <1>1, <2>2, <2>5, <2>6 DEF ExactAt
  <2>8. Registry(Put(m, k, v)) = Put(g, k, is)
    BY <1>5, RegistryOfPut
  <2> QED
    BY <1>3, <2>1, <2>4, <2>7, <2>8 DEF StepTo
<1> QED
  BY <1>4, <1>5

-----------------------------------------------------------------------------
(* The inductive invariant. *)

RowSet == {MadeRow(b, k, v) : b \in Map(Value), k \in Key, v \in Value \cup {Absent}}

\* A row holds what it is made of.
LEMMA RowFacts ==
    ASSUME NEW r \in RowSet
    PROVE  /\ r.sw.key \in Key /\ r.before \in Map(Value) /\ r.new \in Value \cup {Absent}
           /\ r = MadeRow(r.before, r.sw.key, r.new)
           /\ r.old = At(r.before, r.sw.key)
<1>1. PICK b \in Map(Value) : \E k \in Key, v \in Value \cup {Absent} : r = MadeRow(b, k, v)
  BY DEF RowSet
<1>2. PICK k \in Key : \E v \in Value \cup {Absent} : r = MadeRow(b, k, v)
  BY <1>1
<1>3. PICK v \in Value \cup {Absent} : r = MadeRow(b, k, v)
  BY <1>2
<1>4. r.before = b /\ r.new = v /\ r.sw = Witness(b, k) /\ r.old = At(b, k)
  BY <1>3 DEF MadeRow
<1>5. r.sw.key = k
  BY <1>4, FramesAssumption, WitnessKey
<1> QED
  BY <1>3, <1>4, <1>5

\* The tree of the host after row i.
After(i) == IF i = 0 THEN leaves ELSE Put(rows[i].before, rows[i].sw.key, rows[i].new)

TypeInv ==
    /\ leaves \in Map(Value) /\ folded \in Map(Value)
    /\ stage \in {"idle", "host", "guest", "other"}
    /\ post \in Map(Value) /\ smt \in Map(Value) /\ touched \subseteq Key
    /\ registry = Registry(smt)
    /\ rows \in Seq(RowSet)
    /\ last \in Key \cup {-1}
    /\ next \in Nat \ {0}

RootInv ==
    /\ root = Root(leaves) /\ accountsRoot = Root(Registry(leaves))
    /\ RunOn(folded)

\* The tree has the leaves of the prediction below the key that is next, and
\* the old ones from there on.
TreeInv ==
    stage \in {"host", "guest"} =>
       /\ \A k \in Key : At(smt, k) = IF k \in touched THEN At(leaves, k) ELSE At(post, k)
       /\ smt = After(Len(rows))

\* Each row is made of the tree that the row before has left, and in order.
RowInv ==
    stage \in {"host", "guest"} =>
       /\ \A i \in 1..Len(rows) :
             /\ rows[i].before = After(i - 1)
             /\ rows[i].old # Absent \/ rows[i].new # Absent
             /\ \A k \in touched : rows[i].sw.key < k
       /\ \A i, j \in 1..Len(rows) : i < j => rows[i].sw.key < rows[j].sw.key

\* The guest has come as far as the host had before the next row.
GuestInv ==
    /\ stage \in {"idle", "host"} => next = 1
    /\ stage = "other" => next <= MaxRows + 1
    /\ stage = "guest" =>
          /\ touched = {}
          /\ next <= Len(rows) + 1
          /\ folded = After(next - 1)
          /\ last = IF next = 1 THEN -1 ELSE rows[next - 1].sw.key

IInv == TypeInv /\ RootInv /\ TreeInv /\ RowInv /\ GuestInv

LEMMA NoLeavesType == NoLeaves \in Map(Value) /\ Registry(NoLeaves) = NoLeaves
<1>1. NoLeaves \in [{} -> Value] /\ DOMAIN NoLeaves = {}
  BY DEF NoLeaves
<1>2. NoLeaves \in Map(Value)
  BY <1>1, MapIsFunction
<1>3. Registry(NoLeaves) = [k \in {} |-> RegistryLeaf]
  BY <1>1 DEF Registry
<1> QED
  BY <1>2, <1>3 DEF NoLeaves

LEMMA InitInv == Init => IInv
<1> SUFFICES ASSUME Init PROVE IInv
  OBVIOUS
<1> USE NoLeavesType DEF Init
<1>1. TypeInv
  BY DEF TypeInv
<1>2. RootInv
  BY DEF RootInv, RunOn
<1>3. TreeInv /\ RowInv /\ GuestInv
  BY DEF TreeInv, RowInv, GuestInv
<1> QED
  BY <1>1, <1>2, <1>3 DEF IInv

\* What holds at the end of an epoch, and while another prover folds.
LEMMA OtherStages ==
    ASSUME IInv, stage' \in {"idle", "other"}, TypeInv', RootInv',
           stage' = "idle" => next' = 1, stage' = "other" => next' <= MaxRows + 1
    PROVE  IInv'
<1>1. TreeInv' /\ RowInv'
  BY DEF TreeInv, RowInv
<1>2. GuestInv'
  BY DEF GuestInv
<1> QED
  BY <1>1, <1>2 DEF IInv

LEMMA IdleStep ==
    ASSUME IInv, Land \/ Abandon
    PROVE  IInv'
<1> USE DEF IInv
<1>1. stage' = "idle" /\ next' = 1
  BY DEF Land, Abandon, GoIdle
<1>2. TypeInv'
  <2>1. /\ stage' = "idle" /\ post' = NoLeaves /\ touched' = {} /\ rows' = <<>>
        /\ smt' = NoLeaves /\ registry' = NoLeaves /\ next' = 1 /\ last' = -1
    BY DEF Land, Abandon, GoIdle
  <2>2. leaves' \in Map(Value) /\ folded' \in Map(Value)
    BY DEF TypeInv, Land, Abandon, coreVars
  <2> QED
    BY <2>1, <2>2, NoLeavesType DEF TypeInv
<1>3. RootInv'
  <2>1. CASE Land
    BY <2>1 DEF RootInv, RunOn, Land
  <2>2. CASE Abandon
    BY <2>2 DEF RootInv, RunOn, Abandon, coreVars
  <2> QED
    BY <2>1, <2>2
<1> QED
  BY <1>1, <1>2, <1>3, OtherStages

LEMMA OtherStep ==
    ASSUME IInv,
           \/ ExecuteOther
           \/ \E sw \in SmtWitness : \E old, new \in Value \cup {Absent} : FoldOther(sw, old, new)
    PROVE  IInv'
<1> USE DEF IInv
<1>1. CASE ExecuteOther
  <2>1. TypeInv'
    BY <1>1 DEF TypeInv, ExecuteOther, Start, coreVars, hostVars
  <2>2. RootInv'
    BY <1>1 DEF RootInv, RunOn, ExecuteOther, Start, coreVars
  <2>3. stage' = "other" /\ next' <= MaxRows + 1
    BY <1>1, FramesAssumption DEF ExecuteOther, Start
  <2> QED
    BY <2>1, <2>2, <2>3, OtherStages
<1>2. ASSUME NEW sw \in SmtWitness, NEW old \in Value \cup {Absent},
             NEW new \in Value \cup {Absent}, FoldOther(sw, old, new)
      PROVE  IInv'
  <2> DEFINE n == Put(folded, sw.key, new)
  <2>1. PICK rw \in {NoWitness} \cup {w \in SmtWitness : w.key = sw.key} :
           FoldRegistry(rw, old, new)
    BY <1>2 DEF FoldOther
  <2>2. /\ stage = "other" /\ next <= MaxRows /\ UNCHANGED <<coreVars, stage, hostVars>>
        /\ FoldState(sw, old, new)
    BY <1>2 DEF FoldOther
  <2>3. StepTo(sw, rw, old, new, n)
    BY <2>1, <2>2, AcceptedIsSound DEF TypeInv, RootInv, FoldState, FoldRegistry
  <2>4. folded' = n /\ running' = Root(n) /\ registryRunning' = Root(Registry(n))
    BY <2>1, <2>2, <2>3 DEF FoldState, FoldRegistry, StepTo
  <2>5. sw.key \in Key /\ last' = sw.key /\ next' = next + 1
    BY <2>2, FramesAssumption DEF FoldState, WellFormed
  <2>6. n \in Map(Value)
    BY <2>5, PutType, FramesAssumption DEF TypeInv
  <2>7. TypeInv'
    BY <2>2, <2>4, <2>5, <2>6 DEF TypeInv, coreVars, hostVars
  <2>8. RootInv'
    BY <2>2, <2>4 DEF RootInv, RunOn, coreVars
  <2>9. stage' = "other" /\ next' <= MaxRows + 1
    BY <2>2, <2>5, FramesAssumption DEF TypeInv
  <2> QED
    BY <2>7, <2>8, <2>9, OtherStages
<1> QED
  BY <1>1, <1>2

LEMMA ResolveStep ==
    ASSUME IInv, NEW keys \in SUBSET Key, NEW new \in Map(Value), ResolveEpoch(new, keys)
    PROVE  IInv'
<1>1. /\ stage = "idle" /\ DOMAIN leaves \subseteq keys /\ DOMAIN new \subseteq keys
      /\ stage' = "host" /\ post' = new /\ touched' = keys /\ rows' = <<>>
      /\ smt' = leaves /\ registry' = Registry(leaves)
      /\ UNCHANGED <<leaves, root, accountsRoot, next, last, running, registryRunning, folded>>
  BY DEF ResolveEpoch, coreVars, guestVars
<1>2. TypeInv'
  BY <1>1 DEF IInv, TypeInv
<1>3. RootInv'
  BY <1>1 DEF IInv, RootInv, RunOn
<1>4. \A k \in Key \ keys : At(leaves, k) = Absent /\ At(new, k) = Absent
  BY <1>1 DEF At
<1>5. TreeInv'
  BY <1>1, <1>4 DEF TreeInv, After, At
<1>6. RowInv' /\ GuestInv'
  BY <1>1 DEF IInv, RowInv, GuestInv
<1> QED
  BY <1>2, <1>3, <1>5, <1>6 DEF IInv

\* A row in the host's tree: the tree moves as the row says.
LEMMA RowIsMade ==
    ASSUME IInv, NEW k \in Key, StepRow(k), HasRow(k)
    PROVE  LET v == At(post, k)
           IN  /\ rows' = Append(rows, MadeRow(smt, k, v)) /\ MadeRow(smt, k, v) \in RowSet
               /\ smt' = Put(smt, k, v) /\ smt' \in Map(Value)
               /\ registry' = Registry(smt')
               /\ At(smt, k) # Absent \/ v # Absent
<1> DEFINE v == At(post, k)
           is == IF v = Absent THEN Absent ELSE RegistryLeaf
<1>1. k \in touched /\ stage = "host" /\ At(smt, k) = At(leaves, k)
  BY DEF StepRow, NextKey, IInv, TreeInv
<1>2. smt \in Map(Value) /\ registry = Registry(smt) /\ v \in Value \cup {Absent}
  BY AtType DEF IInv, TypeInv
<1>3. RowOf(k) = MadeRow(smt, k, v)
  BY <1>1, <1>2 DEF RowOf, MadeRow
<1>4. /\ rows' = Append(rows, RowOf(k)) /\ smt' = Put(smt, k, v)
      /\ registry' = IF Membership(At(smt, k), v) THEN Put(registry, k, is) ELSE registry
  BY <1>1 DEF StepRow
<1>5. smt' \in Map(Value)
  BY <1>2, <1>4, PutType, FramesAssumption
<1>6. registry' = Registry(smt')
  BY <1>2, <1>4, RegistryOfPut
<1>7. MadeRow(smt, k, v) \in RowSet
  BY <1>2 DEF RowSet
<1>8. At(smt, k) # Absent \/ v # Absent
  BY <1>1 DEF HasRow
<1> QED
  BY <1>3, <1>4, <1>5, <1>6, <1>7, <1>8

LEMMA StepRowStep ==
    ASSUME IInv, NEW k \in Key, StepRow(k)
    PROVE  IInv'
<1> DEFINE v == At(post, k)
           n == Len(rows)
<1>1. /\ stage = "host" /\ stage' = "host" /\ k \in touched /\ touched' = touched \ {k}
      /\ \A j \in touched : k <= j
      /\ UNCHANGED <<leaves, root, accountsRoot, post, next, last, running, registryRunning, folded>>
  BY DEF StepRow, NextKey, coreVars, guestVars
<1>2. /\ \A j \in Key : At(smt, j) = IF j \in touched THEN At(leaves, j) ELSE At(post, j)
      /\ smt = After(n)
  BY <1>1 DEF IInv, TreeInv
<1>3. RootInv' /\ GuestInv'
  BY <1>1 DEF IInv, RootInv, RunOn, GuestInv
<1>4. CASE ~HasRow(k)
  <2>1. UNCHANGED <<rows, smt, registry>> /\ At(leaves, k) = Absent /\ At(post, k) = Absent
    BY <1>4 DEF StepRow, HasRow
  <2>2. TypeInv'
    BY <1>1, <2>1 DEF IInv, TypeInv
  <2>3. TreeInv'
    BY <1>1, <1>2, <2>1 DEF TreeInv, After, At
  <2>4. RowInv'
    BY <1>1, <2>1 DEF IInv, RowInv, After
  <2> QED
    BY <1>3, <2>2, <2>3, <2>4 DEF IInv
<1>5. CASE HasRow(k)
  <2> DEFINE r == MadeRow(smt, k, v)
  <2>1. /\ rows' = Append(rows, r) /\ r \in RowSet
        /\ smt' = Put(smt, k, v) /\ smt' \in Map(Value) /\ registry' = Registry(smt')
        /\ At(smt, k) # Absent \/ v # Absent
    BY <1>5, RowIsMade
  <2>2. r.before = smt /\ r.new = v /\ r.old = At(smt, k) /\ r.sw.key = k
    BY FramesAssumption, WitnessKey DEF MadeRow, IInv, TypeInv
  <2>3. rows \in Seq(RowSet) /\ n \in Nat
    BY DEF IInv, TypeInv
  <2> HIDE DEF r
  <2>4. /\ Len(rows') = n + 1 /\ rows'[n + 1] = r
        /\ \A i \in 1..n : rows'[i] = rows[i]
        /\ rows' \in Seq(RowSet)
    BY <2>1, <2>3
  <2>5. TypeInv'
    BY <1>1, <2>1, <2>4 DEF IInv, TypeInv
  <2>6. \A i \in 0..n : After(i)' = After(i)
    BY <1>1, <2>3, <2>4 DEF After
  <2>7. After(Len(rows))' = smt'
    BY <2>1, <2>2, <2>3, <2>4 DEF After
  <2>8. \A j \in Key : At(smt', j) = IF j = k THEN v ELSE At(smt, j)
    <3>1. smt \in Map(Value) /\ v \in Value \cup {Absent}
      BY AtType DEF IInv, TypeInv
    <3> QED
      BY <2>1, <3>1, PutType, FramesAssumption
  <2>9. \A j \in Key : At(smt', j) = IF j \in touched' THEN At(leaves', j) ELSE At(post', j)
    BY <1>1, <1>2, <2>8
  <2>10. TreeInv'
    BY <2>7, <2>9 DEF TreeInv, At
  <2>11. RowInv'
    <3>1. /\ \A i \in 1..n :
                /\ rows[i].before = After(i - 1)
                /\ rows[i].old # Absent \/ rows[i].new # Absent
                /\ \A j \in touched : rows[i].sw.key < j
          /\ \A i, j \in 1..n : i < j => rows[i].sw.key < rows[j].sw.key
      BY <1>1 DEF IInv, RowInv
    <3>2. \A j \in touched' : k < j
      BY <1>1, FramesAssumption DEF IInv, TypeInv
    <3>3. ASSUME NEW i \in 1..Len(rows')
          PROVE  /\ rows'[i].before = After(i - 1)'
                 /\ rows'[i].old # Absent \/ rows'[i].new # Absent
                 /\ \A j \in touched' : rows'[i].sw.key < j
      <4>1. CASE i \in 1..n
        <5>1. i - 1 \in 0..n /\ rows'[i] = rows[i]
          BY <4>1, <2>3, <2>4
        <5> QED
          BY <4>1, <5>1, <3>1, <2>6, <1>1
      <4>2. CASE i = n + 1
        <5>1. After(i - 1)' = smt /\ rows'[i] = r
          BY <4>2, <1>2, <2>3, <2>4, <2>6
        <5> QED
          BY <5>1, <2>1, <2>2, <3>2
      <4> QED
        BY <4>1, <4>2, <2>3, <2>4
    <3>4. ASSUME NEW i \in 1..Len(rows'), NEW j \in 1..Len(rows'), i < j
          PROVE  rows'[i].sw.key < rows'[j].sw.key
      <4>1. i \in 1..n
        BY <3>4, <2>3, <2>4
      <4>2. CASE j \in 1..n
        BY <3>4, <4>1, <4>2, <3>1, <2>4
      <4>3. CASE j = n + 1
        BY <4>1, <4>3, <3>1, <2>2, <2>4, <1>1
      <4> QED
        BY <4>2, <4>3, <2>3, <2>4
    <3> QED
      BY <3>3, <3>4 DEF RowInv
  <2> QED
    BY <1>3, <2>5, <2>10, <2>11 DEF IInv
<1> QED
  BY <1>4, <1>5

\* The row that the guest comes to is made of the map that it stands on.
LEMMA RowIsNext ==
    ASSUME IInv, stage = "guest", next <= Len(rows)
    PROVE  LET row == rows[next]
           IN  /\ row.sw.key \in Key /\ row.new \in Value \cup {Absent} /\ row.sw.key > last
               /\ StepTo(row.sw, row.rw, row.old, row.new, Put(folded, row.sw.key, row.new))
<1> DEFINE row == rows[next]
           k == row.sw.key
<1>1. next \in 1..Len(rows) /\ rows \in Seq(RowSet) /\ folded \in Map(Value) /\ RunOn(folded)
  BY DEF IInv, TypeInv, RootInv
<1>2. row \in RowSet
  BY <1>1
<1>3. /\ k \in Key /\ row.new \in Value \cup {Absent}
      /\ row = MadeRow(row.before, k, row.new) /\ row.old = At(row.before, k)
  BY <1>2, RowFacts
<1>4. row.before = folded /\ (row.old # Absent \/ row.new # Absent)
  BY <1>1 DEF IInv, RowInv, GuestInv
<1>5. StepTo(row.sw, row.rw, row.old, row.new, Put(folded, k, row.new))
  <2> DEFINE v == row.new
             made == MadeRow(folded, k, v)
  <2>1. At(folded, k) # Absent \/ v # Absent
    BY <1>3, <1>4
  <2>2. StepTo(made.sw, made.rw, made.old, made.new, Put(folded, k, v))
    BY <1>1, <1>3, <2>1, MadeIsAccepted
  <2> QED
    BY <1>3, <1>4, <2>2
<1>6. k > last
  <2>1. CASE next = 1
    <3>1. last = -1
      BY <2>1 DEF IInv, GuestInv
    <3>2. k \in Nat
      BY <1>3, FramesAssumption
    <3> HIDE DEF k
    <3> QED
      BY <3>1, <3>2
  <2>2. CASE next # 1
    <3>1. next - 1 \in 1..Len(rows) /\ next - 1 < next
      BY <1>1, <2>2
    <3>2. rows[next - 1].sw.key < k
      BY <1>1, <3>1 DEF IInv, RowInv
    <3>3. rows[next - 1].sw.key \in Key
      BY <1>1, <3>1, RowFacts
    <3> QED
      BY <1>3, <2>2, <3>2, <3>3, FramesAssumption DEF IInv, GuestInv
  <2> QED
    BY <2>1, <2>2
<1> QED
  BY <1>3, <1>5, <1>6

LEMMA GuestStep ==
    ASSUME IInv, Execute \/ FoldRow
    PROVE  IInv'
<1>1. CASE Execute
  <2>1. /\ stage = "host" /\ stage' = "guest" /\ touched = {}
        /\ next' = 1 /\ last' = -1 /\ running' = root /\ registryRunning' = accountsRoot
        /\ folded' = leaves
        /\ UNCHANGED <<leaves, root, accountsRoot, post, touched, smt, registry, rows>>
    BY <1>1 DEF Execute, Start, coreVars, hostVars
  <2>2. TypeInv'
    BY <2>1 DEF IInv, TypeInv
  <2>3. RootInv'
    BY <2>1 DEF IInv, RootInv, RunOn
  <2>4. TreeInv'
    BY <2>1 DEF IInv, TreeInv, After, At
  <2>5. RowInv'
    BY <2>1 DEF IInv, RowInv, After
  <2>6. rows \in Seq(RowSet)
    BY DEF IInv, TypeInv
  <2>7. GuestInv'
    BY <2>1, <2>6 DEF GuestInv, After
  <2> QED
    BY <2>2, <2>3, <2>4, <2>5, <2>7 DEF IInv
<1>2. CASE FoldRow
  <2> DEFINE row == rows[next]
             k == row.sw.key
             v == row.new
  <2>1. /\ stage = "guest" /\ next <= Len(rows)
        /\ FoldState(row.sw, row.old, row.new) /\ FoldRegistry(row.rw, row.old, row.new)
        /\ UNCHANGED <<leaves, root, accountsRoot, stage, post, touched, smt, registry, rows>>
    BY <1>2 DEF FoldRow, coreVars, hostVars
  <2>2. /\ k \in Key /\ v \in Value \cup {Absent}
        /\ StepTo(row.sw, row.rw, row.old, row.new, Put(folded, k, v))
    BY <2>1, RowIsNext
  <2>3. /\ folded' = Put(folded, k, v) /\ last' = k /\ next' = next + 1
        /\ running' = Root(folded') /\ registryRunning' = Root(Registry(folded'))
    BY <2>1, <2>2 DEF FoldState, FoldRegistry, StepTo
  <2>4. folded' \in Map(Value)
    BY <2>2, <2>3, PutType, FramesAssumption DEF IInv, TypeInv
  <2>5. next \in Nat \ {0} /\ rows \in Seq(RowSet) /\ touched = {}
    BY <2>1 DEF IInv, TypeInv, GuestInv
  <2>6. TypeInv'
    BY <2>1, <2>2, <2>3, <2>4 DEF IInv, TypeInv
  <2>7. RootInv'
    BY <2>1, <2>3 DEF IInv, RootInv, RunOn
  <2>8. TreeInv'
    BY <2>1 DEF IInv, TreeInv, After, At
  <2>9. RowInv'
    BY <2>1 DEF IInv, RowInv, After
  <2>10. folded' = After(next)
    <3>1. row \in RowSet
      BY <2>1, <2>5
    <3>2. row.before = folded
      BY <2>1, <2>5 DEF IInv, RowInv, GuestInv
    <3> QED
      BY <2>3, <2>5, <3>2 DEF After
  <2>11. next' - 1 = next /\ next' # 1 /\ next' <= Len(rows) + 1
    BY <2>1, <2>3, <2>5
  <2>12. GuestInv'
    BY <2>1, <2>3, <2>5, <2>10, <2>11 DEF GuestInv, After
  <2> QED
    BY <2>6, <2>7, <2>8, <2>9, <2>12 DEF IInv
<1> QED
  BY <1>1, <1>2

LEMMA StutterStep ==
    ASSUME IInv, UNCHANGED vars
    PROVE  IInv'
<1> USE DEF vars, coreVars, hostVars, guestVars
<1>1. TypeInv' /\ RootInv'
  BY DEF IInv, TypeInv, RootInv, RunOn
<1>2. TreeInv' /\ RowInv' /\ GuestInv'
  BY DEF IInv, TreeInv, RowInv, GuestInv, After, At
<1> QED
  BY <1>1, <1>2 DEF IInv

LEMMA NextInv ==
    ASSUME IInv, [Next]_vars
    PROVE  IInv'
<1>1. ASSUME NEW keys \in SUBSET Key, NEW new \in Map(Value), ResolveEpoch(new, keys)
      PROVE  IInv'
  BY <1>1, ResolveStep
<1>2. ASSUME NEW k \in Key, StepRow(k) PROVE IInv'
  BY <1>2, StepRowStep
<1>3. CASE Execute \/ FoldRow
  BY <1>3, GuestStep
<1>4. CASE ExecuteOther \/ \E sw \in SmtWitness : \E old, new \in Value \cup {Absent} : FoldOther(sw, old, new)
  BY <1>4, OtherStep
<1>5. CASE Land \/ Abandon
  BY <1>5, IdleStep
<1>6. CASE UNCHANGED vars
  BY <1>6, StutterStep
<1> QED
  BY <1>1, <1>2, <1>3, <1>4, <1>5, <1>6 DEF Next

LEMMA Invariant == Spec => []IInv
<1>1. IInv /\ [Next]_vars => IInv'
  BY NextInv
<1> QED
  BY <1>1, InitInv, PTL DEF Spec

-----------------------------------------------------------------------------
(* Theorems. *)

\* Every variable of the frames has its type, and no root is a panic (the
\* trees and the roots of frames.rs and of the tree fold).
THEOREM TypeCorrect == Spec => []TypeOK
<1>1. IInv => TypeOK
  <2> SUFFICES ASSUME IInv PROVE TypeOK
    OBVIOUS
  <2>1. \A m \in Map(Value) : Registry(m) \in Map({RegistryLeaf})
    BY RegistryType
  <2>2. Panic \notin {root, accountsRoot, running, registryRunning}
    BY <2>1, FramesAssumption DEF IInv, TypeInv, RootInv, RunOn
  <2>3. next \in 1..(IF stage = "other" THEN MaxRows ELSE Len(rows)) + 1
    <3>1. rows \in Seq(RowSet) /\ Len(rows) \in Nat
      BY DEF IInv, TypeInv
    <3> QED
      BY <3>1, FramesAssumption DEF IInv, TypeInv, GuestInv
  <2> QED
    BY <2>1, <2>2, <2>3 DEF IInv, TypeInv, TypeOK
<1> QED
  BY <1>1, Invariant, PTL

\* Whoever makes the rows (state_transition.rs, the tree fold), both roots of
\* the core stand for the accounts that the rows have set.
THEOREM RootsAlwaysStand == Spec => []RootsStand
<1>1. IInv => RootsStand
  BY DEF IInv, RootInv, RootsStand
<1> QED
  BY <1>1, Invariant, PTL

\* The rows of build_advance_frames never panic the guest, and lead it to the
\* roots that the free gate expects.
THEOREM HostRowsAlwaysFold == Spec => []HostRowsFold
<1>1. IInv => HostRowsFold
  <2> SUFFICES ASSUME IInv, stage = "guest" PROVE HostRowsFold
    BY DEF HostRowsFold
  <2>1. CASE next <= Len(rows)
    <3> DEFINE row == rows[next]
               n == Put(folded, row.sw.key, row.new)
    <3>1. /\ row.sw.key \in Key /\ row.new \in Value \cup {Absent} /\ row.sw.key > last
          /\ StepTo(row.sw, row.rw, row.old, row.new, n)
      BY <2>1, RowIsNext
    <3>2. n \in Map(Value)
      <4>1. folded \in Map(Value) /\ Absent \notin Value
        BY FramesAssumption DEF IInv, TypeInv
      <4> HIDE DEF row
      <4> QED BY <3>1, <4>1, PutType
    <3>3. Root(n) # Panic /\ Root(Registry(n)) # Panic
      BY <3>2, RegistryType, FramesAssumption
    <3> QED
      BY <2>1, <3>1, <3>3 DEF HostRowsFold, StepTo
  <2>2. CASE ~(next <= Len(rows))
    <3>1. rows \in Seq(RowSet) /\ next \in Nat /\ next <= Len(rows) + 1 /\ touched = {}
      BY DEF IInv, TypeInv, GuestInv
    <3>2. next - 1 = Len(rows)
      BY <2>2, <3>1
    <3>3. folded = smt
      BY <3>2 DEF IInv, TreeInv, GuestInv
    <3>4. \A k \in Key : At(smt, k) = At(post, k)
      BY <3>1 DEF IInv, TreeInv
    <3>5. smt = post
      BY <3>4, SameAt, FramesAssumption DEF IInv, TypeInv
    <3>6. GatePasses /\ registryRunning = Root(registry)
      BY <3>3 DEF IInv, TypeInv, RootInv, RunOn, GatePasses
    <3> QED
      BY <2>2, <3>3, <3>5, <3>6 DEF HostRowsFold
  <2> QED
    BY <2>1, <2>2
<1> QED
  BY <1>1, Invariant, PTL

\* The witness of a committed tree leads the guest (apply_step of smt2.rs) to the
\* root of what the row writes, and no other one leads it anywhere else.
THEOREM StepsAlwaysExact == Spec => []StepsAreExact
<1>1. IInv => StepsAreExact
  BY TreeIsExact, RegistryType DEF IInv, TypeInv, StepsAreExact
<1> QED
  BY <1>1, Invariant, PTL
=============================================================================
