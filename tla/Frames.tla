------------------------------- MODULE Frames -------------------------------
(***************************************************************************)
(* How an epoch moves the two roots of the core: the state root, over the  *)
(* leaves of all accounts, and the accounts root, over their keys (the     *)
(* registry).  The host (frames.rs) makes a row for every account that an  *)
(* epoch touches, with a witness of its tree as the rows before have left  *)
(* it.  The guest (the tree fold of state_transition.rs) trusts neither    *)
(* row nor witness: it carries one running root per tree and applies row   *)
(* after row.                                                              *)
(*                                                                         *)
(* What the leaves are after an epoch is the subject of Engine; here it is *)
(* any map.                                                                *)
(***************************************************************************)
EXTENDS Smt2

CONSTANTS
    Value,          \* state leaves
    RegistryLeaf,   \* the leaf of every key in the registry
    NoWitness,      \* a row without registry witness
    SmtWitness,     \* witnesses that other provers may come with
    MaxRows         \* bound: rows of another prover's epoch

ASSUME FramesAssumption ==
    /\ Key \subseteq Nat
    /\ Absent \notin Value \cup {RegistryLeaf}
    /\ \A m \in Map(Value) \cup Map({RegistryLeaf}) :
          /\ Root(m) # Panic
          /\ \A k \in Key : Witness(m, k) # NoWitness
    /\ NoWitness \notin SmtWitness
    /\ \A w \in SmtWitness : WellFormed(w)
    /\ MaxRows \in Nat

VARIABLES
    leaves,             \* history: the map that the core's roots stand for
    root,               \* the state root of the core
    accountsRoot,       \* the accounts root of the core
    stage,              \* "idle", "host", "guest", or "other": another prover
    post,               \* the leaves that the host predicts
    touched,            \* keys that the host has yet to come to
    smt,                \* the host's tree of leaves
    registry,           \* the host's tree of keys
    rows,               \* the touched accounts in frame 0
    next,               \* the row that the guest comes to next
    running,            \* the guest's state root
    registryRunning,    \* the guest's accounts root
    last,               \* the key of the guest's row before, or -1
    folded              \* history: the leaves as the rows so far have set them

coreVars == <<leaves, root, accountsRoot>>
hostVars == <<post, touched, smt, registry, rows>>
guestVars == <<next, last, running, registryRunning, folded>>
vars == <<coreVars, stage, hostVars, guestVars>>

Registry(m) == [k \in DOMAIN m |-> RegistryLeaf]

NoLeaves == [k \in {} |-> Absent]

Init ==
    /\ leaves = NoLeaves /\ root = Root(NoLeaves) /\ accountsRoot = Root(NoLeaves)
    /\ stage = "idle"
    /\ post = NoLeaves /\ touched = {} /\ smt = NoLeaves /\ registry = NoLeaves
    /\ rows = <<>> /\ next = 1 /\ last = -1
    /\ running = root /\ registryRunning = accountsRoot /\ folded = NoLeaves

-----------------------------------------------------------------------------
(* The host makes the rows. *)

\* The epoch touches every account of the tree and the parties of its opens.
\* A registry that does not have the accounts root of the core ends the advance.
ResolveEpoch(new, keys) ==
    /\ stage = "idle"
    /\ DOMAIN leaves \cup DOMAIN new \subseteq keys
    /\ Root(Registry(leaves)) = accountsRoot
    /\ stage' = "host"
    /\ post' = new /\ touched' = keys
    /\ smt' = leaves /\ registry' = Registry(leaves) /\ rows' = <<>>
    /\ UNCHANGED <<coreVars, guestVars>>

\* Whether the account of a row comes or goes.
Membership(old, new) == (old = Absent) # (new = Absent)

\* Mutant: all witnesses are of the tree before the epoch.
RowOfPrior(k) ==
    LET old == At(leaves, k)
        new == At(post, k)
    IN  [old |-> old, new |-> new, sw |-> Witness(leaves, k),
         rw |-> IF Membership(old, new) THEN Witness(registry, k) ELSE NoWitness,
         before |-> smt]

\* The row of an account; before is a history field.
RowOf(k) ==
    LET old == At(leaves, k)
        new == At(post, k)
    IN  [old |-> old, new |-> new, sw |-> Witness(smt, k),
         rw |-> IF Membership(old, new) THEN Witness(registry, k) ELSE NoWitness,
         before |-> smt]

\* Mutant: every touched account has a row.
HasRowAlways(k) == TRUE

\* An account that is absent before and after has no row.
HasRow(k) == ~(At(leaves, k) = Absent /\ At(post, k) = Absent)

\* The least key that is left.
NextKey(k) == k \in touched /\ \A j \in touched : k <= j

StepRow(k) ==
    /\ stage = "host"
    /\ NextKey(k)
    /\ touched' = touched \ {k}
    /\ IF HasRow(k)
       THEN /\ rows' = Append(rows, RowOf(k))
            /\ smt' = Put(smt, k, At(post, k))
            /\ registry' = IF Membership(At(leaves, k), At(post, k))
                           THEN Put(registry, k, IF At(post, k) = Absent THEN Absent
                                                 ELSE RegistryLeaf)
                           ELSE registry
       ELSE UNCHANGED <<rows, smt, registry>>
    /\ UNCHANGED <<coreVars, stage, post, guestVars>>

-----------------------------------------------------------------------------
(* The guest applies them. *)

Start ==
    /\ next' = 1 /\ last' = -1 /\ running' = root /\ registryRunning' = accountsRoot
    /\ folded' = leaves

\* An epoch that would leave the state root as it is ends the advance.
Execute ==
    /\ stage = "host" /\ touched = {}
    /\ Root(smt) # root
    /\ stage' = "guest"
    /\ Start
    /\ UNCHANGED <<coreVars, hostVars>>

\* Mutant: an account that goes stays in the registry.
RegistryStepKeeping(rw, old, new) ==
    IF ~Membership(old, new) THEN IF rw = NoWitness THEN registryRunning ELSE Panic
    ELSE IF rw = NoWitness THEN Panic
    ELSE IF new = Absent THEN registryRunning
    ELSE ApplyStep(registryRunning, rw, Absent, RegistryLeaf)

\* A row has a registry witness if, and only if, its account comes or goes.
RegistryStep(rw, old, new) ==
    IF ~Membership(old, new) THEN IF rw = NoWitness THEN registryRunning ELSE Panic
    ELSE IF rw = NoWitness THEN Panic
    ELSE IF old = Absent THEN ApplyStep(registryRunning, rw, Absent, RegistryLeaf)
    ELSE ApplyStep(registryRunning, rw, RegistryLeaf, Absent)

StateStep(sw, old, new) == ApplyStep(running, sw, old, new)

\* The rows come in the order of their keys, one of a key.
FoldState(sw, old, new) ==
    /\ sw.key > last
    /\ StateStep(sw, old, new) # Panic
    /\ running' = StateStep(sw, old, new)
    /\ folded' = Put(folded, sw.key, new)
    /\ last' = sw.key /\ next' = next + 1

FoldRegistry(rw, old, new) ==
    /\ RegistryStep(rw, old, new) # Panic
    /\ registryRunning' = RegistryStep(rw, old, new)

FoldRow ==
    /\ stage = "guest" /\ next <= Len(rows)
    /\ LET row == rows[next]
       IN  FoldState(row.sw, row.old, row.new) /\ FoldRegistry(row.rw, row.old, row.new)
    /\ UNCHANGED <<coreVars, stage, hostVars>>

-----------------------------------------------------------------------------
(* Another prover makes rows of its own, of witnesses from anywhere. *)

ExecuteOther ==
    /\ stage = "idle"
    /\ stage' = "other"
    /\ Start
    /\ UNCHANGED <<coreVars, hostVars>>

FoldOther(sw, old, new) ==
    /\ stage = "other" /\ next <= MaxRows
    /\ FoldState(sw, old, new)
    /\ \E rw \in {NoWitness} \cup {w \in SmtWitness : w.key = sw.key} :
          FoldRegistry(rw, old, new)
    /\ UNCHANGED <<coreVars, stage, hostVars>>

-----------------------------------------------------------------------------
(* The epoch lands, or does not. *)

GoIdle ==
    /\ stage' = "idle" /\ post' = NoLeaves /\ touched' = {} /\ rows' = <<>>
    /\ smt' = NoLeaves /\ registry' = NoLeaves
    /\ next' = 1 /\ last' = -1

\* The free gate compares the state root with the predicted one, and not the
\* accounts root.
GatePasses == running = Root(smt)

Land ==
    /\ stage = "other" \/ (stage = "guest" /\ next > Len(rows) /\ GatePasses)
    /\ root' = running /\ accountsRoot' = registryRunning /\ leaves' = folded
    /\ GoIdle
    /\ UNCHANGED <<running, registryRunning, folded>>

Abandon ==
    /\ stage # "idle"
    /\ GoIdle
    /\ running' = root /\ registryRunning' = accountsRoot /\ folded' = leaves
    /\ UNCHANGED coreVars

Next ==
    \/ \E keys \in SUBSET Key : \E new \in Map(Value) : ResolveEpoch(new, keys)
    \/ \E k \in Key : StepRow(k)
    \/ Execute \/ FoldRow \/ ExecuteOther
    \/ \E sw \in SmtWitness : \E old, new \in Value \cup {Absent} : FoldOther(sw, old, new)
    \/ Land \/ Abandon

Spec == Init /\ [][Next]_vars

-----------------------------------------------------------------------------
(* Safety. *)

TypeOK ==
    /\ leaves \in Map(Value) /\ folded \in Map(Value)
    /\ stage \in {"idle", "host", "guest", "other"}
    /\ post \in Map(Value) /\ smt \in Map(Value) /\ touched \subseteq Key
    /\ registry \in Map({RegistryLeaf})
    /\ Panic \notin {root, accountsRoot, running, registryRunning}
    /\ last \in Key \cup {-1}
    /\ next \in 1..(IF stage = "other" THEN MaxRows ELSE Len(rows)) + 1

\* Whoever makes the rows, and of whatever witnesses, both roots of the core
\* stand for the same accounts, with the leaves that the rows have set.
RootsStand ==
    /\ root = Root(leaves)
    /\ accountsRoot = Root(Registry(leaves))

\* The rows of the host never panic the guest, and lead it to the prediction,
\* with the accounts root too, which no gate compares.
HostRowsFold ==
    stage = "guest" =>
       IF next <= Len(rows)
       THEN LET row == rows[next]
            IN  /\ row.sw.key > last
                /\ StateStep(row.sw, row.old, row.new) # Panic
                /\ RegistryStep(row.rw, row.old, row.new) # Panic
       ELSE GatePasses /\ registryRunning = Root(registry) /\ folded = post

\* w, also for another key, or with the proof of another sibling's kind.
Altered(w) ==
    {w} \cup {[key |-> k, siblings |-> w.siblings, terminal |-> w.terminal, kind |-> kind] :
                 k \in Key, kind \in {w.kind} \cup {w.siblings[i] : i \in DOMAIN w.siblings}}

\* A step on the root of m, a map into V: with the witness of m it gives the
\* root of m with the key written; with any other witness it gives the same
\* root, from a true claim of what was at the key, or panics.
ExactAt(m, V) ==
    /\ \A k \in Key, new \in V \cup {Absent} :
          At(m, k) # Absent \/ new # Absent =>
             ApplyStep(Root(m), Witness(m, k), At(m, k), new) = Root(Put(m, k, new))
    /\ \A w \in SmtWitness : \A v \in Altered(w) : \A old, new \in V \cup {Absent} :
          \/ ApplyStep(Root(m), v, old, new) = Panic
          \/ /\ old = At(m, v.key)
             /\ ApplyStep(Root(m), v, old, new) = Root(Put(m, v.key, new))

\* No witness, not even one that is made up of those of other trees and keys,
\* leads the guest from the committed roots to roots that stand for no map, or
\* for another than the rows write; the witness of the committed map leads it.
StepsAreExact ==
    stage = "idle" => ExactAt(leaves, Value) /\ ExactAt(Registry(leaves), {RegistryLeaf})
=============================================================================
