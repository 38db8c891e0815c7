-------------------------------- MODULE Core --------------------------------
(***************************************************************************)
(* The on-chain core, as far as the keeper depends on it.  Its contract is *)
(* not in the repository: what it promises is read off the calls the       *)
(* keeper makes (chain.rs), the events it replays (scan.rs), the public    *)
(* values it is handed (pv.rs) and the re-asserts the guest relies on      *)
(* (open_lock.rs:4-7, constants.rs:20).                                    *)
(*                                                                         *)
(* A root is modelled by the tree it commits to: the commitment is taken   *)
(* to be injective, so comparing roots is comparing trees.  How an epoch   *)
(* changes a tree is left to operator constants: Predict (the host's       *)
(* resolve_epoch), Execute (the guest program) and Replay (rebuild, which  *)
(* recovers a fold's inputs from its public values and the events); module *)
(* Engine says what they compute, MC modules give small instances.         *)
(*                                                                         *)
(* A pause change and a fold are never in one block here: the replay reads *)
(* the pause at the end of the block before, module Lane has the blocks.   *)
(***************************************************************************)
EXTENDS Integers, Sequences, FiniteSets

CONSTANTS
    OpenId,             \* terms ids of the trades that openLock may bind
    Price,              \* what a bound TWAP carries
    NoPrice,            \* the epoch has no fresh mark
    Tree,               \* the state trees
    EmptyTree,          \* the tree the core is deployed with
    NoTree,             \* no tree: the guest panicked, or the replay bailed
    Predict(_, _),      \* tree, inputs -> the tree the host predicts
    Execute(_, _),      \* tree, inputs -> the tree the guest commits
    Replay(_, _, _),    \* tree, inputs, pause read from the events -> the tree
                        \* that a later scan makes of a landed fold
    Holds(_, _),        \* tree, inputs -> the epoch holds a seat over a pause
    Foreign(_),         \* tree -> the trees reached from it by handoff rows
    Registry(_),        \* the account registry of a tree (accountsRoot)
    MAX_PROOF_STALENESS,    \* how old the clock of an accepted proof may be
    MaxTime,            \* bound: values of the clock
    MaxBinds,           \* bound: TWAP bindings and mark expiries in a behaviour
    MaxPauses,          \* bound: pause changes
    MaxRotations,       \* bound: changes of the core's verifier key
    MaxForeign          \* bound: folds that carry handoff rows

\* One epoch's inputs (EpochInputs): the opens, the price its marks and settle
\* prices stand for, whether the pair of the lane is paused, the proof clock.
Inputs == [opens : SUBSET OpenId, price : Price \cup {NoPrice},
           paused : BOOLEAN, now : 0..MaxTime]

\* What applyState is handed: the roots, openedPositionIds, the consumed price,
\* the pause and the clock of the public values, which the proof binds to one
\* execution of a guest of one generation, and whether novation, closeout or
\* unwind rows come with them.
PublicValues == [prev : Tree, new : Tree, in : Inputs, rows : BOOLEAN,
                 gen : 0..MaxRotations]

ASSUME TreeAssumption ==
    /\ EmptyTree \in Tree
    /\ NoTree \notin Tree
    /\ \A t \in Tree : Foreign(t) \subseteq Tree
    /\ \A t \in Tree, in \in Inputs :
          /\ Predict(t, in) \in Tree
          /\ Execute(t, in) \in Tree \cup {NoTree}
          /\ Holds(t, in) => in.paused

ASSUME BoundAssumption ==
    /\ MAX_PROOF_STALENESS \in Nat /\ MaxTime \in Nat
    /\ MaxBinds \in Nat /\ MaxPauses \in Nat
    /\ MaxRotations \in Nat /\ MaxForeign \in Nat

-----------------------------------------------------------------------------
VARIABLES
    root,       \* the committed tree: the CAS register of applyState
    folds,      \* RootAdvanced events with their calldata, in chain order
    pausedAt,   \* for each fold, the pause in force when it landed
    bound,      \* ids of the TermsOpened events
    opened,     \* opened[id]: set by openLock, consumed by the fold of id
    mark,       \* the latest bound price that is still fresh, or NoPrice
    prices,     \* every price ever bound (boundTwap never forgets one)
    binds,      \* how many bindings and expiries have happened
    paused,     \* the pair is paused (its last MarketSet)
    pauses,     \* how many pause changes have happened
    clock,      \* block time, which is the time of the keepers' hosts too
    gen         \* the generation (imVkey and scenarioRoot) the core verifies

treeVars == <<root, folds, pausedAt>>
openVars == <<bound, opened>>
priceVars == <<mark, prices, binds>>
pauseVars == <<paused, pauses>>
coreVars == <<treeVars, openVars, priceVars, pauseVars, clock, gen>>

\* The generation every keeper of this build is pinned to (chains.json).
PinnedGen == 0

FoldedIds == UNION {folds[i].in.opens : i \in DOMAIN folds}

CoreTypeOK ==
    /\ root \in Tree
    /\ folds \in Seq(PublicValues)
    /\ pausedAt \in Seq(BOOLEAN) /\ Len(pausedAt) = Len(folds)
    /\ bound \subseteq OpenId
    /\ opened \subseteq OpenId
    /\ mark \in Price \cup {NoPrice}
    /\ prices \subseteq Price
    /\ binds \in 0..MaxBinds
    /\ paused \in BOOLEAN
    /\ pauses \in 0..MaxPauses
    /\ clock \in 0..MaxTime
    /\ gen \in 0..MaxRotations

CoreInit ==
    /\ root = EmptyTree
    /\ folds = <<>> /\ pausedAt = <<>>
    /\ bound = {} /\ opened = {}
    /\ mark = NoPrice /\ prices = {} /\ binds = 0
    /\ paused = FALSE /\ pauses = 0
    /\ clock = 0
    /\ gen = PinnedGen

-----------------------------------------------------------------------------
\* Two parties bind a trade: TermsOpened is emitted and opened[id] is set.
OpenLock(o) ==
    /\ o \notin bound
    /\ bound' = bound \cup {o}
    /\ opened' = opened \cup {o}
    /\ UNCHANGED <<treeVars, priceVars, pauseVars, clock, gen>>

\* A TWAP is bound for the feed; it is the newest, so it is the fresh mark.
BindTwap(p) ==
    /\ binds < MaxBinds
    /\ binds' = binds + 1
    /\ mark' = p
    /\ prices' = prices \cup {p}
    /\ UNCHANGED <<treeVars, openVars, pauseVars, clock, gen>>

\* Two hours pass without a binding: mark_fresh no longer accepts the price.
MarkGoesStale ==
    /\ binds < MaxBinds
    /\ mark # NoPrice
    /\ binds' = binds + 1
    /\ mark' = NoPrice
    /\ UNCHANGED <<treeVars, openVars, prices, pauseVars, clock, gen>>

\* MarketSet pauses or resumes the pair.
FlipPause ==
    /\ pauses < MaxPauses
    /\ pauses' = pauses + 1
    /\ paused' = ~paused
    /\ UNCHANGED <<treeVars, openVars, priceVars, clock, gen>>

Tick ==
    /\ clock < MaxTime
    /\ clock' = clock + 1
    /\ UNCHANGED <<treeVars, openVars, priceVars, pauseVars, gen>>

\* The owner publishes another verifier key and scenario table.
Rotate ==
    /\ gen < MaxRotations
    /\ gen' = gen + 1
    /\ UNCHANGED <<treeVars, openVars, priceVars, pauseVars, clock>>

-----------------------------------------------------------------------------
\* What applyState answers to public values in the present state: the CAS, the
\* verifier key, and what the guest leaves to the contract to re-assert - the
\* open marks, the bound prices, the pause a held seat relies on, and the age
\* of the proof clock.
Verdict(pv) ==
    IF pv.prev # root THEN "StaleRoot"
    ELSE IF \/ pv.gen # gen
            \/ ~(pv.in.opens \subseteq opened)
            \/ pv.in.price \notin prices \cup {NoPrice}
            \/ Holds(pv.prev, pv.in) /\ ~paused
            \/ clock - pv.in.now > MAX_PROOF_STALENESS
         THEN "rejected"
    ELSE "ok"

\* applyState succeeds: the CAS moves the root and the open marks are spent.
Accept(pv) ==
    /\ Verdict(pv) = "ok"
    /\ root' = pv.new
    /\ folds' = Append(folds, pv)
    /\ pausedAt' = Append(pausedAt, paused)
    /\ opened' = opened \ pv.in.opens
    /\ UNCHANGED <<bound, priceVars, pauseVars, clock, gen>>

\* Public values of an epoch of handoff rows on the present tree.
HandoffValues(new) ==
    [prev |-> root, new |-> new, rows |-> TRUE, gen |-> gen,
     in |-> [opens |-> {}, price |-> NoPrice, paused |-> FALSE, now |-> clock]]

\* Another prover's fold: applyState is permissionless, and a guest of the
\* generation that the core verifies takes rows that this host neither builds
\* nor replays.
ForeignFold(new) ==
    /\ Cardinality({i \in DOMAIN folds : folds[i].rows}) < MaxForeign
    /\ new \in Foreign(root) \ {root}
    /\ Accept(HandoffValues(new))

CoreEnvironment ==
    \/ \E o \in OpenId : OpenLock(o)
    \/ \E p \in Price : BindTwap(p)
    \/ MarkGoesStale
    \/ FlipPause
    \/ Tick
    \/ Rotate
    \/ \E t \in Foreign(root) : ForeignFold(t)
=============================================================================
