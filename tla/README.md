# A verification of state-keeper

`state-keeper` is the one-step prover of a CRX lane. It rebuilds a book of
bilateral FX forwards from the events of a core contract, predicts the next
epoch of that book, proves it, and submits the proof with a compare-and-swap on
the committed root. This directory holds TLA+ modules of the keeper and of the
engine it drives, TLC configurations that check them on small instances, and
proofs that TLAPS checks for all instances.

Paths below are relative to `src/crates/` unless they start with `src/`.

## 1. The system

### Components

| component | code | state it keeps | operations |
|---|---|---|---|
| keeper CLI | `state-keeper/src/main.rs`, `chain.rs`, `gate.rs` | none between invocations; inside one: attempt, chain snapshot, history, replayed tree, proof | `advance`, `rebuild`, `verify` |
| submission | `state-keeper/src/submit.rs` | none; a transaction it sent lives on in the mempool | estimate, send, await the receipt |
| event scan | `crx-tree/src/scan.rs`, `events.rs` | none | page the logs, fetch calldata, decode, derive unfolded opens and paused pairs |
| replay | `crx-tree/src/replay.rs` | the replayed tree | `resolve_epoch`, `fold_inputs`, `rebuild` |
| frames | `crx-tree/src/frames.rs` | none | predict, check the registry, build witnesses and the 13 guest inputs |
| public values | `crx-tree/src/pv.rs` | none | decode the 15 rows |
| proof execution | `prove-exec/` | none | free execution, network proof |
| engine | `vendor/crxvm/` | the book: per party a cumulative VM and its seats | opens, marks, settlement, valves, novation, closeout, unwind, scenario margin |
| sparse Merkle tree | `vendor/im-state/` | keys and leaves | root, witness, step |
| hashing, math, calibration, types | `vendor/im-crypto`, `im-math`, `im-calibration`, `im-types` | none | Keccak layouts, wide arithmetic, the scenario table |
| core contract | not in the repository | root, `opened` marks, bound TWAPs, market flags, pins | `openLock`, TWAP binding, `applyState` |

### How they interact

`advance` reads six pins of the core (`chain.rs:81-92`), scans every event since
deployment, replays all folds through the engine, and compares the replayed root
with the root it read. It then chooses the inputs of the next epoch (all
unfolded opens, the newest fresh mark per feed, the settle prices of due seats,
the paused pairs), lets the host predict the new root, executes the guest for
free and compares, pays for a network proof, reads the root again, estimates,
sends, and awaits a receipt. A root that moved is a *rebase*: at most
`MAX_REBASE` attempts. Keepers share nothing but the chain. Whatever one keeper
lands is what every other keeper must replay from then on: there is no other
source of the book.

### What is hard

* **Interleaving.** Between any two RPCs of one keeper others land folds. The
  chain snapshot is torn (six calls), it is older than the scan, and the scan is
  minutes older than the submission.
* **Fate of transactions.** A keeper may die, lose its RPC, or be told "already
  known" while its transaction is in the mempool; the next invocation then races
  its own past.
* **Three versions of one epoch.** The host predicts it (`resolve_epoch`), the
  guest proves it (`state_transition`), every later keeper replays it
  (`fold_inputs` and `resolve_epoch`) from public values which leave out the
  pause set, the marking flag and the rejected opens. One disagreement halts
  every keeper for good.
* **Two seats, two rows.** A trade is two records in two accounts that are
  resolved one by one, from prices filtered per account.
* **Seats that move.** A handoff gives one of the two records to a third party
  under a new id and leaves the other as it is; everything that later finds a
  seat by its id, its owner or its counterparty has to get that right.
* **Pages of a moving chain.** The history is fetched page by page and decoded
  from the calldata of transactions that other people composed.
* **Two trees, one row.** A row moves the state tree and, if its account comes or
  goes, the registry; the host makes each witness of the tree that the row before
  has left, and one wrong level stops every later epoch.

### What makes each component correct

* keeper: it never lands a fold on a stale root, nor one that a later scan cannot get
  past for another reason than the replay's own; retries, give-ups and wasted proofs are
  caused by others only; every invocation ends; every bound trade is folded in the end,
  unless something blocks the lane.
* replay: it reproduces every landed fold. It does not: which folds it fails on is what
  the model says exactly.
* engine: both seats of a trade live and die together; a trade is paid at most
  once, by the party that lost it, and is gone when it was paid; the VM of a party is that of its live
  seats and the VM of a lane sums to zero; the host and the guest accept the
  same epochs.
  Handed on, a trade keeps one seat per leg and is paid off once; margin
  requirements follow the books.
* scan: the history is that of the core at one block, or a refusal, which is for good.
* frames and trees: the rows of the host lead the guest to the prediction; no
  row of anybody leads it to a root that stands for other accounts.
* audit (`rebuild`): an alarm has a cause.

## 2. The modules

```
Core ----------- Keeper ---- MCKeeper (audit, live, mined, rebase)
                   |  \
  TreeLane --------+   Keeper_proofs
  (abstract, INSTANCEd)

History -------------------- MCHistory (scan)
   |  \
   |   History_proofs
  Snapshot (abstract, INSTANCEd)

Engine --------- Lane ------ MCLane (pairs, rejected, settled, execute)
   |  \            \
   |   \            Lane_proofs       (with Engine_proofs, SumTheorems)
   |   Engine_proofs
   |
   +------------ Handoff --- MCHandoff (handoff, winner)
                    \
                     Handoff_proofs    (with Engine_proofs, SumTheorems)

Smt2 ----------- Frames ---- MCFrames (frames)
   \               \
    Smt2_proofs ---- Frames_proofs
```

The layers meet in what they take from one another: `Keeper` takes the engine as
operator constants and a scan as one step; `History` shows what the scan returns,
`Engine` and `Lane` what the engine computes, `Frames` how the accounts that it
computes become the two roots.

### Core

What the keeper can know of the contract: the root (as the tree it commits to:
the commitment is taken to be injective), the list of landed folds with their
public values, bound trades, the `opened` marks, bound prices, the fresh mark, the
pause, the clock, and the generation (verifier key and scenario root). `Verdict` is the
answer of `applyState`: `StaleRoot` comes first, then the re-asserts on the generation,
the `opened` marks, the consumed price, the pause that a held seat relies on
(`completeness.rs:11-14`) and the age of the proof clock (`constants.rs:20`). The
contract's source is not part of the repository; the definitions that stand for it are
read off its use in `src/` and are marked external in `PROJECT.json`. How an epoch changes a tree is left to
operator constants: `Predict` for the host, `Execute` for the guest, `Replay` for what a later
scan makes of the landed fold, with the pause it reads from the events. They are
different constants so that the free execute gate has something to catch and the replay
something to fail on; `Engine` says what they compute and `Lane` where they differ.
`ForeignFold` is a fold with novation, closeout or unwind rows of another prover.

A pause change and a fold are not in one block here: the replay of a fold is given the
pause of the block before, and that there are blocks is left to `Lane` and `History`.

### Keeper

One process per keeper or auditor. `pc` names the RPC that comes next; an action
is one RPC together with all local computation up to the next one.

| action | code |
|---|---|
| `Invoke` | start of `cmd_advance` / `cmd_rebuild` |
| `ReadRoot`, `ReadRest` | `chain.rs:81-92` (first call; the others), pins at `main.rs:247-256` |
| `Scan` | `scan.rs` `scan`, `replay.rs` `rebuild`, root comparison `main.rs:258-268`, inputs, frames, free gate, start of the proof, up to `main.rs:315` |
| `Audit` | `cmd_rebuild`, `main.rs:118-146` |
| `ProofArrives`, `Reread` | `main.rs:310-326` |
| `Estimate`, `Send`, `SendRefused`, `Receipt` | `submit.rs:54-87` and its callers `main.rs:328-350` |
| `Fault` | any `?` on an RPC or on the prover (`main.rs:245-337`), or a killed process |
| `Include`, `IncludeOrphan` | a block takes a transaction, awaited or not |

The ways an invocation can end are the values of `outcome`. `Replays` is whether the scan
gets past all folds: each is of the local generation (`replay.rs:251-258`), without
handoff rows (`:309-314`), without opens that `open_to_new_position` refuses
(`:325`), starts where the one before ended, and commits what `Replay` makes of it, which stands
for `fold_inputs`, `resolve_epoch`, the comparison of the processed ids and of both
roots (`:259-299`). `Unfit` opens end an advance before the registry is compared.
`paid`, `since` and `readAt` are history variables.

Simplifications: the scan is one step (its head is fixed by its first call; that
this is what a paged scan amounts to is `History!ReadsSnapshot`); an epoch has at most one price; `Fault` does not
say which call failed; `verify`, which only reads and prints, is left out.

### TreeLane

The abstract specification of what keepers do together: the committed tree
moves by whole epochs, each on bound trades that no epoch took before, at a bound
price, to the tree that the engine computes, or by handoffs, which take no trade. `Keeper!ImplementsLane` is the
refinement: `tree` is the root, `folded` the ids in landed folds.

### History and Snapshot

`History` is the scan (`scan.rs`, with the calldata decoding of `events.rs`) while the
chain grows, and all that the keeper derives from it.

| action | code |
|---|---|
| `Emit`, `Seal` | the core; a transaction carries several `openLock` calls (a Safe batch), of other trades or with other signatures, one, none (a contract that makes the call itself), or an `applyState` that is plain or not; or an event with a topic the scan asks for does not decode |
| `Begin` | the head is read, `scan.rs:91-96` |
| `GetLogs` | one page, `scan.rs:97-111` |
| `Decode` | sort, decode, refuse or answer, `scan.rs:112-176`; then the inputs of the next epoch, `main.rs:174-235` |
| `Abort` | an RPC fails |

Fetched logs are kept with their multiplicity, so that a page that overlaps its
neighbour, or leaves a gap, shows. `Derived` is what the command makes of the history:
unfolded opens with their signatures, the pause set of now and the one that
`fold_inputs` gives each fold, the newest price of each feed with its sign, and the
refusal of terms that do not fit (`replay.rs:50-60`), of a trade that waits or of one that
another prover has folded: the guest takes data that are too short for a rate of zero
(`encoding.rs:83-86`), and rejects and consumes the trade (`open_lock.rs:183-203`). A
quantity or a rate over 128 bits has no place in its records. The signatures of an open
are searched for in the calls of its transaction, and the first call with its id is taken
(`OpenSigs`). A market is an instrument and a pair, and the keeper keeps pauses by
pair (`PairsOf`). A transaction does not change
once its block is sealed, so the fetches of calldata belong to the step that decodes.

`Snapshot` is the abstract promise: a reader asks, the core goes on, and the
answer, if there is one, is what the core held when the question was asked.
`ReadsSnapshot` is the refinement; its `core` is what the events of sealed blocks
have left behind, its `taken` that of the head that was read first. The core knows of
each open whether a call with other signatures stands before the verified one in its
transaction (`hidden`), since that is the one case in which a reader is told other
signatures than the core verified.

### Engine

One epoch of the book in the three versions: `ResolveEpoch` (host),
`StateTransition` with `GuestPanics` (guest), `Replay` with `FoldInputs` (later
keepers). The operators they share are the vendored functions: `Seat`
(`open_lock.rs`), `Admitted`, `Settling`, `VmFromMarks`, `SettlementsOf`
(`settlement.rs`, `resolve.rs`), the valves of `completeness.rs`. Settle prices
are lists in the code whose multiplicities matter, so they are functions from
prices to counts; marks are deduplicated and are a set.

Abstractions: prices are on the position scale (no exponents, no saturation);
a signature is the question whether it recovers to the party; the scenario part of
the margin floor is not there. Handoffs and unwinds are in `Handoff`.

### Lane

A lane over time: clock and blocks, TWAP bindings, pauses, opens, one proof in
flight, and `Land`. `book` is what the core's root commits to, `rebuilt` is the
replay of the landed folds or `Panic`, `ledger` the cash of every fold. `Advance` is
what a keeper of this repository does and needs the replay;
`AdvanceUnreplayed` is a prover that keeps the book itself, so that the lane goes
on after the replay has failed and the properties of the engine are examined
beyond that point. `share` and `carried` are history variables.

### Handoff

The rows that other provers may put into an epoch and this repository's keepers do
not: novations, closeout novations, unwinds. The guest proves them, and the
vendored engine is what every keeper runs. The loops of `state_transition.rs` are
actions: `Resolve` (valves, opens, unwind pre-pass, settle split, residuals),
`Novate` (`:345-360`) and `CloseOut` (`:362-386`), any number of each and in this
order, over `Move` (`apply_handoff_move`, `:489-521`), then `Commit` with the
requirement rows (`:388-412`). The id of a seat that was handed on is the hash of
the old id and the new holder; here it is the sequence of the trade and the parties it was
handed to. `required` is what the core keeps of the requirement rows: it overwrites what
has a row and nothing else. Consents are choices (an entry of the forced kind needs none
at all, `handoff.rs:73-87`), marks and VM are left out, and so is
the cash that A and C pay each other, which is one computation on its witness.
An epoch of the model has at most one unwind. `crossed` is the history of trades in which a
party was handed the seat that faces it. `LegsBalance`, `ResidualOnce` and `UnwindTakesBoth`
except these: the party can unwind the one seat with itself, alone, although
`state_transition.rs:262` says that both seats leave together.

### Smt2 and Frames

`Smt2` has the tree of `im-state/src/smt2.rs` as pure operators: canonical root,
witness, and `ApplySmtStep`, the guest's step, which trusts nothing in the witness: the
claim of presence or absence, the fold to the running root, the split of two leaves at
their first differing bit, and the delete that lets a lone leaf rise. A hash is its
preimage, and so the proof of a sibling's kind is the sibling itself. The roots of
subtrees are a recursive function of the number of bits that are left below them
(`Roots`), and the fold of a witness one of the level it has come to (`FoldUp`). The
split is that fold too, with the other leaf and the empty levels in front of the siblings
(`SplitSiblings`).

`Frames` is how an epoch moves the two roots. The host makes a row for each touched
account in the order of the ids (`StepRow`, `frames.rs:60-79`): the witness is of the
tree as the rows before have left it, the registry has a witness if, and only if,
the account comes or goes, and an account that is absent before and after has no
row. The guest folds row after row (`FoldRow`, `state_transition.rs:418-444`), panics
or not, and `Land` replaces the roots. `FoldOther` is a row of another prover, with
witnesses of any tree. What the leaves become is any map: that is the engine's
affair. Keys are numbers, in whose order the rows come, and the tree knows a key by its
bits (`KeyBit`).

## 3. What is checked

### Passing runs

| run | question | instance |
|---|---|---|
| `rebase` | do racing keepers implement the lane; does a scan get past every fold that the replay itself reproduces; are retries, paid proofs, give-ups, registry drifts and proofs with spent opens always explained by folds in between, although transactions outlive their keepers? (`ImplementsLane`, `TreeIsReplay`, `RetriesAreRaces`, `GaveUpMeansOvertaken`, `DriftMeansReturn`, `StaleOpensMeanReturn`, `OpenMarksMatchEvents`) | 2 keepers, 1 trade, a price that closes trades, 2 bindings, 1 foreign fold, clock 0..1 with proofs that may not age, 1 fault |
| `audit` | does an audit raise an alarm only when a fold landed while it read, and what wastes a proof? (`AlarmMeansOvertaken`, `ProofsAreLostToChange`) | 1 keeper, 1 auditor, 2 trades of which one is unfit, 1 key rotation, 2 pause changes, clock 0..2 with proofs that may be 1 old, 1 fault |
| `live` | does every invocation end, and is every trade folded unless the lane is blocked? (`Terminates`, `EveryOpenFolds`) | 2 keepers, 1 trade, a mark that binds and goes stale, a guest that refuses the first open while it is fresh, 1 fault |
| `scan` | is a paged scan of a growing chain a snapshot, and a refusal for good? (`ReadsSnapshot`, `RefusalsAreForGood`) | 3 events in up to 3 blocks, pages of 2 blocks, 3 trades of which one has short data and one is oversize, 5 kinds of calldata, prices of either sign |
| `pairs` | do books stay matched, is cash paid once, by the loser and for retired trades only, is the VM of an account that of its live seats and that of the lane zero, and for which folds does the replay fail? (`BooksMatched`, `PaidOnce`, `PaidMeansRetired`, `VmIsShares`, `VmZeroSum`, `ReplayFailsOnlyFor`) | 3 parties, 2 of 3 trades, on 2 pairs or on one, expiries 1 and 3, 3 TWAPs of 2 rates, 1 pause change, clock 0..3 |
| `handoff` | do seats that are handed on stay single and balanced, is a trade paid off once, do requirements follow the books, does an unwind take both legs? (`LegsAreSingle`, `LegsBalance`, `ResidualOnce`, `RequirementsFollowBooks`, `UnwindTakesBoth`) | 3 parties, 2 trades between the same two, chains of 2 handoffs, 2 TWAPs, 1 pause change |
| `frames` | do the host's rows lead the guest to the prediction, do the roots of the core always stand for the accounts written, is every step of the tree exact? (`HostRowsFold`, `RootsStand`, `StepsAreExact`) | 4 keys of 3 bits, 2 values, epochs of the host of any size, epochs of others of 2 rows |

**Why the bounds are enough.** The keeper's loop differs in three cases only:
first attempt, an attempt in between, last attempt. `MAX_REBASE = 2` has the
first and the last; the proofs do not depend on its value. The audit has one keeper, whose
former invocations race with it through the mempool, and two trades, so that it can
have a fit one folded before the unfit one is bound; three clock values let a proof that
may be 1 old become too old. Two keepers are needed
for a race and one is always enough to overtake another, as it can be
invoked again and again. Two bindings let the tree leave a root and come back,
which is what `DriftMeansReturn` and `StaleOpensMeanReturn` are about (for that reason the
`Replay` of the instance fails on rejected opens and not, as the real one does, on
settlements too: the keepers would stop before the tree is back); one fault is enough to leave a
transaction behind, and the restarted keeper makes the second one. In the lane two
trades with a common party are the smallest book in which an account has a seat
that settles and one that survives, in which rows differ between parties, and in
which a mark binds seats of several accounts; the run has three trades and opens any
two (`MaxOpens`), so that the two are on one pair, marked together, or on two, paused
apart; two expiries separate a settling
epoch from a marking one; three TWAPs are a mark that is replaced and a settle
price, or one for each expiry. Quantity 3 and entry 2 make the truncation in
`PositionVm` bite. Pages of two blocks over three give a full page, a short one and a
boundary that moves with the head; two trades in one transaction are the least for
which signatures can be mixed up. A second trade between the same parties makes a
netting set that an unwind empties in part, and a chain of two handoffs has a holder
that is neither the first nor the last. Keys 0, 1, 2 and 4 of three bits have a leaf
that rises past an empty level, one that rises part of the way, a sibling that is a
node and stays, and a split below empty levels; two rows of another prover are a
stale second row. Keepers and trades are symmetric in the runs that say so; none
of these states a liveness property.

**Deadlock** is checked in every run; there is always another invocation or
block.

**Fairness.** `RunsOn`: a process that was started goes on (its RPCs answer or
fail; a prover that never answers would be stopped by its own timeout), and blocks
keep including what nodes took. `KeepsStarting`: somebody starts the keepers again,
as the CLI makes one step per invocation and exits (`main.rs:71`). Nothing is
assumed of faults, of opens or of prices. `Terminates` also holds without
`KeepsStarting`, `EveryOpenFolds` does not. Weak fairness on the disjunction
`Step(k)` is all the code gives: no particular keeper is promised to win.

`EveryOpenFolds` is conditional, because the code gives no more: a trade is folded if
from some time on the lane is not `Blocked`. `Blocked` names what stops every keeper:
another generation, a fold that does not replay (`rejected`, `settled`), unfit terms
among the waiting trades, an epoch that would change nothing (`main.rs:281`: a lone trade that
expired before it was folded) or that does not pass the free gate (`execute`). In
the run a fresh mark blocks the lane until it goes stale, and it may never do so; the
run has no clock, pauses or unfit trades. What remains to be shown, and is, is that
races, faults and transactions of former invocations do not keep a trade out for ever.

### Runs that end in a violation

Each checks one statement of the repository about itself. The traces are short;
`PROJECT.json` "findings" quotes the lines.

| run | statement | what happens |
|---|---|---|
| `mined` | `SubmitOutcome::Mined`: "Mined and succeeded" (`submit.rs:15`) | a transaction the node already knew is reported as mined and later loses the CAS |
| `rejected` | "the pre-pass must have processed exactly the ids the fold surfaced" (`replay.rs:272`) | `resolve_epoch` lists a rejected open twice, `opened ++ rejected`, so the replay of its fold fails for every keeper, for good |
| `settled` | the replay folds "the chain's own history" (`replay.rs:1`) | a settle price is surfaced once per seat, hence twice per trade, and the uniqueness assertion stops the replay of the first settlement, for good |
| `execute` | "the guest's own Stage-3 pipeline" (`replay.rs:106`) | the host has none of the valves: the first open of an account is predicted while a mark of its pair is fresh, and the guest refuses it |
| `winner` | the residual moves "loser out = gross, winner in = gross" (`resolve.rs:8`) | the payee is the counterparty written in the loser's seat; when the winning seat was handed on, the party that has left is paid |

`ReplayFailsOnlyFor` is the positive counterpart of `rejected` and `settled`:
folds of these two kinds are the only ones the replay fails on. `ResidualOnce` is
that of `winner`: it says whom the code does pay.

More disagreements were met and have no run of their own:

* "if another keeper lands first, the step rebases and retries" (`src/README.md:20`):
  only estimate and send look for `StaleRoot`; a race lost in the block is a reverted
  receipt and ends the command. `ProofsAreLostToChange` covers both ends.
* `open_to_new_position` refuses a trade with data shorter than a word, which the guest takes
  for a rate of zero, rejects and consumes. Once another prover has folded such a trade, no
  keeper of this repository gets past that fold (`fold_inputs`, `replay.rs:325`;
  `RefusalsAreForGood`).
* `open_sigs` takes the first call for a trade in the calldata, whether or not it is the one
  that was executed. If its signatures are not the verified ones, the guest does not take
  them, and the free gate stops every advance that has the trade (`hidden` in
  `ReadsSnapshot`).
* the guest keeps pauses by instrument and pair, `paused_pairs_at` by pair alone. With the one
  live instrument they agree, and `HistoryAssumption` says that there is one.
* "survivors only" (`resolve.rs:36`): in an epoch without marks the whole prior VM is
  carried, that of a settled seat included. `VmIsShares` has the exception: apart
  from such epochs the VM is exact.
* `cmd_rebuild` reads the root before the scan and does not look again, so a fold in
  between is reported as `REBUILD MISMATCH` although nothing drifted
  (`AlarmMeansOvertaken` says that this is the only way).
* `assert_unique_terms_id` (`completeness.rs:155`) takes ids in a book to be unique.
  Both seats of one trade handed to the same party in one epoch get the same new id
  there, and the guest panics on every later epoch that touches the account
  (`Handoff!DuplicateId`).
* "One per touched netting set" (`im-types/src/lib.rs:86`): zero rows are made for
  unwinds only. A netting set that a settlement or a handoff empties keeps its
  requirement at the core (`lapsed` in `RequirementsFollowBooks`).
* an unwind of a paused pair is surfaced, and both seats are kept; a voluntary novation takes any IM
  for C, zero too, while a closeout asserts that it is positive. A closeout is of the first
  party's seat under its first id: a seat that was handed on, or the second party's, cannot be
  closed out. A party that was handed the seat that faces it can unwind the one with itself alone
  (`crossed`).
* no gate compares the accounts root with the prediction: `AdvanceFrames` has
  `predicted_accounts_root`, which only a test reads. `HostRowsFold` shows that it is
  always right.
* the prefix check of an absence witness (`smt2.rs:177-192`) is redundant on a canonical
  root: without it `StepsAreExact` still holds in the instance of the run.
* `open_lock.rs:4-10` wants an empty signature for a desk that consents by ERC-1271,
  while `replay.rs:79` passes on what the calldata has; `Engine!Authentic` has the case, but
  what the contract takes as calldata is not visible here.

## 4. What is proved

All theorems are for arbitrary sets of processes, trees, trades, prices and
parties, arbitrary terms and arbitrary bounds; the assumptions are the named
`ASSUME`s of the modules, which TLC evaluates in the runs.

### Keeper_proofs

* `TypeCorrect`: the type invariant.
* `PaidProofsAreSound`: the strengthening everything else rests on. A proof that
  is being made, submitted or left in the mempool has as its new tree what
  `Predict` gives for its old tree and its inputs, another one than the old, carries no
  handoff rows and no unfit trades, and is of the pinned generation. It is inductive because
  the only step that creates a proof is behind the local checks and the free execute gate.
* `MarksMatchEventsAlways` (`OpenMarksMatchEvents`): the `opened` marks are the bound ids
  less the folded ones, in the presence of folds of anybody.
* `ReplayCorrect` (`TreeIsReplay`): from the two above and the CAS. It has the condition that
  `Replay` agrees with `Predict` on each landed fold; without it the statement is false, as
  the runs `rejected` and `settled` show, and `ReplayFailsOnlyFor` says of which folds the
  condition holds.
* `StaleOpensMeanReturnAlways` (`StaleOpensMeanReturn`): what protects a proof whose opens
  were folded meanwhile is the CAS on the root, and it does so since every fold of a
  keeper moves the root; one that consumed opens and left the tree alone would not. So a proof
  that still passes the CAS has been overtaken twice.
* `KeepersImplementLane`: `Spec => Lane!Spec`: accepted transactions map to `Advance`, folds of
  handoff rows to `HandOver`, opens and bindings to themselves, the rest stutters.
* `RetriesAreRacesAlways`, `GaveUpMeansOvertakenAlways`,
  `AlarmMeansOvertakenAlways`: with the number of folds
  at each read as a history variable, an attempt in progress has seen at least
  `attempt - 1` folds, and a process past its scan whose root has moved has seen one
  more; an auditor is such a process whose attempt stays 1.
* `ProofsAreLostToChangeAlways` (`ProofsAreLostToChange`): a step that gives up a proof
  sees a root that is not the one the proof starts from, or a generation, an open mark,
  a price, a pause or a clock that has changed since; by `PaidProofsAreSound` and the marks above
  an open mark or a root has a fold as its cause, and prices stay bound.
* `DriftMeansReturnAlways`: if the replayed root equals the root that was read
  and the registry differs, two folds have landed since.

### SumTheorems and Engine_proofs

Lemmas that several proofs need. `SumTheorems` is about sums over finite sets: of
nothing, of a set with one element more or less, of two functions, reindexed, restricted
to where the function is not zero, and the total of a table whose columns cancel. The induction is over a set of
finite sets that is ordered by inclusion, of which the library proves that it is
well-founded, and so it is a first-order one. `Engine_proofs` is about the pricing of
a seat: `Seat(t, o)` is a record of its type, its IM is a natural number, the residuals
of the two seats of a trade are opposite (`ResidualsMirror`), and so one of them
loses at a price at most (`OneLoserAt`).

They need parties and trades to be finitely many (`EngineAssumption`), which the code
justifies: an account is an address, a trade a 256-bit id.

### Lane_proofs

* `SeatsStayMatched` (`BooksMatched`). The invariant `Matched` is on any book; it
  needs that bound prices are unique per feed and close time, that a seat is
  `Seat(t, o)` of its terms, and that the proof in flight commits what the engine
  computes from a matched book. Both seats of a trade see the same settle prices
  since the rows are filtered by what the two have in common.
* `NothingIsPaidTwice` (`PaidOnce`), `PaidTradesRetire` (`PaidMeansRetired`): a
  settlement names a trade whose seats are in the book before the fold and not
  after it; an id that was folded never enters again. The payer's seat is down by the
  amount at a bound price (`PaidByLoser`), since the price the guest was given was bound when
  the fold landed, and prices stay bound.
* `OnlyListsStopTheReplay` (`ReplayFailsOnlyFor`): the replay recovers a pause
  set and a marking flag that may differ from those of the epoch, and resolves
  to the same book all the same unless settle prices were consumed or an open was
  rejected.
* `VmIsWhatSeatsWereMarkedAt` (`VmIsShares`). The invariant (`ShareInv`) adds that a trade
  without a seat has no share and that the shares of the two seats of a trade are
  opposite; it rests on `Matched` and on what the guest has proved of the fold in
  flight (`FlightIsProved`). A marking epoch sums each account over its own row of
  marks; the valves of the guest make the row of each account have every mark of the
  epoch for the feeds of its live seats, and one mark per feed, so that a seat is worth
  what its feed says (`SeatVm`). An epoch that does not mark has the seats of before, and
  those of its opens, which are worth nothing yet.
* `VmCancels` (`VmZeroSum`): the shares are a table of accounts and trades; its rows
  sum to the VMs, and its columns to zero.
* `LaneTypes`: the type invariant. That the VM of an account is an integer is a property of
  the books: a carried one was one before, and a marked one has a mark for each seat.

### History_proofs

* `ScanReadsSnapshot` (`ReadsSnapshot`): the core is what its logs say (`Reflects`, kept
  by every event: `EmitReflects`), and a scan has each log of the blocks before its next
  page once and no other (`PageOnce`). So a scan past its head has every log up to
  it, and what is derived from them is the view of the core at that block
  (`DerivedIsView`).
* `RefusalsAreForGoodAlways` (`RefusalsAreForGood`): what refuses a scan is in sealed blocks, and
  sealed blocks stay. An unfit trade that refused an advance is an open of the core or, once
  it was taken, in a fold, which the replay meets: it is in the way on either side
  (`UnfitOpen` of the proof).
* `ScanTypeCorrect`: the type invariant, with the sign of prices.

### Handoff_proofs

* `LegsStaySingle` (`LegsAreSingle`): the invariant is on any assignment of seats, so
  that it can be said of `book` and of `posts` in the middle of an epoch: a seat is a leg
  of a signed trade on its terms, and two seats of one leg are the same seat of the
  same owner. `Move` preserves it since it takes the only seat under its id.
* `LegsStayBalanced` (`LegsBalance`): a seat whose other leg has retired is bound to
  settle: prices stay bound, and an unwind needs both seats under one id, which only
  crossed trades have with one owner.
* `ResidualsAreSingle` (`ResidualOnce`): when a leg has paid, none of its seats is left
  (`Gone`), and a seat that is left of the other leg is bound to settle at a price at
  which it does not lose (`Wins`, by `OneLoser`: opposite legs cannot both lose at one
  price).
* `UnwindsTakeBoth` (`UnwindTakesBoth`): the two seats that an unwind names are of different
  legs, since one that were both would face its own holder and the trade be crossed; a leg has
  no other seat, and the pause is one of the pair, which both share.
* `RequirementsFollowBooksAlways` (`RequirementsFollowBooks`): the invariant
  (`RequirementInv`) adds that a netting set that has lapsed is empty, and that in the
  middle of an epoch an account that is not touched, and so has no rows, has the seats of
  the book. A set that was empty and is empty again keeps what it had.
* `HandoffTypes`: the type invariant; a margin is a sum of natural numbers.

### Smt2_proofs

For keys of any number of bits, of which `TreeAssumption` says that bits are 0 or 1 and that
keys with the same bits are one key, and for any map of leaves.

* `WitnessLeads`: for each key and each value, the absence of one too, the step with the
  map's own witness goes from the root of the map to the root of the map with the
  value written, unless nothing is there and nothing is written, which panics.
* `NoWitnessMisleads`: a step with any other witness of that key, and any claim of what the
  key has, goes to the same root or panics. A claim that is not what the map has always
  panics.

A hash is a node over two children in one way only. So a witness that folds to the root of
a map has the siblings of the map, level by level from the root (`Descend`), and it ends
where the path in the map ends, since what is at its end is empty or a leaf and the
subtree above it is not: it is the map's own witness, except for the kind of the sibling
(`TrueOf`). Then what is left is one witness. Along its path the written map has the same
siblings, below the end of the path there is one leaf or two that part at their first
different bit, and the subtree of a level is the node over the one below and the
sibling (`Climb`). A delete is the write the other way: the lone leaf that rises ends where
the path of the smaller map ends.

What is recursive is a function over `0..n`; that it exists and unfolds is proved in the
module, and induction is the least number of a set of counterexamples (`UpTo`), so
that it is a first-order one.

### Frames_proofs

* `StepsAlwaysExact` (`StepsAreExact`), from the two theorems above.
* `HostRowsAlwaysFold` (`HostRowsFold`): the invariant keeps, as a history field of each row,
  the map its witness was made of. Each is the one before with the row before
  written, the last is the host's tree, and the guest stands on that of the next row;
  keys below the next one have their predicted leaf, the others the old one. That the
  registry moves with the membership is `RegistryOfPut`.
* `RootsAlwaysStand` (`RootsStand`): the same roots for rows of anybody.
* `TypeCorrect`: the type invariant.

### Only model-checked

`Terminates` and `EveryOpenFolds`: liveness under fairness is out of the prover's
reach. Every safety property that a passing run checks is stated by a theorem.

## 5. What is not modelled

* the cash of a handoff and the VM of handed-on seats; several unwinds in one epoch;
  in the keeper model, handoff, closeout and unwind rows have their effect only
  (`ForeignFold`), as its keepers refuse to replay them;
* the scenario-ES margin, `im-math` and the calibration table: pure arithmetic over a
  table of thousands of rows;
* Keccak and byte layouts: a hash is its preimage; the bincode of the 13 frames and the
  ABI of the public values, which would be the identity here;
* reorganisations of the chain: the scan has no code for them;
* exponents, saturation and widths of price arithmetic;
* `verify`, the CLI, logging, the build script.

## 6. Plan

Done, in this order: `Core`, `Keeper` with `TreeLane` and its runs,
`Keeper_proofs`; `Engine`, `Lane` and their runs, `Lane_proofs`; `Snapshot` and
`History` with their proofs; `Handoff` with its proofs; `Smt2`, `Frames` and
`Frames_proofs`; the VM of a lane in `Lane_proofs`, the requirements in `Handoff_proofs`;
`Smt2` for keys of any length with `Smt2_proofs`.

Left:

1. `Margin`: `im_for_side`, the rescaling by exponents with its saturation,
   `party_scenario_es`, as pure operators against reference definitions on bounded
   inputs; `PositionVm` antisymmetric in the side is a lemma worth proving.
2. Liveness of the lane: opens wait for stale marks, so a pair that is marked
   without a pause starves the first open of an account.
3. Compose `Keeper` with `Engine`: `Predict` and `Execute` instantiated by
   `ResolveEpoch` and `StateTransition`.
4. Marks and VM in `Handoff`, with several unwinds in an epoch.
