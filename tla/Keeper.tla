------------------------------- MODULE Keeper -------------------------------
(***************************************************************************)
(* The one-step keeper: `advance` (main.rs cmd_advance, submit.rs) run by  *)
(* any number of keepers that share nothing but the chain, and `rebuild`   *)
(* (main.rs cmd_rebuild) run by auditors.  Every RPC is a step of its own, *)
(* so that folds of other keepers land between any two of them; what the   *)
(* code computes locally between two RPCs is one step.                     *)
(*                                                                         *)
(* Simplifications.  The scan is one step: its head is fixed by the first  *)
(* call and no reorganisation below the head is modelled.  An RPC error, a *)
(* failed proof, a killed process and an estimate refused for a reason the *)
(* model does not have (coverage) all end the invocation the same way:     *)
(* they are one action, Fault, with a budget.                              *)
(***************************************************************************)
EXTENDS Core

CONSTANTS
    Keeper,         \* processes that run `advance`
    Auditor,        \* processes that run `rebuild`
    Unfit,          \* opens that open_to_new_position refuses
    MAX_REBASE,     \* attempts of one `advance`
    MaxFaults       \* bound: faults in a behaviour

ASSUME KeeperAssumption ==
    /\ Keeper \cap Auditor = {}
    /\ Unfit \subseteq OpenId
    /\ MAX_REBASE \in Nat \ {0}
    /\ MaxFaults \in Nat

Process == Keeper \cup Auditor

VARIABLES
    pc,         \* the RPC a process is about to make, or "idle"
    attempt,    \* 1..MAX_REBASE while an advance runs
    seen,       \* what read_chain has answered: root, registry, generation
    pv,         \* the public values of the proof being made or submitted
    sent,       \* the transaction last sent, while no block includes it
    pending,    \* the fate of the transaction last sent
    outcome,    \* how the last invocation ended
    orphans,    \* transactions nobody awaits: their keeper failed or left
    faults,     \* faults so far
    paid,       \* history: proofs this invocation has paid for
    since,      \* history: how many folds had landed when advance started
    readAt      \* history: how many folds had landed when root was read

procVars == <<pc, attempt, seen, pv, sent, pending, outcome, orphans, faults>>
histVars == <<paid, since, readAt>>
vars == <<coreVars, procVars, histVars>>

NoInputs == [opens |-> {}, price |-> NoPrice, paused |-> FALSE, now |-> 0]
NoPv == [prev |-> EmptyTree, new |-> EmptyTree, in |-> NoInputs,
         rows |-> FALSE, gen |-> PinnedGen]
Unread == [root |-> EmptyTree, registry |-> Registry(EmptyTree), gen |-> PinnedGen]

Outcomes == {"none", "nothing", "mined", "gaveUp", "wrongGeneration",
             "registryDrift", "unfit", "gate", "refused", "reverted",
             "unreplayable", "fault", "match", "rootMismatch", "registryMismatch",
             "scenarioMismatch"}

TypeOK ==
    /\ CoreTypeOK
    /\ pc \in [Process -> {"idle", "readRoot", "readRest", "scan", "proving",
                           "reread", "estimate", "send", "receipt"}]
    /\ attempt \in [Process -> 1..MAX_REBASE]
    /\ seen \in [Process -> [root : Tree,
                             registry : {Registry(t) : t \in Tree},
                             gen : 0..MaxRotations]]
    /\ pv \in [Process -> PublicValues]
    /\ sent \in [Process -> PublicValues]
    /\ pending \in [Process -> {"none", "waiting", "ok", "StaleRoot", "rejected"}]
    /\ outcome \in [Process -> Outcomes]
    /\ orphans \subseteq PublicValues
    /\ faults \in 0..MaxFaults
    /\ paid \in [Process -> Nat]
    /\ since \in [Process -> Nat]
    /\ readAt \in [Process -> Nat]

Init ==
    /\ CoreInit
    /\ pc = [k \in Process |-> "idle"]
    /\ attempt = [k \in Process |-> 1]
    /\ seen = [k \in Process |-> Unread]
    /\ pv = [k \in Process |-> NoPv]
    /\ sent = [k \in Process |-> NoPv]
    /\ pending = [k \in Process |-> "none"]
    /\ outcome = [k \in Process |-> "none"]
    /\ orphans = {}
    /\ faults = 0
    /\ paid = [k \in Process |-> 0]
    /\ since = [k \in Process |-> 0]
    /\ readAt = [k \in Process |-> 0]

-----------------------------------------------------------------------------
(* What the scan yields: the replay of the events and the next inputs. *)

\* Mutant: the last fold is left out.
RebuiltToLast(fs) == IF fs = <<>> THEN EmptyTree ELSE fs[Len(fs)].prev

\* The tree the replay of fs ends in, when it succeeds.
Rebuilt(fs) == IF fs = <<>> THEN EmptyTree ELSE fs[Len(fs)].new

\* rebuild succeeds on the events: each fold is of the generation of the local
\* scenario table, carries no rows the replay does not model, consumed no open
\* whose terms it refuses, starts at the replayed tree, and commits the tree that
\* the replay makes of what the fold surfaced and of the pause events.
Replays ==
    \A i \in DOMAIN folds :
       /\ folds[i].gen = PinnedGen
       /\ ~folds[i].rows
       /\ folds[i].in.opens \cap Unfit = {}
       /\ folds[i].prev = IF i = 1 THEN EmptyTree ELSE folds[i - 1].new
       /\ folds[i].new = Replay(folds[i].prev, folds[i].in, pausedAt[i])

\* Mutant: folded opens are not filtered out.
AllOpens == bound

\* Opens no RootAdvanced event has consumed.
UnfoldedOpens == bound \ FoldedIds

\* Mutant: opens wait for a mark.
InputsOnceMarked ==
    [opens |-> IF mark = NoPrice THEN {} ELSE UnfoldedOpens, price |-> mark,
     paused |-> paused, now |-> clock]

FreshEpochInputs ==
    [opens |-> UnfoldedOpens, price |-> mark, paused |-> paused, now |-> clock]

-----------------------------------------------------------------------------
(* Ends of an invocation. *)

\* The command returns: its locals are gone, a transaction it sent is not.
Finish(k, how) ==
    /\ pc' = [pc EXCEPT ![k] = "idle"]
    /\ outcome' = [outcome EXCEPT ![k] = how]
    /\ attempt' = [attempt EXCEPT ![k] = 1]
    /\ seen' = [seen EXCEPT ![k] = Unread]
    /\ paid' = [paid EXCEPT ![k] = 0]
    /\ since' = [since EXCEPT ![k] = 0]
    /\ readAt' = [readAt EXCEPT ![k] = 0]
    /\ pv' = [pv EXCEPT ![k] = NoPv]

\* Mutant: the loop runs once too often.
RebaseOnceMore(k) ==
    \/ /\ attempt[k] <= MAX_REBASE
       /\ attempt' = [attempt EXCEPT ![k] = @ + 1]
       /\ pc' = [pc EXCEPT ![k] = "readRoot"]
       /\ UNCHANGED <<outcome, seen, pv, histVars>>
    \/ /\ attempt[k] > MAX_REBASE
       /\ Finish(k, "gaveUp")

\* The `continue` of the rebase loop, and the bail that follows it.
Rebase(k) ==
    \/ /\ attempt[k] < MAX_REBASE
       /\ attempt' = [attempt EXCEPT ![k] = @ + 1]
       /\ pc' = [pc EXCEPT ![k] = "readRoot"]
       /\ UNCHANGED <<outcome, seen, pv, histVars>>
    \/ /\ attempt[k] = MAX_REBASE
       /\ Finish(k, "gaveUp")

Goto(k, label) ==
    /\ pc' = [pc EXCEPT ![k] = label]
    /\ UNCHANGED <<attempt, outcome, seen, pv, histVars>>

-----------------------------------------------------------------------------
(* The steps of a process. *)

\* The command starts.  A transaction an earlier invocation left behind stays
\* in the mempool, but nobody awaits it any more.
Invoke(k) ==
    /\ pc[k] = "idle"
    /\ pc' = [pc EXCEPT ![k] = "readRoot"]
    /\ outcome' = [outcome EXCEPT ![k] = "none"]
    /\ orphans' = orphans \cup (IF pending[k] = "waiting" THEN {sent[k]} ELSE {})
    /\ sent' = [sent EXCEPT ![k] = NoPv]
    /\ pending' = [pending EXCEPT ![k] = "none"]
    /\ since' = [since EXCEPT ![k] = IF k \in Keeper THEN Len(folds) ELSE 0]
    /\ UNCHANGED <<coreVars, attempt, seen, pv, faults, paid, readAt>>

\* read_chain: the root is the first of its six calls ...
ReadRoot(k) ==
    /\ pc[k] = "readRoot"
    /\ pc' = [pc EXCEPT ![k] = "readRest"]
    /\ seen' = [seen EXCEPT ![k] =
          [root |-> root, registry |-> @.registry, gen |-> @.gen]]
    /\ readAt' = [readAt EXCEPT ![k] = Len(folds)]
    /\ UNCHANGED <<coreVars, attempt, pv, sent, pending, outcome, orphans,
                   faults, paid, since>>

\* ... and the registry and the pins come later.  advance then checks the pins.
ReadRest(k) ==
    /\ pc[k] = "readRest"
    /\ \/ /\ k \in Keeper /\ gen # PinnedGen
          /\ Finish(k, "wrongGeneration")
       \/ /\ k \in Auditor \/ gen = PinnedGen
          /\ seen' = [seen EXCEPT ![k] =
                [root |-> @.root, registry |-> Registry(root), gen |-> gen]]
          /\ pc' = [pc EXCEPT ![k] = "scan"]
          /\ UNCHANGED <<attempt, pv, outcome, histVars>>
    /\ UNCHANGED <<coreVars, sent, pending, orphans, faults>>

\* Mutant: the replayed root is not compared.
RootUnchecked(k) == TRUE

\* The replay reproduces the root that was read before the scan.
RootReplayed(k) == Rebuilt(folds) = seen[k].root

\* Mutant: the guest must only not panic.
GateUncompared(executed, predicted) == executed # NoTree

\* The free equivalence gate: the guest's CPU execution does not panic and
\* commits the predicted root.
GatePasses(executed, predicted) == executed # NoTree /\ executed = predicted

\* The proof is paid for.
Prove(k, in, new) ==
    /\ pc' = [pc EXCEPT ![k] = "proving"]
    /\ pv' = [pv EXCEPT ![k] = [prev |-> Rebuilt(folds), new |-> new, in |-> in,
                               rows |-> FALSE, gen |-> PinnedGen]]
    /\ paid' = [paid EXCEPT ![k] = @ + 1]
    /\ UNCHANGED <<attempt, seen, outcome, since, readAt>>

\* Mutant: an epoch that changes nothing is proved all the same.
BuildAlways(k) ==
    LET tree == Rebuilt(folds)
        in == FreshEpochInputs
    IN  IF in.opens \cap Unfit # {} THEN Finish(k, "unfit")
        ELSE IF Registry(tree) # seen[k].registry THEN Finish(k, "registryDrift")
        ELSE IF ~GatePasses(Execute(tree, in), Predict(tree, in)) THEN Finish(k, "gate")
        ELSE Prove(k, in, Execute(tree, in))

\* The root was reproduced: gather the inputs, build the frames, predict,
\* execute the guest.
BuildAndExecute(k) ==
    LET tree == Rebuilt(folds)
        in == FreshEpochInputs
        predicted == Predict(tree, in)
        executed == Execute(tree, in)
    IN  IF in.opens \cap Unfit # {} THEN Finish(k, "unfit")
        ELSE IF Registry(tree) # seen[k].registry THEN Finish(k, "registryDrift")
        ELSE IF predicted = tree THEN Finish(k, "nothing")
        ELSE IF ~GatePasses(executed, predicted) THEN Finish(k, "gate")
        ELSE Prove(k, in, executed)

\* advance scans and replays; a root that moved meanwhile uses up the attempt.
Scan(k) ==
    /\ k \in Keeper /\ pc[k] = "scan"
    /\ \/ ~Replays /\ Finish(k, "unreplayable")
       \/ Replays /\ ~RootReplayed(k) /\ Rebase(k)
       \/ Replays /\ RootReplayed(k) /\ BuildAndExecute(k)
    /\ UNCHANGED <<coreVars, sent, pending, orphans, faults>>

\* rebuild compares the replay with the roots read before the scan.
Audit(k) ==
    /\ k \in Auditor /\ pc[k] = "scan"
    /\ LET tree == Rebuilt(folds)
           how == IF ~Replays THEN "unreplayable"
                  ELSE IF tree # seen[k].root THEN "rootMismatch"
                  ELSE IF Registry(tree) # seen[k].registry THEN "registryMismatch"
                  ELSE IF seen[k].gen # PinnedGen THEN "scenarioMismatch"
                  ELSE "match"
       IN  Finish(k, how)
    /\ UNCHANGED <<coreVars, sent, pending, orphans, faults>>

\* The network delivers the proof.
ProofArrives(k) ==
    /\ pc[k] = "proving"
    /\ Goto(k, "reread")
    /\ UNCHANGED <<coreVars, sent, pending, orphans, faults>>

\* Mutant: the chain is compared with the root the proof leads to.
RereadForNew(k) ==
    /\ pc[k] = "reread"
    /\ \/ root # pv[k].new /\ Rebase(k)
       \/ root = pv[k].new /\ Goto(k, "estimate")
    /\ UNCHANGED <<coreVars, sent, pending, orphans, faults>>

\* Mutant: wait for the root to come back.
RereadPolling(k) ==
    /\ pc[k] = "reread"
    /\ \/ root # pv[k].prev /\ UNCHANGED <<pc, attempt, seen, pv, outcome, histVars>>
       \/ root = pv[k].prev /\ Goto(k, "estimate")
    /\ UNCHANGED <<coreVars, sent, pending, orphans, faults>>

\* Only the root of the second read_chain is looked at.
Reread(k) ==
    /\ pc[k] = "reread"
    /\ \/ root # pv[k].prev /\ Rebase(k)
       \/ root = pv[k].prev /\ Goto(k, "estimate")
    /\ UNCHANGED <<coreVars, sent, pending, orphans, faults>>

\* eth_estimateGas runs applyState against the present state of the core.
Estimate(k) ==
    /\ pc[k] = "estimate"
    /\ \/ Verdict(pv[k]) = "StaleRoot" /\ Rebase(k)
       \/ Verdict(pv[k]) = "rejected" /\ Finish(k, "refused")
       \/ Verdict(pv[k]) = "ok" /\ Goto(k, "send")
    /\ UNCHANGED <<coreVars, sent, pending, orphans, faults>>

\* The node takes the transaction; it may answer "already known" instead of a
\* hash, which submit_apply_state reports as Mined without awaiting a receipt.
Send(k) ==
    /\ pc[k] = "send"
    /\ sent' = [sent EXCEPT ![k] = pv[k]]
    /\ pending' = [pending EXCEPT ![k] = "waiting"]
    /\ Goto(k, "receipt") \/ Finish(k, "mined")
    /\ UNCHANGED <<coreVars, orphans, faults>>

\* The node simulates the transaction, sees the CAS lost and does not take it.
SendRefused(k) ==
    /\ pc[k] = "send"
    /\ Verdict(pv[k]) = "StaleRoot"
    /\ Rebase(k)
    /\ UNCHANGED <<coreVars, sent, pending, orphans, faults>>

\* The receipt: a reverted status is an error, whatever the reason was.
Receipt(k) ==
    /\ pc[k] = "receipt"
    /\ \/ pending[k] = "ok" /\ Finish(k, "mined")
       \/ pending[k] \in {"StaleRoot", "rejected"} /\ Finish(k, "reverted")
    /\ UNCHANGED <<coreVars, sent, pending, orphans, faults>>

\* An RPC fails, the prover fails, or the process is killed.
Fault(k) ==
    /\ pc[k] # "idle"
    /\ faults < MaxFaults
    /\ faults' = faults + 1
    /\ Finish(k, "fault")
    /\ UNCHANGED <<coreVars, sent, pending, orphans>>

-----------------------------------------------------------------------------
(* The mempool. *)

\* A block includes the transaction a process sent last.
Include(k) ==
    /\ pending[k] = "waiting"
    /\ pending' = [pending EXCEPT ![k] = Verdict(sent[k])]
    /\ sent' = [sent EXCEPT ![k] = NoPv]
    /\ \/ Accept(sent[k])
       \/ Verdict(sent[k]) # "ok" /\ UNCHANGED coreVars
    /\ UNCHANGED <<pc, attempt, seen, pv, outcome, orphans, faults, histVars>>

\* A block includes a transaction nobody awaits.
IncludeOrphan(p) ==
    /\ p \in orphans
    /\ orphans' = orphans \ {p}
    /\ \/ Accept(p)
       \/ Verdict(p) # "ok" /\ UNCHANGED coreVars
    /\ UNCHANGED <<pc, attempt, seen, pv, sent, pending, outcome, faults, histVars>>

-----------------------------------------------------------------------------
Step(k) ==
    \/ ReadRoot(k) \/ ReadRest(k) \/ Scan(k) \/ Audit(k) \/ ProofArrives(k)
    \/ Reread(k) \/ Estimate(k) \/ Send(k) \/ SendRefused(k) \/ Receipt(k)

Environment == CoreEnvironment /\ UNCHANGED <<procVars, histVars>>

Next ==
    \/ \E k \in Process : Invoke(k) \/ Step(k) \/ Fault(k) \/ Include(k)
    \/ \E p \in orphans : IncludeOrphan(p)
    \/ Environment

Spec == Init /\ [][Next]_vars

\* A process that was started takes its steps, and blocks go on including the
\* transactions that nodes took.
RunsOn ==
    /\ \A k \in Process : WF_vars(Step(k)) /\ WF_vars(Include(k))
    /\ WF_vars(\E p \in orphans : IncludeOrphan(p))

\* Somebody keeps starting the keepers: the CLI makes one step per invocation.
KeepsStarting == \A k \in Keeper : WF_vars(Invoke(k))

FairSpec == Spec /\ RunsOn
CronSpec == Spec /\ RunsOn /\ KeepsStarting

-----------------------------------------------------------------------------
(* Safety. *)

\* The host's replay, which reads the pause set and the marking elsewhere, makes
\* of a fold what the host predicted of its inputs.  It may not: module Lane says
\* of which epochs.
Reproducible(i) ==
    /\ folds[i].gen = PinnedGen
    /\ ~folds[i].rows
    /\ Replay(folds[i].prev, folds[i].in, pausedAt[i])
          = Predict(folds[i].prev, folds[i].in)

\* The tree the contract holds is where its own events end, and a scan gets past
\* every fold of a keeper unless the replay itself makes something else of that
\* epoch: no race, orphan or failed invocation lands a fold that does not start
\* where the one before it ended, that holds unfit terms, or that commits what
\* the host did not predict (what cmd_rebuild prints as MATCH).
TreeIsReplay ==
    /\ root = Rebuilt(folds)
    /\ (\A i \in DOMAIN folds : Reproducible(i)) => Replays

\* A proof consumes the opens that were unfolded at its scan, long before it
\* lands.  If one of them was folded meanwhile, the CAS refuses the proof, unless
\* the tree left the root it was made for and came back: that takes two folds.
\* (One would do if an epoch that only spends opens were proved: the check for
\* "nothing to advance" is what keeps every fold moving the root.)
StaleOpensMeanReturn ==
    \A k \in Keeper :
       (/\ pc[k] \in {"proving", "reread", "estimate", "send", "receipt"}
        /\ pv[k].prev = root
        /\ ~(pv[k].in.opens \subseteq opened))
          => Len(folds) - readAt[k] >= 2

\* What the keeper derives from events is what the contract remembers: the
\* opens that unfolded_opens selects are the ones whose mark is not spent.
OpenMarksMatchEvents == opened = UnfoldedOpens

\* The keepers implement the lane: each accepted transaction is one atomic
\* epoch on the tree the core holds at that moment, although its inputs were
\* scanned, executed and proved long before.
Lane == INSTANCE TreeLane WITH tree <- root, folded <- FoldedIds

ImplementsLane == Lane!Spec

\* An attempt is used up, and a second proof is paid for, only when a fold of
\* somebody else landed in the meantime: races are the only cause of retries.
RetriesAreRaces ==
    \A k \in Keeper : pc[k] # "idle" =>
       /\ attempt[k] - 1 <= Len(folds) - since[k]
       /\ paid[k] <= attempt[k]

\* advance gives up only if the lane advanced at least MAX_REBASE times under
\* it ("the lane is advancing faster than this step").
GaveUpMeansOvertaken ==
    [][\A k \in Keeper :
         outcome[k] # "gaveUp" /\ outcome'[k] = "gaveUp"
            => Len(folds) - since[k] >= MAX_REBASE]_vars

\* The read of the chain is torn, and the registry check does not rescan.  It
\* can only fail when the tree left the root that was read and came back to
\* it: two folds landed between the first call and the scan.
DriftMeansReturn ==
    [][\A k \in Keeper :
         outcome[k] # "registryDrift" /\ outcome'[k] = "registryDrift"
            => Len(folds) - readAt[k] >= 2]_vars

\* A proof that was paid for is thrown away, at the estimate or by a block, only
\* because a fold landed after the root was read, the verifier key was changed,
\* the proof took too long, or a pause over a seat it holds was lifted: what the
\* keeper itself puts into an epoch is good for the chain it was scanned from.
ProofsAreLostToChange ==
    [][\A k \in Keeper :
         (\/ outcome[k] # "refused" /\ outcome'[k] = "refused"
          \/ /\ pc[k] = "receipt" /\ pending[k] = "waiting"
             /\ pending'[k] \in {"StaleRoot", "rejected"})
            => \/ Len(folds) > readAt[k]
               \/ gen # PinnedGen
               \/ clock - pv[k].in.now > MAX_PROOF_STALENESS
               \/ pv[k].in.paused /\ ~paused]_vars

\* An audit that reports a mismatch was overtaken by a fold while it read: a
\* quiet chain never raises the alarm.
AlarmMeansOvertaken ==
    [][\A k \in Auditor :
         (/\ outcome[k] \notin {"rootMismatch", "registryMismatch"}
          /\ outcome'[k] \in {"rootMismatch", "registryMismatch"})
            => Len(folds) > readAt[k]]_vars

-----------------------------------------------------------------------------
(* Liveness. *)

\* Every invocation comes to an end, however the others race it.
Terminates == \A k \in Process : pc[k] # "idle" ~> pc[k] = "idle"

\* The trades that no epoch took, in one epoch at the present mark, pause and time.
Waiting == [opens |-> bound \ FoldedIds, price |-> mark,
            paused |-> paused, now |-> clock]

\* No keeper can fold the trades that wait: another generation is live, the scan
\* does not get past a fold, the terms of one are unfit, or the epoch they would
\* be in changes nothing or does not pass the gate.
Blocked ==
    /\ Waiting.opens # {}
    /\ \/ gen # PinnedGen
       \/ ~Replays
       \/ Waiting.opens \cap Unfit # {}
       \/ Predict(root, Waiting) = root
       \/ Execute(root, Waiting) # Predict(root, Waiting)

\* If keepers keep being started, and from some time on nothing blocks the lane,
\* every trade that is bound is folded, whatever races, failures and transactions
\* of earlier invocations there are.
EveryOpenFolds ==
    \A o \in OpenId : <>[]~Blocked => (o \in bound ~> o \in FoldedIds)

-----------------------------------------------------------------------------
(* What the code says of itself and does not keep (see the README). *)

\* SubmitOutcome::Mined: "Mined and succeeded; the tx hash."
MinedSucceeds ==
    \A k \in Keeper : outcome[k] = "mined"
       => pending[k] \notin {"StaleRoot", "rejected"}
=============================================================================
