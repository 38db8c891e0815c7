---------------------------- MODULE Keeper_proofs ----------------------------
(***************************************************************************)
(* Theorems about the keepers for every number of processes, every set of  *)
(* trades and prices, every engine (Predict, Execute, Replay) and every    *)
(* bound.                                                                  *)
(***************************************************************************)
EXTENDS Keeper, FiniteSetTheorems, TLAPS

-----------------------------------------------------------------------------
(* Type correctness, one lemma per group of actions. *)

LEMMA NoPvType == NoPv \in PublicValues
  BY TreeAssumption, BoundAssumption
  DEF NoPv, NoInputs, PublicValues, Inputs, PinnedGen

LEMMA UnreadType ==
    Unread \in [root : Tree, registry : {Registry(t) : t \in Tree},
                gen : 0..MaxRotations]
  BY TreeAssumption, BoundAssumption DEF Unread, PinnedGen

\* The replayed tree of a well-typed history is a tree.
LEMMA RebuiltType ==
    ASSUME TypeOK PROVE Rebuilt(folds) \in Tree
  <1>1. CASE folds = <<>>
    BY <1>1, TreeAssumption DEF Rebuilt
  <1>2. CASE folds # <<>>
    <2>1. folds \in Seq(PublicValues)
      BY DEF TypeOK, CoreTypeOK
    <2>2. folds[Len(folds)] \in PublicValues
      BY <1>2, <2>1
    <2> QED BY <1>2, <2>2 DEF Rebuilt, PublicValues
  <1> QED BY <1>1, <1>2

LEMMA AcceptType ==
    ASSUME CoreTypeOK, NEW p \in PublicValues, Accept(p)
    PROVE  CoreTypeOK'
  <1>1. /\ folds' = Append(folds, p) /\ pausedAt' = Append(pausedAt, paused)
        /\ root' = p.new /\ opened' = opened \ p.in.opens
        /\ UNCHANGED <<bound, priceVars, pauseVars, clock, gen>>
    BY DEF Accept
  <1>2. /\ folds' \in Seq(PublicValues) /\ pausedAt' \in Seq(BOOLEAN)
        /\ Len(pausedAt') = Len(folds')
    BY <1>1 DEF CoreTypeOK
  <1> QED BY <1>1, <1>2 DEF CoreTypeOK, PublicValues, priceVars, pauseVars

LEMMA CoreKept ==
    ASSUME TypeOK, UNCHANGED coreVars PROVE CoreTypeOK'
  BY DEF TypeOK, CoreTypeOK, coreVars, treeVars, openVars, priceVars, pauseVars

\* The values of another prover's epoch.
LEMMA HandoffType ==
    ASSUME CoreTypeOK, NEW t, ForeignFold(t)
    PROVE  HandoffValues(t) \in PublicValues /\ Accept(HandoffValues(t))
  <1>1. root \in Tree /\ t \in Tree /\ gen \in 0..MaxRotations /\ clock \in 0..MaxTime
    BY TreeAssumption DEF ForeignFold, CoreTypeOK
  <1>2. [opens |-> {}, price |-> NoPrice, paused |-> FALSE, now |-> clock] \in Inputs
    BY <1>1 DEF Inputs
  <1>3. HandoffValues(t) \in PublicValues
    BY <1>1, <1>2 DEF HandoffValues, PublicValues
  <1> QED BY <1>3 DEF ForeignFold

LEMMA CoreEnvironmentType ==
    ASSUME CoreTypeOK, CoreEnvironment PROVE CoreTypeOK'
  <1> USE DEF treeVars, openVars, priceVars, pauseVars
  <1>1. ASSUME NEW o \in OpenId, OpenLock(o) PROVE CoreTypeOK'
    BY <1>1 DEF CoreTypeOK, OpenLock
  <1>2. ASSUME NEW p \in Price, BindTwap(p) PROVE CoreTypeOK'
    BY <1>2, BoundAssumption DEF CoreTypeOK, BindTwap
  <1>3. CASE MarkGoesStale
    BY <1>3, BoundAssumption DEF CoreTypeOK, MarkGoesStale
  <1>4. CASE Rotate
    BY <1>4, BoundAssumption DEF CoreTypeOK, Rotate
  <1>5. ASSUME NEW t, ForeignFold(t) PROVE CoreTypeOK'
    BY <1>5, HandoffType, AcceptType
  <1>6. CASE FlipPause
    BY <1>6, BoundAssumption DEF CoreTypeOK, FlipPause
  <1>7. CASE Tick
    BY <1>7, BoundAssumption DEF CoreTypeOK, Tick
  <1> QED BY <1>1, <1>2, <1>3, <1>4, <1>5, <1>6, <1>7 DEF CoreEnvironment

ProcTypeOK ==
    /\ pc \in [Process -> {"idle", "readRoot", "readRest", "scan", "proving",
                           "reread", "estimate", "send", "receipt"}]
    /\ attempt \in [Process -> 1..MAX_REBASE]
    /\ seen \in [Process -> [root : Tree,
                             registry : {Registry(t) : t \in Tree},
                             gen : 0..MaxRotations]]
    /\ pv \in [Process -> PublicValues]
    /\ sent \in [Process -> PublicValues]
    /\ pending \in [Process -> {"none", "waiting", "ok", "StaleRoot", "rejected"}]
    /\ outcome \in [Process -> Outcomes]
    /\ orphans \subseteq PublicValues
    /\ faults \in 0..MaxFaults
    /\ paid \in [Process -> Nat]
    /\ since \in [Process -> Nat]
    /\ readAt \in [Process -> Nat]

LEMMA TypeSplit ==
    /\ TypeOK <=> CoreTypeOK /\ ProcTypeOK
    /\ TypeOK' <=> CoreTypeOK' /\ ProcTypeOK'
  BY DEF TypeOK, ProcTypeOK

\* What every end of an invocation leaves well typed.
LocalTypeOK ==
    /\ pc \in [Process -> {"idle", "readRoot", "readRest", "scan", "proving",
                           "reread", "estimate", "send", "receipt"}]
    /\ attempt \in [Process -> 1..MAX_REBASE]
    /\ seen \in [Process -> [root : Tree,
                             registry : {Registry(t) : t \in Tree},
                             gen : 0..MaxRotations]]
    /\ pv \in [Process -> PublicValues]
    /\ outcome \in [Process -> Outcomes]
    /\ paid \in [Process -> Nat]
    /\ since \in [Process -> Nat]
    /\ readAt \in [Process -> Nat]

LEMMA FinishType ==
    ASSUME ProcTypeOK, NEW k \in Process, NEW how \in Outcomes, Finish(k, how)
    PROVE  LocalTypeOK'
  BY NoPvType, UnreadType, KeeperAssumption
  DEF ProcTypeOK, LocalTypeOK, Finish

LEMMA RebaseType ==
    ASSUME ProcTypeOK, NEW k \in Process, Rebase(k) PROVE LocalTypeOK'
  <1>1. "gaveUp" \in Outcomes
    BY DEF Outcomes
  <1>2. CASE Finish(k, "gaveUp")
    BY <1>1, <1>2, FinishType
  <1>3. CASE ~Finish(k, "gaveUp")
    BY <1>3, KeeperAssumption DEF Rebase, ProcTypeOK, LocalTypeOK, histVars
  <1> QED BY <1>2, <1>3

LEMMA GotoType ==
    ASSUME ProcTypeOK, NEW k \in Process,
           NEW l \in {"reread", "estimate", "send", "receipt"}, Goto(k, l)
    PROVE  LocalTypeOK'
  BY DEF ProcTypeOK, LocalTypeOK, Goto, histVars


LEMMA InvokeType ==
    ASSUME TypeOK, NEW k \in Process, Invoke(k) PROVE TypeOK'
  <1>1. CoreTypeOK'
    BY CoreKept DEF Invoke
  <1>2. orphans' \subseteq PublicValues
    BY DEF TypeOK, Invoke
  <1>3. Len(folds) \in Nat
    BY DEF TypeOK, CoreTypeOK
  <1>4. ProcTypeOK'
    BY <1>2, <1>3, NoPvType DEF TypeOK, ProcTypeOK, Invoke, Outcomes
  <1> QED BY <1>1, <1>4, TypeSplit

LEMMA ReadType ==
    ASSUME TypeOK, NEW k \in Process, ReadRoot(k) \/ ReadRest(k)
    PROVE  TypeOK'
  <1>1. CoreTypeOK'
    BY CoreKept DEF ReadRoot, ReadRest
  <1>2. CASE ReadRoot(k)
    <2>1. Len(folds) \in Nat /\ root \in Tree
      BY DEF TypeOK, CoreTypeOK
    <2>2. ProcTypeOK'
      BY <1>2, <2>1 DEF TypeOK, ProcTypeOK, ReadRoot
    <2> QED BY <1>1, <2>2, TypeSplit
  <1>3. CASE ReadRest(k) /\ Finish(k, "wrongGeneration")
    <2>1. LocalTypeOK'
      BY <1>3, FinishType, TypeSplit DEF Outcomes
    <2>2. ProcTypeOK'
      BY <1>3, <2>1 DEF TypeOK, ProcTypeOK, LocalTypeOK, ReadRest
    <2> QED BY <1>1, <2>2, TypeSplit
  <1>4. CASE ReadRest(k) /\ ~Finish(k, "wrongGeneration")
    <2>1. root \in Tree /\ gen \in 0..MaxRotations
      BY DEF TypeOK, CoreTypeOK
    <2> DEFINE answer == [root |-> seen[k].root, registry |-> Registry(root),
                          gen |-> gen]
    <2>2. answer \in [root : Tree, registry : {Registry(t) : t \in Tree},
                      gen : 0..MaxRotations]
      BY <2>1 DEF TypeOK
    <2>3. /\ seen' = [seen EXCEPT ![k] = answer]
          /\ pc' = [pc EXCEPT ![k] = "scan"]
          /\ UNCHANGED <<attempt, pv, outcome, histVars, sent, pending, orphans, faults>>
      BY <1>4 DEF ReadRest, TypeOK
    <2> HIDE DEF answer
    <2>4. ProcTypeOK'
      BY <2>2, <2>3 DEF TypeOK, ProcTypeOK, histVars
    <2> QED BY <1>1, <2>4, TypeSplit
  <1> QED BY <1>2, <1>3, <1>4

\* A step that reads the core and keeps its transactions.
LEMMA LocalStepType ==
    ASSUME TypeOK, LocalTypeOK',
           UNCHANGED <<coreVars, sent, pending, orphans, faults>>
    PROVE  TypeOK'
  <1>1. CoreTypeOK'
    BY CoreKept
  <1>2. ProcTypeOK'
    BY DEF TypeOK, ProcTypeOK, LocalTypeOK
  <1> QED BY <1>1, <1>2, TypeSplit

LEMMA ScanType ==
    ASSUME TypeOK, NEW k \in Process, Scan(k) PROVE TypeOK'
  <1>0. ProcTypeOK /\ UNCHANGED <<coreVars, sent, pending, orphans, faults>>
    BY TypeSplit DEF Scan
  <1>1. CASE Finish(k, "unreplayable")
    BY <1>0, <1>1, FinishType, LocalStepType DEF Outcomes
  <1>2. CASE Rebase(k)
    BY <1>0, <1>2, RebaseType, LocalStepType
  <1>3. CASE BuildAndExecute(k)
    <2> DEFINE tree == Rebuilt(folds)
               in == FreshEpochInputs
               predicted == Predict(tree, in)
               executed == Execute(tree, in)
    <2>1. tree \in Tree
      BY RebuiltType
    <2>2. in \in Inputs
      BY DEF FreshEpochInputs, UnfoldedOpens, Inputs, TypeOK, CoreTypeOK
    <2>3. CASE Finish(k, "unfit") \/ Finish(k, "registryDrift") \/ Finish(k, "nothing") \/ Finish(k, "gate")
      BY <1>0, <2>3, FinishType, LocalStepType DEF Outcomes
    <2>4. CASE GatePasses(executed, predicted) /\ Prove(k, in, executed)
      <3>2. predicted \in Tree
        BY <2>1, <2>2, TreeAssumption
      <3>3. executed \in Tree
        BY <2>4, <3>2 DEF GatePasses
      <3> DEFINE new == [prev |-> tree, new |-> executed, in |-> in, rows |-> FALSE,
                         gen |-> PinnedGen]
      <3>4. new \in PublicValues
        BY <2>1, <2>2, <3>3, BoundAssumption DEF PublicValues, PinnedGen
      <3>5. /\ pc' = [pc EXCEPT ![k] = "proving"]
            /\ pv' = [pv EXCEPT ![k] = new]
            /\ paid' = [paid EXCEPT ![k] = @ + 1]
            /\ UNCHANGED <<attempt, seen, outcome, since, readAt>>
        BY <2>4 DEF Prove
      <3>6. LocalTypeOK'
        BY <1>0, <3>4, <3>5 DEF ProcTypeOK, LocalTypeOK
      <3> QED BY <1>0, <3>6, LocalStepType
    <2> QED BY <1>3, <2>3, <2>4 DEF BuildAndExecute
  <1> QED BY <1>1, <1>2, <1>3 DEF Scan

LEMMA AuditType ==
    ASSUME TypeOK, NEW k \in Process, Audit(k) PROVE TypeOK'
  <1>1. ProcTypeOK /\ UNCHANGED <<coreVars, sent, pending, orphans, faults>>
    BY TypeSplit DEF Audit
  <1>2. \E how \in Outcomes : Finish(k, how)
    BY DEF Audit, Outcomes
  <1> QED BY <1>1, <1>2, FinishType, LocalStepType

LEMMA WaitType ==
    ASSUME TypeOK, NEW k \in Process,
           ProofArrives(k) \/ Reread(k) \/ Estimate(k) \/ SendRefused(k) \/ Receipt(k)
    PROVE  TypeOK'
  <1>1. ProcTypeOK /\ UNCHANGED <<coreVars, sent, pending, orphans, faults>>
    BY TypeSplit DEF ProofArrives, Reread, Estimate, SendRefused, Receipt
  <1>2. \/ Rebase(k)
        \/ \E how \in {"refused", "mined", "reverted"} : Finish(k, how)
        \/ \E l \in {"reread", "estimate", "send"} : Goto(k, l)
    BY DEF ProofArrives, Reread, Estimate, SendRefused, Receipt
  <1>3. LocalTypeOK'
    BY <1>1, <1>2, RebaseType, FinishType, GotoType DEF Outcomes
  <1> QED BY <1>1, <1>3, LocalStepType

LEMMA SendType ==
    ASSUME TypeOK, NEW k \in Process, Send(k) PROVE TypeOK'
  <1>1. LocalTypeOK'
    BY FinishType, GotoType, TypeSplit DEF Send, Outcomes
  <1>2. CoreTypeOK'
    BY CoreKept DEF Send
  <1>3. ProcTypeOK'
    BY <1>1 DEF TypeOK, ProcTypeOK, LocalTypeOK, Send
  <1> QED BY <1>2, <1>3, TypeSplit

LEMMA FaultType ==
    ASSUME TypeOK, NEW k \in Process, Fault(k) PROVE TypeOK'
  <1>1. LocalTypeOK'
    BY FinishType, TypeSplit DEF Fault, Outcomes
  <1>2. CoreTypeOK'
    BY CoreKept DEF Fault
  <1>3. faults' \in 0..MaxFaults
    BY KeeperAssumption DEF TypeOK, Fault
  <1>4. ProcTypeOK'
    BY <1>1, <1>3 DEF TypeOK, ProcTypeOK, LocalTypeOK, Fault
  <1> QED BY <1>2, <1>4, TypeSplit

LEMMA IncludeType ==
    ASSUME TypeOK,
           \/ \E k \in Process : Include(k)
           \/ \E p \in orphans : IncludeOrphan(p)
    PROVE  TypeOK'
  <1>1. ASSUME NEW k \in Process, Include(k) PROVE TypeOK'
    <2>1. sent[k] \in PublicValues
      BY DEF TypeOK
    <2>2. CoreTypeOK'
      BY <1>1, <2>1, AcceptType, CoreKept, TypeSplit DEF Include
    <2>3. Verdict(sent[k]) \in {"ok", "StaleRoot", "rejected"}
      BY DEF Verdict
    <2>4. ProcTypeOK'
      BY <1>1, <2>3, NoPvType DEF TypeOK, ProcTypeOK, Include, histVars
    <2> QED BY <2>2, <2>4, TypeSplit
  <1>2. ASSUME NEW p \in orphans, IncludeOrphan(p) PROVE TypeOK'
    <2>1. p \in PublicValues
      BY DEF TypeOK
    <2>2. CoreTypeOK'
      BY <1>2, <2>1, AcceptType, CoreKept, TypeSplit DEF IncludeOrphan
    <2>3. ProcTypeOK'
      BY <1>2 DEF TypeOK, ProcTypeOK, IncludeOrphan, histVars
    <2> QED BY <2>2, <2>3, TypeSplit
  <1> QED BY <1>1, <1>2

\* The state of every process and of the core keeps its shape, whatever the
\* interleaving.
THEOREM TypeCorrect == Spec => []TypeOK
  <1>1. Init => TypeOK
    <2> SUFFICES ASSUME Init PROVE TypeOK
      OBVIOUS
    <2>1. CoreTypeOK
      <3>1. folds \in Seq(PublicValues) /\ pausedAt \in Seq(BOOLEAN)
        BY DEF Init, CoreInit
      <3>2. Len(pausedAt) = Len(folds)
        BY DEF Init, CoreInit
      <3>3. /\ root \in Tree /\ bound \subseteq OpenId /\ opened \subseteq OpenId
            /\ mark \in Price \cup {NoPrice} /\ prices \subseteq Price
            /\ paused \in BOOLEAN
        BY TreeAssumption DEF Init, CoreInit
      <3>4. /\ binds \in 0..MaxBinds /\ pauses \in 0..MaxPauses
            /\ clock \in 0..MaxTime /\ gen \in 0..MaxRotations
        BY BoundAssumption DEF Init, CoreInit, PinnedGen
      <3> QED BY <3>1, <3>2, <3>3, <3>4 DEF CoreTypeOK
    <2>2. ProcTypeOK
      BY NoPvType, UnreadType, KeeperAssumption DEF Init, ProcTypeOK, Outcomes
    <2> QED BY <2>1, <2>2, TypeSplit
  <1>2. TypeOK /\ [Next]_vars => TypeOK'
    <2> SUFFICES ASSUME TypeOK, [Next]_vars PROVE TypeOK'
      OBVIOUS
    <2>1. CASE UNCHANGED vars
      <3>1. CoreTypeOK'
        BY <2>1, CoreKept DEF vars
      <3>2. ProcTypeOK'
        BY <2>1 DEF vars, TypeOK, ProcTypeOK, procVars, histVars
      <3> QED BY <3>1, <3>2, TypeSplit
    <2>2. ASSUME NEW k \in Process, Invoke(k) \/ Step(k) \/ Fault(k) PROVE TypeOK'
      BY <2>2, InvokeType, ReadType, ScanType, AuditType, WaitType, SendType,
         FaultType DEF Step
    <2>3. CASE Environment
      <3>1. CoreTypeOK'
        BY <2>3, CoreEnvironmentType, TypeSplit DEF Environment
      <3>2. ProcTypeOK'
        BY <2>3 DEF Environment, TypeOK, ProcTypeOK, procVars, histVars
      <3> QED BY <3>1, <3>2, TypeSplit
    <2> QED BY <2>1, <2>2, <2>3, IncludeType DEF Next
  <1> QED BY <1>1, <1>2, PTL DEF Spec

-----------------------------------------------------------------------------
(* The tree is the replay of its events. *)

\* What the free gate establishes before a fee is paid, and what no later step
\* of the keeper changes: the proof is of an epoch of this generation without
\* rows or unfit terms, it commits what the host predicted, and that is a change.
Sound(p) ==
    /\ ~p.rows
    /\ p.gen = PinnedGen
    /\ p.in.opens \cap Unfit = {}
    /\ p.new = Predict(p.prev, p.in)
    /\ p.new # p.prev

Paid == {"proving", "reread", "estimate", "send", "receipt"}

FlightInv ==
    /\ \A k \in Process : pc[k] \in Paid => Sound(pv[k])
    /\ \A k \in Process : pending[k] = "waiting" => Sound(sent[k])
    /\ \A p \in orphans : Sound(p)

LEMMA FlightScan ==
    ASSUME TypeOK, FlightInv, NEW k \in Process, Scan(k) PROVE FlightInv'
  <1>1. UNCHANGED <<sent, pending, orphans>>
    BY DEF Scan
  <1>2. CASE pc'[k] \notin Paid /\ \A j \in Process \ {k} :
                pc'[j] = pc[j] /\ pv'[j] = pv[j]
    BY <1>1, <1>2 DEF FlightInv, Sound
  <1>3. \/ pc'[k] \notin Paid /\ \A j \in Process \ {k} :
                pc'[j] = pc[j] /\ pv'[j] = pv[j]
        \/ BuildAndExecute(k) /\ ~ \E how \in Outcomes : Finish(k, how)
    BY DEF Scan, Rebase, Finish, Paid, TypeOK, Outcomes
  <1>4. CASE BuildAndExecute(k) /\ ~ \E how \in Outcomes : Finish(k, how)
    <2> DEFINE tree == Rebuilt(folds)
               in == FreshEpochInputs
               predicted == Predict(tree, in)
               executed == Execute(tree, in)
    <2>1. /\ in.opens \cap Unfit = {}
          /\ predicted # tree /\ executed = predicted /\ Prove(k, in, executed)
      BY <1>4 DEF BuildAndExecute, GatePasses, Outcomes
    <2> DEFINE new == [prev |-> tree, new |-> executed, in |-> in, rows |-> FALSE,
                       gen |-> PinnedGen]
    <2>2. Sound(new)
      BY <2>1 DEF Sound
    <2>3. pv' = [pv EXCEPT ![k] = new] /\ pc' = [pc EXCEPT ![k] = "proving"]
      BY <2>1 DEF Prove
    <2> HIDE DEF new
    <2> QED BY <1>1, <2>2, <2>3 DEF FlightInv, TypeOK, Sound
  <1> QED BY <1>2, <1>3, <1>4

\* No step after the payment changes what is submitted.
LEMMA FlightStep ==
    ASSUME TypeOK, FlightInv, [Next]_vars PROVE FlightInv'
  <1>1. CASE UNCHANGED vars
    BY <1>1 DEF FlightInv, Sound, vars, procVars
  <1>2. ASSUME NEW k \in Process, Invoke(k) PROVE FlightInv'
    BY <1>2 DEF FlightInv, Sound, Invoke, TypeOK, Paid
  <1>3. ASSUME NEW k \in Process, ReadRoot(k) \/ ReadRest(k) \/ Audit(k) \/ Fault(k)
        PROVE  FlightInv'
    <2>1. /\ UNCHANGED <<sent, pending, orphans>>
          /\ pc'[k] \notin Paid
          /\ \A j \in Process \ {k} : pc'[j] = pc[j] /\ pv'[j] = pv[j]
      BY <1>3 DEF ReadRoot, ReadRest, Audit, Fault, Finish, TypeOK, Paid
    <2> QED BY <2>1 DEF FlightInv, Sound
  <1>4. ASSUME NEW k \in Process,
               ProofArrives(k) \/ Reread(k) \/ Estimate(k) \/ SendRefused(k) \/ Receipt(k)
        PROVE  FlightInv'
    BY <1>4 DEF FlightInv, Sound, ProofArrives, Reread, Estimate, SendRefused,
                Receipt, Rebase, Goto, Finish, TypeOK, Paid
  <1>5. ASSUME NEW k \in Process, Send(k) PROVE FlightInv'
    BY <1>5 DEF FlightInv, Sound, Send, Goto, Finish, TypeOK, Paid
  <1>6. ASSUME NEW k \in Process, Include(k) PROVE FlightInv'
    BY <1>6 DEF FlightInv, Sound, Include, Verdict, TypeOK, Paid
  <1>7. ASSUME NEW p \in orphans, IncludeOrphan(p) PROVE FlightInv'
    BY <1>7 DEF FlightInv, Sound, IncludeOrphan
  <1>8. CASE Environment
    BY <1>8 DEF FlightInv, Sound, Environment, procVars
  <1> QED BY <1>1, <1>2, <1>3, <1>4, <1>5, <1>6, <1>7, <1>8, FlightScan
          DEF Next, Step

THEOREM PaidProofsAreSound == Spec => []FlightInv
  <1>1. Init => FlightInv
    BY DEF Init, FlightInv, Paid
  <1>2. TypeOK /\ FlightInv /\ [Next]_vars => FlightInv'
    BY FlightStep
  <1> QED BY <1>1, <1>2, TypeCorrect, PTL DEF Spec

\* The only ways the core moves.
LEMMA CoreMoves ==
    ASSUME TypeOK, FlightInv, [Next]_vars
    PROVE  \/ UNCHANGED treeVars
           \/ \E p \in PublicValues :
                 Accept(p) /\ p.new # p.prev /\ (p.rows \/ Sound(p))
  <1>1. CASE UNCHANGED vars
    BY <1>1 DEF vars, coreVars
  <1>2. ASSUME NEW k \in Process, Invoke(k) \/ Step(k) \/ Fault(k)
        PROVE  UNCHANGED treeVars
    BY <1>2 DEF Invoke, Step, Fault, ReadRoot, ReadRest, Scan, Audit, ProofArrives,
                Reread, Estimate, Send, SendRefused, Receipt, coreVars
  <1>3. ASSUME NEW k \in Process, Include(k)
        PROVE  \/ UNCHANGED treeVars
               \/ Accept(sent[k]) /\ sent[k] \in PublicValues /\ Sound(sent[k])
    BY <1>3 DEF Include, FlightInv, TypeOK, coreVars
  <1>4. ASSUME NEW p \in orphans, IncludeOrphan(p)
        PROVE  \/ UNCHANGED treeVars
               \/ Accept(p) /\ p \in PublicValues /\ Sound(p)
    BY <1>4 DEF IncludeOrphan, FlightInv, TypeOK, coreVars
  <1>5. ASSUME NEW t, ForeignFold(t)
        PROVE  \E p \in PublicValues : Accept(p) /\ p.new # p.prev /\ p.rows
    <2> DEFINE p == HandoffValues(t)
    <2>1. p \in PublicValues /\ Accept(p)
      BY <1>5, HandoffType, TypeSplit
    <2>2. p.new # p.prev /\ p.rows
      BY <1>5 DEF ForeignFold, HandoffValues
    <2> HIDE DEF p
    <2> QED BY <2>1, <2>2
  <1>6. CASE Environment
    BY <1>5, <1>6 DEF Environment, CoreEnvironment, OpenLock, BindTwap,
                      MarkGoesStale, FlipPause, Tick, Rotate
  <1> QED BY <1>1, <1>2, <1>3, <1>4, <1>6 DEF Next, Sound

\* The same without the invariant, for what the opens depend on.
LEMMA CoreSteps ==
    ASSUME TypeOK, [Next]_vars
    PROVE  \/ UNCHANGED <<folds, bound, opened>>
           \/ \E o \in OpenId : OpenLock(o)
           \/ \E p \in PublicValues : Accept(p)
  <1> USE DEF coreVars, treeVars, openVars
  <1>1. CASE UNCHANGED vars
    BY <1>1 DEF vars
  <1>2. ASSUME NEW k \in Process, Invoke(k) \/ Step(k) \/ Fault(k)
        PROVE  UNCHANGED <<folds, bound, opened>>
    BY <1>2 DEF Invoke, Step, Fault, ReadRoot, ReadRest, Scan, Audit, ProofArrives,
                Reread, Estimate, Send, SendRefused, Receipt, coreVars
  <1>3. ASSUME NEW k \in Process, Include(k)
        PROVE  UNCHANGED <<folds, bound, opened>> \/ \E p \in PublicValues : Accept(p)
    BY <1>3 DEF Include, TypeOK, coreVars
  <1>4. ASSUME NEW q \in orphans, IncludeOrphan(q)
        PROVE  UNCHANGED <<folds, bound, opened>> \/ \E p \in PublicValues : Accept(p)
    BY <1>4 DEF IncludeOrphan, TypeOK, coreVars
  <1>5. ASSUME NEW t, ForeignFold(t) PROVE \E p \in PublicValues : Accept(p)
    BY <1>5, HandoffType, TypeSplit
  <1>6. CASE Environment
    BY <1>5, <1>6 DEF Environment, CoreEnvironment, BindTwap, MarkGoesStale,
                      FlipPause, Tick, Rotate
  <1> QED BY <1>1, <1>2, <1>3, <1>4, <1>6 DEF Next

LEMMA AcceptReplay ==
    ASSUME TypeOK, TreeIsReplay, NEW p \in PublicValues, Accept(p), p.rows \/ Sound(p)
    PROVE  TreeIsReplay'
  <1>1. /\ folds \in Seq(PublicValues) /\ pausedAt \in Seq(BOOLEAN)
        /\ Len(pausedAt) = Len(folds)
        /\ folds' = Append(folds, p)
        /\ pausedAt' = Append(pausedAt, paused)
        /\ root' = p.new
        /\ p.prev = root
    BY DEF TypeOK, CoreTypeOK, Accept, Verdict
  <1>2. /\ Len(folds') = Len(folds) + 1
        /\ folds'[Len(folds) + 1] = p
        /\ \A i \in 1..Len(folds) : folds'[i] = folds[i]
        /\ folds' # <<>>
        /\ DOMAIN folds' = 1..(Len(folds) + 1)
        /\ DOMAIN folds = 1..Len(folds)
        /\ Len(folds) \in Nat
    BY <1>1
  <1>3. \A i \in 1..Len(folds) : pausedAt'[i] = pausedAt[i]
    BY <1>1
  <1>4. root' = Rebuilt(folds')
    BY <1>1, <1>2 DEF Rebuilt
  <1>5. ASSUME \A i \in DOMAIN folds' : Reproducible(i)' PROVE Replays'
    <2>1. /\ ~p.rows
          /\ \A i \in DOMAIN folds' :
                Replay(folds'[i].prev, folds'[i].in, pausedAt'[i])
                   = Predict(folds'[i].prev, folds'[i].in)
      BY <1>2, <1>5 DEF Reproducible
    <2>2. Sound(p)
      BY <2>1
    <2>3. Replays
      <3>1. \A i \in DOMAIN folds : Reproducible(i)
        BY <1>2, <1>3, <1>5 DEF Reproducible
      <3> QED BY <3>1 DEF TreeIsReplay
    <2>4. p.prev = IF Len(folds) + 1 = 1 THEN EmptyTree ELSE folds[Len(folds)].new
      <3>1. folds = <<>> <=> Len(folds) = 0
        BY <1>1
      <3> QED BY <1>1, <1>2, <3>1 DEF TreeIsReplay, Rebuilt
    <2> SUFFICES ASSUME NEW i \in 1..(Len(folds) + 1)
                 PROVE  /\ folds'[i].gen = PinnedGen
                        /\ ~folds'[i].rows
                        /\ folds'[i].in.opens \cap Unfit = {}
                        /\ folds'[i].prev = IF i = 1 THEN EmptyTree ELSE folds'[i - 1].new
                        /\ folds'[i].new = Replay(folds'[i].prev, folds'[i].in, pausedAt'[i])
      BY <1>2 DEF Replays
    <2>5. CASE i = Len(folds) + 1
      <3>1. i # 1 => folds'[i - 1] = folds[Len(folds)]
        BY <1>2, <2>5
      <3>2. folds'[i] = p
        BY <1>2, <2>5
      <3>3. p.new = Replay(p.prev, p.in, pausedAt'[i])
        BY <1>2, <2>1, <2>2, <2>5, <3>2 DEF Sound
      <3> QED BY <2>2, <2>4, <2>5, <3>1, <3>2, <3>3 DEF Sound
    <2>6. CASE i \in 1..Len(folds)
      <3>1. i # 1 => folds'[i - 1] = folds[i - 1]
        BY <1>2, <2>6
      <3> QED BY <1>2, <1>3, <2>3, <2>6, <3>1 DEF Replays
    <2> QED BY <1>2, <2>5, <2>6
  <1> QED BY <1>4, <1>5 DEF TreeIsReplay

\* Whatever the keepers race, lose or abandon, the committed tree is the end of
\* the chain's own events, and a scan gets past every fold that they landed,
\* except where the host's replay and its prediction disagree on that epoch.
THEOREM ReplayCorrect == Spec => []TreeIsReplay
  <1>1. Init => TreeIsReplay
    BY DEF Init, CoreInit, TreeIsReplay, Rebuilt, Replays
  <1>2. TypeOK /\ FlightInv /\ TreeIsReplay /\ [Next]_vars => TreeIsReplay'
    <2> SUFFICES ASSUME TypeOK, FlightInv, TreeIsReplay, [Next]_vars
                 PROVE  TreeIsReplay'
      OBVIOUS
    <2>1. CASE UNCHANGED treeVars
      BY <2>1 DEF treeVars, TreeIsReplay, Rebuilt, Replays, Reproducible
    <2> QED BY <2>1, CoreMoves, AcceptReplay
  <1> QED BY <1>1, <1>2, TypeCorrect, PaidProofsAreSound, PTL DEF Spec

-----------------------------------------------------------------------------
(* The open marks. *)

\* The contract's marks and the events tell the same story.
OpenInv == OpenMarksMatchEvents /\ FoldedIds \subseteq bound

LEMMA FoldedIdsAppend ==
    ASSUME CoreTypeOK, NEW p \in PublicValues, folds' = Append(folds, p)
    PROVE  /\ Len(folds') = Len(folds) + 1
           /\ DOMAIN folds = 1..Len(folds) /\ DOMAIN folds' = 1..(Len(folds) + 1)
           /\ Len(folds) \in Nat
           /\ folds'[Len(folds) + 1] = p
           /\ \A i \in DOMAIN folds : folds'[i] = folds[i]
           /\ FoldedIds' = FoldedIds \cup p.in.opens
  <1>1. folds \in Seq(PublicValues)
    BY DEF CoreTypeOK
  <1>2. /\ Len(folds') = Len(folds) + 1
        /\ DOMAIN folds = 1..Len(folds) /\ DOMAIN folds' = 1..(Len(folds) + 1)
        /\ Len(folds) \in Nat
        /\ folds'[Len(folds) + 1] = p
        /\ \A i \in DOMAIN folds : folds'[i] = folds[i]
    BY <1>1
  <1>3. ASSUME NEW o \in FoldedIds' PROVE o \in FoldedIds \cup p.in.opens
    <2>1. PICK i \in 1..(Len(folds) + 1) : o \in folds'[i].in.opens
      BY <1>2 DEF FoldedIds
    <2>2. CASE i = Len(folds) + 1
      BY <1>2, <2>1, <2>2
    <2>3. CASE i \in DOMAIN folds
      BY <1>2, <2>1, <2>3 DEF FoldedIds
    <2> QED BY <1>2, <2>2, <2>3
  <1>4. ASSUME NEW o \in FoldedIds \cup p.in.opens PROVE o \in FoldedIds'
    <2>1. CASE o \in p.in.opens
      <3>1. Len(folds) + 1 \in DOMAIN folds'
        BY <1>2
      <3> QED BY <1>2, <2>1, <3>1 DEF FoldedIds
    <2>2. CASE o \in FoldedIds
      <3>1. PICK i \in DOMAIN folds : o \in folds[i].in.opens
        BY <2>2 DEF FoldedIds
      <3>2. i \in DOMAIN folds' /\ folds'[i] = folds[i]
        BY <1>2, <3>1
      <3> QED BY <3>1, <3>2 DEF FoldedIds
    <2> QED BY <2>1, <2>2
  <1> QED BY <1>2, <1>3, <1>4

LEMMA AcceptOpens ==
    ASSUME CoreTypeOK, OpenInv, NEW p \in PublicValues, Accept(p)
    PROVE  OpenInv'
  <1>1. /\ folds' = Append(folds, p)
        /\ opened' = opened \ p.in.opens
        /\ bound' = bound
        /\ p.in.opens \subseteq opened
    BY DEF Accept, Verdict
  <1>2. OpenMarksMatchEvents'
    BY <1>1, FoldedIdsAppend DEF OpenInv, OpenMarksMatchEvents, UnfoldedOpens
  <1>3. (FoldedIds \subseteq bound)'
    BY <1>1, FoldedIdsAppend DEF OpenInv, OpenMarksMatchEvents, UnfoldedOpens
  <1> QED BY <1>2, <1>3 DEF OpenInv

LEMMA OpenInvariant == Spec => []OpenInv
  <1>1. Init => OpenInv
    BY DEF Init, CoreInit, OpenInv, OpenMarksMatchEvents, UnfoldedOpens, FoldedIds
  <1>2. TypeOK /\ OpenInv /\ [Next]_vars => OpenInv'
    <2> SUFFICES ASSUME TypeOK, OpenInv, [Next]_vars PROVE OpenInv'
      OBVIOUS
    <2>0. CoreTypeOK
      BY TypeSplit
    <2>1. CASE UNCHANGED <<folds, bound, opened>>
      BY <2>1 DEF OpenInv, OpenMarksMatchEvents, UnfoldedOpens, FoldedIds
    <2>2. ASSUME NEW o \in OpenId, OpenLock(o) PROVE OpenInv'
      <3>1. /\ o \notin bound /\ bound' = bound \cup {o}
            /\ opened' = opened \cup {o} /\ folds' = folds
        BY <2>2 DEF OpenLock, treeVars
      <3>2. FoldedIds' = FoldedIds
        BY <3>1 DEF FoldedIds
      <3> QED BY <3>1, <3>2 DEF OpenInv, OpenMarksMatchEvents, UnfoldedOpens
    <2>3. ASSUME NEW p \in PublicValues, Accept(p) PROVE OpenInv'
      BY <2>0, <2>3, AcceptOpens
    <2>4. \/ UNCHANGED <<folds, bound, opened>>
          \/ \E o \in OpenId : OpenLock(o)
          \/ \E p \in PublicValues : Accept(p)
      BY CoreSteps
    <2> QED BY <2>1, <2>2, <2>3, <2>4
  <1> QED BY <1>1, <1>2, TypeCorrect, PTL DEF Spec

\* The opens that a keeper selects from the events are exactly the ones that the
\* contract would still accept.
THEOREM MarksMatchEventsAlways == Spec => []OpenMarksMatchEvents
  <1>1. OpenInv => OpenMarksMatchEvents
    BY DEF OpenInv
  <1> QED BY <1>1, OpenInvariant, PTL

-----------------------------------------------------------------------------
(* The keepers implement the lane. *)

LEMMA AcceptAdvances ==
    ASSUME TypeOK, OpenInv, NEW p \in PublicValues, Accept(p), Sound(p)
    PROVE  Lane!Advance(p.in)
  <1>1. CoreTypeOK
    BY TypeSplit
  <1>2. /\ p.prev = root /\ root' = p.new
        /\ p.in.opens \subseteq opened
        /\ p.in.price \in prices \cup {NoPrice}
        /\ folds' = Append(folds, p)
        /\ UNCHANGED <<bound, prices>>
    BY DEF Accept, Verdict, priceVars
  <1>3. p.in.opens \subseteq bound \ FoldedIds
    BY <1>2 DEF OpenInv, OpenMarksMatchEvents, UnfoldedOpens
  <1>4. FoldedIds' = FoldedIds \cup p.in.opens
    BY <1>1, <1>2, FoldedIdsAppend
  <1> QED BY <1>2, <1>3, <1>4 DEF Lane!Advance, Sound

\* Another prover's rows move the tree and take no trade.
LEMMA ForeignHandsOver ==
    ASSUME CoreTypeOK, NEW t, ForeignFold(t) PROVE Lane!HandOver
  <1>1. /\ HandoffValues(t) \in PublicValues
        /\ folds' = Append(folds, HandoffValues(t)) /\ root' = t
        /\ t \in Foreign(root) \ {root}
        /\ UNCHANGED <<bound, prices>>
    BY HandoffType DEF ForeignFold, Accept, HandoffValues, priceVars
  <1>2. FoldedIds' = FoldedIds \cup HandoffValues(t).in.opens
    BY <1>1, FoldedIdsAppend
  <1>3. HandoffValues(t).in.opens = {}
    BY DEF HandoffValues
  <1> QED BY <1>1, <1>2, <1>3 DEF Lane!HandOver

LEMMA StepImplements ==
    ASSUME TypeOK, FlightInv, OpenInv, [Next]_vars
    PROVE  [Lane!Next]_(Lane!laneVars)
  <1>0. CoreTypeOK
    BY TypeSplit
  <1> USE DEF coreVars, treeVars, openVars, priceVars
  <1>1. CASE UNCHANGED <<root, folds, bound, prices>>
    BY <1>1 DEF Lane!laneVars, FoldedIds
  <1>2. ASSUME NEW k \in Process, Invoke(k) \/ Step(k) \/ Fault(k)
        PROVE  UNCHANGED <<root, folds, bound, prices>>
    BY <1>2 DEF Invoke, Step, Fault, ReadRoot, ReadRest, Scan, Audit, ProofArrives,
                Reread, Estimate, Send, SendRefused, Receipt
  <1>3. ASSUME NEW p \in PublicValues, Accept(p), Sound(p) PROVE Lane!Next
    <2>1. p.in \in Inputs
      BY DEF PublicValues
    <2> QED BY <1>3, <2>1, AcceptAdvances DEF Lane!Next
  <1>4. ASSUME NEW k \in Process, Include(k)
        PROVE  UNCHANGED <<root, folds, bound, prices>> \/ Lane!Next
    <2>1. CASE Accept(sent[k])
      BY <1>3, <1>4, <2>1 DEF Include, FlightInv, TypeOK
    <2>2. CASE UNCHANGED coreVars
      BY <2>2
    <2> QED BY <1>4, <2>1, <2>2 DEF Include
  <1>5. ASSUME NEW p \in orphans, IncludeOrphan(p)
        PROVE  UNCHANGED <<root, folds, bound, prices>> \/ Lane!Next
    <2>1. CASE Accept(p)
      BY <1>3, <2>1 DEF FlightInv, TypeOK
    <2>2. CASE UNCHANGED coreVars
      BY <2>2
    <2> QED BY <1>5, <2>1, <2>2 DEF IncludeOrphan
  <1>6. CASE Environment
    <2>1. ASSUME NEW o \in OpenId, OpenLock(o) PROVE Lane!Next
      BY <2>1 DEF OpenLock, Lane!Next, Lane!Bind, FoldedIds
    <2>2. ASSUME NEW p \in Price, BindTwap(p) PROVE Lane!Next
      BY <2>2 DEF BindTwap, Lane!Next, Lane!BindPrice, FoldedIds
    <2>3. ASSUME NEW t, ForeignFold(t) PROVE Lane!Next
      BY <1>0, <2>3, ForeignHandsOver DEF Lane!Next
    <2>4. CASE MarkGoesStale \/ FlipPause \/ Tick \/ Rotate
      BY <2>4 DEF MarkGoesStale, FlipPause, Tick, Rotate, Lane!laneVars, FoldedIds
    <2> QED BY <1>6, <2>1, <2>2, <2>3, <2>4 DEF Environment, CoreEnvironment
  <1> QED BY <1>1, <1>2, <1>4, <1>5, <1>6 DEF Next, vars

\* Seen from the parties, the races, lost proofs, crashes and orphaned
\* transactions are invisible: the lane moves by whole epochs, each computed
\* from the tree it replaces.
THEOREM KeepersImplementLane == Spec => ImplementsLane
  <1>1. Init => Lane!Init
    BY DEF Init, CoreInit, Lane!Init, FoldedIds
  <1>2. TypeOK /\ FlightInv /\ OpenInv /\ [Next]_vars => [Lane!Next]_(Lane!laneVars)
    BY StepImplements
  <1> QED BY <1>1, <1>2, TypeCorrect, PaidProofsAreSound, OpenInvariant, PTL
          DEF Spec, ImplementsLane, Lane!Spec

-----------------------------------------------------------------------------
(* Retries are races. *)

\* readAt dates what a process has read: while no fold has landed since, the
\* root it holds is the core's, and one fold is enough to tell them apart.
RaceOf(k) ==
    /\ pc[k] = "idle" => attempt[k] = 1 /\ paid[k] = 0
    /\ pc[k] = "readRoot" => attempt[k] - 1 <= Len(folds) - since[k]
    /\ pc[k] \notin {"idle", "readRoot"} =>
          /\ attempt[k] - 1 <= readAt[k] - since[k]
          /\ readAt[k] <= Len(folds)
    /\ pc[k] \in {"readRest", "scan"} =>
          /\ readAt[k] = Len(folds) => seen[k].root = root
          /\ readAt[k] + 1 = Len(folds) => seen[k].root # root
    /\ pc[k] = "scan" /\ readAt[k] = Len(folds) => seen[k].registry = Registry(root)
    /\ pc[k] \in Paid =>
          /\ readAt[k] = Len(folds) => pv[k].prev = root
          /\ readAt[k] + 1 = Len(folds) => pv[k].prev # root
    /\ pc[k] \in {"idle", "readRoot", "readRest", "scan"} => paid[k] <= attempt[k] - 1
    /\ pc[k] \in Paid => paid[k] <= attempt[k]

RaceInv == \A k \in Process : RaceOf(k)

LEMMA RaceMeaning ==
    ASSUME TypeOK, RaceInv PROVE RetriesAreRaces
  <1> SUFFICES ASSUME NEW k \in Keeper, pc[k] # "idle"
               PROVE  /\ attempt[k] - 1 <= Len(folds) - since[k]
                      /\ paid[k] <= attempt[k]
    BY DEF RetriesAreRaces
  <1>1. /\ k \in Process /\ Len(folds) \in Nat /\ attempt[k] \in Nat
        /\ since[k] \in Nat /\ readAt[k] \in Nat /\ paid[k] \in Nat
    BY KeeperAssumption DEF TypeOK, CoreTypeOK, Process
  <1>2. RaceOf(k)
    BY <1>1 DEF RaceInv
  <1>3. pc[k] \in {"readRoot", "readRest", "scan"} \cup Paid
    BY <1>1 DEF TypeOK, Paid
  <1> QED BY <1>1, <1>2, <1>3 DEF RaceOf, Paid

\* Lemma on the loop: an attempt that was lost to a fold is not a free one.
LEMMA RaceRebase ==
    ASSUME TypeOK, NEW k \in Process, RaceOf(k), Rebase(k), UNCHANGED <<root, folds>>,
           pc[k] \notin {"idle", "readRoot"}, readAt[k] # Len(folds)
    PROVE  RaceOf(k)'
  <1>1. /\ k \in Process /\ Len(folds) \in Nat /\ attempt[k] \in Nat
        /\ since[k] \in Nat /\ readAt[k] \in Nat /\ paid[k] \in Nat
    BY KeeperAssumption DEF TypeOK, CoreTypeOK, Process
  <1>2. pc[k] \in {"readRest", "scan"} \cup Paid
    BY <1>1 DEF TypeOK, Paid
  <1>3. CASE Finish(k, "gaveUp")
    BY <1>1, <1>3 DEF Finish, RaceOf, Paid, TypeOK
  <1>4. CASE ~Finish(k, "gaveUp")
    <2>1. /\ attempt'[k] = attempt[k] + 1 /\ pc'[k] = "readRoot"
          /\ UNCHANGED <<paid, since, readAt>>
      BY <1>1, <1>4 DEF Rebase, TypeOK, histVars
    <2> QED BY <1>1, <1>2, <2>1 DEF RaceOf, Paid
  <1> QED BY <1>3, <1>4

LEMMA RaceFinish ==
    ASSUME TypeOK, NEW k \in Process, NEW how, Finish(k, how) PROVE RaceOf(k)'
  BY DEF Finish, RaceOf, Paid, TypeOK

LEMMA RaceGoto ==
    ASSUME TypeOK, NEW k \in Process, RaceOf(k), UNCHANGED <<root, folds>>,
           pc[k] \in Paid, NEW l \in Paid, Goto(k, l)
    PROVE  RaceOf(k)'
  BY DEF Goto, RaceOf, Paid, TypeOK, histVars

LEMMA RaceStarts ==
    ASSUME TypeOK, NEW k \in Process, RaceOf(k), Invoke(k) \/ ReadRoot(k) \/ ReadRest(k)
    PROVE  RaceOf(k)'
  <1>1. /\ k \in Process /\ Len(folds) \in Nat /\ attempt[k] \in Nat
        /\ since[k] \in Nat /\ readAt[k] \in Nat /\ paid[k] \in Nat
    BY KeeperAssumption DEF TypeOK, CoreTypeOK, Process
  <1>2. CASE Invoke(k)
    <2>1. /\ pc[k] = "idle" /\ pc'[k] = "readRoot" /\ since'[k] \in Nat
          /\ since'[k] <= Len(folds)
          /\ UNCHANGED <<folds, attempt, paid>>
      BY <1>1, <1>2 DEF Invoke, TypeOK, coreVars, treeVars
    <2> QED BY <1>1, <2>1 DEF RaceOf, Paid
  <1>3. CASE ReadRoot(k)
    <2>1. /\ pc[k] = "readRoot" /\ pc'[k] = "readRest" /\ readAt'[k] = Len(folds)
          /\ seen'[k].root = root
          /\ UNCHANGED <<root, folds, attempt, paid, since>>
      BY <1>1, <1>3 DEF ReadRoot, TypeOK, coreVars, treeVars
    <2> QED BY <1>1, <2>1 DEF RaceOf, Paid
  <1>4. CASE ReadRest(k) /\ Finish(k, "wrongGeneration")
    BY <1>1, <1>4, RaceFinish
  <1>5. CASE ReadRest(k) /\ ~Finish(k, "wrongGeneration")
    <2>1. /\ pc[k] = "readRest" /\ pc'[k] = "scan"
          /\ seen'[k].root = seen[k].root /\ seen'[k].registry = Registry(root)
          /\ UNCHANGED <<root, folds, attempt, paid, since, readAt>>
      BY <1>1, <1>5 DEF ReadRest, TypeOK, coreVars, treeVars, histVars
    <2> QED BY <1>1, <2>1 DEF RaceOf, Paid
  <1> QED BY <1>2, <1>3, <1>4, <1>5

\* The scan loses its attempt only if a fold landed after the root was read;
\* a proof is paid for on the root the core holds at the scan.
LEMMA RaceScan ==
    ASSUME TypeOK, TreeIsReplay, NEW k \in Process, RaceOf(k), Scan(k)
    PROVE  RaceOf(k)'
  <1>1. /\ k \in Process /\ Len(folds) \in Nat /\ attempt[k] \in Nat
        /\ since[k] \in Nat /\ readAt[k] \in Nat /\ paid[k] \in Nat
    BY KeeperAssumption DEF TypeOK, CoreTypeOK, Process
  <1>2. pc[k] = "scan" /\ UNCHANGED <<root, folds>> /\ root = Rebuilt(folds)
    BY DEF Scan, coreVars, treeVars, TreeIsReplay
  <1>3. CASE \E how \in Outcomes : Finish(k, how)
    BY <1>1, <1>3, RaceFinish
  <1>4. CASE ~RootReplayed(k) /\ Rebase(k)
    <2>1. readAt[k] # Len(folds)
      BY <1>2, <1>4 DEF RootReplayed, RaceOf
    <2> QED BY <1>2, <1>4, <2>1, RaceRebase
  <1>5. CASE /\ RootReplayed(k) /\ BuildAndExecute(k)
             /\ ~ \E how \in Outcomes : Finish(k, how)
    <2>1. PICK in, new : Prove(k, in, new)
      BY <1>5 DEF BuildAndExecute, Outcomes
    <2>2. /\ pc'[k] = "proving" /\ pv'[k].prev = root /\ paid'[k] = paid[k] + 1
          /\ attempt'[k] = attempt[k] /\ since'[k] = since[k] /\ readAt'[k] = readAt[k]
      BY <1>1, <1>2, <2>1 DEF Prove, TypeOK
    <2>3. seen[k].root = root
      BY <1>2, <1>5 DEF RootReplayed
    <2> QED BY <1>1, <1>2, <2>2, <2>3 DEF RaceOf, Paid
  <1> QED BY <1>3, <1>4, <1>5 DEF Scan, Outcomes

LEMMA RaceSubmits ==
    ASSUME TypeOK, NEW k \in Process, RaceOf(k),
           \/ Audit(k) \/ ProofArrives(k) \/ Reread(k) \/ Estimate(k) \/ Send(k)
           \/ SendRefused(k) \/ Receipt(k) \/ Fault(k)
    PROVE  RaceOf(k)'
  <1>1. UNCHANGED <<root, folds>>
    BY DEF Audit, ProofArrives, Reread, Estimate, Send, SendRefused, Receipt,
           Fault, coreVars, treeVars
  <1>2. CASE \E how \in Outcomes : Finish(k, how)
    BY <1>2, RaceFinish
  <1>3. CASE pc[k] \in Paid /\ \E l \in Paid : Goto(k, l)
    BY <1>1, <1>3, RaceGoto
  <1>4. CASE pc[k] \in Paid /\ root # pv[k].prev /\ Rebase(k)
    <2>1. readAt[k] # Len(folds)
      BY <1>4 DEF RaceOf
    <2> QED BY <1>1, <1>4, <2>1, RaceRebase DEF Paid
  <1>5. (Reread(k) \/ Estimate(k) \/ SendRefused(k)) =>
              \/ \E how \in Outcomes : Finish(k, how)
              \/ pc[k] \in Paid /\ \E l \in Paid : Goto(k, l)
              \/ pc[k] \in Paid /\ root # pv[k].prev /\ Rebase(k)
    BY DEF Reread, Estimate, SendRefused, Verdict, Paid, Outcomes
  <1>6. (ProofArrives(k) \/ Send(k) \/ Receipt(k) \/ Fault(k)) =>
              \/ \E how \in Outcomes : Finish(k, how)
              \/ pc[k] \in Paid /\ \E l \in Paid : Goto(k, l)
    BY DEF ProofArrives, Send, Receipt, Fault, Paid, Outcomes
  <1>7. Audit(k) => \E how \in Outcomes : Finish(k, how)
    BY DEF Audit, Outcomes
  <1> QED BY <1>2, <1>3, <1>4, <1>5, <1>6, <1>7

\* A fold lands: it was not there when the root was read, and it moves the root.
LEMMA RaceFold ==
    ASSUME TypeOK, NEW k \in Process, RaceOf(k), NEW p \in PublicValues,
           Accept(p), p.new # p.prev,
           UNCHANGED <<pc, attempt, seen, pv, histVars>>
    PROVE  RaceOf(k)'
  <1>1. /\ k \in Process /\ Len(folds) \in Nat /\ attempt[k] \in Nat
        /\ since[k] \in Nat /\ readAt[k] \in Nat /\ paid[k] \in Nat
    BY KeeperAssumption DEF TypeOK, CoreTypeOK, Process
  <1>2. Len(folds') = Len(folds) + 1 /\ root' # root
    BY DEF Accept, Verdict, TypeOK, CoreTypeOK
  <1> QED BY <1>1, <1>2 DEF RaceOf, histVars, Paid

\* A process changes its own variables only.
LEMMA OthersKeep ==
    ASSUME TypeOK, NEW j \in Process, NEW k \in Process \ {j},
           Invoke(j) \/ Step(j) \/ Fault(j)
    PROVE  /\ pc'[k] = pc[k] /\ attempt'[k] = attempt[k] /\ seen'[k] = seen[k]
           /\ pv'[k] = pv[k] /\ paid'[k] = paid[k] /\ since'[k] = since[k]
           /\ readAt'[k] = readAt[k]
  <1>1. CASE \E how \in Outcomes : Finish(j, how)
    BY <1>1 DEF Finish, TypeOK
  <1>2. CASE Rebase(j)
    BY <1>2 DEF Rebase, Finish, TypeOK, histVars
  <1>3. CASE \E l : Goto(j, l)
    BY <1>3 DEF Goto, TypeOK, histVars
  <1>4. CASE \E in, new : Prove(j, in, new)
    BY <1>4 DEF Prove, TypeOK
  <1>5. CASE Invoke(j) \/ ReadRoot(j)
    BY <1>5 DEF Invoke, ReadRoot, TypeOK
  <1>6. CASE ReadRest(j)
    BY <1>6 DEF ReadRest, Finish, TypeOK, histVars
  <1>7. CASE Scan(j)
    <2>1. \/ \E how \in Outcomes : Finish(j, how)
          \/ Rebase(j)
          \/ \E in, new : Prove(j, in, new)
      BY <1>7 DEF Scan, BuildAndExecute, Outcomes
    <2> QED BY <1>1, <1>2, <1>4, <2>1
  <1>8. CASE Audit(j)
    BY <1>8 DEF Audit, Finish, TypeOK
  <1>9. CASE \/ ProofArrives(j) \/ Reread(j) \/ Estimate(j) \/ Send(j)
             \/ SendRefused(j) \/ Receipt(j) \/ Fault(j)
    <2>1. \/ \E how \in Outcomes : Finish(j, how)
          \/ Rebase(j)
          \/ \E l : Goto(j, l)
      BY <1>9 DEF ProofArrives, Reread, Estimate, Send, SendRefused, Receipt,
                  Fault, Outcomes
    <2> QED BY <1>1, <1>2, <1>3, <2>1
  <1> QED BY <1>5, <1>6, <1>7, <1>8, <1>9 DEF Step

LEMMA RaceStep ==
    ASSUME TypeOK, FlightInv, TreeIsReplay, RaceInv, [Next]_vars
    PROVE  RaceInv'
  <1> SUFFICES ASSUME NEW k \in Process PROVE RaceOf(k)'
    BY DEF RaceInv
  <1>0. RaceOf(k)
    BY DEF RaceInv
  <1>1. CASE UNCHANGED vars
    BY <1>0, <1>1 DEF vars, coreVars, treeVars, procVars, histVars, RaceOf
  <1>2. CASE Invoke(k) \/ Step(k) \/ Fault(k)
    BY <1>0, <1>2, RaceStarts, RaceScan, RaceSubmits DEF Step
  <1>3. ASSUME NEW j \in Process, j # k, Invoke(j) \/ Step(j) \/ Fault(j)
        PROVE  RaceOf(k)'
    <2>1. UNCHANGED <<root, folds>>
      BY <1>3 DEF Invoke, Step, Fault, ReadRoot, ReadRest, Scan, Audit,
         ProofArrives, Reread, Estimate, Send, SendRefused, Receipt, coreVars,
         treeVars
    <2>2. /\ pc'[k] = pc[k] /\ attempt'[k] = attempt[k] /\ seen'[k] = seen[k]
          /\ pv'[k] = pv[k] /\ paid'[k] = paid[k] /\ since'[k] = since[k]
          /\ readAt'[k] = readAt[k]
      BY <1>0, <1>3, OthersKeep
    <2> QED BY <1>0, <2>1, <2>2 DEF RaceOf
  <1>4. CASE /\ UNCHANGED <<pc, attempt, seen, pv, histVars>>
             /\ UNCHANGED treeVars
    BY <1>0, <1>4 DEF RaceOf, histVars, treeVars
  <1>5. CASE /\ UNCHANGED <<pc, attempt, seen, pv, histVars>>
             /\ \E p \in PublicValues : Accept(p) /\ p.new # p.prev
    BY <1>0, <1>5, RaceFold
  <1>6. \/ UNCHANGED vars
        \/ \E j \in Process : Invoke(j) \/ Step(j) \/ Fault(j)
        \/ UNCHANGED <<pc, attempt, seen, pv, histVars>>
    BY DEF Next, Include, IncludeOrphan, Environment, procVars
  <1> QED BY <1>1, <1>2, <1>3, <1>4, <1>5, <1>6, CoreMoves

LEMMA RaceInvariant == Spec => []RaceInv
  <1>1. Init => RaceInv
    BY KeeperAssumption DEF Init, RaceInv, RaceOf, Paid, Process
  <1>2. TypeOK /\ FlightInv /\ TreeIsReplay /\ RaceInv /\ [Next]_vars => RaceInv'
    BY RaceStep
  <1> QED BY <1>1, <1>2, TypeCorrect, PaidProofsAreSound, ReplayCorrect, PTL DEF Spec

\* A quiet lane costs a keeper one attempt and one proof: every further one was
\* lost to a fold that landed during the invocation.
THEOREM RetriesAreRacesAlways == Spec => []RetriesAreRaces
  <1>1. TypeOK /\ RaceInv => RetriesAreRaces
    BY RaceMeaning
  <1> QED BY <1>1, TypeCorrect, RaceInvariant, PTL

\* An outcome is the process's own.
LEMMA OthersKeepOutcome ==
    ASSUME TypeOK, [Next]_vars, NEW k \in Process, outcome'[k] # outcome[k]
    PROVE  Invoke(k) \/ Step(k) \/ Fault(k)
  <1>1. ASSUME NEW j \in Process \ {k}, Invoke(j) \/ Fault(j) \/ Audit(j)
        PROVE  outcome'[k] = outcome[k]
    BY <1>1 DEF Invoke, Fault, Audit, Finish, TypeOK
  <1>2. ASSUME NEW j \in Process \ {k},
               \/ ReadRoot(j) \/ ReadRest(j) \/ ProofArrives(j) \/ Reread(j)
               \/ Estimate(j) \/ Send(j) \/ SendRefused(j) \/ Receipt(j)
        PROVE  outcome'[k] = outcome[k]
    BY <1>2 DEF ReadRoot, ReadRest, ProofArrives, Reread, Estimate, Send,
                SendRefused, Receipt, Rebase, Goto, Finish, TypeOK
  <1>3. ASSUME NEW j \in Process \ {k}, Scan(j) PROVE outcome'[k] = outcome[k]
    BY <1>3 DEF Scan, BuildAndExecute, Prove, Rebase, Finish, TypeOK
  <1>4. ~UNCHANGED outcome
    OBVIOUS
  <1>5. \E j \in Process : Invoke(j) \/ Step(j) \/ Fault(j)
    BY <1>4 DEF Next, Include, IncludeOrphan, Environment, procVars, vars
  <1> QED BY <1>1, <1>2, <1>3, <1>5 DEF Step

\* The bail after MAX_REBASE attempts says that the lane outran the keeper, and
\* it did: that many folds landed while it ran.
LEMMA GaveUpStep ==
    ASSUME TypeOK, TreeIsReplay, RaceInv, [Next]_vars,
           NEW k \in Keeper, outcome[k] # "gaveUp", outcome'[k] = "gaveUp"
    PROVE  Len(folds) - since[k] >= MAX_REBASE
  <1>1. /\ k \in Process /\ Len(folds) \in Nat /\ MAX_REBASE \in Nat
        /\ since[k] \in Nat /\ readAt[k] \in Nat /\ k \notin Auditor
    BY KeeperAssumption DEF TypeOK, CoreTypeOK, Process
  <1>2. RaceOf(k)
    BY <1>1 DEF RaceInv
  <1>3. Scan(k) \/ Reread(k) \/ Estimate(k) \/ SendRefused(k)
    <2>1. ASSUME Invoke(k) \/ ReadRoot(k) \/ ReadRest(k) \/ ProofArrives(k)
                 \/ Send(k) \/ Receipt(k) \/ Fault(k)
          PROVE  outcome'[k] # "gaveUp"
      BY <1>1, <2>1 DEF Invoke, ReadRoot, ReadRest, ProofArrives, Send, Receipt,
                        Fault, Goto, Finish, TypeOK
    <2> QED BY <1>1, <2>1, OthersKeepOutcome DEF Step, Audit
  <1>4. ASSUME NEW how, how # "gaveUp", Finish(k, how) PROVE FALSE
    BY <1>1, <1>4 DEF Finish, TypeOK
  <1>5. ASSUME NEW l, Goto(k, l) PROVE FALSE
    BY <1>5 DEF Goto
  <1>6. ASSUME NEW in, NEW new, Prove(k, in, new) PROVE FALSE
    BY <1>6 DEF Prove
  <1>7. ~BuildAndExecute(k)
    BY <1>4, <1>6 DEF BuildAndExecute
  <1>8. /\ Rebase(k)
        /\ \/ Scan(k) /\ ~RootReplayed(k)
           \/ pc[k] \in Paid /\ root # pv[k].prev
    <2>1. CASE Scan(k)
      BY <2>1, <1>4, <1>7 DEF Scan
    <2>2. CASE Reread(k) \/ SendRefused(k)
      BY <2>2, <1>5 DEF Reread, SendRefused, Verdict, Paid
    <2>3. CASE Estimate(k)
      BY <2>3, <1>4, <1>5 DEF Estimate, Verdict, Paid
    <2> QED BY <1>3, <2>1, <2>2, <2>3
  <1>9. pc[k] \notin {"idle", "readRoot"} /\ readAt[k] # Len(folds)
    <2>1. Scan(k) /\ ~RootReplayed(k) => readAt[k] # Len(folds) /\ pc[k] = "scan"
      BY <1>2 DEF Scan, RootReplayed, RaceOf, TreeIsReplay
    <2> QED BY <1>2, <1>8, <2>1 DEF RaceOf, Paid
  <1>10. attempt[k] = MAX_REBASE
    BY <1>8 DEF Rebase
  <1> QED BY <1>1, <1>2, <1>9, <1>10 DEF RaceOf

THEOREM GaveUpMeansOvertakenAlways == Spec => GaveUpMeansOvertaken
  <1>1. TypeOK /\ TreeIsReplay /\ RaceInv /\ [Next]_vars =>
          [\A k \in Keeper :
             outcome[k] # "gaveUp" /\ outcome'[k] = "gaveUp"
                => Len(folds) - since[k] >= MAX_REBASE]_vars
    BY GaveUpStep
  <1> QED BY <1>1, TypeCorrect, ReplayCorrect, RaceInvariant, PTL
          DEF Spec, GaveUpMeansOvertaken

\* The registry of the torn read differs from the replayed one only if the tree
\* left the root that was read and came back to it.
LEMMA DriftStep ==
    ASSUME TypeOK, TreeIsReplay, RaceInv, [Next]_vars, NEW k \in Keeper,
           outcome[k] # "registryDrift", outcome'[k] = "registryDrift"
    PROVE  Len(folds) - readAt[k] >= 2
  <1>1. /\ k \in Process /\ Len(folds) \in Nat /\ readAt[k] \in Nat
        /\ k \notin Auditor
    BY KeeperAssumption DEF TypeOK, CoreTypeOK, Process
  <1>2. RaceOf(k)
    BY <1>1 DEF RaceInv
  <1>3. Scan(k)
    <2>1. ASSUME Invoke(k) \/ ReadRoot(k) \/ ReadRest(k) \/ ProofArrives(k)
                 \/ Reread(k) \/ Estimate(k) \/ Send(k) \/ SendRefused(k)
                 \/ Receipt(k) \/ Fault(k)
          PROVE  outcome'[k] # "registryDrift"
      BY <1>1, <2>1 DEF Invoke, ReadRoot, ReadRest, ProofArrives, Reread, Estimate,
         Send, SendRefused, Receipt, Fault, Rebase, Goto, Finish, TypeOK
    <2> QED BY <1>1, <2>1, OthersKeepOutcome DEF Step, Audit
  <1>4. ASSUME NEW how, how # "registryDrift", Finish(k, how) PROVE FALSE
    BY <1>1, <1>4 DEF Finish, TypeOK
  <1>5. ~Rebase(k)
    BY <1>4 DEF Rebase
  <1>6. ASSUME NEW in, NEW new, Prove(k, in, new) PROVE FALSE
    BY <1>6 DEF Prove
  <1>7. RootReplayed(k) /\ Registry(Rebuilt(folds)) # seen[k].registry
    BY <1>3, <1>4, <1>5, <1>6 DEF Scan, BuildAndExecute
  <1>8. seen[k].root = root /\ seen[k].registry # Registry(root) /\ pc[k] = "scan"
    BY <1>3, <1>7 DEF RootReplayed, TreeIsReplay, Scan
  <1> QED BY <1>1, <1>2, <1>8 DEF RaceOf

THEOREM DriftMeansReturnAlways == Spec => DriftMeansReturn
  <1>1. TypeOK /\ TreeIsReplay /\ RaceInv /\ [Next]_vars =>
          [\A k \in Keeper :
             outcome[k] # "registryDrift" /\ outcome'[k] = "registryDrift"
                => Len(folds) - readAt[k] >= 2]_vars
    BY DriftStep
  <1> QED BY <1>1, TypeCorrect, ReplayCorrect, RaceInvariant, PTL
          DEF Spec, DriftMeansReturn

\* An audit compares what it read with a later tree: without a fold in between
\* they are the same, since the core's tree is the replay of its events.
LEMMA AlarmStep ==
    ASSUME TypeOK, TreeIsReplay, RaceInv, [Next]_vars, NEW k \in Auditor,
           outcome[k] \notin {"rootMismatch", "registryMismatch"},
           outcome'[k] \in {"rootMismatch", "registryMismatch"}
    PROVE  Len(folds) > readAt[k]
  <1>1. /\ k \in Process /\ Len(folds) \in Nat /\ readAt[k] \in Nat
        /\ k \notin Keeper
    BY KeeperAssumption DEF TypeOK, CoreTypeOK, Process
  <1>2. RaceOf(k)
    BY <1>1 DEF RaceInv
  <1>3. Audit(k)
    <2>1. ASSUME Invoke(k) \/ ReadRoot(k) \/ ReadRest(k) \/ ProofArrives(k)
                 \/ Reread(k) \/ Estimate(k) \/ Send(k) \/ SendRefused(k)
                 \/ Receipt(k) \/ Fault(k)
          PROVE  outcome'[k] \notin {"rootMismatch", "registryMismatch"}
      BY <1>1, <2>1 DEF Invoke, ReadRoot, ReadRest, ProofArrives, Reread, Estimate,
         Send, SendRefused, Receipt, Fault, Rebase, Goto, Finish, TypeOK
    <2> QED BY <1>1, <2>1, OthersKeepOutcome DEF Step, Scan
  <1>4. /\ pc[k] = "scan"
        /\ seen[k].root # root \/ seen[k].registry # Registry(root)
    BY <1>1, <1>3 DEF Audit, Finish, TypeOK, TreeIsReplay
  <1> QED BY <1>1, <1>2, <1>4 DEF RaceOf

THEOREM AlarmMeansOvertakenAlways == Spec => AlarmMeansOvertaken
  <1>1. TypeOK /\ TreeIsReplay /\ RaceInv /\ [Next]_vars =>
          [\A k \in Auditor :
             (/\ outcome[k] \notin {"rootMismatch", "registryMismatch"}
              /\ outcome'[k] \in {"rootMismatch", "registryMismatch"})
                => Len(folds) > readAt[k]]_vars
    BY AlarmStep
  <1> QED BY <1>1, TypeCorrect, ReplayCorrect, RaceInvariant, PTL
          DEF Spec, AlarmMeansOvertaken

-----------------------------------------------------------------------------
(* What becomes of a proof that was paid for. *)

\* The price of a proof is bound; while no fold has landed since the root was
\* read, its opens are unspent; and the transaction that is awaited is the proof.
LossOf(k) ==
    /\ pc[k] \in Paid => pv[k].in.price \in prices \cup {NoPrice}
    /\ pc[k] \in Paid /\ readAt[k] = Len(folds) => pv[k].in.opens \subseteq opened
    /\ pc[k] = "receipt" /\ pending[k] = "waiting" => sent[k] = pv[k]

MarkBound == mark \in prices \cup {NoPrice}

LossInv == MarkBound /\ \A k \in Process : LossOf(k)

\* Why the core would refuse the proof that k paid for.
Cause(k) ==
    \/ Len(folds) > readAt[k]
    \/ gen # PinnedGen
    \/ clock - pv[k].in.now > MAX_PROOF_STALENESS
    \/ pv[k].in.paused /\ ~paused

LEMMA LossVerdict ==
    ASSUME TypeOK, FlightInv, NEW k \in Process, RaceOf(k), LossOf(k),
           pc[k] \in Paid, Verdict(pv[k]) # "ok"
    PROVE  Cause(k)
  <1> SUFFICES ASSUME ~Cause(k) PROVE FALSE
    OBVIOUS
  <1>1. Len(folds) \in Nat /\ readAt[k] \in Nat /\ readAt[k] <= Len(folds)
    BY DEF TypeOK, CoreTypeOK, RaceOf, Paid
  <1>2. readAt[k] = Len(folds)
    BY <1>1 DEF Cause
  <1>3. pv[k].prev = root /\ pv[k].in.opens \subseteq opened
    BY <1>2 DEF RaceOf, LossOf
  <1>4. pv[k].in.price \in prices \cup {NoPrice}
    BY DEF LossOf
  <1>5. pv[k].gen = gen
    BY DEF FlightInv, Sound, Cause
  <1>6. pv[k].prev \in Tree /\ pv[k].in \in Inputs
    BY DEF TypeOK, PublicValues
  <1>7. ~(Holds(pv[k].prev, pv[k].in) /\ ~paused)
    BY <1>6, TreeAssumption DEF Cause
  <1> QED BY <1>3, <1>4, <1>5, <1>7 DEF Verdict, Cause

\* The steps of the process itself.
LEMMA LossOwn ==
    ASSUME TypeOK, OpenMarksMatchEvents, MarkBound, NEW k \in Process, LossOf(k),
           Invoke(k) \/ Step(k) \/ Fault(k)
    PROVE  LossOf(k)'
  <1>1. UNCHANGED <<folds, opened, prices>>
    BY DEF Invoke, Step, Fault, ReadRoot, ReadRest, Scan, Audit, ProofArrives,
           Reread, Estimate, Send, SendRefused, Receipt, coreVars, treeVars,
           openVars, priceVars
  <1>2. CASE pc'[k] \notin Paid
    BY <1>2 DEF LossOf, Paid
  <1>3. CASE \E l \in Paid \ {"receipt"} : Goto(k, l) /\ pc[k] \in Paid
    <2>1. pc'[k] \in Paid \ {"receipt"} /\ pv'[k] = pv[k] /\ readAt'[k] = readAt[k]
      BY <1>3 DEF Goto, TypeOK, histVars
    <2> QED BY <1>1, <1>3, <2>1 DEF LossOf
  <1>4. CASE \E in, new : Prove(k, in, new) /\ in = FreshEpochInputs
    <2>1. pc'[k] = "proving" /\ pv'[k].in.opens = UnfoldedOpens /\ pv'[k].in.price = mark
      BY <1>4 DEF Prove, TypeOK, FreshEpochInputs
    <2> QED BY <1>1, <2>1 DEF LossOf, OpenMarksMatchEvents, MarkBound
  <1>5. CASE Send(k)
    <2>1. /\ pc[k] = "send"
          /\ pv'[k] = pv[k] \/ pc'[k] = "idle"
          /\ readAt'[k] = readAt[k] \/ pc'[k] = "idle"
          /\ pc'[k] \in {"receipt", "idle"}
          /\ sent'[k] = pv[k] /\ pending'[k] = "waiting"
      BY <1>5 DEF Send, Goto, Finish, TypeOK, histVars
    <2> QED BY <1>1, <1>2, <2>1 DEF LossOf, Paid
  <1>6. ASSUME NEW how, Finish(k, how) PROVE pc'[k] \notin Paid
    BY <1>6 DEF Finish, TypeOK, Paid
  <1>7. ASSUME Rebase(k) PROVE pc'[k] \notin Paid
    BY <1>6, <1>7 DEF Rebase, TypeOK, Paid
  <1>8. CASE Invoke(k) \/ ReadRoot(k) \/ ReadRest(k)
    <2>1. pc'[k] \notin Paid
      BY <1>6, <1>8 DEF Invoke, ReadRoot, ReadRest, TypeOK, Paid
    <2> QED BY <1>2, <2>1
  <1>9. CASE Scan(k)
    <2>1. \/ pc'[k] \notin Paid
          \/ \E in, new : Prove(k, in, new) /\ in = FreshEpochInputs
      BY <1>6, <1>7, <1>9 DEF Scan, BuildAndExecute
    <2> QED BY <1>2, <1>4, <2>1
  <1>10. CASE \/ Audit(k) \/ ProofArrives(k) \/ Reread(k) \/ Estimate(k)
              \/ SendRefused(k) \/ Receipt(k) \/ Fault(k)
    <2>1. \/ \E how : Finish(k, how)
          \/ Rebase(k)
          \/ \E l \in Paid \ {"receipt"} : Goto(k, l) /\ pc[k] \in Paid
      BY <1>10 DEF Audit, ProofArrives, Reread, Estimate, SendRefused, Receipt,
                   Fault, Paid
    <2> QED BY <1>2, <1>3, <1>6, <1>7, <2>1
  <1> QED BY <1>5, <1>8, <1>9, <1>10 DEF Step

\* A fold lands.
LEMMA LossFold ==
    ASSUME TypeOK, NEW k \in Process, RaceOf(k), LossOf(k), NEW p \in PublicValues,
           Accept(p), UNCHANGED <<pc, pv, readAt>>,
           pending'[k] = "waiting" => pending[k] = "waiting" /\ sent'[k] = sent[k]
    PROVE  LossOf(k)'
  <1>1. Len(folds) \in Nat /\ readAt[k] \in Nat /\ Len(folds') = Len(folds) + 1
        /\ prices' = prices
    BY DEF TypeOK, CoreTypeOK, Accept, priceVars
  <1>2. pc[k] \in Paid => readAt[k] <= Len(folds)
    BY DEF RaceOf, Paid
  <1> QED BY <1>1, <1>2 DEF LossOf, Paid

\* Whatever leaves the process and the folds alone.
LEMMA LossKept ==
    ASSUME TypeOK, NEW k \in Process, LossOf(k), opened \subseteq opened',
           prices \subseteq prices', UNCHANGED folds,
           pc'[k] = pc[k], pv'[k] = pv[k], readAt'[k] = readAt[k],
           pending'[k] = "waiting" => pending[k] = "waiting" /\ sent'[k] = sent[k]
    PROVE  LossOf(k)'
  BY DEF LossOf

\* The fresh mark is a price that was bound.
LEMMA MarkStep ==
    ASSUME MarkBound, [Next]_vars PROVE MarkBound'
  <1> USE DEF coreVars, priceVars
  <1>1. CASE UNCHANGED <<mark, prices>>
    BY <1>1 DEF MarkBound
  <1>2. CASE \E p \in Price : BindTwap(p)
    BY <1>2 DEF BindTwap, MarkBound
  <1>3. CASE MarkGoesStale
    BY <1>3 DEF MarkGoesStale, MarkBound
  <1>4. ASSUME NEW k \in Process, Invoke(k) \/ Step(k) \/ Fault(k) \/ Include(k)
        PROVE  UNCHANGED <<mark, prices>>
    BY <1>4 DEF Invoke, Step, Fault, ReadRoot, ReadRest, Scan, Audit, ProofArrives,
       Reread, Estimate, Send, SendRefused, Receipt, Include, Accept
  <1>5. ASSUME NEW q \in orphans, IncludeOrphan(q) PROVE UNCHANGED <<mark, prices>>
    BY <1>5 DEF IncludeOrphan, Accept
  <1>6. CASE UNCHANGED vars
    BY <1>1, <1>6 DEF vars
  <1>7. CASE Environment
    BY <1>1, <1>2, <1>3, <1>7 DEF Environment, CoreEnvironment, OpenLock, FlipPause,
       Tick, Rotate, ForeignFold, Accept
  <1> QED BY <1>1, <1>4, <1>5, <1>6, <1>7 DEF Next

LEMMA LossStep ==
    ASSUME TypeOK, OpenMarksMatchEvents, RaceInv, LossInv, [Next]_vars
    PROVE  LossInv'
  <1> SUFFICES ASSUME NEW k \in Process PROVE LossOf(k)'
    BY MarkStep DEF LossInv
  <1> USE DEF coreVars, treeVars, openVars, priceVars
  <1>0. RaceOf(k) /\ LossOf(k) /\ MarkBound
    BY DEF RaceInv, LossInv
  <1>1. CASE UNCHANGED vars
    BY <1>0, <1>1, LossKept DEF vars, procVars, histVars
  <1>2. CASE Invoke(k) \/ Step(k) \/ Fault(k)
    BY <1>0, <1>2, LossOwn
  <1>3. ASSUME NEW j \in Process, j # k, Invoke(j) \/ Step(j) \/ Fault(j)
        PROVE  LossOf(k)'
    <2>1. UNCHANGED <<folds, opened, prices>>
      BY <1>3 DEF Invoke, Step, Fault, ReadRoot, ReadRest, Scan, Audit,
         ProofArrives, Reread, Estimate, Send, SendRefused, Receipt
    <2>2. pc'[k] = pc[k] /\ pv'[k] = pv[k] /\ readAt'[k] = readAt[k]
      BY <1>3, OthersKeep
    <2>3. sent'[k] = sent[k] /\ pending'[k] = pending[k]
      BY <1>3 DEF Invoke, Step, Fault, ReadRoot, ReadRest, Scan, Audit,
         ProofArrives, Reread, Estimate, Send, SendRefused, Receipt, TypeOK
    <2> QED BY <1>0, <2>1, <2>2, <2>3, LossKept
  <1>4. ASSUME NEW j \in Process, Include(j) PROVE LossOf(k)'
    <2>1. UNCHANGED <<pc, pv, readAt>> /\ sent[j] \in PublicValues
      BY <1>4 DEF Include, histVars, TypeOK
    <2>2. pending'[k] = "waiting" => pending[k] = "waiting" /\ sent'[k] = sent[k]
      BY <1>4 DEF Include, Verdict, TypeOK
    <2>3. CASE Accept(sent[j])
      BY <1>0, <2>1, <2>2, <2>3, LossFold
    <2>4. CASE UNCHANGED coreVars
      BY <1>0, <2>1, <2>2, <2>4, LossKept
    <2> QED BY <1>4, <2>3, <2>4 DEF Include
  <1>5. ASSUME NEW q \in orphans, IncludeOrphan(q) PROVE LossOf(k)'
    <2>1. UNCHANGED <<pc, pv, readAt, sent, pending>> /\ q \in PublicValues
      BY <1>5 DEF IncludeOrphan, histVars, TypeOK
    <2>2. CASE Accept(q)
      BY <1>0, <2>1, <2>2, LossFold
    <2>3. CASE UNCHANGED coreVars
      BY <1>0, <2>1, <2>3, LossKept
    <2> QED BY <1>5, <2>2, <2>3 DEF IncludeOrphan
  <1>6. CASE Environment
    <2>1. UNCHANGED <<pc, pv, readAt, sent, pending>>
      BY <1>6 DEF Environment, procVars, histVars
    <2>2. ASSUME NEW t, ForeignFold(t) PROVE \E p \in PublicValues : Accept(p)
      BY <2>2, HandoffType, TypeSplit
    <2>3. CASE \E p \in PublicValues : Accept(p)
      BY <1>0, <2>1, <2>3, LossFold
    <2>4. CASE \/ \E o \in OpenId : OpenLock(o)
               \/ \E p \in Price : BindTwap(p)
               \/ MarkGoesStale \/ FlipPause \/ Tick \/ Rotate
      <3>1. opened \subseteq opened' /\ prices \subseteq prices' /\ UNCHANGED folds
        BY <2>4 DEF OpenLock, BindTwap, MarkGoesStale, FlipPause, Tick, Rotate
      <3> QED BY <1>0, <2>1, <3>1, LossKept
    <2> QED BY <1>6, <2>2, <2>3, <2>4 DEF Environment, CoreEnvironment
  <1> QED BY <1>1, <1>2, <1>3, <1>4, <1>5, <1>6 DEF Next

LEMMA LossInvariant == Spec => []LossInv
  <1>1. Init => LossInv
    BY DEF Init, CoreInit, LossInv, LossOf, MarkBound, Paid
  <1>2. TypeOK /\ OpenMarksMatchEvents /\ RaceInv /\ LossInv /\ [Next]_vars => LossInv'
    BY LossStep
  <1> QED BY <1>1, <1>2, TypeCorrect, MarksMatchEventsAlways, RaceInvariant, PTL DEF Spec

\* A refusal at the estimate is the verdict on the proof that was paid for.
LEMMA RefusedStep ==
    ASSUME TypeOK, FlightInv, RaceInv, LossInv, [Next]_vars, NEW k \in Keeper,
           outcome[k] # "refused", outcome'[k] = "refused"
    PROVE  Cause(k)
  <1>1. k \in Process /\ k \notin Auditor
    BY KeeperAssumption DEF Process
  <1>2. RaceOf(k) /\ LossOf(k)
    BY <1>1 DEF RaceInv, LossInv
  <1>3. ASSUME Rebase(k) \/ (\E l : Goto(k, l)) \/ (\E in, new : Prove(k, in, new))
        PROVE  FALSE
    BY <1>1, <1>3 DEF Rebase, Goto, Prove, Finish, TypeOK
  <1>4. ASSUME NEW how, how # "refused", Finish(k, how) PROVE FALSE
    BY <1>1, <1>4 DEF Finish, TypeOK
  <1>5. Estimate(k)
    <2>1. ASSUME Invoke(k) \/ ReadRoot(k) \/ ReadRest(k) \/ ProofArrives(k)
                 \/ Reread(k) \/ Send(k) \/ SendRefused(k) \/ Receipt(k) \/ Fault(k)
          PROVE  outcome'[k] # "refused"
      BY <1>1, <2>1 DEF Invoke, ReadRoot, ReadRest, ProofArrives, Reread, Send,
         SendRefused, Receipt, Fault, Rebase, Goto, Finish, TypeOK
    <2>2. ~Scan(k)
      BY <1>3, <1>4 DEF Scan, BuildAndExecute
    <2> QED BY <1>1, <2>1, <2>2, OthersKeepOutcome DEF Step, Audit
  <1>6. pc[k] \in Paid /\ Verdict(pv[k]) # "ok"
    BY <1>3, <1>5 DEF Estimate, Paid
  <1> QED BY <1>1, <1>2, <1>6, LossVerdict

\* So is the verdict of the block that takes the transaction.
LEMMA RevertedStep ==
    ASSUME TypeOK, FlightInv, RaceInv, LossInv, [Next]_vars, NEW k \in Keeper,
           pc[k] = "receipt", pending[k] = "waiting",
           pending'[k] \in {"StaleRoot", "rejected"}
    PROVE  Cause(k)
  <1>1. k \in Process /\ pc[k] \in Paid
    BY DEF Process, Paid
  <1>2. RaceOf(k) /\ LossOf(k)
    BY <1>1 DEF RaceInv, LossInv
  <1>3. Include(k)
    <2>1. ASSUME NEW j \in Process, Invoke(j) \/ Step(j) \/ Fault(j)
          PROVE  pending'[k] \in {pending[k], "none", "waiting"}
      <3>1. CASE Invoke(j) \/ Send(j)
        BY <1>1, <3>1 DEF Invoke, Send, TypeOK
      <3>2. CASE UNCHANGED pending
        BY <3>2
      <3> QED BY <2>1, <3>1, <3>2 DEF Step, Fault, ReadRoot, ReadRest, Scan, Audit,
              ProofArrives, Reread, Estimate, SendRefused, Receipt
    <2>2. ASSUME NEW j \in Process, j # k, Include(j) PROVE pending'[k] = pending[k]
      BY <2>2 DEF Include, TypeOK
    <2> QED BY <2>1, <2>2 DEF Next, IncludeOrphan, Environment, procVars, vars
  <1>4. Verdict(pv[k]) # "ok"
    <2>1. sent[k] = pv[k]
      BY <1>2 DEF LossOf
    <2>2. pending'[k] = Verdict(sent[k])
      BY <1>1, <1>3 DEF Include, TypeOK
    <2> QED BY <2>1, <2>2
  <1> QED BY <1>1, <1>2, <1>4, LossVerdict

\* What a keeper puts into an epoch is good for the chain it was scanned from:
\* a paid proof is refused only for what happened to the chain afterwards.
THEOREM ProofsAreLostToChangeAlways == Spec => ProofsAreLostToChange
  <1>1. TypeOK /\ FlightInv /\ RaceInv /\ LossInv /\ [Next]_vars =>
          [\A k \in Keeper :
             (\/ outcome[k] # "refused" /\ outcome'[k] = "refused"
              \/ /\ pc[k] = "receipt" /\ pending[k] = "waiting"
                 /\ pending'[k] \in {"StaleRoot", "rejected"})
                => \/ Len(folds) > readAt[k]
                   \/ gen # PinnedGen
                   \/ clock - pv[k].in.now > MAX_PROOF_STALENESS
                   \/ pv[k].in.paused /\ ~paused]_vars
    BY RefusedStep, RevertedStep DEF Cause
  <1> QED BY <1>1, TypeCorrect, PaidProofsAreSound, RaceInvariant, LossInvariant,
             PTL DEF Spec, ProofsAreLostToChange

\* One fold moves the root away from the one a proof was made for, so a proof that
\* passes the CAS with a spent open has seen the root leave and come back.
THEOREM StaleOpensMeanReturnAlways == Spec => []StaleOpensMeanReturn
  <1>1. TypeOK /\ RaceInv /\ LossInv => StaleOpensMeanReturn
    <2> SUFFICES ASSUME TypeOK, RaceInv, LossInv, NEW k \in Keeper, pc[k] \in Paid,
                        pv[k].prev = root, ~(pv[k].in.opens \subseteq opened)
                 PROVE  Len(folds) - readAt[k] >= 2
      BY DEF StaleOpensMeanReturn, Paid
    <2>1. k \in Process
      BY DEF Process
    <2>2. RaceOf(k) /\ LossOf(k)
      BY <2>1 DEF RaceInv, LossInv
    <2>3. Len(folds) \in Nat /\ readAt[k] \in Nat /\ readAt[k] <= Len(folds)
      BY <2>1, <2>2 DEF TypeOK, CoreTypeOK, RaceOf, Paid
    <2>4. readAt[k] # Len(folds) /\ readAt[k] + 1 # Len(folds)
      BY <2>2 DEF RaceOf, LossOf
    <2> QED BY <2>3, <2>4
  <1> QED BY <1>1, TypeCorrect, RaceInvariant, LossInvariant, PTL
=============================================================================
