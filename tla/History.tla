------------------------------- MODULE History -------------------------------
(***************************************************************************)
(* The scan of the core's events (scan.rs) while the chain grows, and what *)
(* the keeper derives from them: unfolded opens, the pause set of now and  *)
(* of every fold, the newest prices.                                       *)
(*                                                                         *)
(* The place of a log, "at", orders logs as (block, log_index) does.  The  *)
(* fetched logs are sorted by that key before they are used, so they are   *)
(* kept as how often each log was fetched.  The calldata of an open is the *)
(* sequence of the openLock calls that can be decoded from it (a batch has *)
(* several, a contract that builds the call itself none), each with the    *)
(* trade it is for and whether its signatures are those the core verified. *)
(* A transaction does not change once its block is sealed, so the fetches  *)
(* of calldata are part of the step that decodes.  Reorganisations are not *)
(* modelled.                                                               *)
(***************************************************************************)
EXTENDS Integers, Sequences, FiniteSets

CONSTANTS
    OpenId,         \* terms ids
    Short,          \* trades whose data is shorter than a word
    Oversize,       \* trades whose quantity or rate exceeds 128 bits
    Calldata,       \* the openLock calls in the transaction of an open
    Instrument,     \* the live instrument
    Pair,           \* pair tags
    Price,          \* prices that may be bound: [feed, time, rate]
    NoAnswer,       \* no history (yet): the scan runs, or an RPC failed
    Refused,        \* the scan or the command failed on what it read
    DeployBlock,    \* deploy_block
    LOG_CHUNK,      \* blocks per eth_getLogs
    MaxBlocks,      \* bound: sealed blocks
    MaxEvents       \* bound: events of the core

\* What open_to_new_position refuses.
Unfit == Short \cup Oversize

\* An openLock call: the trade, and whether it carries the signatures that the
\* core verified (another call for the same trade may carry others).
Call == [id : OpenId, verified : BOOLEAN]

ASSUME HistoryAssumption ==
    /\ Short \subseteq OpenId /\ Oversize \subseteq OpenId
    /\ Calldata \subseteq Seq(Call)
    /\ \E i \in Instrument : Instrument = {i}
    /\ Price \subseteq [feed : Pair, time : Nat, rate : Int]
    /\ DeployBlock \in Nat \ {0}
    /\ LOG_CHUNK \in Nat \ {0}
    /\ MaxBlocks \in Nat /\ MaxEvents \in Nat

VARIABLES
    log,        \* the logs of the core
    height,     \* the newest sealed block
    now,        \* the core after all its events
    sealed,     \* the core at the end of block height
    pc,         \* "idle" or "pages"
    head,       \* the block number the scan has asked for first
    lo,         \* the first block that was not asked for yet
    copies,     \* how often each log was fetched
    answer,     \* what the last scan has yielded
    inputs,     \* the opens of the next epoch, from that answer
    taken,      \* history: the core at the end of block head
    stopped     \* history: which of scan and inputs has ever been refused

chainVars == <<log, height, now, sealed>>
scanVars == <<pc, head, lo, copies, answer, inputs, taken, stopped>>
vars == <<chainVars, scanVars>>

-----------------------------------------------------------------------------
(* The core and its events. *)

\* The guest keeps pauses by market, the keeper by pair.
Market == [instrument : Instrument, pair : Pair]

PairsOf(markets) == {m.pair : m \in markets}

\* What openLock, applyState, bindTwap and setMarket leave behind, as far as
\* the keeper must know it: unspent opens, which of the opens came with a call
\* that hides the verified one, landed folds with the pause set of the block
\* before, markets that are enabled and paused, bound prices.
CoreState == [bound : SUBSET OpenId, opens : SUBSET OpenId, hidden : SUBSET OpenId,
              folds : SUBSET
                 [at : Nat, opens : SUBSET OpenId, paused : SUBSET Pair],
              paused : SUBSET Market, prices : SUBSET Price]

Start == [bound |-> {}, opens |-> {}, hidden |-> {}, folds |-> {}, paused |-> {},
          prices |-> {}]

\* A fold is plain if its transaction is an applyState call with public values
\* of this generation.  An alien event has a topic the scan asks for, and does not
\* decode, or its terms do not hash to its id.
OpenEvent == [kind : {"open"}, id : OpenId, calls : Calldata]
FoldEvent == [kind : {"fold"}, opens : SUBSET OpenId, plain : BOOLEAN]
PriceEvent == [kind : {"price"}, price : Price]
MarketEvent == [kind : {"market"}, instrument : Instrument, pair : Pair,
                enabled : BOOLEAN, paused : BOOLEAN]
AlienEvent == [kind : {"alien"}]
Event == OpenEvent \cup FoldEvent \cup PriceEvent \cup MarketEvent \cup AlienEvent

Log == [at : Nat, block : Nat, ev : Event]

\* The guest's records have no room for an oversize trade; a short one it takes
\* for a rate of zero, rejects and consumes.  A price is bound once per feed and
\* time.
Legal(e) ==
    \/ e \in OpenEvent /\ e.id \notin now.bound
    \/ e \in FoldEvent /\ e.opens \subseteq now.opens \ Oversize
    \/ e \in PriceEvent /\ \A p \in now.prices :
          p.feed # e.price.feed \/ p.time # e.price.time
    \/ e \in MarketEvent
    \/ e \in AlienEvent

\* Before every verified call of the trade there is one with other signatures.
Hides(e) ==
    \E i \in DOMAIN e.calls :
       /\ e.calls[i].id = e.id /\ ~e.calls[i].verified
       /\ \A j \in DOMAIN e.calls :
             e.calls[j].id = e.id /\ e.calls[j].verified => i < j

MarketOf(e) == [instrument |-> e.instrument, pair |-> e.pair]

After(e, at) ==
    CASE e \in OpenEvent ->
            [bound |-> now.bound \cup {e.id}, opens |-> now.opens \cup {e.id},
             hidden |-> now.hidden \cup (IF Hides(e) THEN {e.id} ELSE {}),
             folds |-> now.folds, paused |-> now.paused, prices |-> now.prices]
      [] e \in FoldEvent ->
            [bound |-> now.bound, opens |-> now.opens \ e.opens,
             hidden |-> now.hidden,
             folds |-> now.folds \cup {[at |-> at, opens |-> e.opens,
                                       paused |-> PairsOf(sealed.paused)]},
             paused |-> now.paused, prices |-> now.prices]
      [] e \in PriceEvent -> [now EXCEPT !.prices = @ \cup {e.price}]
      [] e \in MarketEvent ->
            [now EXCEPT !.paused = IF e.enabled /\ e.paused THEN @ \cup {MarketOf(e)}
                                   ELSE @ \ {MarketOf(e)}]
      [] e \in AlienEvent -> now

\* An event of the core goes into the block that is being built.
Emit(e) ==
    /\ Cardinality(log) < MaxEvents /\ height < MaxBlocks
    /\ Legal(e)
    /\ LET at == Cardinality(log) + 1
       IN  /\ log' = log \cup {[at |-> at, block |-> height + 1, ev |-> e]}
           /\ now' = After(e, at)
    /\ UNCHANGED <<height, sealed, scanVars>>

\* The block is sealed; nodes answer for it from now on.
Seal ==
    /\ height < MaxBlocks
    /\ height' = height + 1
    /\ sealed' = now
    /\ UNCHANGED <<log, now, scanVars>>

-----------------------------------------------------------------------------
(* What is derived from the fetched logs. *)

Of(logs, E) == {l \in logs : l.ev \in E}

\* open_sigs: the calldata has an openLock call of the event ...
Signed(e) == \E i \in DOMAIN e.calls : e.calls[i].id = e.id

\* Mutant: the trade of the call is not compared.
OpenSigsAny(e) == e.calls[1]

\* ... and the first of them is taken.
OpenSigs(e) ==
    LET i == CHOOSE i \in DOMAIN e.calls :
                /\ e.calls[i].id = e.id
                /\ \A j \in DOMAIN e.calls : e.calls[j].id = e.id => i <= j
    IN  e.calls[i]

FoldedIds(logs) == UNION {l.ev.opens : l \in Of(logs, FoldEvent)}

\* The scan gets past every log.
Readable(logs) ==
    /\ \A l \in Of(logs, OpenEvent) : Signed(l.ev)
    /\ \A l \in Of(logs, FoldEvent) : l.ev.plain
    /\ Of(logs, AlienEvent) = {}

\* paused_pairs_at: the last write to each pair up to and including block.
PausedPairsAt(logs, block) ==
    LET writes(p) == {l \in Of(logs, MarketEvent) : l.block <= block /\ l.ev.pair = p}
    IN  {p \in Pair : \E l \in writes(p) :
           /\ l.ev.enabled /\ l.ev.paused
           /\ \A k \in writes(p) : k.at <= l.at}

\* unfolded_opens, with the signatures that were recovered.
UnfoldedOpens(fetched) ==
    {[id |-> l.ev.id, sigs |-> OpenSigs(l.ev), times |-> fetched[l]] :
       l \in {k \in Of(DOMAIN fetched, OpenEvent) :
                k.ev.id \notin FoldedIds(DOMAIN fetched)}}

\* The folds, each with the pause set its replay is given.
Folds(fetched) ==
    {[at |-> l.at, opens |-> l.ev.opens, times |-> fetched[l],
      paused |-> PausedPairsAt(DOMAIN fetched, l.block - 1)] :
       l \in Of(DOMAIN fetched, FoldEvent)}

Prices(logs) == {l.ev.price : l \in Of(logs, PriceEvent)}

\* Mutant: the sign is not looked at.
LatestSigned(prices) ==
    {p \in prices : \A q \in prices : q.feed = p.feed => q.time <= p.time}

\* The price of each feed with the latest close time; a negative one is no mark
\* and hides the older ones.
Latest(prices) ==
    {p \in prices : p.rate >= 0 /\ \A q \in prices : q.feed = p.feed => q.time <= p.time}

\* What rebuild and fresh_epoch_inputs are given.  The pause set of now is asked
\* for the highest block number there is.
Derived(fetched) ==
    [opens |-> UnfoldedOpens(fetched), folds |-> Folds(fetched),
     paused |-> PausedPairsAt(DOMAIN fetched, MaxBlocks),
     marks |-> Latest(Prices(DOMAIN fetched))]

\* Mutant: the replay takes what another prover folded as the guest took it.
InputsLenient(history) ==
    IF \E o \in history.opens : o.id \in Unfit
    THEN Refused
    ELSE [new_positions |-> history.opens]

\* open_to_new_position fails on one open, of a fold that is replayed or of the
\* next epoch, and the command with it.
Inputs(history) ==
    IF \/ \E f \in history.folds : f.opens \cap Unfit # {}
       \/ \E o \in history.opens : o.id \in Unfit
    THEN Refused
    ELSE [new_positions |-> history.opens]

-----------------------------------------------------------------------------
(* The scan. *)

\* get_block_number.
Begin ==
    /\ pc = "idle"
    /\ pc' = "pages"
    /\ head' = height
    /\ lo' = DeployBlock
    /\ copies' = [l \in {} |-> 0]
    /\ answer' = NoAnswer /\ inputs' = NoAnswer
    /\ taken' = sealed
    /\ UNCHANGED <<chainVars, stopped>>

\* The last block of the page.
Hi == IF lo + LOG_CHUNK - 1 < head THEN lo + LOG_CHUNK - 1 ELSE head

Page == {l \in log : l.block \in lo..Hi}

Fetched(l) == IF l \in DOMAIN copies THEN copies[l] ELSE 0

Copies == [l \in DOMAIN copies \cup Page |->
             IF l \in Page THEN Fetched(l) + 1 ELSE Fetched(l)]

\* Mutant: pages overlap in one block.
GetLogsOverlapping ==
    /\ pc = "pages" /\ lo <= head
    /\ copies' = Copies
    /\ lo' = IF Hi = head THEN head + 1 ELSE Hi
    /\ UNCHANGED <<chainVars, pc, head, answer, inputs, taken, stopped>>

\* eth_getLogs of one page.
GetLogs ==
    /\ pc = "pages" /\ lo <= head
    /\ copies' = Copies
    /\ lo' = Hi + 1
    /\ UNCHANGED <<chainVars, pc, head, answer, inputs, taken, stopped>>

\* The logs are sorted, their calldata fetched and decoded, and the history is
\* handed on.
Decode ==
    /\ pc = "pages" /\ lo > head
    /\ pc' = "idle"
    /\ answer' = IF Readable(DOMAIN copies) THEN Derived(copies) ELSE Refused
    /\ inputs' = IF answer' = Refused THEN Refused ELSE Inputs(answer')
    /\ stopped' = stopped \cup (IF answer' = Refused THEN {"scan"} ELSE {})
                          \cup (IF inputs' = Refused THEN {"inputs"} ELSE {})
    /\ UNCHANGED <<chainVars, head, lo, copies, taken>>

\* An RPC fails, or the command is killed.
Abort ==
    /\ pc = "pages"
    /\ pc' = "idle"
    /\ UNCHANGED <<chainVars, head, lo, copies, answer, inputs, taken, stopped>>

-----------------------------------------------------------------------------
Init ==
    /\ log = {} /\ height = DeployBlock - 1
    /\ now = Start /\ sealed = Start
    /\ pc = "idle" /\ head = 0 /\ lo = 1
    /\ copies = [l \in {} |-> 0]
    /\ answer = NoAnswer /\ inputs = NoAnswer
    /\ taken = Start /\ stopped = {}

Next ==
    \/ \E e \in Event : Emit(e)
    \/ Seal
    \/ Begin \/ GetLogs \/ Decode \/ Abort

Spec == Init /\ [][Next]_vars

-----------------------------------------------------------------------------
(* Safety. *)

OpenRecord == [id : OpenId, sigs : Call, times : Nat]
FoldRecord == [at : Nat, opens : SUBSET OpenId, times : Nat, paused : SUBSET Pair]

\* A price becomes a mark by a cast to an unsigned number.
Yield == [opens : SUBSET OpenRecord, folds : SUBSET FoldRecord,
          paused : SUBSET Pair, marks : SUBSET {p \in Price : p.rate >= 0}]

ASSUME AnswerAssumption ==
    /\ NoAnswer # Refused /\ Refused \notin Yield
    /\ Refused \notin [new_positions : SUBSET OpenRecord]

ScanTypeOK ==
    /\ log \subseteq Log
    /\ height \in Nat /\ head \in Nat /\ lo \in Nat
    /\ now \in CoreState /\ sealed \in CoreState /\ taken \in CoreState
    /\ pc \in {"idle", "pages"}
    /\ DOMAIN copies \subseteq log
    /\ copies \in [DOMAIN copies -> Nat]
    /\ answer \in Yield \cup {NoAnswer, Refused}
    /\ stopped \subseteq {"scan", "inputs"}

\* What a reader of the core itself would be told.
CoreView(core) ==
    [opens |-> {[id |-> o, sigs |-> [id |-> o, verified |-> o \notin core.hidden],
                 times |-> 1] : o \in core.opens},
     folds |-> {[at |-> f.at, opens |-> f.opens, times |-> 1, paused |-> f.paused] :
                  f \in core.folds},
     paused |-> PairsOf(core.paused),
     marks |-> Latest(core.prices)]

\* The scan is a snapshot: although it is made of pages and the chain grows all
\* the while, what the keeper derives from events is what the contract held at
\* one moment, the end of the block it asked for first.  Every log is used
\* once; every open has signatures of its own trade, and the ones the core has
\* verified unless a call with others stands in front in its transaction; the
\* pause set handed to the replay of a fold is the one of the block before it.
Core == INSTANCE Snapshot WITH core <- sealed, View <- CoreView

ReadsSnapshot == Core!Spec

\* One bad event stops every keeper for good: once a scan (or an advance) was
\* refused, every later one is.  There is no way around a log that cannot be
\* read; and an open with unfit terms is in the way of an advance while it waits
\* and still after another prover has folded it, because the replay meets it.
RefusalsAreForGood ==
    /\ "scan" \in stopped => answer \in {NoAnswer, Refused}
    /\ "inputs" \in stopped => inputs \in {NoAnswer, Refused}
=============================================================================
