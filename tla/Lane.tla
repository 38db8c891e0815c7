-------------------------------- MODULE Lane --------------------------------
(***************************************************************************)
(* A lane over time: the events of its core, the epochs that provers make  *)
(* of them, and the replay by which every keeper gets its book.  The       *)
(* engine is the one of module Engine, so this is where prediction, proof  *)
(* and replay of the same epoch meet.                                      *)
(*                                                                         *)
(* Time and blocks are one: within one value of now everything is in one   *)
(* block, in any order.  Races between provers, transactions and crashes   *)
(* are in module Keeper; here one proof at a time is in flight, replaced   *)
(* or left to rot at will.  Clocks of hosts and chain agree, so no price   *)
(* is bound for a close time that a prover takes for the future.           *)
(***************************************************************************)
EXTENDS Engine, Sequences

CONSTANTS
    Rate,                   \* prices a TWAP may have
    NoFold,                 \* no proof is in flight
    MAX_PROOF_STALENESS,    \* how old an accepted proof clock may be
    MaxTime,                \* bound: clock values
    MaxPrices,              \* bound: bound TWAPs
    MaxPauses,              \* bound: pause changes
    MaxOpens                \* bound: trades that are opened

ASSUME LaneAssumption ==
    /\ Rate \subseteq Nat
    /\ MAX_PROOF_STALENESS \in Nat /\ MaxTime \in Nat
    /\ MaxPrices \in Nat /\ MaxPauses \in Nat /\ MaxOpens \in Nat

VARIABLES
    now,            \* block time
    prices,         \* TwapBound events
    paused,         \* pairs paused now (the last MarketSet of each)
    pausedBefore,   \* pairs paused at the end of the block before
    pauses,         \* pause changes so far
    bound,          \* TermsOpened events
    folded,         \* ids that landed folds surfaced
    book,           \* the book the core's root commits to
    rebuilt,        \* the replay of the landed folds, or Panic
    flight,         \* public values of the proof in flight, or NoFold
    ledger,         \* settlements of each landed fold
    share,          \* history: what each seat was last marked at
    carried         \* history: a seat retired while the VM was carried

chainVars == <<now, prices, paused, pausedBefore, pauses, bound>>
foldVars == <<folded, book, rebuilt, ledger, share, carried>>
vars == <<chainVars, foldVars, flight>>

Settlement == [payer : Owner, payee : Owner, usd : Nat, id : Trade]

Book == [Owner -> [vm : Int, positions : SUBSET PositionRecord]]

\* Public values that list the settle prices S.
PublicValues(S) ==
    [prev : Book, new : Book, opens : SUBSET Trade, marks : SUBSET PriceRecord,
     twaps : PriceCounts(S), holds : SUBSET Oracle,
     settlements : SUBSET Settlement, marking : BOOLEAN, now : 0..MaxTime]

TypeOK ==
    /\ now \in 0..MaxTime
    /\ prices \subseteq PriceRecord
    /\ paused \subseteq Oracle /\ pausedBefore \subseteq Oracle
    /\ pauses \in 0..MaxPauses
    /\ bound \subseteq Trade /\ folded \subseteq bound
    /\ book \in Book
    /\ rebuilt \in {Panic, book}
    /\ flight # NoFold =>
          /\ DOMAIN flight.twaps \subseteq PriceRecord
          /\ flight \in PublicValues(DOMAIN flight.twaps)
    /\ ledger \in Seq(SUBSET Settlement)
    /\ share \in [Owner -> [Trade -> Int]]
    /\ carried \in BOOLEAN

Init ==
    /\ now = 0
    /\ prices = {} /\ paused = {} /\ pausedBefore = {} /\ pauses = 0
    /\ bound = {} /\ folded = {}
    /\ book = EmptyBook /\ rebuilt = EmptyBook
    /\ flight = NoFold
    /\ ledger = <<>>
    /\ share = [o \in Owner |-> [t \in Trade |-> 0]]
    /\ carried = FALSE

-----------------------------------------------------------------------------
(* Events of the core and of the market. *)

\* The clock stops at its bound, blocks do not.
NextBlock ==
    /\ now' = IF now < MaxTime THEN now + 1 ELSE now
    /\ pausedBefore' = paused
    /\ UNCHANGED <<prices, paused, pauses, bound, foldVars, flight>>

\* openLock: the terms are bound before they expire.
OpenLock(t) ==
    /\ t \notin bound /\ Cardinality(bound) < MaxOpens
    /\ Terms[t].expiry > now
    /\ bound' = bound \cup {t}
    /\ UNCHANGED <<now, prices, paused, pausedBefore, pauses, foldVars, flight>>

\* boundTwap is written once per feed and close time, after that time.
BindTwap(x, time, rate) ==
    /\ Cardinality(prices) < MaxPrices
    /\ time <= now
    /\ ~\E w \in prices : w.oracle = x /\ w.time = time
    /\ prices' = prices \cup {[oracle |-> x, time |-> time, rate |-> rate]}
    /\ UNCHANGED <<now, paused, pausedBefore, pauses, bound, foldVars, flight>>

\* MarketSet pauses or resumes a pair.
SetPaused(x) ==
    /\ pauses < MaxPauses
    /\ pauses' = pauses + 1
    /\ paused' = IF x \in paused THEN paused \ {x} ELSE paused \cup {x}
    /\ UNCHANGED <<now, prices, pausedBefore, bound, foldVars, flight>>

-----------------------------------------------------------------------------
(* An epoch is made. *)

\* The latest bound price of each feed, if it is fresh.
FreshMarks ==
    {w \in prices :
       /\ \A v \in prices : v.oracle = w.oracle => v.time <= w.time
       /\ MarkFresh(w, now)}

\* Bound prices at the expiry of a seat in the book, each once.
DueTwaps(b) ==
    {w \in prices : \E o \in Owner : \E p \in b[o].positions : BindsTwap(w, p)}

FreshEpochInputs(b) ==
    [opens |-> bound \ folded, marks |-> FreshMarks,
     twaps |-> [w \in DueTwaps(b) |-> 1], paused |-> paused, now |-> now]

\* The host predicts an epoch that changes the book, and the guest's free
\* execution commits what was predicted.
GatePasses(b, in) ==
    /\ ResolveEpoch(b, in) \notin {Panic, b}
    /\ StateTransition(b, in) # Panic
    /\ StateTransition(b, in).new = ResolveEpoch(b, in)

\* advance proves on the book that it has replayed.
Advance ==
    /\ rebuilt # Panic
    /\ GatePasses(rebuilt, FreshEpochInputs(rebuilt))
    /\ flight' = StateTransition(rebuilt, FreshEpochInputs(rebuilt))
    /\ UNCHANGED <<chainVars, foldVars>>

\* A prover that keeps the book itself, and does not replay it, makes the same
\* epoch.  It goes on when the replay fails.
AdvanceUnreplayed ==
    /\ rebuilt = Panic
    /\ GatePasses(book, FreshEpochInputs(book))
    /\ flight' = StateTransition(book, FreshEpochInputs(book))
    /\ UNCHANGED <<chainVars, foldVars>>

-----------------------------------------------------------------------------
(* An epoch lands. *)

\* What applyState re-asserts: the CAS, the open marks, the bound prices, the
\* paused markets and the age of the proof clock.
Accepted(pv) ==
    /\ pv.prev = book
    /\ pv.opens \subseteq bound \ folded
    /\ pv.marks \cup DOMAIN pv.twaps \subseteq prices
    /\ pv.holds \subseteq paused
    /\ now - pv.now <= MAX_PROOF_STALENESS

\* What a seat of the new book contributes to the VM of its owner.
NewShare(pv, o, t) ==
    LET seats == {p \in pv.new[o].positions : p.id = t}
        marks == {m \in pv.marks : \E p \in seats : m.oracle = p.oracle}
    IN  IF seats = {} THEN 0
        ELSE IF pv.marking THEN VmFromMarks(seats, marks)
        ELSE share[o][t]

Land ==
    /\ flight # NoFold
    /\ Accepted(flight)
    /\ folded' = folded \cup flight.opens
    /\ book' = flight.new
    /\ rebuilt' = IF rebuilt = Panic THEN Panic
                  ELSE Replay(rebuilt, flight, pausedBefore)
    /\ ledger' = Append(ledger, flight.settlements)
    /\ share' = [o \in Owner |-> [t \in Trade |-> NewShare(flight, o, t)]]
    /\ carried' = (carried \/ (DOMAIN flight.twaps # {} /\ ~flight.marking))
    /\ flight' = NoFold
    /\ UNCHANGED chainVars

Next ==
    \/ NextBlock
    \/ \E t \in Trade : OpenLock(t)
    \/ \E x \in Oracle, time \in 0..MaxTime, rate \in Rate : BindTwap(x, time, rate)
    \/ \E x \in Oracle : SetPaused(x)
    \/ Advance \/ AdvanceUnreplayed \/ Land

Spec == Init /\ [][Next]_vars

-----------------------------------------------------------------------------
(* Safety. *)

Seats(b, o, t) == {p \in b[o].positions : p.id = t}

\* Matched principal: a trade is in the books of both its parties or in
\* neither, as mirrored seats on the signed terms, whatever epochs it has been
\* through.  The two seats are resolved in different rows, from prices that
\* are filtered row by row.
BooksMatched ==
    \A o \in Owner : \A p \in book[o].positions :
       \E q \in book[p.cp].positions :
          /\ q.id = p.id /\ q.cp = o /\ q.side = -p.side
          /\ q.notional = p.notional /\ q.entry = p.entry
          /\ q.oracle = p.oracle /\ q.expiry = p.expiry

\* Every trade is paid at most once over the life of the lane.
PaidOnce ==
    \A i, j \in DOMAIN ledger : \A s \in ledger[i], r \in ledger[j] :
       s.id = r.id => i = j /\ s = r

\* At a price bound for the expiry of the trade, the payer is down by what is paid.
PaidByLoser(s) ==
    /\ s.usd > 0
    /\ \E w \in prices :
          /\ BindsTwap(w, Seat(s.id, s.payer))
          /\ PositionVm(Seat(s.id, s.payer), w.rate) = -s.usd

\* A trade that was paid is in no book any more.  It was paid by the party that
\* lost it to the other one, in full, at the price that was bound for its expiry.
PaidMeansRetired ==
    \A i \in DOMAIN ledger : \A s \in ledger[i] :
       /\ {s.payer, s.payee} = Parties(s.id)
       /\ PaidByLoser(s)
       /\ \A o \in Owner : Seats(book, o, s.id) = {}

\* The VM of an account is what its live seats were last marked at, until a
\* seat retires in an epoch that does not mark.
VmIsShares ==
    ~carried => \A o \in Owner : book[o].vm = SumFunction(share[o])

\* Matched principal in money: what one side of the lane is up, the other is
\* down.  The valves that make marking all-or-nothing are what keeps it.
VmZeroSum ==
    ~carried => SumFunction([o \in Owner |-> book[o].vm]) = 0

\* The replay reads the pause set and the marking flag from other places than
\* the epoch did, and it reproduces every epoch all the same, except those that
\* consume a settle price or reject an open.  (The generation does not change in
\* this module; that the replay bails on a fold of another one is in Keeper.)
ReplayFailsOnlyFor ==
    [][rebuilt # Panic /\ rebuilt' = Panic
         => \/ DOMAIN flight.twaps # {}
            \/ \E t \in flight.opens : \A o \in Owner : Seats(flight.new, o, t) = {}]_vars

-----------------------------------------------------------------------------
(* What the code says of itself and does not keep (see the README). *)

\* "The pre-pass must have processed exactly the ids the fold surfaced."
RejectedOpenReplays ==
    [][rebuilt # Panic /\ rebuilt' = Panic
         => \A t \in flight.opens : \E o \in Owner : Seats(flight.new, o, t) # {}]_vars

\* "The replay: fold the chain's own history through the vendored engine".
SettlementReplays ==
    [][rebuilt # Panic /\ rebuilt' = Panic => DOMAIN flight.twaps = {}]_vars

\* "Resolve one epoch - the guest's own Stage-3 pipeline".
PredictionExecutes ==
    rebuilt # Panic =>
       LET in == FreshEpochInputs(rebuilt)
       IN  ResolveEpoch(rebuilt, in) # Panic => StateTransition(rebuilt, in) # Panic
=============================================================================
