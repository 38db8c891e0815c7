------------------------------- MODULE Engine -------------------------------
(***************************************************************************)
(* One epoch of the book, as the host predicts it (crx-tree replay.rs) and *)
(* as the guest proves it (crxvm state_transition.rs).  Both call the same *)
(* vendored functions; what differs is which failures they refuse: the     *)
(* guest has valves (completeness.rs) that the host's prediction lacks.    *)
(*                                                                         *)
(* Abstractions.  A root is the book it commits to.  A feed is the oracle  *)
(* its low 20 bytes name, and the pause key of a pair is its oracle.       *)
(* Prices are on the position scale, so rescaling by the exponent and the  *)
(* saturation of 128-bit products are left out.  Signatures are left out   *)
(* but for one question: does the signature in the openLock calldata       *)
(* recover to the party (it does not for a desk that consents by           *)
(* ERC-1271).  The scenario-ES margin and the novation, closeout and       *)
(* unwind rows, which no keeper of this repository builds, are not here.   *)
(***************************************************************************)
EXTENDS Integers, FiniteSets, Functions

CONSTANTS
    Owner,              \* the parties
    Desk,               \* parties that are contracts and consent by ERC-1271
    Oracle,             \* price feeds, one per currency pair
    Trade,              \* terms ids
    Terms,              \* the signed terms of each trade
    MARK_MAX_AGE_SECS,  \* how old a mark may be
    PRICE_SCALE,        \* divisor of quantity * rate
    BPS_DENOM,          \* divisor of basis points
    Panic               \* the failure of either side: nothing is committed

ASSUME EngineAssumption ==
    /\ IsFiniteSet(Owner) /\ IsFiniteSet(Trade)    \* names of fixed width
    /\ Desk \subseteq Owner
    /\ Terms \in [Trade -> [a : Owner, b : Owner, oracle : Oracle, side : {1, -1},
                            quantity : Nat, entry : Nat, expiry : Nat,
                            imBpsA : Nat, imBpsB : Nat]]
    /\ MARK_MAX_AGE_SECS \in Nat
    /\ PRICE_SCALE \in Nat \ {0} /\ BPS_DENOM \in Nat \ {0}

\* A bound TWAP: write-once per feed and close time.
PriceRecord == [oracle : Oracle, time : Nat, rate : Nat]

\* PositionRecord: one party's seat in a trade.
PositionRecord == [id : Trade, cp : Owner, oracle : Oracle, notional : Nat,
                   entry : Nat, side : {1, -1}, expiry : Nat, im : Nat]

\* Settle prices as the list in which they are passed: how often each of the
\* prices in S occurs.  (Marks are deduplicated by the code.)
PriceCounts(S) == [S -> Nat \ {0}]

NoAccount == [vm |-> 0, positions |-> {}]
EmptyBook == [o \in Owner |-> NoAccount]

-----------------------------------------------------------------------------
(* Seats. *)

Parties(t) == {Terms[t].a, Terms[t].b}

GrossNotional(quantity, rate) == (quantity * rate) \div PRICE_SCALE

\* Rounded up.
ImForSide(gross, bps) == (gross * bps + BPS_DENOM - 1) \div BPS_DENOM

\* Mutant: both seats get the signed side.
SeatUnmirrored(t, o) ==
    LET terms == Terms[t]
        gross == GrossNotional(terms.quantity, terms.entry)
        first == o = terms.a
    IN  [id |-> t, cp |-> IF first THEN terms.b ELSE terms.a,
         oracle |-> terms.oracle, notional |-> gross, entry |-> terms.entry,
         side |-> terms.side, expiry |-> terms.expiry,
         im |-> ImForSide(gross, IF first THEN terms.imBpsA ELSE terms.imBpsB)]

\* The record of party o; the mirror seat has the opposite side.
Seat(t, o) ==
    LET terms == Terms[t]
        gross == GrossNotional(terms.quantity, terms.entry)
        first == o = terms.a
    IN  [id |-> t, cp |-> IF first THEN terms.b ELSE terms.a,
         oracle |-> terms.oracle, notional |-> gross, entry |-> terms.entry,
         side |-> IF first THEN terms.side ELSE -terms.side,
         expiry |-> terms.expiry,
         im |-> ImForSide(gross, IF first THEN terms.imBpsA ELSE terms.imBpsB)]

\* Realized residual of a seat at a price, truncated toward zero.
PositionVm(p, rate) ==
    IF p.entry = 0 THEN 0
    ELSE LET move == IF rate < p.entry THEN p.entry - rate ELSE rate - p.entry
             magnitude == (p.notional * move) \div p.entry
         IN  IF (rate < p.entry) # (p.side < 0) THEN -magnitude ELSE magnitude

-----------------------------------------------------------------------------
(* The open pre-pass. *)

\* Both signatures recover to the parties.
Authentic(t) == Parties(t) \cap Desk = {}

\* The opens that enter the book; the others are consumed all the same.
Admitted(in) ==
    {t \in in.opens :
       /\ Terms[t].expiry > in.now
       /\ Terms[t].a # Terms[t].b
       /\ \A o \in Parties(t) : Seat(t, o).im > 0}

\* The seats of an owner when the pre-pass is done.
SeatsAfterOpens(book, in, o) ==
    book[o].positions \cup {Seat(t, o) : t \in {u \in Admitted(in) : o \in Parties(u)}}

-----------------------------------------------------------------------------
(* Rows and resolve. *)

BindsTwap(w, p) == w.oracle = p.oracle /\ w.time = p.expiry

\* The prices in the row of an account are those that bind a position which it
\* held before the opens.
MarksOf(book, in, o) ==
    {m \in in.marks : \E p \in book[o].positions : m.oracle = p.oracle}
TwapsOf(book, in, o) ==
    {w \in DOMAIN in.twaps : \E p \in book[o].positions : BindsTwap(w, p)}

MarkingEpoch(book, in) == \E o \in Owner : MarksOf(book, in, o) # {}

MarkFresh(m, now) == m.time <= now /\ now - m.time <= MARK_MAX_AGE_SECS

\* Seats that retire: a price binds them and their pair is not paused.
Settling(book, in, o) ==
    {p \in SeatsAfterOpens(book, in, o) :
       /\ p.oracle \notin in.paused
       /\ \E w \in TwapsOf(book, in, o) : BindsTwap(w, p)}

Surviving(book, in, o) == SeatsAfterOpens(book, in, o) \ Settling(book, in, o)

\* Cumulative VM since entry of the seats that a mark binds.
VmFromMarks(positions, marks) ==
    LET marked == {p \in positions : \E m \in marks : m.oracle = p.oracle}
        markOf(p) == CHOOSE m \in marks : m.oracle = p.oracle
    IN  SumFunction([p \in marked |-> PositionVm(p, markOf(p).rate)])

\* Mutant: retiring seats are marked too.
ResolveAllMarked(book, in, o) ==
    LET surviving == Surviving(book, in, o)
        vm == IF MarkingEpoch(book, in)
              THEN VmFromMarks(SeatsAfterOpens(book, in, o), MarksOf(book, in, o))
              ELSE book[o].vm
    IN  IF surviving = {} THEN NoAccount
        ELSE [vm |-> vm, positions |-> surviving]

\* A non-marking epoch carries the prior VM; an account without seats is pruned.
ResolveAccount(book, in, o) ==
    LET surviving == Surviving(book, in, o)
        vm == IF MarkingEpoch(book, in)
              THEN VmFromMarks(surviving, MarksOf(book, in, o))
              ELSE book[o].vm
    IN  IF surviving = {} THEN NoAccount
        ELSE [vm |-> vm, positions |-> surviving]

\* Mutants: the amount keeps the sign of the loss; both seats emit; seats on a
\* paused pair, which stay in the book, emit as well.
SettlementsSigned(book, in, o) ==
    LET price(p) == CHOOSE w \in TwapsOf(book, in, o) : BindsTwap(w, p)
        realized(p) == PositionVm(p, price(p).rate)
    IN  {[payer |-> o, payee |-> p.cp, usd |-> realized(p), id |-> p.id] :
           p \in {q \in Settling(book, in, o) : realized(q) < 0}}
SettlementsOfBoth(book, in, o) ==
    LET price(p) == CHOOSE w \in TwapsOf(book, in, o) : BindsTwap(w, p)
        realized(p) == PositionVm(p, price(p).rate)
    IN  {[payer |-> o, payee |-> p.cp, usd |-> -realized(p), id |-> p.id] :
           p \in {q \in Settling(book, in, o) : realized(q) # 0}}
SettlementsPaused(book, in, o) ==
    LET price(p) == CHOOSE w \in TwapsOf(book, in, o) : BindsTwap(w, p)
        due == {p \in book[o].positions :
                  \E w \in TwapsOf(book, in, o) : BindsTwap(w, p)}
        realized(p) == PositionVm(p, price(p).rate)
    IN  {[payer |-> o, payee |-> p.cp, usd |-> -realized(p), id |-> p.id] :
           p \in {q \in due : realized(q) < 0}}

\* Cash is emitted from the loser's seat, gross.
SettlementsOf(book, in, o) ==
    LET price(p) == CHOOSE w \in TwapsOf(book, in, o) : BindsTwap(w, p)
        realized(p) == PositionVm(p, price(p).rate)
    IN  {[payer |-> o, payee |-> p.cp, usd |-> -realized(p), id |-> p.id] :
           p \in {q \in Settling(book, in, o) : realized(q) < 0}}

-----------------------------------------------------------------------------
(* The host. *)

\* Assertions of the vendored functions, in which host and guest agree: an open
\* that is not signed by its parties, two prices for one binding key, a terms
\* id twice in one account.
Rejects(book, in) ==
    \/ \E t \in in.opens : ~Authentic(t)
    \/ \E t \in Admitted(in) : \E o \in Parties(t) :
          \E p \in book[o].positions : p.id = t
    \/ \E o \in Owner : \E w \in TwapsOf(book, in, o) :
          \/ in.twaps[w] > 1
          \/ \E v \in TwapsOf(book, in, o) \ {w} : v.oracle = w.oracle /\ v.time = w.time
    \/ \E o \in Owner : \E m \in MarksOf(book, in, o) :
          \E n \in MarksOf(book, in, o) \ {m} : n.oracle = m.oracle

\* resolve_epoch: every present account and every party of an open is touched.
ResolveEpoch(book, in) ==
    IF Rejects(book, in) THEN Panic
    ELSE [o \in Owner |-> ResolveAccount(book, in, o)]

-----------------------------------------------------------------------------
(* The guest. *)

\* Due seats are looked at before the opens.
DueWithoutTwap(book, in) ==
    \E o \in Owner : \E p \in book[o].positions :
       /\ p.expiry <= in.now
       /\ p.oracle \notin in.paused
       /\ ~\E w \in TwapsOf(book, in, o) : BindsTwap(w, p)

\* Live seats are looked at after the opens, against the marks of the row.
LiveWithoutMark(book, in) ==
    /\ MarkingEpoch(book, in)
    /\ \E o \in Owner : \E p \in SeatsAfterOpens(book, in, o) :
          /\ p.expiry > in.now
          /\ p.oracle \notin in.paused
          /\ ~\E m \in MarksOf(book, in, o) : m.oracle = p.oracle

StaleMark(book, in) ==
    \E o \in Owner : \E m \in MarksOf(book, in, o) : ~MarkFresh(m, in.now)

\* Seats exempted because their pair is paused, <<owner, record>>.
DueHolds(book, in) ==
    {h \in UNION {{o} \X book[o].positions : o \in Owner} :
       h[2].oracle \in in.paused /\ h[2].expiry <= in.now}
LiveHolds(book, in) ==
    IF ~MarkingEpoch(book, in) THEN {}
    ELSE {h \in UNION {{o} \X SeatsAfterOpens(book, in, o) : o \in Owner} :
            h[2].oracle \in in.paused /\ h[2].expiry > in.now}

\* The count of the surfaced holds is compared with the seats held before the
\* opens, while the surface has the live ones from after.
HoldsMiscounted(book, in) ==
    \E h \in LiveHolds(book, in) : h[2] \notin book[h[1]].positions

\* Mutant: without the valve that makes marking all-or-nothing.
PanicsUnlessPartial(book, in) ==
    \/ Rejects(book, in)
    \/ DueWithoutTwap(book, in)
    \/ StaleMark(book, in)
    \/ HoldsMiscounted(book, in)

GuestPanics(book, in) ==
    \/ Rejects(book, in)
    \/ DueWithoutTwap(book, in)
    \/ StaleMark(book, in)
    \/ LiveWithoutMark(book, in)
    \/ HoldsMiscounted(book, in)

\* Mutant: marks that bind paused seats only are not surfaced.
ConsumedUnpausedMarks(book, in) ==
    {m \in in.marks : \E o \in Owner :
       /\ m \in MarksOf(book, in, o) /\ m.oracle \notin in.paused
       /\ \E p \in Surviving(book, in, o) : p.oracle = m.oracle}

\* Marks that bind a surviving seat, deduplicated.
ConsumedMarks(book, in) ==
    {m \in in.marks : \E o \in Owner :
       /\ m \in MarksOf(book, in, o)
       /\ \E p \in Surviving(book, in, o) : p.oracle = m.oracle}

\* One entry per seat that a settle price binds, paused or not: the list is
\* not deduplicated.
ConsumedTwaps(book, in) ==
    LET consumers(w) ==
          {h \in UNION {{o} \X SeatsAfterOpens(book, in, o) : o \in Owner} :
             w \in TwapsOf(book, in, h[1]) /\ BindsTwap(w, h[2])}
    IN  [w \in {v \in DOMAIN in.twaps : consumers(v) # {}} |-> Cardinality(consumers(w))]

\* The public values of the epoch, or a panic.  (settlements stands for what the
\* chain pays from them; marking is not surfaced, it is there for history.)
StateTransition(book, in) ==
    IF GuestPanics(book, in) THEN Panic
    ELSE [prev |-> book,
          new |-> [o \in Owner |-> ResolveAccount(book, in, o)],
          opens |-> in.opens,
          marks |-> ConsumedMarks(book, in),
          twaps |-> ConsumedTwaps(book, in),
          holds |-> {h[2].oracle : h \in DueHolds(book, in) \cup LiveHolds(book, in)},
          settlements |-> UNION {SettlementsOf(book, in, o) : o \in Owner},
          marking |-> MarkingEpoch(book, in),
          now |-> in.now]

-----------------------------------------------------------------------------
(* The replay of one landed epoch. *)

\* fold_inputs: what is recovered from public values pv.  The pause set is not
\* among them: it is read from the MarketSet events before the fold's block.
FoldInputs(pv, pausedBefore) ==
    [opens |-> pv.opens, marks |-> pv.marks, twaps |-> pv.twaps,
     paused |-> pausedBefore, now |-> pv.now]

\* The ids the pre-pass reports: those it finished (all of them), and once more
\* those it rejected.
ProcessedOpens(in) == [t \in in.opens |-> IF t \in Admitted(in) THEN 1 ELSE 2]

\* One step of rebuild: the replayed book, or a panic for every failure.
Replay(book, pv, pausedBefore) ==
    LET in == FoldInputs(pv, pausedBefore)
    IN  IF /\ book = pv.prev
           /\ ProcessedOpens(in) = [t \in pv.opens |-> 1]
           /\ ResolveEpoch(book, in) = pv.new
        THEN pv.new ELSE Panic
=============================================================================
