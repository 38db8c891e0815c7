---------------------------- MODULE Lane_proofs ----------------------------
(***************************************************************************)
(* Proofs about module Lane, for every set of parties, trades, terms,      *)
(* feeds and prices, however long the lane lives: the two seats of a trade *)
(* enter, stay in and leave the books together, and the trade is paid once *)
(* at most; an account's VM is the sum of what its seats were last marked  *)
(* at, and over all accounts of a lane it cancels.                         *)
(*                                                                         *)
(* The argument for the seats.  The two of a trade are resolved in the     *)
(* rows of two accounts, and each row has only the settle prices that bind *)
(* a seat of that account.  They agree because a seat carries its feed and *)
(* expiry, which are the same on both sides, and because a seat that       *)
(* entered with this epoch cannot be bound: prices lie in the past and its *)
(* expiry does not.                                                        *)
(*                                                                         *)
(* The argument for the VM.  A marking epoch sums each account over its    *)
(* own row of marks.  The valves of the guest make the row of every        *)
(* account have all marks of the epoch for the feeds of its live seats,    *)
(* and one mark per feed: so a seat is worth what its feed says (SeatVm),  *)
(* on both sides of the trade, and the two sides cancel.  An epoch that    *)
(* does not mark and retires nothing has the seats of before and those of  *)
(* the opens, which are worth nothing yet.                                 *)
(***************************************************************************)
EXTENDS Lane, Engine_proofs, SumTheorems

\* Every seat belongs to a trade of two different parties, both of which have
\* theirs.
Matched(b) ==
    \A o \in Owner : \A p \in b[o].positions :
       \E t \in Trade :
          /\ Terms[t].a # Terms[t].b
          /\ o \in Parties(t)
          /\ p = Seat(t, o)
          /\ \A q \in Parties(t) : Seat(t, q) \in b[q].positions

\* Prices are of the past, and one per feed and close time.
PricesInv ==
    /\ now \in Nat
    /\ bound \subseteq Trade
    /\ \A w \in prices : w \in PriceRecord /\ w.time <= now
    /\ \A v, w \in prices : v.oracle = w.oracle /\ v.time = w.time => v = w

\* Inputs that a prover can gather at a state that satisfies PricesInv.
Gathered(in) ==
    /\ in.opens \subseteq Trade
    /\ in.now \in Nat
    /\ \A w \in DOMAIN in.twaps : w \in PriceRecord /\ w.time <= in.now
    /\ \A v, w \in DOMAIN in.twaps :
          v.oracle = w.oracle /\ v.time = w.time => v = w

\* The book that an epoch leads to.
Resolved(b, in) == [o \in Owner |-> ResolveAccount(b, in, o)]

-----------------------------------------------------------------------------
(* Seats. *)

\* The seats of the two parties of a trade mirror each other.
LEMMA SeatsMirror ==
    ASSUME NEW t \in Trade, Terms[t].a # Terms[t].b, NEW o \in Parties(t)
    PROVE  /\ Seat(t, o).id = t
           /\ Seat(t, o).cp \in Parties(t)
           /\ Seat(t, o).cp \in Owner /\ o \in Owner
           /\ Seat(t, o).cp # o
           /\ Parties(t) = {o, Seat(t, o).cp}
           /\ Seat(t, Seat(t, o).cp).cp = o
           /\ Seat(t, o).side \in {1, -1}
           /\ Seat(t, Seat(t, o).cp).side = -Seat(t, o).side
           /\ \A q \in Parties(t) :
                 /\ Seat(t, q).id = t
                 /\ Seat(t, q).oracle = Terms[t].oracle
                 /\ Seat(t, q).expiry = Terms[t].expiry
                 /\ Seat(t, q).notional = GrossNotional(Terms[t].quantity, Terms[t].entry)
                 /\ Seat(t, q).entry = Terms[t].entry
  <1>1. /\ Terms[t].a \in Owner /\ Terms[t].b \in Owner
        /\ Terms[t].side \in {1, -1}
    BY EngineAssumption
  <1> QED BY <1>1 DEF Seat, Parties

\* A matched book satisfies the property that is about neighbours only.
LEMMA MatchedMirrors ==
    ASSUME Matched(book) PROVE BooksMatched
  <1> SUFFICES ASSUME NEW o \in Owner, NEW p \in book[o].positions
               PROVE  \E q \in book[p.cp].positions :
                         /\ q.id = p.id /\ q.cp = o /\ q.side = -p.side
                         /\ q.notional = p.notional /\ q.entry = p.entry
                         /\ q.oracle = p.oracle /\ q.expiry = p.expiry
    BY DEF BooksMatched
  <1>1. PICK t \in Trade :
           /\ Terms[t].a # Terms[t].b
           /\ o \in Parties(t)
           /\ p = Seat(t, o)
           /\ \A q \in Parties(t) : Seat(t, q) \in book[q].positions
    BY DEF Matched
  <1>2. Seat(t, p.cp) \in book[p.cp].positions
    BY <1>1, SeatsMirror
  <1> QED BY <1>1, <1>2, SeatsMirror

-----------------------------------------------------------------------------
(* One epoch keeps the books matched. *)

\* Pruned or not, an account ends with the seats that survive.
LEMMA SurvivingSeats ==
    ASSUME NEW b, NEW in, NEW o \in Owner
    PROVE  Resolved(b, in)[o].positions = Surviving(b, in, o)
  BY DEF Resolved, ResolveAccount, NoAccount

\* After the opens the seats are matched.
LEMMA OpensMatched ==
    ASSUME NEW b, Matched(b), NEW in, Gathered(in),
           NEW o \in Owner, NEW p \in SeatsAfterOpens(b, in, o)
    PROVE  \E t \in Trade :
              /\ Terms[t].a # Terms[t].b
              /\ o \in Parties(t)
              /\ p = Seat(t, o)
              /\ \A q \in Parties(t) : Seat(t, q) \in SeatsAfterOpens(b, in, q)
              /\ \/ \A q \in Parties(t) : Seat(t, q) \in b[q].positions
                 \/ Terms[t].expiry > in.now /\ t \in in.opens
  <1>1. CASE p \in b[o].positions
    BY <1>1 DEF Matched, SeatsAfterOpens
  <1>2. CASE \E t \in Admitted(in) : o \in Parties(t) /\ p = Seat(t, o)
    <2>1. PICK t \in Admitted(in) : o \in Parties(t) /\ p = Seat(t, o)
      BY <1>2
    <2>2. t \in Trade /\ t \in in.opens /\ Terms[t].expiry > in.now /\ Terms[t].a # Terms[t].b
      BY <2>1 DEF Admitted, Gathered
    <2>3. \A q \in Parties(t) : Seat(t, q) \in SeatsAfterOpens(b, in, q)
      BY <2>1 DEF SeatsAfterOpens
    <2> QED BY <2>1, <2>2, <2>3
  <1> QED BY <1>1, <1>2 DEF SeatsAfterOpens

\* A seat settles with its mirror seat or not at all.
LEMMA SettleTogether ==
    ASSUME NEW b, Matched(b), NEW in, Gathered(in),
           NEW t \in Trade, Terms[t].a # Terms[t].b,
           NEW o \in Parties(t), NEW q \in Parties(t),
           Seat(t, o) \in Settling(b, in, o),
           Seat(t, q) \in SeatsAfterOpens(b, in, q),
           \/ \A r \in Parties(t) : Seat(t, r) \in b[r].positions
           \/ Terms[t].expiry > in.now
    PROVE  /\ Seat(t, q) \in Settling(b, in, q)
           /\ \A r \in Parties(t) : Seat(t, r) \in b[r].positions
  <1>1. /\ Seat(t, o).oracle = Terms[t].oracle /\ Seat(t, q).oracle = Terms[t].oracle
        /\ Seat(t, o).expiry = Terms[t].expiry /\ Seat(t, q).expiry = Terms[t].expiry
    BY SeatsMirror
  <1>2. PICK w \in TwapsOf(b, in, o) : BindsTwap(w, Seat(t, o))
    BY DEF Settling
  <1>3. w \in DOMAIN in.twaps /\ w.time = Terms[t].expiry /\ BindsTwap(w, Seat(t, q))
    BY <1>1, <1>2 DEF TwapsOf, BindsTwap
  <1>4. ~(Terms[t].expiry > in.now)
    <2>1. w.time \in Nat /\ in.now \in Nat /\ w.time <= in.now
      BY <1>3 DEF Gathered, PriceRecord
    <2> QED BY <2>1, <1>3
  <1>5. \A r \in Parties(t) : Seat(t, r) \in b[r].positions
    BY <1>4
  <1>6. w \in TwapsOf(b, in, q)
    BY <1>3, <1>5 DEF TwapsOf
  <1>7. Terms[t].oracle \notin in.paused
    BY <1>1 DEF Settling
  <1> QED BY <1>1, <1>3, <1>5, <1>6, <1>7 DEF Settling

LEMMA EpochMatched ==
    ASSUME NEW b, Matched(b), NEW in, Gathered(in)
    PROVE  Matched(Resolved(b, in))
  <1> DEFINE n == Resolved(b, in)
  <1> SUFFICES ASSUME NEW o \in Owner, NEW p \in n[o].positions
               PROVE  \E t \in Trade :
                         /\ Terms[t].a # Terms[t].b
                         /\ o \in Parties(t)
                         /\ p = Seat(t, o)
                         /\ \A q \in Parties(t) : Seat(t, q) \in n[q].positions
    BY DEF Matched
  <1>1. p \in SeatsAfterOpens(b, in, o) /\ p \notin Settling(b, in, o)
    BY SurvivingSeats DEF Surviving
  <1>2. PICK t \in Trade :
           /\ Terms[t].a # Terms[t].b
           /\ o \in Parties(t)
           /\ p = Seat(t, o)
           /\ \A q \in Parties(t) : Seat(t, q) \in SeatsAfterOpens(b, in, q)
           /\ \/ \A q \in Parties(t) : Seat(t, q) \in b[q].positions
              \/ Terms[t].expiry > in.now /\ t \in in.opens
    BY <1>1, OpensMatched
  <1>3. ASSUME NEW q \in Parties(t) PROVE Seat(t, q) \in n[q].positions
    <2>1. q \in Owner
      BY <1>2, SeatsMirror
    <2>2. Seat(t, q) \notin Settling(b, in, q)
      BY <1>1, <1>2, SettleTogether
    <2> QED BY <1>2, <2>1, <2>2, SurvivingSeats DEF Surviving
  <1> QED BY <1>2, <1>3

-----------------------------------------------------------------------------
(* The lane keeps its books matched. *)

BookInv ==
    /\ PricesInv
    /\ rebuilt \in {Panic, book}
    /\ Matched(book)
    /\ flight # NoFold => Matched(flight.new)

\* What provers gather is well formed.
LEMMA GatheredInputs ==
    ASSUME PricesInv, NEW b PROVE Gathered(FreshEpochInputs(b))
  BY DEF PricesInv, Gathered, FreshEpochInputs, DueTwaps

\* The public values of an epoch that passes the gate.
LEMMA EpochValues ==
    ASSUME NEW b, NEW in, GatePasses(b, in)
    PROVE  /\ StateTransition(b, in).prev = b
           /\ StateTransition(b, in).new = Resolved(b, in)
           /\ StateTransition(b, in).opens = in.opens
           /\ StateTransition(b, in).settlements =
                 UNION {SettlementsOf(b, in, o) : o \in Owner}
  BY DEF GatePasses, StateTransition, Resolved

\* Whether or not it can replay, a prover works on the committed book.
LEMMA FlightIsEpoch ==
    ASSUME rebuilt \in {Panic, book}, Advance \/ AdvanceUnreplayed
    PROVE  /\ GatePasses(book, FreshEpochInputs(book))
           /\ flight' = StateTransition(book, FreshEpochInputs(book))
           /\ UNCHANGED <<chainVars, foldVars>>
  BY DEF Advance, AdvanceUnreplayed

\* Prices are bound in the present and once; the clock does not go back.
LEMMA PricesStep ==
    ASSUME PricesInv, [Next]_vars PROVE PricesInv'
  <1>1. CASE NextBlock
    <2>1. /\ prices' = prices /\ bound' = bound
          /\ now' \in {now, now + 1}
      BY <1>1 DEF NextBlock
    <2>2. now' \in Nat /\ now <= now'
      BY <2>1 DEF PricesInv
    <2> QED BY <2>1, <2>2 DEF PricesInv, PriceRecord
  <1>2. CASE \E t \in Trade : OpenLock(t)
    BY <1>2 DEF OpenLock, PricesInv
  <1>3. ASSUME NEW x \in Oracle, NEW time \in 0..MaxTime, NEW rate \in Rate,
               BindTwap(x, time, rate)
        PROVE  PricesInv'
    <2>1. [oracle |-> x, time |-> time, rate |-> rate] \in PriceRecord
      BY <1>3, LaneAssumption DEF PriceRecord
    <2> QED BY <1>3, <2>1 DEF BindTwap, PricesInv
  <1>4. CASE \E x \in Oracle : SetPaused(x)
    BY <1>4 DEF SetPaused, PricesInv
  <1>5. CASE Advance \/ AdvanceUnreplayed \/ Land \/ UNCHANGED vars
    BY <1>5 DEF Advance, AdvanceUnreplayed, Land, PricesInv, vars, chainVars
  <1> QED BY <1>1, <1>2, <1>3, <1>4, <1>5 DEF Next

LEMMA BookInit ==
    ASSUME Init PROVE BookInv
  BY DEF Init, BookInv, PricesInv, Matched, EmptyBook, NoAccount

LEMMA BookStep ==
    ASSUME BookInv, [Next]_vars PROVE BookInv'
  <1> USE DEF BookInv
  <1>1. PricesInv'
    BY PricesStep
  <1>2. CASE Advance \/ AdvanceUnreplayed
    <2> DEFINE in == FreshEpochInputs(book)
    <2>1. /\ GatePasses(book, in) /\ flight' = StateTransition(book, in)
          /\ UNCHANGED <<chainVars, foldVars>>
      BY <1>2, FlightIsEpoch
    <2>2. Matched(flight'.new)
      BY <2>1, GatheredInputs, EpochValues, EpochMatched
    <2> QED BY <1>1, <2>1, <2>2 DEF foldVars, Matched
  <1>3. CASE Land
    <2>1. book' = flight.new /\ flight' = NoFold /\ Matched(flight.new)
      BY <1>3 DEF Land
    <2>2. rebuilt' \in {Panic, book'}
      BY <1>3 DEF Land, Replay
    <2> QED BY <1>1, <2>1, <2>2 DEF Matched
  <1>4. CASE UNCHANGED <<foldVars, flight>>
    BY <1>1, <1>4 DEF foldVars, Matched
  <1>5. \/ Advance \/ AdvanceUnreplayed \/ Land
        \/ UNCHANGED <<foldVars, flight>>
    BY DEF Next, NextBlock, OpenLock, BindTwap, SetPaused, vars
  <1> QED BY <1>2, <1>3, <1>4, <1>5

LEMMA BookAlways == Spec => []BookInv
  BY BookInit, BookStep, PTL DEF Spec

\* The two seats of a trade are in the books together or not at all, as mirror
\* images on the signed terms.
THEOREM SeatsStayMatched == Spec => []BooksMatched
  <1>1. BookInv => BooksMatched
    BY MatchedMirrors DEF BookInv
  <1> QED BY BookAlways, <1>1, PTL

-----------------------------------------------------------------------------
(* Payments. *)

\* What the seats of a trade have for a residual to be an integer.
LEMMA SeatsArePriced ==
    ASSUME NEW t \in Trade, Terms[t].a # Terms[t].b, NEW o \in Parties(t)
    PROVE  LET p == Seat(t, o)
               q == Seat(t, p.cp)
           IN  /\ p.entry \in Nat /\ p.notional \in Nat /\ p.side \in {1, -1}
               /\ q.entry = p.entry /\ q.notional = p.notional /\ q.side = -p.side
  <1>1. /\ Terms[t].entry \in Nat
        /\ GrossNotional(Terms[t].quantity, Terms[t].entry) \in Nat
    BY GrossIsNat, EngineAssumption
  <1> QED BY <1>1, SeatsMirror

\* At one price, the two seats of a trade are not both on the losing side.
LEMMA OneLoser ==
    ASSUME NEW t \in Trade, Terms[t].a # Terms[t].b, NEW o \in Parties(t),
           NEW rate \in Nat,
           PositionVm(Seat(t, o), rate) < 0,
           PositionVm(Seat(t, Seat(t, o).cp), rate) < 0
    PROVE  FALSE
  BY SeatsArePriced, OneLoserAt

\* A payment of an epoch is made by a party of a trade that was in both books
\* and now settles, to the other one, at the one price that binds the trade.
LEMMA Payments ==
    ASSUME NEW b, Matched(b), NEW in, Gathered(in),
           NEW o \in Owner, NEW s \in SettlementsOf(b, in, o)
    PROVE  \E t \in Trade : \E w \in DOMAIN in.twaps :
              /\ Terms[t].a # Terms[t].b
              /\ o \in Parties(t)
              /\ w.oracle = Terms[t].oracle /\ w.time = Terms[t].expiry
              /\ PositionVm(Seat(t, o), w.rate) < 0
              /\ s = [payer |-> o, payee |-> Seat(t, o).cp,
                      usd |-> -PositionVm(Seat(t, o), w.rate), id |-> t]
              /\ \A q \in Parties(t) : /\ Seat(t, q) \in b[q].positions
                                       /\ Seat(t, q) \in Settling(b, in, q)
  <1> DEFINE price(p) == CHOOSE w \in TwapsOf(b, in, o) : BindsTwap(w, p)
  <1>1. PICK p \in Settling(b, in, o) :
           /\ PositionVm(p, price(p).rate) < 0
           /\ s = [payer |-> o, payee |-> p.cp,
                   usd |-> -PositionVm(p, price(p).rate), id |-> p.id]
    BY DEF SettlementsOf
  <1>2. price(p) \in TwapsOf(b, in, o) /\ BindsTwap(price(p), p)
    BY DEF Settling
  <1>3. p \in SeatsAfterOpens(b, in, o)
    BY DEF Settling
  <1>4. PICK t \in Trade :
           /\ Terms[t].a # Terms[t].b
           /\ o \in Parties(t)
           /\ p = Seat(t, o)
           /\ \A q \in Parties(t) : Seat(t, q) \in SeatsAfterOpens(b, in, q)
           /\ \/ \A q \in Parties(t) : Seat(t, q) \in b[q].positions
              \/ Terms[t].expiry > in.now /\ t \in in.opens
    BY <1>3, OpensMatched
  <1>5. ASSUME NEW q \in Parties(t)
        PROVE  Seat(t, q) \in b[q].positions /\ Seat(t, q) \in Settling(b, in, q)
    BY <1>4, SettleTogether
  <1>6. /\ price(p) \in DOMAIN in.twaps
        /\ price(p).oracle = Terms[t].oracle /\ price(p).time = Terms[t].expiry
    BY <1>2, <1>4, SeatsMirror DEF TwapsOf, BindsTwap
  <1>7. p.id = t
    BY <1>4, SeatsMirror
  <1> HIDE DEF price
  <1> QED BY <1>1, <1>4, <1>5, <1>6, <1>7

\* A trade is paid once within an epoch.
LEMMA OnePaymentPerEpoch ==
    ASSUME NEW b, Matched(b), NEW in, Gathered(in),
           NEW o \in Owner, NEW s \in SettlementsOf(b, in, o),
           NEW q \in Owner, NEW r \in SettlementsOf(b, in, q),
           s.id = r.id
    PROVE  s = r
  <1>1. PICK t \in Trade, w \in DOMAIN in.twaps :
              /\ Terms[t].a # Terms[t].b
              /\ o \in Parties(t)
              /\ w.oracle = Terms[t].oracle /\ w.time = Terms[t].expiry
              /\ PositionVm(Seat(t, o), w.rate) < 0
              /\ s = [payer |-> o, payee |-> Seat(t, o).cp,
                      usd |-> -PositionVm(Seat(t, o), w.rate), id |-> t]
    BY Payments
  <1>2. PICK u \in Trade, v \in DOMAIN in.twaps :
              /\ q \in Parties(u)
              /\ v.oracle = Terms[u].oracle /\ v.time = Terms[u].expiry
              /\ PositionVm(Seat(u, q), v.rate) < 0
              /\ r = [payer |-> q, payee |-> Seat(u, q).cp,
                      usd |-> -PositionVm(Seat(u, q), v.rate), id |-> u]
    BY Payments
  <1>3. u = t
    BY <1>1, <1>2
  <1>4. v = w /\ w.rate \in Nat
    BY <1>1, <1>2, <1>3 DEF Gathered, PriceRecord
  <1>5. q = o \/ q = Seat(t, o).cp
    BY <1>1, <1>2, <1>3, SeatsMirror
  <1>6. q = o
    BY <1>1, <1>2, <1>3, <1>4, <1>5, OneLoser
  <1> QED BY <1>1, <1>2, <1>3, <1>4, <1>6

\* Cash is a positive amount.
LEMMA PaymentsTyped ==
    ASSUME NEW b, Matched(b), NEW in, Gathered(in),
           NEW o \in Owner, NEW s \in SettlementsOf(b, in, o)
    PROVE  s \in Settlement
  <1>1. PICK t \in Trade, w \in DOMAIN in.twaps :
              /\ Terms[t].a # Terms[t].b
              /\ o \in Parties(t)
              /\ PositionVm(Seat(t, o), w.rate) < 0
              /\ s = [payer |-> o, payee |-> Seat(t, o).cp,
                      usd |-> -PositionVm(Seat(t, o), w.rate), id |-> t]
    BY Payments
  <1>2. w.rate \in Nat
    BY <1>1 DEF Gathered, PriceRecord
  <1>3. PositionVm(Seat(t, o), w.rate) \in Int
    BY <1>1, <1>2, SeatsArePriced, ResidualIsInt
  <1>4. -PositionVm(Seat(t, o), w.rate) \in Nat
    BY <1>1, <1>3
  <1>5. Seat(t, o).cp \in Owner
    BY <1>1, SeatsMirror
  <1> QED BY <1>1, <1>4, <1>5 DEF Settlement

-----------------------------------------------------------------------------
(* What is paid stays paid. *)

\* From book b to book n: the seats of n are of b or of the opens, and what is
\* paid retires.
Pays(b, n, opens, paid) ==
    /\ \A o \in Owner : \A p \in n[o].positions : p \in b[o].positions \/ p.id \in opens
    /\ paid \subseteq Settlement
    /\ \A s \in paid :
          /\ {s.payer, s.payee} = Parties(s.id)
          /\ \E o \in Owner : Seats(b, o, s.id) # {}
          /\ \A o \in Owner : Seats(n, o, s.id) = {}
    /\ \A s, r \in paid : s.id = r.id => s = r

FlightPays ==
    flight # NoFold =>
       Pays(flight.prev, flight.new, flight.opens, flight.settlements)

\* A paid trade is in no book, and its parties paid each other.
PaidLeaves ==
    \A i \in DOMAIN ledger : \A s \in ledger[i] :
       /\ {s.payer, s.payee} = Parties(s.id)
       /\ \A o \in Owner : Seats(book, o, s.id) = {}

\* The ids of seats and payments are spent, and a paid trade is in no book.
LedgerInv ==
    /\ ledger \in Seq(SUBSET Settlement)
    /\ \A o \in Owner : \A p \in book[o].positions : p.id \in folded
    /\ \A i \in DOMAIN ledger : \A s \in ledger[i] : s.id \in folded
    /\ PaidOnce
    /\ PaidLeaves

PayInv == BookInv /\ FlightPays /\ LedgerInv

LEMMA PayInit ==
    ASSUME Init PROVE PayInv
  <1>1. BookInv
    BY BookInit
  <1>2. FlightPays
    BY DEF Init, FlightPays
  <1>3. ledger \in Seq(SUBSET Settlement) /\ DOMAIN ledger = {}
    BY DEF Init
  <1>4. \A o \in Owner : book[o].positions = {}
    BY DEF Init, EmptyBook, NoAccount
  <1>5. LedgerInv
    BY <1>3, <1>4 DEF LedgerInv, PaidOnce, PaidLeaves
  <1> QED BY <1>1, <1>2, <1>5 DEF PayInv

\* An epoch on a matched book does so.
LEMMA EpochPays ==
    ASSUME NEW b, Matched(b), NEW in, Gathered(in)
    PROVE  Pays(b, Resolved(b, in), in.opens,
                UNION {SettlementsOf(b, in, o) : o \in Owner})
  <1> DEFINE n == Resolved(b, in)
             paid == UNION {SettlementsOf(b, in, o) : o \in Owner}
  <1>1. ASSUME NEW o \in Owner, NEW p \in n[o].positions
        PROVE  /\ p \notin Settling(b, in, o)
               /\ \E t \in Trade : /\ Terms[t].a # Terms[t].b
                                   /\ o \in Parties(t)
                                   /\ p = Seat(t, o) /\ p.id = t
               /\ p \in b[o].positions \/ p.id \in in.opens
    <2>1. p \in SeatsAfterOpens(b, in, o) /\ p \notin Settling(b, in, o)
      BY SurvivingSeats DEF Surviving
    <2>2. PICK t \in Trade :
             /\ Terms[t].a # Terms[t].b
             /\ o \in Parties(t)
             /\ p = Seat(t, o)
             /\ \/ \A q \in Parties(t) : Seat(t, q) \in b[q].positions
                \/ Terms[t].expiry > in.now /\ t \in in.opens
      BY <2>1, OpensMatched
    <2>3. p.id = t
      BY <2>2, SeatsMirror
    <2> QED BY <2>1, <2>2, <2>3
  <1>2. paid \subseteq Settlement
    BY PaymentsTyped
  <1>3. ASSUME NEW s \in paid
        PROVE  /\ {s.payer, s.payee} = Parties(s.id)
               /\ \E o \in Owner : Seats(b, o, s.id) # {}
               /\ \A o \in Owner : Seats(n, o, s.id) = {}
    <2>1. PICK o \in Owner : s \in SettlementsOf(b, in, o)
      OBVIOUS
    <2>2. PICK t \in Trade :
             /\ Terms[t].a # Terms[t].b
             /\ o \in Parties(t)
             /\ s.payer = o /\ s.payee = Seat(t, o).cp /\ s.id = t
             /\ \A q \in Parties(t) : /\ Seat(t, q) \in b[q].positions
                                      /\ Seat(t, q) \in Settling(b, in, q)
      BY <2>1, Payments
    <2>3. {s.payer, s.payee} = Parties(s.id)
      BY <2>2, SeatsMirror
    <2>4. Seats(b, o, s.id) # {}
      BY <2>2, SeatsMirror DEF Seats
    <2>5. ASSUME NEW q \in Owner PROVE Seats(n, q, s.id) = {}
      BY <1>1, <2>2 DEF Seats
    <2> QED BY <2>3, <2>4, <2>5
  <1>4. \A s, r \in paid : s.id = r.id => s = r
    BY OnePaymentPerEpoch
  <1> QED BY <1>1, <1>2, <1>3, <1>4 DEF Pays

LEMMA PayStep ==
    ASSUME PayInv, [Next]_vars PROVE PayInv'
  <1>1. BookInv /\ BookInv'
    BY BookStep DEF PayInv
  <1>2. CASE Advance \/ AdvanceUnreplayed
    <2> DEFINE in == FreshEpochInputs(book)
    <2>1. /\ GatePasses(book, in) /\ flight' = StateTransition(book, in)
          /\ UNCHANGED <<chainVars, foldVars>>
      BY <1>1, <1>2, FlightIsEpoch DEF BookInv
    <2>2. Matched(book) /\ Gathered(in)
      BY <1>1, GatheredInputs DEF BookInv
    <2>3. /\ flight'.prev = book /\ flight'.new = Resolved(book, in)
          /\ flight'.opens = in.opens
          /\ flight'.settlements = UNION {SettlementsOf(book, in, o) : o \in Owner}
      BY <2>1, EpochValues
    <2> HIDE DEF in
    <2>4. FlightPays'
      <3>1. Pays(book, Resolved(book, in), in.opens,
                 UNION {SettlementsOf(book, in, o) : o \in Owner})
        BY <2>2, EpochPays
      <3>2. Pays(flight'.prev, flight'.new, flight'.opens, flight'.settlements)
        BY <2>3, <3>1
      <3> QED BY <3>2 DEF FlightPays, Pays, Seats
    <2>5. LedgerInv'
      BY <2>1 DEF PayInv, LedgerInv, foldVars, PaidOnce, PaidLeaves, Seats
    <2> QED BY <1>1, <2>4, <2>5 DEF PayInv
  <1>3. CASE Land
    <2>1. /\ flight # NoFold /\ flight' = NoFold
          /\ book' = flight.new /\ flight.prev = book
          /\ folded' = folded \cup flight.opens
          /\ flight.opens \cap folded = {}
          /\ ledger' = Append(ledger, flight.settlements)
      BY <1>3 DEF Land, Accepted
    <2>2. FlightPays'
      BY <2>1 DEF FlightPays, Pays
    <2>3. FlightPays /\ LedgerInv
      BY DEF PayInv
    <2>4. /\ ledger' \in Seq(SUBSET Settlement)
          /\ DOMAIN ledger' = 1..(Len(ledger) + 1)
          /\ Len(ledger) \in Nat /\ DOMAIN ledger = 1..Len(ledger)
          /\ \A i \in DOMAIN ledger : i \in DOMAIN ledger' /\ ledger'[i] = ledger[i]
          /\ ledger'[Len(ledger) + 1] = flight.settlements
      BY <2>1, <2>3 DEF FlightPays, Pays, LedgerInv
    <2>5. \A i \in DOMAIN ledger' : i \in DOMAIN ledger \/ i = Len(ledger) + 1
      BY <2>4
    <2>6. \A o \in Owner : \A p \in book'[o].positions : p.id \in folded'
      BY <2>1, <2>3 DEF FlightPays, Pays, LedgerInv
    <2>7. \A s \in flight.settlements :
             /\ s.id \in folded'
             /\ \A i \in DOMAIN ledger : \A r \in ledger[i] : r.id # s.id
      BY <2>1, <2>3 DEF FlightPays, Pays, LedgerInv, PaidLeaves, Seats
    <2>8. \A i \in DOMAIN ledger' : \A s \in ledger'[i] : s.id \in folded'
      BY <2>1, <2>3, <2>4, <2>5, <2>7 DEF LedgerInv
    <2>9. PaidOnce'
      <3> SUFFICES ASSUME NEW i \in DOMAIN ledger', NEW j \in DOMAIN ledger',
                          NEW s \in ledger'[i], NEW r \in ledger'[j], s.id = r.id
                   PROVE  i = j /\ s = r
        BY DEF PaidOnce
      <3>1. CASE i \in DOMAIN ledger /\ j \in DOMAIN ledger
        BY <3>1, <2>3, <2>4 DEF LedgerInv, PaidOnce
      <3>2. CASE i = Len(ledger) + 1 /\ j = Len(ledger) + 1
        BY <3>2, <2>1, <2>3, <2>4 DEF FlightPays, Pays
      <3>3. ~(i \in DOMAIN ledger /\ j = Len(ledger) + 1)
        BY <2>4, <2>7
      <3>4. ~(j \in DOMAIN ledger /\ i = Len(ledger) + 1)
        BY <2>4, <2>7
      <3> QED BY <2>5, <3>1, <3>2, <3>3, <3>4
    <2>10. PaidLeaves'
      <3> SUFFICES ASSUME NEW i \in DOMAIN ledger', NEW s \in ledger'[i]
                   PROVE  /\ {s.payer, s.payee} = Parties(s.id)
                          /\ \A o \in Owner : Seats(book', o, s.id) = {}
        BY DEF PaidLeaves, Seats
      <3>1. CASE i = Len(ledger) + 1
        BY <3>1, <2>1, <2>3, <2>4 DEF FlightPays, Pays
      <3>2. CASE i \in DOMAIN ledger
        <4>1. /\ s \in ledger[i] /\ s.id \in folded
              /\ {s.payer, s.payee} = Parties(s.id)
              /\ \A o \in Owner : Seats(book, o, s.id) = {}
          BY <3>2, <2>3, <2>4 DEF LedgerInv, PaidLeaves
        <4>2. ASSUME NEW o \in Owner PROVE Seats(book', o, s.id) = {}
          BY <4>1, <2>1, <2>3 DEF FlightPays, Pays, Seats
        <4> QED BY <4>1, <4>2
      <3> QED BY <2>5, <3>1, <3>2
    <2>11. LedgerInv'
      BY <2>4, <2>6, <2>8, <2>9, <2>10 DEF LedgerInv
    <2> QED BY <1>1, <2>2, <2>11 DEF PayInv
  <1>4. CASE UNCHANGED <<foldVars, flight>>
    <2>1. /\ book' = book /\ folded' = folded /\ ledger' = ledger
          /\ flight' = flight
      BY <1>4 DEF foldVars
    <2>2. FlightPays'
      BY <2>1 DEF PayInv, FlightPays, Pays, Seats
    <2>3. PaidOnce' /\ PaidLeaves'
      BY <2>1 DEF PayInv, LedgerInv, PaidOnce, PaidLeaves, Seats
    <2>4. LedgerInv'
      BY <2>1, <2>3 DEF PayInv, LedgerInv
    <2> QED BY <1>1, <2>2, <2>4 DEF PayInv
  <1>5. \/ Advance \/ AdvanceUnreplayed \/ Land
        \/ UNCHANGED <<foldVars, flight>>
    BY DEF Next, NextBlock, OpenLock, BindTwap, SetPaused, vars
  <1> QED BY <1>2, <1>3, <1>4, <1>5

LEMMA PayAlways == Spec => []PayInv
  BY PayInit, PayStep, PTL DEF Spec

\* No trade is paid twice, in one epoch or over the life of the lane.
THEOREM NothingIsPaidTwice == Spec => []PaidOnce
  <1>1. PayInv => PaidOnce
    BY DEF PayInv, LedgerInv
  <1> QED BY PayAlways, <1>1, PTL

\* Who pays, loses: the payments of an epoch and those that were made.
LossInv ==
    /\ flight # NoFold => \A s \in flight.settlements : PaidByLoser(s)
    /\ \A i \in DOMAIN ledger : \A s \in ledger[i] : PaidByLoser(s)

\* The payments of an epoch are losses at prices the core has bound.
LEMMA EpochLosses ==
    ASSUME PricesInv, Matched(book), NEW o \in Owner,
           NEW s \in SettlementsOf(book, FreshEpochInputs(book), o)
    PROVE  PaidByLoser(s)
  <1> DEFINE in == FreshEpochInputs(book)
  <1>1. Gathered(in) /\ DOMAIN in.twaps \subseteq prices
    BY GatheredInputs DEF FreshEpochInputs, DueTwaps
  <1> HIDE DEF in
  <1>2. PICK t \in Trade, w \in DOMAIN in.twaps :
              /\ Terms[t].a # Terms[t].b
              /\ o \in Parties(t)
              /\ w.oracle = Terms[t].oracle /\ w.time = Terms[t].expiry
              /\ PositionVm(Seat(t, o), w.rate) < 0
              /\ s = [payer |-> o, payee |-> Seat(t, o).cp,
                      usd |-> -PositionVm(Seat(t, o), w.rate), id |-> t]
    BY <1>1, Payments DEF in
  <1>3. PositionVm(Seat(t, o), w.rate) \in Int
    <2>1. w.rate \in Nat
      BY <1>1, <1>2 DEF Gathered, PriceRecord
    <2> QED BY <1>2, <2>1, SeatsArePriced, ResidualIsInt
  <1>4. BindsTwap(w, Seat(t, o))
    BY <1>2, SeatsMirror DEF BindsTwap
  <1>5. s.payer = o /\ s.id = t /\ s.usd = -PositionVm(Seat(t, o), w.rate)
    BY <1>2
  <1>6. s.usd > 0 /\ PositionVm(Seat(t, o), w.rate) = -s.usd
    BY <1>2, <1>3, <1>5
  <1> QED BY <1>1, <1>2, <1>4, <1>5, <1>6 DEF PaidByLoser

LEMMA LossStep ==
    ASSUME PayInv, PayInv', LossInv, [Next]_vars PROVE LossInv'
  <1>1. prices \subseteq prices'
    BY DEF Next, NextBlock, OpenLock, BindTwap, SetPaused, Advance, AdvanceUnreplayed,
           Land, vars, chainVars
  <1>2. ASSUME NEW s, PaidByLoser(s) PROVE PaidByLoser(s)'
    BY <1>1, <1>2 DEF PaidByLoser
  <1>3. CASE Advance \/ AdvanceUnreplayed
    <2>1. /\ GatePasses(book, FreshEpochInputs(book))
          /\ flight' = StateTransition(book, FreshEpochInputs(book))
          /\ ledger' = ledger
      BY <1>3, FlightIsEpoch DEF PayInv, BookInv, foldVars
    <2>2. flight'.settlements
            = UNION {SettlementsOf(book, FreshEpochInputs(book), o) : o \in Owner}
      BY <2>1, EpochValues
    <2>3. ASSUME NEW s \in flight'.settlements PROVE PaidByLoser(s)
      BY <2>2, EpochLosses DEF PayInv, BookInv
    <2> QED BY <1>2, <2>1, <2>3 DEF LossInv
  <1>4. CASE Land
    <2>1. /\ flight # NoFold /\ flight' = NoFold
          /\ ledger' = Append(ledger, flight.settlements)
      BY <1>4 DEF Land
    <2>2. ledger \in Seq(SUBSET Settlement) /\ flight.settlements \in SUBSET Settlement
      BY <2>1 DEF PayInv, LedgerInv, FlightPays, Pays
    <2>3. \A i \in DOMAIN ledger' :
             \/ i \in DOMAIN ledger /\ ledger'[i] = ledger[i]
             \/ ledger'[i] = flight.settlements
      BY <2>1, <2>2
    <2> QED BY <1>2, <2>1, <2>3 DEF LossInv
  <1>5. CASE UNCHANGED <<ledger, flight>>
    BY <1>2, <1>5 DEF LossInv
  <1>6. \/ Advance \/ AdvanceUnreplayed \/ Land
        \/ UNCHANGED <<ledger, flight>>
    BY DEF Next, NextBlock, OpenLock, BindTwap, SetPaused, vars, foldVars
  <1> QED BY <1>3, <1>4, <1>5, <1>6

\* A paid trade has left both books for good, and the party that lost it has paid.
THEOREM PaidTradesRetire == Spec => []PaidMeansRetired
  <1>1. Init => LossInv
    BY DEF Init, LossInv
  <1>2. PayInv /\ PayInv' /\ LossInv /\ [Next]_vars => LossInv'
    BY LossStep
  <1>3. PayInv /\ LossInv => PaidMeansRetired
    BY DEF PayInv, LedgerInv, PaidLeaves, LossInv, PaidMeansRetired
  <1> QED BY PayAlways, <1>1, <1>2, <1>3, PTL DEF Spec

-----------------------------------------------------------------------------
(* The replay. *)

\* pv are the public values of an epoch that the host could predict.
EpochOf(b, in, pv) ==
    /\ ~Rejects(b, in)
    /\ pv.prev = b /\ pv.new = Resolved(b, in) /\ pv.new # Panic
    /\ pv.opens = in.opens /\ pv.now = in.now
    /\ pv.marks = ConsumedMarks(b, in)
    /\ pv.twaps = ConsumedTwaps(b, in)

FlightIsPredicted ==
    flight # NoFold => \E in : Gathered(in) /\ EpochOf(flight.prev, in, flight)

LEMMA EpochIsPredicted ==
    ASSUME NEW b, NEW in, GatePasses(b, in)
    PROVE  EpochOf(b, in, StateTransition(b, in))
  <1>1. ~Rejects(b, in)
    BY DEF GatePasses, ResolveEpoch
  <1>2. StateTransition(b, in).new = ResolveEpoch(b, in)
        /\ ResolveEpoch(b, in) # Panic /\ StateTransition(b, in) # Panic
    BY DEF GatePasses
  <1> QED BY <1>1, <1>2, EpochValues DEF EpochOf, StateTransition

\* An epoch that consumed no settle price left every seat where it was.
LEMMA NothingSettles ==
    ASSUME NEW b, NEW in, DOMAIN ConsumedTwaps(b, in) = {}, NEW o \in Owner
    PROVE  /\ TwapsOf(b, in, o) = {}
           /\ Surviving(b, in, o) = SeatsAfterOpens(b, in, o)
  <1>1. ASSUME NEW w \in TwapsOf(b, in, o) PROVE FALSE
    <2>1. PICK p \in b[o].positions : w \in DOMAIN in.twaps /\ BindsTwap(w, p)
      BY DEF TwapsOf
    <2>2. <<o, p>> \in UNION {{q} \X SeatsAfterOpens(b, in, q) : q \in Owner}
      BY DEF SeatsAfterOpens
    <2>3. w \in DOMAIN ConsumedTwaps(b, in)
      BY <2>1, <2>2 DEF ConsumedTwaps
    <2> QED BY <2>3
  <1>2. Settling(b, in, o) = {}
    BY <1>1 DEF Settling
  <1> QED BY <1>1, <1>2 DEF Surviving

\* Replayed under any pause set, an epoch without settlements or rejected opens
\* gives the book that the fold committed: the consumed marks are all the marks
\* that mattered, and their presence is the flag that is not surfaced.
LEMMA ReplayAgrees ==
    ASSUME NEW b, NEW in, NEW pv, EpochOf(b, in, pv), NEW pausedThen,
           DOMAIN pv.twaps = {}, in.opens \subseteq Admitted(in)
    PROVE  Replay(b, pv, pausedThen) = pv.new
  <1> DEFINE again == FoldInputs(pv, pausedThen)
  <1>1. /\ again.opens = in.opens /\ again.now = in.now
        /\ again.marks = ConsumedMarks(b, in) /\ DOMAIN again.twaps = {}
    BY DEF FoldInputs, EpochOf
  <1>2. DOMAIN ConsumedTwaps(b, in) = {}
    BY DEF EpochOf
  <1> HIDE DEF again
  <1>3. Admitted(again) = Admitted(in)
    BY <1>1 DEF Admitted
  <1>4. ASSUME NEW o \in Owner
        PROVE  SeatsAfterOpens(b, again, o) = SeatsAfterOpens(b, in, o)
    BY <1>3 DEF SeatsAfterOpens
  <1>5. ASSUME NEW o \in Owner
        PROVE  TwapsOf(b, again, o) = {} /\ Settling(b, again, o) = {}
    BY <1>1 DEF TwapsOf, Settling
  <1>6. ASSUME NEW o \in Owner
        PROVE  Surviving(b, again, o) = Surviving(b, in, o)
    BY <1>2, <1>4, <1>5, NothingSettles DEF Surviving
  <1>7. ASSUME NEW o \in Owner PROVE MarksOf(b, again, o) = MarksOf(b, in, o)
    <2>1. ASSUME NEW m \in MarksOf(b, in, o) PROVE m \in ConsumedMarks(b, in)
      <3>1. PICK p \in b[o].positions : m \in in.marks /\ m.oracle = p.oracle
        BY DEF MarksOf
      <3>2. p \in Surviving(b, in, o)
        BY <1>2, NothingSettles DEF SeatsAfterOpens
      <3> QED BY <3>1, <3>2 DEF ConsumedMarks
    <2>2. ConsumedMarks(b, in) \subseteq in.marks
      BY DEF ConsumedMarks
    <2> QED BY <1>1, <2>1, <2>2 DEF MarksOf
  <1>8. MarkingEpoch(b, again) = MarkingEpoch(b, in)
    BY <1>7 DEF MarkingEpoch
  <1>9. ASSUME NEW o \in Owner
        PROVE  ResolveAccount(b, again, o) = ResolveAccount(b, in, o)
    BY <1>6, <1>7, <1>8 DEF ResolveAccount
  <1>10. ~Rejects(b, again)
    <2>1. ~Rejects(b, in)
      BY DEF EpochOf
    <2>2. /\ \A t \in again.opens : Authentic(t)
          /\ \A t \in Admitted(again) : \A o \in Parties(t) :
                \A p \in b[o].positions : p.id # t
      BY <1>1, <1>3, <2>1 DEF Rejects
    <2>3. \A o \in Owner : \A m \in MarksOf(b, again, o) :
             ~\E n \in MarksOf(b, again, o) \ {m} : n.oracle = m.oracle
      BY <1>7, <2>1 DEF Rejects
    <2> QED BY <1>5, <2>2, <2>3 DEF Rejects
  <1>11. ResolveEpoch(b, again) = Resolved(b, in)
    BY <1>9, <1>10 DEF ResolveEpoch, Resolved
  <1>12. ProcessedOpens(again) = [t \in pv.opens |-> 1]
    BY <1>1, <1>3 DEF ProcessedOpens, EpochOf
  <1> QED BY <1>11, <1>12 DEF Replay, EpochOf, again

\* A rejected open is in no book.
LEMMA RejectedIsNowhere ==
    ASSUME NEW b, Matched(b), NEW in, Gathered(in),
           NEW t \in in.opens, t \notin Admitted(in),
           \A o \in Owner : Seats(b, o, t) = {},
           NEW o \in Owner
    PROVE  Seats(Resolved(b, in), o, t) = {}
  <1> SUFFICES ASSUME NEW p \in Resolved(b, in)[o].positions, p.id = t PROVE FALSE
    BY DEF Seats
  <1>1. p \in SeatsAfterOpens(b, in, o)
    BY SurvivingSeats DEF Surviving
  <1>2. p \notin b[o].positions
    BY DEF Seats
  <1>3. PICK u \in Admitted(in) : o \in Parties(u) /\ p = Seat(u, o)
    BY <1>1, <1>2 DEF SeatsAfterOpens
  <1>4. p.id = u
    BY <1>3 DEF Seat
  <1> QED BY <1>3, <1>4

LEMMA PredictedAlways == Spec => [](PayInv /\ FlightIsPredicted)
  <1>1. Init => FlightIsPredicted
    BY DEF Init, FlightIsPredicted
  <1>2. ASSUME PayInv, FlightIsPredicted, [Next]_vars
        PROVE  FlightIsPredicted'
    <2>1. CASE Advance \/ AdvanceUnreplayed
      <3> DEFINE in == FreshEpochInputs(book)
      <3>1. /\ GatePasses(book, in) /\ flight' = StateTransition(book, in)
            /\ Gathered(in)
        BY <1>2, <2>1, FlightIsEpoch, GatheredInputs DEF PayInv, BookInv
      <3> HIDE DEF in
      <3>2. EpochOf(book, in, flight') /\ flight'.prev = book
        BY <3>1, EpochIsPredicted, EpochValues
      <3>3. Gathered(in) /\ EpochOf(flight'.prev, in, flight')
        BY <3>1, <3>2
      <3>4. \E e : Gathered(e) /\ EpochOf(flight'.prev, e, flight')
        BY <3>3
      <3> QED BY <3>4 DEF FlightIsPredicted, Gathered, EpochOf
    <2>2. CASE Land
      BY <2>2 DEF Land, FlightIsPredicted
    <2>3. CASE UNCHANGED flight
      BY <1>2, <2>3 DEF FlightIsPredicted
    <2> QED BY <1>2, <2>1, <2>2, <2>3
         DEF Next, NextBlock, OpenLock, BindTwap, SetPaused, vars
  <1> QED BY PayInit, PayStep, <1>1, <1>2, PTL DEF Spec

\* Of the three things that a replay reads from elsewhere than the epoch did,
\* only the list of settle prices and the list of processed opens can make it
\* fail: the pause set and the marking flag never do.
THEOREM OnlyListsStopTheReplay == Spec => ReplayFailsOnlyFor
  <1>1. ASSUME PayInv, FlightIsPredicted, [Next]_vars,
               rebuilt # Panic, rebuilt' = Panic
        PROVE  \/ DOMAIN flight.twaps # {}
               \/ \E t \in flight.opens : \A o \in Owner : Seats(flight.new, o, t) = {}
    <2>1. Land
      BY <1>1 DEF Next, NextBlock, OpenLock, BindTwap, SetPaused, Advance,
                  AdvanceUnreplayed, vars, foldVars
    <2>2. /\ flight # NoFold /\ flight.prev = book /\ rebuilt = book
          /\ flight.opens \cap folded = {}
          /\ rebuilt' = Replay(book, flight, pausedBefore)
      BY <1>1, <2>1 DEF Land, Accepted, PayInv, BookInv
    <2>3. PICK in : Gathered(in) /\ EpochOf(book, in, flight)
      BY <1>1, <2>2 DEF FlightIsPredicted
    <2>4. CASE DOMAIN flight.twaps = {} /\ in.opens \subseteq Admitted(in)
      BY <1>1, <2>2, <2>3, <2>4, ReplayAgrees DEF EpochOf
    <2>5. CASE ~(in.opens \subseteq Admitted(in))
      <3>1. PICK t \in in.opens : t \notin Admitted(in)
        BY <2>5
      <3>2. t \in flight.opens /\ t \notin folded /\ flight.new = Resolved(book, in)
        BY <2>2, <2>3, <3>1 DEF EpochOf
      <3>3. \A o \in Owner : Seats(book, o, t) = {}
        BY <1>1, <3>2 DEF PayInv, LedgerInv, Seats
      <3>4. \A o \in Owner : Seats(flight.new, o, t) = {}
        BY <1>1, <2>3, <3>1, <3>2, <3>3, RejectedIsNowhere DEF PayInv, BookInv
      <3> QED BY <3>2, <3>4
    <2> QED BY <2>4, <2>5
  <1>2. PayInv /\ FlightIsPredicted /\ [Next]_vars
        => [rebuilt # Panic /\ rebuilt' = Panic
              => \/ DOMAIN flight.twaps # {}
                 \/ \E t \in flight.opens :
                       \A o \in Owner : Seats(flight.new, o, t) = {}]_vars
    BY <1>1
  <1> QED BY PredictedAlways, <1>2, PTL DEF Spec, ReplayFailsOnlyFor

-----------------------------------------------------------------------------
(* The VM of one seat. *)

\* A seat's residual is an integer, and the opposite of its mirror seat's.
LEMMA SeatResiduals ==
    ASSUME NEW t \in Trade, Terms[t].a # Terms[t].b, NEW o \in Parties(t),
           NEW rate \in Nat
    PROVE  /\ PositionVm(Seat(t, o), rate) \in Int
           /\ PositionVm(Seat(t, Seat(t, o).cp), rate) = -PositionVm(Seat(t, o), rate)
  BY SeatsArePriced, ResidualsMirror

\* The marks of an epoch for a feed, whatever the row.
MarksOn(in, x) == {m \in in.marks : m.oracle = x}

\* What a seat is worth at them.
SeatVm(in, p) ==
    IF MarksOn(in, p.oracle) = {} THEN 0
    ELSE PositionVm(p, (CHOOSE m \in MarksOn(in, p.oracle) : TRUE).rate)

Single(S) == \A x, y \in S : x = y

\* Both sides see one worth.
LEMMA WorthMirrors ==
    ASSUME NEW t \in Trade, Terms[t].a # Terms[t].b, NEW o \in Parties(t),
           NEW in, in.marks \subseteq PriceRecord
    PROVE  /\ SeatVm(in, Seat(t, o)) \in Int
           /\ SeatVm(in, Seat(t, Seat(t, o).cp)) = -SeatVm(in, Seat(t, o))
  <1> DEFINE rate == (CHOOSE m \in MarksOn(in, Terms[t].oracle) : TRUE).rate
  <1>1. Seat(t, o).oracle = Terms[t].oracle
        /\ Seat(t, Seat(t, o).cp).oracle = Terms[t].oracle
    BY SeatsMirror
  <1>2. CASE MarksOn(in, Terms[t].oracle) = {}
    <2>1. SeatVm(in, Seat(t, o)) = 0 /\ SeatVm(in, Seat(t, Seat(t, o).cp)) = 0
      BY <1>1, <1>2 DEF SeatVm
    <2> QED BY <2>1, ZerosMirror
  <1>3. CASE MarksOn(in, Terms[t].oracle) # {}
    <2>1. rate \in Nat
      BY <1>3 DEF MarksOn, PriceRecord
    <2>2. /\ SeatVm(in, Seat(t, o)) = PositionVm(Seat(t, o), rate)
          /\ SeatVm(in, Seat(t, Seat(t, o).cp)) = PositionVm(Seat(t, Seat(t, o).cp), rate)
      BY <1>1, <1>3 DEF SeatVm
    <2> HIDE DEF rate
    <2> QED BY <2>1, <2>2, SeatResiduals
  <1> QED BY <1>2, <1>3

\* Marked from any list that has the marks of the feeds of all seats, once, an
\* account is worth the sum of its seats.
Worth(in, seats) == [p \in seats |-> SeatVm(in, p)]

LEMMA VmIsWorth ==
    ASSUME NEW in, NEW seats, IsFiniteSet(seats), NEW marks,
           \A p \in seats : /\ SeatVm(in, p) \in Int
                            /\ {m \in marks : m.oracle = p.oracle} = MarksOn(in, p.oracle)
                            /\ Single(MarksOn(in, p.oracle))
    PROVE  VmFromMarks(seats, marks) = SumFunctionOnSet(Worth(in, seats), seats)
  <1> DEFINE marked == {p \in seats : \E m \in marks : m.oracle = p.oracle}
             markOf(p) == CHOOSE m \in marks : m.oracle = p.oracle
             vm == [p \in marked |-> PositionVm(p, markOf(p).rate)]
             worth == Worth(in, seats)
  <1>1. VmFromMarks(seats, marks) = SumFunctionOnSet(vm, marked)
    BY DEF VmFromMarks, SumFunction
  <1>2. ASSUME NEW p \in marked PROVE vm[p] = worth[p]
    <2>1. markOf(p) \in MarksOn(in, p.oracle)
      BY <1>2 DEF MarksOn
    <2>2. markOf(p) = CHOOSE m \in MarksOn(in, p.oracle) : TRUE
      <3> DEFINE n == CHOOSE m \in MarksOn(in, p.oracle) : TRUE
      <3>1. n \in MarksOn(in, p.oracle)
        BY <2>1
      <3> HIDE DEF n, markOf
      <3> QED BY <2>1, <3>1 DEF Single, n
    <2> HIDE DEF markOf
    <2>3. vm[p] = PositionVm(p, (CHOOSE m \in MarksOn(in, p.oracle) : TRUE).rate)
      BY <1>2, <2>2
    <2>4. MarksOn(in, p.oracle) # {}
      BY <2>1
    <2> QED BY <1>2, <2>3, <2>4 DEF Worth, SeatVm
  <1>3. ASSUME NEW p \in seats \ marked PROVE worth[p] = 0
    BY <1>3 DEF Worth, SeatVm
  <1>4. \A p \in seats : worth[p] \in Int
    BY DEF Worth
  <1>5. marked \in SUBSET seats /\ IsFiniteSet(marked)
    BY FS_Subset
  <1> HIDE DEF marked, vm, worth
  <1>6. SumFunctionOnSet(vm, marked) = SumFunctionOnSet(worth, marked)
    BY <1>2, <1>5, SumEqual
  <1>7. SumFunctionOnSet(worth, seats) = SumFunctionOnSet(worth, marked)
    BY <1>3, <1>4, <1>5, SumSupport
  <1> QED BY <1>1, <1>6, <1>7 DEF worth

-----------------------------------------------------------------------------
(* The accounts of one epoch. *)

\* Seats of one party, known by their trades.
SeatsOf(seats, o) ==
    \A p \in seats : \E t \in Trade :
       Terms[t].a # Terms[t].b /\ o \in Parties(t) /\ p = Seat(t, o)

LEMMA SeatsAreTrades ==
    ASSUME NEW o \in Owner, NEW seats, SeatsOf(seats, o)
    PROVE  /\ IsFiniteSet(seats)
           /\ \A p \in seats : p.id \in Trade
           /\ \A p, q \in seats : p.id = q.id => p = q
  <1> DEFINE id == [p \in seats |-> p.id]
  <1>1. \A p \in seats : p.id \in Trade /\ p = Seat(p.id, o)
    BY SeatsMirror DEF SeatsOf
  <1>2. \A p, q \in seats : p.id = q.id => p = q
    BY <1>1
  <1>3. id \in Injection(seats, Trade)
    <2>1. id \in [seats -> Trade]
      BY <1>1
    <2>2. IsInjective(id)
      BY <1>2 DEF IsInjective
    <2> QED BY <2>1, <2>2 DEF Injection
  <1>4. IsFiniteSet(seats)
    BY <1>3, EngineAssumption, FS_Injection
  <1> QED BY <1>1, <1>2, <1>4

LEMMA EpochSeats ==
    ASSUME NEW b, Matched(b), NEW in, Gathered(in), NEW o \in Owner
    PROVE  SeatsOf(SeatsAfterOpens(b, in, o), o) /\ SeatsOf(Surviving(b, in, o), o)
  <1>1. SeatsOf(SeatsAfterOpens(b, in, o), o)
    BY OpensMatched DEF SeatsOf
  <1> QED BY <1>1 DEF SeatsOf, Surviving

\* The valves: the row of an account has all marks for the feed of each of its
\* live seats, one at most.
LEMMA RowHasMarks ==
    ASSUME NEW b, NEW in, ~GuestPanics(b, in), MarkingEpoch(b, in),
           NEW o \in Owner, NEW p \in Surviving(b, in, o)
    PROVE  /\ {m \in MarksOf(b, in, o) : m.oracle = p.oracle} = MarksOn(in, p.oracle)
           /\ Single(MarksOn(in, p.oracle))
  <1>1. p \in SeatsAfterOpens(b, in, o)
    BY DEF Surviving
  <1>2. \E q \in b[o].positions : q.oracle = p.oracle
    <2>1. CASE p \in b[o].positions
      BY <2>1
    <2>2. CASE p \notin b[o].positions
      <3>1. p.expiry > in.now
        BY <1>1, <2>2 DEF SeatsAfterOpens, Admitted, Seat
      <3>2. p.oracle \notin in.paused
        <4>1. SUFFICES ASSUME p.oracle \in in.paused PROVE FALSE
          OBVIOUS
        <4>2. <<o, p>> \in LiveHolds(b, in)
          BY <1>1, <3>1, <4>1 DEF LiveHolds
        <4>3. HoldsMiscounted(b, in)
          BY <2>2, <4>2 DEF HoldsMiscounted
        <4> QED BY <4>3 DEF GuestPanics
      <3>3. PICK m \in MarksOf(b, in, o) : m.oracle = p.oracle
        BY <1>1, <3>1, <3>2 DEF GuestPanics, LiveWithoutMark
      <3> QED BY <3>3 DEF MarksOf
    <2> QED BY <2>1, <2>2
  <1>3. {m \in MarksOf(b, in, o) : m.oracle = p.oracle} = MarksOn(in, p.oracle)
    BY <1>2 DEF MarksOf, MarksOn
  <1>4. \A m, n \in MarksOf(b, in, o) : m.oracle = n.oracle => m = n
    BY DEF GuestPanics, Rejects
  <1>5. Single(MarksOn(in, p.oracle))
    BY <1>3, <1>4 DEF Single
  <1> QED BY <1>3, <1>5

LEMMA SeatsHaveWorth ==
    ASSUME NEW in, in.marks \subseteq PriceRecord, NEW o \in Owner,
           NEW seats, SeatsOf(seats, o)
    PROVE  \A p \in seats : SeatVm(in, p) \in Int
  BY WorthMirrors DEF SeatsOf

\* A marking epoch leaves every account with the worth of its seats.
LEMMA MarkedAccount ==
    ASSUME NEW b, Matched(b), NEW in, Gathered(in), in.marks \subseteq PriceRecord,
           ~GuestPanics(b, in), MarkingEpoch(b, in), NEW o \in Owner
    PROVE  Resolved(b, in)[o].vm
             = SumFunctionOnSet(Worth(in, Surviving(b, in, o)), Surviving(b, in, o))
  <1> DEFINE seats == Surviving(b, in, o)
  <1>1. SeatsOf(seats, o) /\ IsFiniteSet(seats)
    BY EpochSeats, SeatsAreTrades
  <1>2. VmFromMarks(seats, MarksOf(b, in, o)) = SumFunctionOnSet(Worth(in, seats), seats)
    <2>1. \A p \in seats : SeatVm(in, p) \in Int
      BY <1>1, SeatsHaveWorth
    <2>2. \A p \in seats :
             /\ {m \in MarksOf(b, in, o) : m.oracle = p.oracle} = MarksOn(in, p.oracle)
             /\ Single(MarksOn(in, p.oracle))
      BY RowHasMarks
    <2> HIDE DEF seats
    <2> QED BY <1>1, <2>1, <2>2, VmIsWorth
  <1>3. CASE seats = {}
    <2>1. Resolved(b, in)[o].vm = 0
      BY <1>3 DEF Resolved, ResolveAccount, NoAccount
    <2>2. SumFunctionOnSet(Worth(in, seats), seats) = 0
      BY <1>3, SumEmpty
    <2> QED BY <2>1, <2>2
  <1>4. CASE seats # {}
    BY <1>2, <1>4 DEF Resolved, ResolveAccount
  <1> QED BY <1>3, <1>4

-----------------------------------------------------------------------------
(* The shares of one epoch. *)

\* Inputs in which every price is one.
Priced(in) == Gathered(in) /\ in.marks \subseteq PriceRecord

\* pv are the public values of an epoch from book b.
Proved(b, in, pv) ==
    Matched(b) /\ Priced(in) /\ GatePasses(b, in) /\ pv = StateTransition(b, in)

LEMMA ProvedValues ==
    ASSUME NEW b, NEW in, NEW pv, Proved(b, in, pv)
    PROVE  /\ ~GuestPanics(b, in)
           /\ pv.prev = b /\ pv.new = Resolved(b, in) /\ Matched(pv.new)
           /\ pv.marks = ConsumedMarks(b, in) /\ pv.twaps = ConsumedTwaps(b, in)
           /\ pv.marking = MarkingEpoch(b, in)
           /\ \A o \in Owner : /\ pv.new[o].positions = Surviving(b, in, o)
                               /\ SeatsOf(pv.new[o].positions, o)
  <1>1. ~GuestPanics(b, in)
    BY DEF Proved, GatePasses, StateTransition
  <1>2. pv.prev = b /\ pv.new = Resolved(b, in)
    BY EpochValues DEF Proved
  <1>3. /\ pv.marks = ConsumedMarks(b, in) /\ pv.twaps = ConsumedTwaps(b, in)
        /\ pv.marking = MarkingEpoch(b, in)
    BY <1>1 DEF Proved, StateTransition
  <1>4. Matched(pv.new)
    BY <1>2, EpochMatched DEF Proved, Priced
  <1>5. \A o \in Owner : pv.new[o].positions = Surviving(b, in, o)
    BY <1>2, SurvivingSeats
  <1>6. \A o \in Owner : SeatsOf(pv.new[o].positions, o)
    BY <1>5, EpochSeats DEF Proved, Priced
  <1> QED BY <1>1, <1>2, <1>3, <1>4, <1>5, <1>6

\* A marked seat's share is its worth.
LEMMA MarkedShare ==
    ASSUME NEW b, NEW in, NEW pv, Proved(b, in, pv), pv.marking,
           NEW o \in Owner, NEW p \in pv.new[o].positions
    PROVE  NewShare(pv, o, p.id) = SeatVm(in, p) /\ SeatVm(in, p) \in Int
  <1> DEFINE seats == {q \in pv.new[o].positions : q.id = p.id}
             marks == {m \in pv.marks : \E q \in seats : m.oracle = q.oracle}
  <1>1. /\ ~GuestPanics(b, in) /\ MarkingEpoch(b, in)
        /\ p \in Surviving(b, in, o)
        /\ pv.marks = ConsumedMarks(b, in)
        /\ SeatsOf(pv.new[o].positions, o)
    BY ProvedValues
  <1>2. seats = {p}
    BY <1>1, SeatsAreTrades
  <1>3. SeatVm(in, p) \in Int
    BY <1>1, SeatsHaveWorth DEF Proved, Priced
  <1>4. /\ {m \in MarksOf(b, in, o) : m.oracle = p.oracle} = MarksOn(in, p.oracle)
        /\ Single(MarksOn(in, p.oracle))
    BY <1>1, RowHasMarks
  <1>5. {m \in marks : m.oracle = p.oracle} = MarksOn(in, p.oracle)
    <2>1. ASSUME NEW m \in MarksOn(in, p.oracle) PROVE m \in marks /\ m.oracle = p.oracle
      <3>1. m \in MarksOf(b, in, o) /\ m \in in.marks /\ m.oracle = p.oracle
        BY <1>4 DEF MarksOn
      <3>2. m \in pv.marks
        BY <1>1, <3>1 DEF ConsumedMarks
      <3> QED BY <1>2, <3>1, <3>2
    <2>2. pv.marks \subseteq in.marks
      BY <1>1 DEF ConsumedMarks
    <2> QED BY <2>1, <2>2 DEF MarksOn
  <1>6. VmFromMarks({p}, marks) = SumFunctionOnSet(Worth(in, {p}), {p})
    <2> HIDE DEF marks
    <2>1. IsFiniteSet({p})
      BY FS_Singleton
    <2> QED BY <1>3, <1>4, <1>5, <2>1, VmIsWorth
  <1>7. SumFunctionOnSet(Worth(in, {p}), {p}) = SeatVm(in, p)
    <2>1. Worth(in, {p})[p] = SeatVm(in, p)
      BY DEF Worth
    <2> QED BY <1>3, <2>1, SumSingleton
  <1>8. NewShare(pv, o, p.id) = VmFromMarks({p}, marks)
    BY <1>2 DEF NewShare
  <1> QED BY <1>3, <1>6, <1>7, <1>8

\* The shares of an account.
NewShares(pv, o) == [t \in Trade |-> NewShare(pv, o, t)]

\* In a marking epoch, they add up to its VM.
LEMMA MarkedSum ==
    ASSUME NEW b, NEW in, NEW pv, Proved(b, in, pv), pv.marking, NEW o \in Owner
    PROVE  /\ pv.new[o].vm = SumFunction(NewShares(pv, o))
           /\ NewShares(pv, o) \in [Trade -> Int]
  <1> DEFINE seats == pv.new[o].positions
             worth == Worth(in, seats)
             id == [p \in seats |-> p.id]
             shares == NewShares(pv, o)
  <1>1. /\ ~GuestPanics(b, in) /\ MarkingEpoch(b, in)
        /\ seats = Surviving(b, in, o) /\ SeatsOf(seats, o)
        /\ pv.new = Resolved(b, in)
    BY ProvedValues
  <1>2. /\ IsFiniteSet(seats)
        /\ \A p \in seats : p.id \in Trade
        /\ \A p, q \in seats : p.id = q.id => p = q
    BY <1>1, SeatsAreTrades
  <1>3. pv.new[o].vm = SumFunctionOnSet(worth, seats)
    BY <1>1, MarkedAccount DEF Proved, Priced
  <1>4. \A p \in seats : worth[p] \in Int /\ shares[id[p]] = worth[p]
    BY <1>2, MarkedShare DEF Worth, NewShares
  <1>5. \A p, q \in seats : id[p] = id[q] => p = q
    BY <1>2
  <1>6. \A t \in Trade \ Named(id, seats) : shares[t] = 0
    BY DEF Named, NewShares, NewShare
  <1>7. \A t \in Trade : shares[t] \in Int
    <2>1. ASSUME NEW t \in Named(id, seats) PROVE shares[t] \in Int
      BY <1>4, MarkedShare DEF Named, Worth
    <2> HIDE DEF shares, id, seats
    <2> QED BY <1>6, <2>1
  <1>8. Named(id, seats) \in SUBSET Trade
    BY <1>2 DEF Named
  <1>9. DOMAIN shares = Trade /\ shares \in [Trade -> Int]
    BY <1>7 DEF NewShares
  <1> HIDE DEF worth, id, shares, seats
  <1>10. SumFunctionOnSet(worth, seats) = SumFunctionOnSet(shares, Named(id, seats))
    BY <1>2, <1>4, <1>5, SumReindex
  <1>11. SumFunctionOnSet(shares, Trade) = SumFunctionOnSet(shares, Named(id, seats))
    BY <1>6, <1>7, <1>8, EngineAssumption, SumSupport
  <1>12. pv.new[o].vm = SumFunction(shares)
    BY <1>3, <1>9, <1>10, <1>11 DEF SumFunction
  <1> QED BY <1>9, <1>12 DEF shares

\* A book has both seats of a trade or none.
LEMMA BothSeats ==
    ASSUME NEW b, Matched(b), NEW t \in Trade, NEW o \in Owner, Seats(b, o, t) # {}
    PROVE  /\ Terms[t].a # Terms[t].b /\ o \in Parties(t)
           /\ \A q \in Parties(t) : /\ q \in Owner
                                    /\ Seat(t, q) \in b[q].positions
                                    /\ Seat(t, q).id = t
                                    /\ Seats(b, q, t) # {}
  <1>1. PICK p \in b[o].positions : p.id = t
    BY DEF Seats
  <1>2. PICK u \in Trade :
           /\ Terms[u].a # Terms[u].b
           /\ o \in Parties(u)
           /\ p = Seat(u, o)
           /\ \A q \in Parties(u) : Seat(u, q) \in b[q].positions
    BY DEF Matched
  <1>3. u = t
    BY <1>1, <1>2, SeatsMirror
  <1>4. ASSUME NEW q \in Parties(t)
        PROVE  q \in Owner /\ Seat(t, q).id = t /\ Seats(b, q, t) # {}
    <2>1. q \in Owner /\ Seat(t, q).id = t
      BY <1>2, <1>3, SeatsMirror
    <2> QED BY <1>2, <1>3, <2>1 DEF Seats
  <1> QED BY <1>2, <1>3, <1>4

\* In a marking epoch, the shares of the two parties of a trade cancel.
LEMMA MarkedCancel ==
    ASSUME NEW b, NEW in, NEW pv, Proved(b, in, pv), pv.marking,
           NEW t \in Trade, Terms[t].a # Terms[t].b, NEW o \in Parties(t)
    PROVE  NewShare(pv, Seat(t, o).cp, t) = -NewShare(pv, o, t)
  <1> DEFINE c == Seat(t, o).cp
  <1>1. o \in Owner /\ c \in Owner /\ c \in Parties(t) /\ Matched(pv.new)
    BY SeatsMirror, ProvedValues
  <1>2. CASE Seats(pv.new, o, t) = {} /\ Seats(pv.new, c, t) = {}
    <2>1. NewShare(pv, o, t) = 0 /\ NewShare(pv, c, t) = 0
      BY <1>2 DEF NewShare, Seats
    <2> QED BY <2>1, ZerosMirror
  <1>3. CASE Seats(pv.new, o, t) # {} \/ Seats(pv.new, c, t) # {}
    <2>1. /\ Seat(t, o) \in pv.new[o].positions /\ Seat(t, o).id = t
          /\ Seat(t, c) \in pv.new[c].positions /\ Seat(t, c).id = t
      BY <1>1, <1>3, BothSeats
    <2>2. NewShare(pv, o, t) = SeatVm(in, Seat(t, o))
          /\ NewShare(pv, c, t) = SeatVm(in, Seat(t, c))
      BY <1>1, <2>1, MarkedShare
    <2>3. SeatVm(in, Seat(t, c)) = -SeatVm(in, Seat(t, o))
      BY WorthMirrors DEF Proved, Priced
    <2> QED BY <2>2, <2>3
  <1> QED BY <1>2, <1>3

-----------------------------------------------------------------------------
(* The lane. *)

FlightIsProved ==
    flight # NoFold => \E in : Proved(flight.prev, in, flight)

\* The shares of a trade are those of its seats and cancel.
ShareInv ==
    /\ share \in [Owner -> [Trade -> Int]]
    /\ \A o \in Owner, t \in Trade : Seats(book, o, t) = {} => share[o][t] = 0
    /\ \A t \in Trade : Terms[t].a # Terms[t].b =>
          \A o \in Parties(t) : share[Seat(t, o).cp][t] = -share[o][t]
    /\ VmIsShares

VmInv == BookInv /\ FlightIsProved /\ ShareInv

LEMMA PricedInputs ==
    ASSUME PricesInv, NEW b PROVE Priced(FreshEpochInputs(b))
  <1>1. FreshEpochInputs(b).marks \subseteq PriceRecord
    BY DEF FreshEpochInputs, FreshMarks, PricesInv
  <1> QED BY <1>1, GatheredInputs DEF Priced

LEMMA VmInit ==
    ASSUME Init PROVE VmInv
  <1>1. BookInv /\ FlightIsProved
    BY BookInit DEF Init, FlightIsProved
  <1>2. share = [o \in Owner |-> [t \in Trade |-> 0]]
    BY DEF Init
  <1>3. ASSUME NEW t \in Trade, Terms[t].a # Terms[t].b, NEW o \in Parties(t)
        PROVE  share[Seat(t, o).cp][t] = -share[o][t]
    <2>1. share[Seat(t, o).cp][t] = 0 /\ share[o][t] = 0
      BY <1>2, <1>3, SeatsMirror
    <2> QED BY <2>1, ZerosMirror
  <1>4. ASSUME NEW o \in Owner PROVE book[o].vm = SumFunction(share[o])
    <2>1. book[o].vm = 0
      BY DEF Init, EmptyBook, NoAccount
    <2>2. DOMAIN share[o] = Trade /\ \A t \in Trade : share[o][t] = 0
      BY <1>2
    <2>3. SumFunctionOnSet(share[o], Trade) = 0
      BY <2>2, EngineAssumption, SumOfZeros
    <2> QED BY <2>1, <2>2, <2>3 DEF SumFunction
  <1>5. ShareInv
    BY <1>2, <1>3, <1>4 DEF ShareInv, VmIsShares
  <1> QED BY <1>1, <1>5 DEF VmInv

\* An epoch that does not mark leaves the share of every seat.
LEMMA CarriedShare ==
    ASSUME NEW pv, ~pv.marking, NEW o, NEW t
    PROVE  /\ Seats(pv.new, o, t) = {} => NewShare(pv, o, t) = 0
           /\ Seats(pv.new, o, t) # {} => NewShare(pv, o, t) = share[o][t]
  BY DEF NewShare, Seats

\* When it retires nothing either, all shares and VMs are as before.
LEMMA CarriedSum ==
    ASSUME ShareInv, ~carried, NEW in, NEW pv, Proved(book, in, pv), ~pv.marking,
           DOMAIN pv.twaps = {}, NEW o \in Owner
    PROVE  pv.new[o].vm = SumFunction(NewShares(pv, o))
  <1>1. /\ pv.new = Resolved(book, in) /\ ~MarkingEpoch(book, in)
        /\ pv.new[o].positions = Surviving(book, in, o)
        /\ DOMAIN ConsumedTwaps(book, in) = {}
    <2>1. /\ pv.new = Resolved(book, in) /\ pv.marking = MarkingEpoch(book, in)
          /\ pv.twaps = ConsumedTwaps(book, in)
          /\ pv.new[o].positions = Surviving(book, in, o)
      BY ProvedValues
    <2> QED BY <2>1
  <1>2. book[o].positions \subseteq pv.new[o].positions
    BY <1>1, NothingSettles DEF SeatsAfterOpens
  <1>3. share[o] \in [Trade -> Int]
    BY DEF ShareInv
  <1>4. ASSUME NEW t \in Trade PROVE NewShare(pv, o, t) = share[o][t]
    <2>1. CASE Seats(pv.new, o, t) = {}
      <3>1. Seats(book, o, t) = {}
        BY <1>2, <2>1 DEF Seats
      <3> QED BY <2>1, <3>1, CarriedShare DEF ShareInv
    <2>2. CASE Seats(pv.new, o, t) # {}
      BY <2>2, CarriedShare
    <2> QED BY <2>1, <2>2
  <1>5. NewShares(pv, o) = share[o]
    BY <1>3, <1>4 DEF NewShares
  <1>6. CASE Surviving(book, in, o) # {}
    <2>1. pv.new[o].vm = book[o].vm
      BY <1>1, <1>6 DEF Resolved, ResolveAccount
    <2> QED BY <1>5, <2>1 DEF ShareInv, VmIsShares
  <1>7. CASE Surviving(book, in, o) = {}
    <2>1. pv.new[o].vm = 0
      BY <1>1, <1>7 DEF Resolved, ResolveAccount, NoAccount
    <2>2. \A t \in Trade : share[o][t] = 0
      BY <1>1, <1>2, <1>7 DEF ShareInv, Seats
    <2>3. SumFunctionOnSet(share[o], Trade) = 0
      BY <2>2, EngineAssumption, SumOfZeros
    <2> QED BY <1>3, <1>5, <2>1, <2>3 DEF SumFunction
  <1> QED BY <1>6, <1>7

LEMMA LandShares ==
    ASSUME VmInv, Land PROVE ShareInv'
  <1>1. PICK in : Proved(book, in, flight)
    BY DEF Land, Accepted, VmInv, FlightIsProved
  <1>2. /\ book' = flight.new /\ Matched(flight.new)
        /\ share' = [o \in Owner |-> NewShares(flight, o)]
        /\ carried' = (carried \/ (DOMAIN flight.twaps # {} /\ ~flight.marking))
    BY <1>1, ProvedValues DEF Land, NewShares
  <1>3. \A o \in Owner, t \in Trade : share'[o][t] = NewShare(flight, o, t)
    BY <1>2 DEF NewShares
  <1>4. ASSUME NEW o \in Owner, NEW t \in Trade, Seats(flight.new, o, t) = {}
        PROVE  NewShare(flight, o, t) = 0
    BY <1>4 DEF NewShare, Seats
  <1>5. ASSUME NEW o \in Owner PROVE NewShares(flight, o) \in [Trade -> Int]
    <2>1. CASE flight.marking
      BY <1>1, <2>1, MarkedSum
    <2>2. CASE ~flight.marking
      <3>1. \A t \in Trade : share[o][t] \in Int
        BY DEF VmInv, ShareInv
      <3>2. \A t \in Trade : NewShare(flight, o, t) \in {0, share[o][t]}
        BY <2>2, CarriedShare
      <3>3. \A t \in Trade : NewShare(flight, o, t) \in Int
        BY <3>1, <3>2
      <3> QED BY <3>3 DEF NewShares
    <2> QED BY <2>1, <2>2
  <1>6. ASSUME NEW t \in Trade, Terms[t].a # Terms[t].b, NEW o \in Parties(t)
        PROVE  NewShare(flight, Seat(t, o).cp, t) = -NewShare(flight, o, t)
    <2> DEFINE c == Seat(t, o).cp
    <2>1. CASE flight.marking
      BY <1>1, <1>6, <2>1, MarkedCancel
    <2>2. CASE ~flight.marking
      <3>1. o \in Owner /\ c \in Owner /\ c \in Parties(t)
        BY <1>6, SeatsMirror
      <3>0. \A q \in Owner : Seats(flight.new, q, t) # {}
                             => NewShare(flight, q, t) = share[q][t]
        BY <2>2, CarriedShare
      <3>2. share[c][t] = -share[o][t]
        BY <1>6 DEF VmInv, ShareInv
      <3>3. Seats(flight.new, o, t) = {} <=> Seats(flight.new, c, t) = {}
        BY <1>2, <1>6, <3>1, BothSeats
      <3> HIDE DEF c
      <3>4. CASE Seats(flight.new, o, t) = {}
        <4>1. NewShare(flight, o, t) = 0 /\ NewShare(flight, c, t) = 0
          BY <1>4, <3>1, <3>3, <3>4
        <4> QED BY <4>1, ZerosMirror DEF c
      <3>5. CASE Seats(flight.new, o, t) # {}
        <4>1. NewShare(flight, o, t) = share[o][t] /\ NewShare(flight, c, t) = share[c][t]
          BY <3>0, <3>1, <3>3, <3>5
        <4> QED BY <3>2, <4>1 DEF c
      <3> QED BY <3>4, <3>5
    <2> QED BY <2>1, <2>2
  <1>7. ASSUME ~carried', NEW o \in Owner
        PROVE  flight.new[o].vm = SumFunction(NewShares(flight, o))
    <2>1. CASE flight.marking
      BY <1>1, <2>1, MarkedSum
    <2>2. CASE ~flight.marking
      BY <1>1, <1>2, <1>7, <2>2, CarriedSum DEF VmInv
    <2> QED BY <2>1, <2>2
  <1>8. share' \in [Owner -> [Trade -> Int]]
    BY <1>2, <1>5
  <1>9. \A o \in Owner, t \in Trade : Seats(book', o, t) = {} => share'[o][t] = 0
    BY <1>2, <1>3, <1>4
  <1>10. ASSUME NEW t \in Trade, Terms[t].a # Terms[t].b, NEW o \in Parties(t)
         PROVE  share'[Seat(t, o).cp][t] = -share'[o][t]
    BY <1>3, <1>6, <1>10, SeatsMirror
  <1>11. ASSUME ~carried', NEW o \in Owner PROVE book'[o].vm = SumFunction(share'[o])
    BY <1>2, <1>7, <1>11
  <1> QED BY <1>8, <1>9, <1>10, <1>11 DEF ShareInv, VmIsShares, Seats

LEMMA VmStep ==
    ASSUME VmInv, [Next]_vars PROVE VmInv'
  <1>1. BookInv /\ BookInv'
    BY BookStep DEF VmInv
  <1>2. CASE Advance \/ AdvanceUnreplayed
    <2> DEFINE in == FreshEpochInputs(book)
    <2>1. /\ GatePasses(book, in) /\ flight' = StateTransition(book, in)
          /\ UNCHANGED <<chainVars, foldVars>>
      BY <1>1, <1>2, FlightIsEpoch DEF BookInv
    <2>2. Proved(book, in, flight') /\ flight'.prev = book
      BY <1>1, <2>1, PricedInputs, EpochValues DEF BookInv, Proved
    <2> HIDE DEF in
    <2>3. \E e : Proved(flight'.prev, e, flight')
      BY <2>2
    <2>4. FlightIsProved'
      BY <2>3 DEF FlightIsProved, Proved, Matched, Priced, Gathered
    <2>5. ShareInv'
      BY <2>1 DEF VmInv, ShareInv, foldVars, VmIsShares, Seats
    <2> QED BY <1>1, <2>4, <2>5 DEF VmInv
  <1>3. CASE Land
    <2>1. FlightIsProved'
      BY <1>3 DEF Land, FlightIsProved
    <2> QED BY <1>1, <1>3, <2>1, LandShares DEF VmInv
  <1>4. CASE UNCHANGED <<foldVars, flight>>
    <2>1. FlightIsProved'
      BY <1>4 DEF VmInv, FlightIsProved, Proved, Matched, Priced, Gathered
    <2>2. ShareInv'
      BY <1>4 DEF VmInv, ShareInv, foldVars, VmIsShares, Seats
    <2> QED BY <1>1, <2>1, <2>2 DEF VmInv
  <1>5. \/ Advance \/ AdvanceUnreplayed \/ Land
        \/ UNCHANGED <<foldVars, flight>>
    BY DEF Next, NextBlock, OpenLock, BindTwap, SetPaused, vars
  <1> QED BY <1>2, <1>3, <1>4, <1>5

LEMMA VmAlways == Spec => []VmInv
  BY VmInit, VmStep, PTL DEF Spec

\* As long as no seat has retired in an epoch that does not mark, the VM of an
\* account is what its seats were last marked at.
THEOREM VmIsWhatSeatsWereMarkedAt == Spec => []VmIsShares
  <1>1. VmInv => VmIsShares
    BY DEF VmInv, ShareInv
  <1> QED BY VmAlways, <1>1, PTL

\* The shares of every trade cancel, so those of all accounts do.
LEMMA SharesCancel ==
    ASSUME VmInv PROVE VmZeroSum
  <1> SUFFICES ASSUME ~carried
               PROVE  SumFunction([o \in Owner |-> book[o].vm]) = 0
    BY DEF VmZeroSum
  <1> DEFINE vm == [o \in Owner |-> book[o].vm]
  <1>1. share \in [Owner -> [Trade -> Int]] /\ Matched(book)
    BY DEF VmInv, ShareInv, BookInv
  <1>2. ASSUME NEW t \in Trade
        PROVE  SumFunctionOnSet(Column(share, Owner, t), Owner) = 0
    <2> DEFINE col == Column(share, Owner, t)
    <2>1. \A o \in Owner : col[o] = share[o][t] /\ col[o] \in Int
      BY <1>1 DEF Column
    <2>2. \A o \in Owner : Seats(book, o, t) = {} => col[o] = 0
      BY <2>1 DEF VmInv, ShareInv
    <2> HIDE DEF col
    <2>3. CASE Terms[t].a = Terms[t].b
      <3>1. \A o \in Owner : Seats(book, o, t) = {}
        BY <1>1, <2>3, BothSeats
      <3>2. SumFunctionOnSet(col, Owner) = 0
        BY <2>2, <3>1, EngineAssumption, SumOfZeros
      <3> QED BY <3>2 DEF col
    <2>4. CASE Terms[t].a # Terms[t].b
      <3> DEFINE a == Terms[t].a
                 b == Terms[t].b
      <3>1. /\ a \in Parties(t) /\ a \in Owner /\ b \in Owner /\ a # b
            /\ Seat(t, a).cp = b /\ Parties(t) = {a, b}
        BY <2>4, EngineAssumption DEF Parties, Seat
      <3>2. col[b] = -col[a]
        BY <2>1, <2>4, <3>1 DEF VmInv, ShareInv
      <3>3. \A o \in Owner \ {a, b} : col[o] = 0
        BY <1>1, <2>2, <3>1, BothSeats
      <3> HIDE DEF a, b
      <3>4. SumFunctionOnSet(col, Owner) = 0
        BY <2>1, <3>1, <3>2, <3>3, EngineAssumption, SumOfPair
      <3> QED BY <3>4 DEF col
    <2> QED BY <2>3, <2>4
  <1>3. SumFunctionOnSet(RowSums(share, Owner, Trade), Owner) = 0
    BY <1>1, <1>2, EngineAssumption, RowsCancel
  <1>4. \A o \in Owner : vm[o] = RowSums(share, Owner, Trade)[o]
    BY <1>1 DEF VmInv, ShareInv, VmIsShares, RowSums, SumFunction
  <1>5. DOMAIN vm = Owner
    OBVIOUS
  <1> HIDE DEF vm
  <1>6. SumFunctionOnSet(vm, Owner) = SumFunctionOnSet(RowSums(share, Owner, Trade), Owner)
    BY <1>4, EngineAssumption, SumEqual
  <1>7. SumFunction(vm) = 0
    BY <1>3, <1>5, <1>6 DEF SumFunction
  <1> QED BY <1>7 DEF vm

\* What one side of the lane is up, the other is down.
THEOREM VmCancels == Spec => []VmZeroSum
  BY VmAlways, SharesCancel, PTL

-----------------------------------------------------------------------------
(* Types.  That an account holds records and a whole number is a property   *)
(* of the books, not of the records alone: a carried VM is one because it   *)
(* was one, a marked one because each live seat has one mark.               *)

LEMMA SeatsAreRecords ==
    ASSUME NEW o \in Owner, NEW seats, SeatsOf(seats, o)
    PROVE  seats \subseteq PositionRecord
  BY SeatIsRecord DEF SeatsOf

\* The accounts of a lane have finitely many seats together.
AllSeats(b, in) == UNION {{o} \X SeatsAfterOpens(b, in, o) : o \in Owner}

LEMMA AllSeatsFinite ==
    ASSUME NEW b, Matched(b), NEW in, Gathered(in)
    PROVE  IsFiniteSet(AllSeats(b, in))
  <1> DEFINE rows == {{o} \X SeatsAfterOpens(b, in, o) : o \in Owner}
             row == [o \in Owner |-> {o} \X SeatsAfterOpens(b, in, o)]
  <1>1. row \in Surjection(Owner, rows)
    BY DEF Surjection
  <1>2. IsFiniteSet(rows)
    <2> HIDE DEF row, rows
    <2> QED BY <1>1, EngineAssumption, FS_Surjection
  <1>3. ASSUME NEW o \in Owner PROVE IsFiniteSet({o} \X SeatsAfterOpens(b, in, o))
    <2>1. IsFiniteSet(SeatsAfterOpens(b, in, o))
      BY EpochSeats, SeatsAreTrades
    <2>2. IsFiniteSet({o})
      BY FS_Singleton
    <2> QED BY <2>1, <2>2, FS_Product
  <1>4. \A T \in rows : IsFiniteSet(T)
    BY <1>3
  <1> HIDE DEF rows
  <1>5. IsFiniteSet(UNION rows)
    BY <1>2, <1>4, FS_UNION
  <1> QED BY <1>5 DEF AllSeats, rows

\* Each settle price that is listed is listed a positive number of times.
LEMMA CountsTyped ==
    ASSUME NEW b, Matched(b), NEW in, Gathered(in)
    PROVE  LET twaps == ConsumedTwaps(b, in)
           IN  twaps \in PriceCounts(DOMAIN twaps) /\ DOMAIN twaps \subseteq PriceRecord
  <1> DEFINE consumers(w) == {h \in AllSeats(b, in) :
                                w \in TwapsOf(b, in, h[1]) /\ BindsTwap(w, h[2])}
             listed == {v \in DOMAIN in.twaps : consumers(v) # {}}
  <1>1. ConsumedTwaps(b, in) = [w \in listed |-> Cardinality(consumers(w))]
    BY DEF ConsumedTwaps, AllSeats
  <1>2. ASSUME NEW w \in listed PROVE Cardinality(consumers(w)) \in Nat \ {0}
    <2>1. consumers(w) # {} /\ consumers(w) \in SUBSET AllSeats(b, in)
      OBVIOUS
    <2> HIDE DEF consumers
    <2>2. IsFiniteSet(consumers(w))
      BY <2>1, AllSeatsFinite, FS_Subset
    <2> QED BY <2>1, <2>2, FS_CardinalityType, FS_EmptySet
  <1>3. listed \subseteq PriceRecord
    BY DEF Gathered
  <1> HIDE DEF listed, consumers
  <1> QED BY <1>1, <1>2, <1>3 DEF PriceCounts

\* The book that an epoch leads to is one.
LEMMA BookTyped ==
    ASSUME NEW b \in Book, NEW in, NEW pv, Proved(b, in, pv)
    PROVE  pv.new \in Book
  <1>1. /\ ~GuestPanics(b, in) /\ pv.new = Resolved(b, in)
        /\ Matched(b) /\ Gathered(in) /\ in.marks \subseteq PriceRecord
    BY ProvedValues DEF Proved, Priced
  <1>2. ASSUME NEW o \in Owner PROVE ResolveAccount(b, in, o).vm \in Int
    <2>1. CASE Surviving(b, in, o) = {}
      BY <2>1 DEF ResolveAccount, NoAccount
    <2>2. CASE Surviving(b, in, o) # {} /\ ~MarkingEpoch(b, in)
      BY <2>2 DEF ResolveAccount, Book
    <2>3. CASE MarkingEpoch(b, in)
      <3> DEFINE seats == Surviving(b, in, o)
                 worth == Worth(in, seats)
      <3>1. ResolveAccount(b, in, o).vm = SumFunctionOnSet(worth, seats)
        BY <1>1, <2>3, MarkedAccount DEF Resolved
      <3>2. SeatsOf(seats, o) /\ IsFiniteSet(seats)
        BY <1>1, EpochSeats, SeatsAreTrades
      <3>3. \A p \in seats : worth[p] \in Int
        BY <1>1, <3>2, SeatsHaveWorth DEF Worth
      <3> HIDE DEF worth, seats
      <3> QED BY <3>1, <3>2, <3>3, SumIsInt
    <2> QED BY <2>1, <2>2, <2>3
  <1>3. ASSUME NEW o \in Owner
        PROVE  ResolveAccount(b, in, o).positions \in SUBSET PositionRecord
    <2>1. Surviving(b, in, o) \subseteq PositionRecord
      BY <1>1, EpochSeats, SeatsAreRecords
    <2> QED BY <2>1 DEF ResolveAccount, NoAccount
  <1>4. ASSUME NEW o \in Owner
        PROVE  ResolveAccount(b, in, o) \in [vm : Int, positions : SUBSET PositionRecord]
    <2>1. \/ ResolveAccount(b, in, o) = [vm |-> 0, positions |-> {}]
          \/ \E x, y : ResolveAccount(b, in, o) = [vm |-> x, positions |-> y]
      BY DEF ResolveAccount, NoAccount
    <2> QED BY <1>2, <1>3, <2>1
  <1> QED BY <1>1, <1>4 DEF Book, Resolved

\* Public values are.
LEMMA EpochTyped ==
    ASSUME NEW b \in Book, NEW in, NEW pv, Proved(b, in, pv), in.now \in 0..MaxTime
    PROVE  DOMAIN pv.twaps \subseteq PriceRecord /\ pv \in PublicValues(DOMAIN pv.twaps)
  <1>1. /\ Matched(b) /\ Gathered(in) /\ in.marks \subseteq PriceRecord
        /\ ~GuestPanics(b, in) /\ pv.new = Resolved(b, in)
    BY ProvedValues DEF Proved, Priced
  <1>2. pv = [prev |-> b, new |-> Resolved(b, in), opens |-> in.opens,
              marks |-> ConsumedMarks(b, in), twaps |-> ConsumedTwaps(b, in),
              holds |-> {h[2].oracle : h \in DueHolds(b, in) \cup LiveHolds(b, in)},
              settlements |-> UNION {SettlementsOf(b, in, o) : o \in Owner},
              marking |-> MarkingEpoch(b, in), now |-> in.now]
    BY <1>1 DEF Proved, StateTransition, Resolved
  <1>3. Resolved(b, in) \in Book
    BY <1>1, BookTyped
  <1>4. in.opens \subseteq Trade /\ ConsumedMarks(b, in) \subseteq PriceRecord
    BY <1>1 DEF Gathered, ConsumedMarks
  <1>5. {h[2].oracle : h \in DueHolds(b, in) \cup LiveHolds(b, in)} \subseteq Oracle
    <2>1. ASSUME NEW h \in DueHolds(b, in) \cup LiveHolds(b, in) PROVE h[2].oracle \in Oracle
      <3>1. PICK o \in Owner : h[2] \in SeatsAfterOpens(b, in, o)
        BY DEF DueHolds, LiveHolds, SeatsAfterOpens
      <3>2. h[2] \in PositionRecord
        BY <1>1, <3>1, EpochSeats, SeatsAreRecords
      <3> QED BY <3>2 DEF PositionRecord
    <2> QED BY <2>1
  <1>6. UNION {SettlementsOf(b, in, o) : o \in Owner} \subseteq Settlement
    BY <1>1, PaymentsTyped
  <1>7. MarkingEpoch(b, in) \in BOOLEAN
    BY DEF MarkingEpoch
  <1>8. /\ ConsumedTwaps(b, in) \in PriceCounts(DOMAIN ConsumedTwaps(b, in))
        /\ DOMAIN ConsumedTwaps(b, in) \subseteq PriceRecord
    BY <1>1, CountsTyped
  <1>9. DOMAIN pv.twaps = DOMAIN ConsumedTwaps(b, in)
    BY <1>2
  <1> QED BY <1>2, <1>3, <1>4, <1>5, <1>6, <1>7, <1>8, <1>9 DEF PublicValues

LEMMA TypeInit == ASSUME Init PROVE TypeOK
  <1>1. now \in 0..MaxTime /\ pauses \in 0..MaxPauses
    BY LaneAssumption DEF Init
  <1>2. EmptyBook \in Book
    BY DEF EmptyBook, NoAccount, Book
  <1>3. ledger \in Seq(SUBSET Settlement) /\ share \in [Owner -> [Trade -> Int]]
    BY DEF Init
  <1>4. carried \in BOOLEAN
    BY DEF Init
  <1> QED BY <1>1, <1>2, <1>3, <1>4 DEF Init, TypeOK

LEMMA TypeStep ==
    ASSUME TypeOK, VmInv, PayInv, VmInv', PayInv', [Next]_vars PROVE TypeOK'
  <1>1. /\ rebuilt' \in {Panic, book'} /\ ledger' \in Seq(SUBSET Settlement)
        /\ share' \in [Owner -> [Trade -> Int]] /\ bound' \subseteq Trade
        /\ prices' \subseteq PriceRecord
    BY DEF VmInv, PayInv, BookInv, PricesInv, LedgerInv, ShareInv
  <1> DEFINE ChainOK == /\ now \in 0..MaxTime /\ paused \subseteq Oracle
                        /\ pausedBefore \subseteq Oracle /\ pauses \in 0..MaxPauses
             FlightOK == flight # NoFold =>
                            /\ DOMAIN flight.twaps \subseteq PriceRecord
                            /\ flight \in PublicValues(DOMAIN flight.twaps)
             FoldOK == folded \subseteq bound /\ book \in Book /\ carried \in BOOLEAN
  <1>2. ChainOK /\ FlightOK /\ FoldOK
    BY DEF TypeOK
  <1>3. SUFFICES ChainOK' /\ FlightOK' /\ FoldOK'
    BY <1>1 DEF TypeOK
  <1>4. CASE NextBlock
    <2>1. ChainOK'
      BY <1>2, <1>4, LaneAssumption DEF NextBlock
    <2> QED BY <1>2, <1>4, <2>1 DEF NextBlock, foldVars
  <1>5. CASE \E t \in Trade : OpenLock(t)
    <2>1. ChainOK'
      BY <1>2, <1>5 DEF OpenLock
    <2> QED BY <1>2, <1>5, <2>1 DEF OpenLock, foldVars
  <1>6. CASE \E x \in Oracle, time \in 0..MaxTime, rate \in Rate : BindTwap(x, time, rate)
    <2>1. ChainOK'
      BY <1>2, <1>6 DEF BindTwap
    <2> QED BY <1>2, <1>6, <2>1 DEF BindTwap, foldVars
  <1>7. CASE \E x \in Oracle : SetPaused(x)
    <2>1. ChainOK'
      BY <1>2, <1>7, LaneAssumption DEF SetPaused
    <2> QED BY <1>2, <1>7, <2>1 DEF SetPaused, foldVars
  <1>8. CASE Advance \/ AdvanceUnreplayed
    <2> DEFINE in == FreshEpochInputs(book)
    <2>1. /\ GatePasses(book, in) /\ flight' = StateTransition(book, in)
          /\ UNCHANGED <<chainVars, foldVars>>
      BY <1>8, FlightIsEpoch DEF VmInv, BookInv
    <2>2. Proved(book, in, flight')
      BY <2>1, PricedInputs DEF VmInv, BookInv, Proved
    <2>3. in.now \in 0..MaxTime /\ book \in Book
      BY <1>2 DEF FreshEpochInputs
    <2> HIDE DEF in
    <2>4. FlightOK'
      BY <2>2, <2>3, EpochTyped
    <2> QED BY <1>2, <2>1, <2>4 DEF chainVars, foldVars
  <1>9. CASE Land
    <2>1. /\ flight # NoFold /\ flight' = NoFold /\ book' = flight.new
          /\ folded' = folded \cup flight.opens /\ flight.opens \subseteq bound
          /\ UNCHANGED chainVars
      BY <1>9 DEF Land, Accepted
    <2>2. carried' \in BOOLEAN
      BY <1>9 DEF Land
    <2>3. flight.new \in Book
      BY <1>2, <2>1 DEF PublicValues
    <2> QED BY <1>2, <2>1, <2>2, <2>3 DEF chainVars
  <1>10. CASE UNCHANGED vars
    BY <1>2, <1>10 DEF vars, chainVars, foldVars
  <1> QED BY <1>4, <1>5, <1>6, <1>7, <1>8, <1>9, <1>10 DEF Next

\* Every variable of the lane, the public values of a proof in flight included,
\* keeps its type: the counts of settle prices are positive, cash is a natural
\* number, and every account holds well-formed seats and an integer VM.
THEOREM LaneTypes == Spec => []TypeOK
  <1>1. Init => TypeOK
    BY TypeInit
  <1>2. TypeOK /\ VmInv /\ PayInv /\ VmInv' /\ PayInv' /\ [Next]_vars => TypeOK'
    BY TypeStep
  <1> QED BY <1>1, <1>2, VmAlways, PayAlways, PTL DEF Spec
=============================================================================
