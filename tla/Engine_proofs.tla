--------------------------- MODULE Engine_proofs ---------------------------
(***************************************************************************)
(* Lemmas about the seats of module Engine, which the proofs about lanes   *)
(* and about handoffs share: a seat is a well-formed record whatever terms *)
(* were signed, and two seats that mirror each other realize opposite      *)
(* amounts at every price, rounding included.                              *)
(***************************************************************************)
EXTENDS Engine, TLAPS

-----------------------------------------------------------------------------
(* Numbers. *)

LEMMA QuotientIsNat ==
    ASSUME NEW n \in Nat, NEW d \in Nat \ {0} PROVE n \div d \in Nat
OBVIOUS

LEMMA ZerosMirror ==
    ASSUME NEW x, NEW y, x = 0, y = 0 PROVE x \in Int /\ y = -x
  <1>1. x \in Int /\ y = 0 - x
    OBVIOUS
  <1>2. ASSUME NEW z \in Int PROVE -z = 0 - z
    OBVIOUS
  <1> QED BY <1>1, <1>2

-----------------------------------------------------------------------------
(* Seats. *)

LEMMA GrossIsNat ==
    ASSUME NEW t \in Trade
    PROVE  GrossNotional(Terms[t].quantity, Terms[t].entry) \in Nat
  <1> DEFINE n == Terms[t].quantity * Terms[t].entry
  <1>1. n \in Nat /\ PRICE_SCALE \in Nat \ {0}
    BY EngineAssumption
  <1> HIDE DEF n
  <1>2. n \div PRICE_SCALE \in Nat
    BY <1>1, QuotientIsNat
  <1> QED BY <1>2 DEF GrossNotional, n

LEMMA ImIsNat ==
    ASSUME NEW gross \in Nat, NEW bps \in Nat PROVE ImForSide(gross, bps) \in Nat
  <1> DEFINE n == gross * bps + BPS_DENOM - 1
  <1>1. gross * bps \in Nat /\ BPS_DENOM \in Nat \ {0}
    BY EngineAssumption
  <1>2. n \in Nat
    BY <1>1
  <1> HIDE DEF n
  <1>3. n \div BPS_DENOM \in Nat
    BY <1>1, <1>2, QuotientIsNat
  <1> QED BY <1>3 DEF ImForSide, n

LEMMA SeatIsRecord ==
    ASSUME NEW t \in Trade, NEW o PROVE Seat(t, o) \in PositionRecord
  <1> DEFINE gross == GrossNotional(Terms[t].quantity, Terms[t].entry)
             bps == IF o = Terms[t].a THEN Terms[t].imBpsA ELSE Terms[t].imBpsB
  <1>1. /\ Terms[t].a \in Owner /\ Terms[t].b \in Owner /\ Terms[t].oracle \in Oracle
        /\ Terms[t].side \in {1, -1} /\ Terms[t].entry \in Nat /\ Terms[t].expiry \in Nat
        /\ Terms[t].imBpsA \in Nat /\ Terms[t].imBpsB \in Nat
    BY EngineAssumption
  <1>2. gross \in Nat /\ bps \in Nat
    BY <1>1, GrossIsNat
  <1>3. ImForSide(gross, bps) \in Nat
    BY <1>2, ImIsNat
  <1>4. (IF o = Terms[t].a THEN Terms[t].side ELSE -Terms[t].side) \in {1, -1}
    BY <1>1
  <1>5. Seat(t, o) =
          [id |-> t, cp |-> IF o = Terms[t].a THEN Terms[t].b ELSE Terms[t].a,
           oracle |-> Terms[t].oracle, notional |-> gross, entry |-> Terms[t].entry,
           side |-> IF o = Terms[t].a THEN Terms[t].side ELSE -Terms[t].side,
           expiry |-> Terms[t].expiry, im |-> ImForSide(gross, bps)]
    BY DEF Seat
  <1> HIDE DEF gross, bps
  <1> QED BY <1>1, <1>2, <1>3, <1>4, <1>5 DEF PositionRecord

-----------------------------------------------------------------------------
(* Residuals. *)

\* What one seat gains its mirror seat loses: the amount is rounded before the
\* sign is put to it.
LEMMA ResidualsMirror ==
    ASSUME NEW p, NEW q, p.entry \in Nat, p.notional \in Nat, p.side \in {1, -1},
           q.entry = p.entry, q.notional = p.notional, q.side = -p.side,
           NEW rate \in Nat
    PROVE  /\ PositionVm(p, rate) \in Int
           /\ PositionVm(q, rate) = -PositionVm(p, rate)
  <1> DEFINE move == IF rate < p.entry THEN p.entry - rate ELSE rate - p.entry
             moved == p.notional * move
             magnitude == moved \div p.entry
  <1>1. CASE p.entry = 0
    <2>1. PositionVm(p, rate) = 0 /\ PositionVm(q, rate) = 0
      BY <1>1 DEF PositionVm
    <2> QED BY <2>1, ZerosMirror
  <1>2. CASE p.entry # 0
    <2>1. magnitude \in Nat
      <3>1. move \in Nat
        OBVIOUS
      <3> HIDE DEF move
      <3>2. moved \in Nat
        BY <3>1
      <3> HIDE DEF moved
      <3> QED BY <1>2, <3>2, QuotientIsNat
    <2>2. /\ PositionVm(p, rate) =
               IF (rate < p.entry) # (p.side < 0) THEN -magnitude ELSE magnitude
          /\ PositionVm(q, rate) =
               IF (rate < p.entry) # (q.side < 0) THEN -magnitude ELSE magnitude
      BY <1>2 DEF PositionVm
    <2> HIDE DEF magnitude
    <2>3. (p.side < 0) # (q.side < 0)
      OBVIOUS
    <2>4. \/ PositionVm(p, rate) = magnitude /\ PositionVm(q, rate) = -magnitude
          \/ PositionVm(p, rate) = -magnitude /\ PositionVm(q, rate) = magnitude
      BY <2>2, <2>3
    <2>5. -(-magnitude) = magnitude /\ -magnitude \in Int /\ magnitude \in Int
      BY <2>1
    <2> QED BY <2>4, <2>5
  <1> QED BY <1>1, <1>2

LEMMA ResidualIsInt ==
    ASSUME NEW p, p.entry \in Nat, p.notional \in Nat, p.side \in {1, -1}, NEW rate \in Nat
    PROVE  PositionVm(p, rate) \in Int
  <1> DEFINE q == [entry |-> p.entry, notional |-> p.notional, side |-> -p.side]
  <1>1. q.entry = p.entry /\ q.notional = p.notional /\ q.side = -p.side
    OBVIOUS
  <1> HIDE DEF q
  <1> QED BY <1>1, ResidualsMirror

\* So they are not both on the losing side.
LEMMA OneLoserAt ==
    ASSUME NEW p, NEW q, p.entry \in Nat, p.notional \in Nat, p.side \in {1, -1},
           q.entry = p.entry, q.notional = p.notional, q.side = -p.side,
           NEW rate \in Nat
    PROVE  ~(PositionVm(p, rate) < 0 /\ PositionVm(q, rate) < 0)
  <1>1. PositionVm(p, rate) \in Int /\ PositionVm(q, rate) = -PositionVm(p, rate)
    BY ResidualsMirror
  <1> QED BY <1>1
=============================================================================
