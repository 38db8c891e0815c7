--------------------------- MODULE Handoff_proofs ---------------------------
(***************************************************************************)
(* Proofs about module Handoff, for every set of parties, trades, terms,   *)
(* prices and any number of handoffs.                                      *)
(*                                                                         *)
(* The argument.  A leg of a trade is known by the root of its id and by   *)
(* its side, and neither changes when the seat moves.  So a seat is at all *)
(* times the one its trade's terms describe, except for its id and IM; the *)
(* two legs of a trade name the same pair and expiry wherever they are     *)
(* held, retire at the same price and realize opposite amounts.  What      *)
(* links the two beyond that is only that an unwind must find both.        *)
(***************************************************************************)
EXTENDS Handoff, Engine_proofs, SumTheorems

Terms1(p) == Terms[Root(p.id)]

\* The seat of a leg, under some id and with some IM.
LegSeat(t, side, id, im) ==
    [id |-> id, cp |-> Signer(t, -side), oracle |-> Terms[t].oracle,
     notional |-> GrossNotional(Terms[t].quantity, Terms[t].entry),
     entry |-> Terms[t].entry, side |-> side, expiry |-> Terms[t].expiry, im |-> im]

\* A seat is what its trade says of the leg, under an id that starts there.
GoodSeat(p) ==
    /\ p.id \in Seq(Owner \cup {p.id[1]}) /\ p.id # <<>>
    /\ Root(p.id) \in Trade /\ Terms1(p).a # Terms1(p).b
    /\ p.side \in {1, -1}
    /\ p = LegSeat(Root(p.id), p.side, p.id, p.im)

GoodSeats(B) == \A o \in Owner : \A p \in B[o] : GoodSeat(p)

\* Each leg has one seat.
Single(B) ==
    \A o1, o2 \in Owner : \A p1 \in B[o1], p2 \in B[o2] :
       Root(p1.id) = Root(p2.id) /\ p1.side = p2.side => o1 = o2 /\ p1 = p2

RootsIn(B, F) == \A o \in Owner : \A p \in B[o] : Root(p.id) \in F

LegInv ==
    /\ DOMAIN book = Owner /\ GoodSeats(book) /\ Single(book) /\ RootsIn(book, folded)
    /\ DOMAIN posts = Owner /\ GoodSeats(posts) /\ Single(posts)
    /\ RootsIn(posts, folded \cup opens)
    /\ opens \subseteq Trade \ folded
    /\ stage = "idle" => posts = book /\ opens = {}
    /\ \A o \in Owner : \A p \in book[o] : holder[Root(p.id)][p.side] = o

-----------------------------------------------------------------------------
(* Seats. *)

\* The root of a trade is the trade.
LEMMA RootOfTrade ==
    ASSUME NEW t \in Trade
    PROVE  Root(t) = t /\ t \in Seq(Owner \cup {t[1]}) /\ t # <<>>
  <1>1. t \in Seq({t[1]}) /\ Len(t) = 1
    BY HandoffAssumption
  <1> QED BY <1>1 DEF Root

\* A handoff keeps the root.
LEMMA RootOfMoved ==
    ASSUME NEW id, id \in Seq(Owner \cup {id[1]}), id # <<>>, NEW c \in Owner
    PROVE  /\ Root(Append(id, c)) = Root(id)
           /\ Append(id, c) \in Seq(Owner \cup {Append(id, c)[1]})
           /\ Append(id, c) # <<>>
  <1> DEFINE S == Owner \cup {id[1]}
  <1>1. id \in Seq(S) /\ c \in S
    OBVIOUS
  <1> HIDE DEF S
  <1>2. Append(id, c) \in Seq(S) /\ Append(id, c)[1] = id[1] /\ Append(id, c) # <<>>
    BY <1>1
  <1> QED BY <1>2 DEF Root, S

\* What a seat has from its trade.
LEMMA SeatFacts ==
    ASSUME NEW p, GoodSeat(p)
    PROVE  /\ p.oracle = Terms1(p).oracle /\ p.expiry = Terms1(p).expiry
           /\ p.entry = Terms1(p).entry
           /\ p.notional = GrossNotional(Terms1(p).quantity, Terms1(p).entry)
           /\ p.cp = Signer(Root(p.id), -p.side)
           /\ p.cp \in Owner
  <1>1. Terms1(p).a \in Owner /\ Terms1(p).b \in Owner
    BY EngineAssumption DEF GoodSeat, Terms1
  <1> QED BY <1>1 DEF GoodSeat, LegSeat, Signer, Terms1

\* The seat of a party is that of its leg.
LEMMA SeatIsLegSeat ==
    ASSUME NEW t \in Trade, Terms[t].a # Terms[t].b, NEW o \in Parties(t)
    PROVE  /\ Seat(t, o) = LegSeat(t, Seat(t, o).side, t, Seat(t, o).im)
           /\ Signer(t, Seat(t, o).side) = o
           /\ Seat(t, o).id = t /\ Seat(t, o).side \in {1, -1}
           /\ o \in Owner /\ Seat(t, o).cp # o
           /\ \E q \in Parties(t) : Seat(t, q).side = -Seat(t, o).side
  <1>1. /\ Terms[t].a \in Owner /\ Terms[t].b \in Owner
        /\ Terms[t].side \in {1, -1}
    BY EngineAssumption
  <1>2. CASE o = Terms[t].a
    BY <1>1, <1>2 DEF Seat, LegSeat, Signer, Parties
  <1>3. CASE o = Terms[t].b
    BY <1>1, <1>3 DEF Seat, LegSeat, Signer, Parties
  <1> QED BY <1>2, <1>3 DEF Parties

\* Any seat of a leg has the terms of the signer's seat.
LEMMA LegSeatIsSeat ==
    ASSUME NEW p, GoodSeat(p)
    PROVE  \A field \in {"cp", "oracle", "notional", "entry", "expiry"} :
              p[field] = Seat(Root(p.id), Signer(Root(p.id), p.side))[field]
  <1> DEFINE t == Root(p.id)
             s == Signer(t, p.side)
  <1>1. Terms[t].side \in {1, -1} /\ p.side \in {1, -1} /\ t \in Trade /\ Terms[t].a # Terms[t].b
    BY EngineAssumption DEF GoodSeat, Terms1
  <1>2. s \in Parties(t) /\ Seat(t, s).side = p.side
    BY <1>1 DEF Signer, Parties, Seat
  <1>3. Seat(t, s) = LegSeat(t, p.side, t, Seat(t, s).im)
    BY <1>1, <1>2, SeatIsLegSeat
  <1>4. p = LegSeat(t, p.side, p.id, p.im)
    BY DEF GoodSeat
  <1> HIDE DEF s, t
  <1> QED BY <1>3, <1>4 DEF LegSeat, s, t

\* The seats of an admitted trade.
LEMMA NewSeat ==
    ASSUME NEW t \in Trade, Terms[t].a # Terms[t].b, NEW o \in Parties(t)
    PROVE  /\ GoodSeat(Seat(t, o)) /\ Root(Seat(t, o).id) = t
  <1> DEFINE s == Seat(t, o)
  <1>1. s = LegSeat(t, s.side, t, s.im) /\ s.id = t /\ s.side \in {1, -1}
    BY SeatIsLegSeat
  <1>2. Root(s.id) = t /\ s.id \in Seq(Owner \cup {s.id[1]}) /\ s.id # <<>>
    BY <1>1, RootOfTrade
  <1> HIDE DEF s
  <1>3. GoodSeat(s)
    BY <1>1, <1>2 DEF GoodSeat, Terms1
  <1> QED BY <1>2, <1>3 DEF s

\* A moved seat is the same leg.
LEMMA MovedSeat ==
    ASSUME NEW p, GoodSeat(p), NEW a, NEW c \in Owner, NEW im
    PROVE  LET q == MovedPosition(p, a, c, im)
           IN  /\ GoodSeat(q)
               /\ Root(q.id) = Root(p.id) /\ q.side = p.side
               /\ q.oracle = p.oracle /\ q.expiry = p.expiry
               /\ q.entry = p.entry /\ q.notional = p.notional /\ q.cp = p.cp
  <1> DEFINE q == MovedPosition(p, a, c, im)
  <1>1. p = LegSeat(Root(p.id), p.side, p.id, p.im)
    BY DEF GoodSeat
  <1>2. q = LegSeat(Root(p.id), p.side, Append(p.id, c), im)
    BY <1>1 DEF MovedPosition, LegSeat
  <1>3. /\ q.id = Append(p.id, c) /\ q.im = im /\ q.side = p.side
        /\ q.oracle = p.oracle /\ q.expiry = p.expiry
        /\ q.entry = p.entry /\ q.notional = p.notional /\ q.cp = p.cp
    <2> HIDE DEF q
    <2> QED BY <1>1, <1>2 DEF LegSeat
  <1>4. /\ Root(q.id) = Root(p.id) /\ q.id \in Seq(Owner \cup {q.id[1]}) /\ q.id # <<>>
    <2>1. p.id \in Seq(Owner \cup {p.id[1]}) /\ p.id # <<>>
      BY DEF GoodSeat
    <2> HIDE DEF q
    <2> QED BY <2>1, <1>3, RootOfMoved
  <1>5. GoodSeat(q)
    <2> HIDE DEF q
    <2> QED BY <1>2, <1>3, <1>4 DEF GoodSeat, Terms1
  <1> HIDE DEF q
  <1> QED BY <1>3, <1>4, <1>5 DEF q

-----------------------------------------------------------------------------
(* The books while an epoch is made. *)

\* All seats when the opens are done and nothing has retired yet.
Opened(touch, new) ==
    [o \in Owner |-> IF o \in touch
                     THEN SeatsAfterOpens(Rows(touch), EpochInputs(Rows(touch), new), o)
                     ELSE book[o]]

Entered(touch, new, o, p) ==
    \E t \in new :
       /\ Terms[t].a # Terms[t].b /\ Terms[t].expiry > now
       /\ o \in Parties(t) /\ p = Seat(t, o)
       /\ \A q \in Parties(t) : q \in Owner /\ Seat(t, q) \in Opened(touch, new)[q]

\* A seat is an old one, or it belongs to an open that has both of its seats.
LEMMA OldOrNew ==
    ASSUME NEW touch \in SUBSET Owner, NEW new \in SUBSET Trade,
           \A t \in new : Parties(t) \subseteq touch,
           NEW o \in Owner, NEW p \in Opened(touch, new)[o]
    PROVE  p \in book[o] \/ Entered(touch, new, o, p)
  <1> DEFINE rows == Rows(touch)
             in == EpochInputs(rows, new)
  <1>1. CASE o \notin touch
    BY <1>1 DEF Opened
  <1>2. CASE o \in touch
    <2>1. in.opens = new /\ in.now = now
      BY DEF EpochInputs
    <2>2. rows[o].positions = book[o]
      BY <1>2 DEF Rows
    <2>3. p \in SeatsAfterOpens(rows, in, o)
      BY <1>2 DEF Opened
    <2>4. p \in book[o] \/ \E t \in Admitted(in) : o \in Parties(t) /\ p = Seat(t, o)
      BY <2>2, <2>3 DEF SeatsAfterOpens
    <2>5. ASSUME NEW t \in Admitted(in), o \in Parties(t), p = Seat(t, o)
          PROVE  /\ t \in new /\ Terms[t].a # Terms[t].b /\ Terms[t].expiry > now
                 /\ \A q \in Parties(t) : q \in Owner /\ Seat(t, q) \in Opened(touch, new)[q]
      <3>1. t \in new /\ Terms[t].a # Terms[t].b /\ Terms[t].expiry > now
        BY <2>1 DEF Admitted
      <3>2. ASSUME NEW q \in Parties(t)
            PROVE  q \in Owner /\ Seat(t, q) \in Opened(touch, new)[q]
        <4>1. q \in touch /\ q \in Owner
          BY <3>1
        <4>2. Seat(t, q) \in SeatsAfterOpens(rows, in, q)
          BY <2>5 DEF SeatsAfterOpens
        <4> QED BY <4>1, <4>2 DEF Opened
      <3> QED BY <3>1, <3>2
    <2> HIDE DEF in, rows
    <2>6. ASSUME NEW t \in Admitted(in), o \in Parties(t), p = Seat(t, o)
          PROVE  Entered(touch, new, o, p)
      BY <2>5, <2>6 DEF Entered
    <2> QED BY <2>4, <2>6
  <1> QED BY <1>1, <1>2

\* The opens keep legs single: theirs are of trades that no fold has surfaced.
LEMMA OpenedLegs ==
    ASSUME LegInv,
           NEW touch \in SUBSET Owner, NEW new \in SUBSET (Trade \ folded),
           \A t \in new : Parties(t) \subseteq touch
    PROVE  LET B == Opened(touch, new)
           IN  GoodSeats(B) /\ Single(B) /\ RootsIn(B, folded \cup new)
  <1> DEFINE B == Opened(touch, new)
  <1>0. GoodSeats(book) /\ Single(book) /\ RootsIn(book, folded) /\ new \in SUBSET Trade
    BY DEF LegInv
  <1>1. ASSUME NEW o \in Owner, NEW p \in B[o]
        PROVE  /\ GoodSeat(p)
               /\ \/ p \in book[o] /\ Root(p.id) \in folded
                  \/ /\ Root(p.id) \in new /\ o = Signer(Root(p.id), p.side)
                     /\ p = Seat(Root(p.id), o)
    <2>1. CASE p \in book[o]
      BY <1>0, <2>1 DEF GoodSeats, RootsIn
    <2>2. CASE p \notin book[o]
      <3>0. \E t \in new : Terms[t].a # Terms[t].b /\ o \in Parties(t) /\ p = Seat(t, o)
        <4>1. p \in Opened(touch, new)[o]
          OBVIOUS
        <4>2. Entered(touch, new, o, p)
          BY <1>0, <2>2, <4>1, OldOrNew
        <4> QED BY <4>2 DEF Entered
      <3>1. PICK t \in new : Terms[t].a # Terms[t].b /\ o \in Parties(t) /\ p = Seat(t, o)
        BY <3>0
      <3>2. GoodSeat(p) /\ Root(p.id) = t /\ Signer(t, p.side) = o
        BY <3>1, NewSeat, SeatIsLegSeat
      <3> QED BY <3>1, <3>2
    <2> QED BY <2>1, <2>2
  <1> HIDE DEF B
  <1>2. GoodSeats(B)
    BY <1>1 DEF GoodSeats
  <1>3. RootsIn(B, folded \cup new)
    BY <1>1 DEF RootsIn
  <1>4. Single(B)
    <2> SUFFICES ASSUME NEW o1 \in Owner, NEW o2 \in Owner, NEW p1 \in B[o1], NEW p2 \in B[o2],
                        Root(p1.id) = Root(p2.id), p1.side = p2.side
                 PROVE  o1 = o2 /\ p1 = p2
      BY DEF Single
    <2>1. CASE Root(p1.id) \in folded
      <3>1. p1 \in book[o1] /\ p2 \in book[o2]
        BY <1>1, <2>1
      <3> QED BY <1>0, <3>1 DEF Single
    <2>2. CASE Root(p1.id) \notin folded
      <3>1. /\ o1 = Signer(Root(p1.id), p1.side) /\ p1 = Seat(Root(p1.id), o1)
            /\ o2 = Signer(Root(p2.id), p2.side) /\ p2 = Seat(Root(p2.id), o2)
        BY <1>1, <2>2
      <3> QED BY <3>1
    <2> QED BY <2>1, <2>2
  <1> QED BY <1>2, <1>3, <1>4 DEF B

\* What resolve leaves of them.
LEMMA ResolveLegs ==
    ASSUME NEW touch \in SUBSET Owner, NEW new, NEW tears, Resolve(touch, new, tears)
    PROVE  /\ DOMAIN posts' = Owner
           /\ \A o \in Owner :
                 posts'[o] = Opened(touch, new)[o] \
                    (IF o \in touch
                     THEN Retiring(Rows(touch), EpochInputs(Rows(touch), new), tears, o)
                     ELSE {})
           /\ \A o \in Owner : posts'[o] \subseteq Opened(touch, new)[o]
  <1> DEFINE gone(o) == IF o \in touch
                        THEN Retiring(Rows(touch), EpochInputs(Rows(touch), new), tears, o)
                        ELSE {}
  <1>1. DOMAIN posts' = Owner /\ \A o \in Owner : posts'[o] = Opened(touch, new)[o] \ gone(o)
    BY DEF Resolve, Opened
  <1>2. \A o \in Owner : posts'[o] \subseteq Opened(touch, new)[o]
    <2> HIDE DEF gone
    <2> QED BY <1>1
  <1> QED BY <1>1, <1>2

\* Fewer seats.
LEMMA Subbooks ==
    ASSUME NEW B, NEW C, \A o \in Owner : C[o] \subseteq B[o], NEW F
    PROVE  /\ GoodSeats(B) => GoodSeats(C)
           /\ Single(B) => Single(C)
           /\ RootsIn(B, F) => RootsIn(C, F)
  BY DEF GoodSeats, Single, RootsIn

\* What a handoff leaves: the seat has gone from A to C, and no other moved.
LEMMA MoveSeats ==
    ASSUME LegInv, NEW a \in Owner, NEW c \in Owner, NEW p, NEW im, Move(a, c, p, im)
    PROVE  LET m == MovedPosition(p, a, c, im)
           IN  /\ DOMAIN posts' = Owner
               /\ p \in posts[a] /\ m \in posts'[c]
               /\ \A o \in Owner : \A q \in posts'[o] :
                     \/ q \in posts[o] /\ (q # p \/ o # a)
                     \/ q = m /\ o = c
               /\ \A o \in Owner : \A q \in posts[o] :
                     \/ q \in posts'[o]
                     \/ q = p /\ o = a
  <1> DEFINE m == MovedPosition(p, a, c, im)
  <1>1. /\ a # c /\ p \in posts[a] /\ DOMAIN posts = Owner
        /\ posts' = [posts EXCEPT ![a] = @ \ {p}, ![c] = @ \cup {m}]
    BY DEF Move, LegInv
  <1> HIDE DEF m
  <1>2. /\ DOMAIN posts' = Owner
        /\ posts'[a] = posts[a] \ {p}
        /\ posts'[c] = posts[c] \cup {m}
        /\ \A o \in Owner \ {a, c} : posts'[o] = posts[o]
    BY <1>1
  <1>3. ASSUME NEW o \in Owner, NEW q \in posts'[o]
        PROVE  \/ q \in posts[o] /\ (q # p \/ o # a)
               \/ q = m /\ o = c
    BY <1>1, <1>2, <1>3
  <1>4. ASSUME NEW o \in Owner, NEW q \in posts[o]
        PROVE  \/ q \in posts'[o]
               \/ q = p /\ o = a
    BY <1>1, <1>2, <1>4
  <1> QED BY <1>1, <1>2, <1>3, <1>4 DEF m

\* The set of legs, read as pairs of holder and seat.
LEMMA LegsOf ==
    ASSUME NEW B, NEW t, NEW side, NEW h
    PROVE  h \in Legs(B, t, side) <=>
              \E o \in Owner : \E p \in B[o] :
                 h = <<o, p>> /\ Root(p.id) = t /\ p.side = side
  BY DEF Legs

LEMMA LegIsOne ==
    ASSUME NEW B, Single(B), NEW o \in Owner, NEW p \in B[o]
    PROVE  Legs(B, Root(p.id), p.side) = {<<o, p>>}
  <1>1. <<o, p>> \in Legs(B, Root(p.id), p.side)
    BY LegsOf
  <1>2. ASSUME NEW h \in Legs(B, Root(p.id), p.side) PROVE h = <<o, p>>
    <2>1. PICK o2 \in Owner : \E q \in B[o2] :
             h = <<o2, q>> /\ Root(q.id) = Root(p.id) /\ q.side = p.side
      BY LegsOf
    <2>. PICK q \in B[o2] : h = <<o2, q>> /\ Root(q.id) = Root(p.id) /\ q.side = p.side
      BY <2>1
    <2>2. o2 = o /\ q = p
      BY DEF Single
    <2> QED BY <2>2
  <1> QED BY <1>1, <1>2

-----------------------------------------------------------------------------
(* Every leg has one seat. *)

LEMMA LegInit == Init => LegInv
  BY DEF Init, LegInv, GoodSeats, Single, RootsIn

LEMMA LegResolve ==
    ASSUME LegInv, NEW touch \in SUBSET Owner, NEW new \in SUBSET (Trade \ folded),
           NEW tears, Resolve(touch, new, tears)
    PROVE  LegInv'
  <1>1. /\ stage' = "novations" /\ opens' = new /\ UNCHANGED coreVars
        /\ \A t \in new : Parties(t) \subseteq touch
    BY DEF Resolve
  <1>2. LET B == Opened(touch, new)
        IN  GoodSeats(B) /\ Single(B) /\ RootsIn(B, folded \cup new)
    BY <1>1, OpenedLegs
  <1>3. DOMAIN posts' = Owner /\ \A o \in Owner : posts'[o] \subseteq Opened(touch, new)[o]
    BY ResolveLegs
  <1>4. GoodSeats(posts') /\ Single(posts') /\ RootsIn(posts', folded \cup new)
    BY <1>2, <1>3, Subbooks
  <1> QED BY <1>1, <1>3, <1>4 DEF LegInv, coreVars, GoodSeats, Single, RootsIn

LEMMA LegMove ==
    ASSUME LegInv, NEW a \in Owner, NEW c \in Owner, NEW p, NEW im, Move(a, c, p, im),
           stage' # "idle"
    PROVE  LegInv'
  <1> DEFINE m == MovedPosition(p, a, c, im)
  <1>1. /\ DOMAIN posts' = Owner
        /\ p \in posts[a]
        /\ \A o \in Owner : \A q \in posts'[o] :
              \/ q \in posts[o] /\ (q # p \/ o # a)
              \/ q = m /\ o = c
    BY MoveSeats
  <1>2. UNCHANGED coreVars /\ opens' = opens
    BY DEF Move
  <1>3. GoodSeats(posts) /\ Single(posts) /\ RootsIn(posts, folded \cup opens)
    BY DEF LegInv
  <1>4. GoodSeat(p)
    BY <1>1, <1>3 DEF GoodSeats
  <1>5. GoodSeat(m) /\ Root(m.id) = Root(p.id) /\ m.side = p.side
    BY <1>4, MovedSeat
  <1> HIDE DEF m
  <1>6. GoodSeats(posts')
    BY <1>1, <1>3, <1>5 DEF GoodSeats
  <1>7. RootsIn(posts', folded \cup opens)
    BY <1>1, <1>3, <1>5 DEF RootsIn
  <1>8. Single(posts')
    <2> SUFFICES ASSUME NEW o1 \in Owner, NEW o2 \in Owner,
                        NEW p1 \in posts'[o1], NEW p2 \in posts'[o2],
                        Root(p1.id) = Root(p2.id), p1.side = p2.side
                 PROVE  o1 = o2 /\ p1 = p2
      BY DEF Single
    <2>1. ASSUME NEW o \in Owner, NEW q \in posts[o], q # p \/ o # a,
                 Root(q.id) = Root(p.id), q.side = p.side
          PROVE  FALSE
      BY <1>1, <1>3, <2>1 DEF Single
    <2>2. CASE p1 = m /\ o1 = c
      BY <1>1, <1>5, <2>1, <2>2
    <2>3. CASE p2 = m /\ o2 = c
      BY <1>1, <1>5, <2>1, <2>3
    <2>4. CASE p1 \in posts[o1] /\ p2 \in posts[o2]
      BY <1>3, <2>4 DEF Single
    <2> QED BY <1>1, <2>2, <2>3, <2>4
  <1> QED BY <1>1, <1>2, <1>6, <1>7, <1>8 DEF LegInv, coreVars, GoodSeats, Single, RootsIn

LEMMA LegCommit == ASSUME LegInv, Commit PROVE LegInv'
  <1>1. /\ book' = posts /\ posts' = posts /\ folded' = folded \cup opens
        /\ opens' = {} /\ stage' = "idle"
    BY DEF Commit, GoIdle
  <1>2. /\ DOMAIN posts = Owner /\ GoodSeats(posts) /\ Single(posts)
        /\ RootsIn(posts, folded \cup opens) /\ opens \subseteq Trade \ folded
    BY DEF LegInv
  <1>3. ASSUME NEW o \in Owner, NEW p \in posts[o]
        PROVE  holder'[Root(p.id)][p.side] = o
    <2> DEFINE t == Root(p.id)
    <2>1. t \in Trade /\ p.side \in {1, -1}
      BY <1>2 DEF GoodSeats, GoodSeat
    <2>2. Legs(posts, t, p.side) = {<<o, p>>}
      BY <1>2, LegIsOne
    <2> HIDE DEF t
    <2>3. holder'[t][p.side] = (CHOOSE h \in Legs(posts, t, p.side) : TRUE)[1]
      BY <2>1, <2>2 DEF Commit
    <2>4. (CHOOSE h \in {<<o, p>>} : TRUE) = <<o, p>>
      OBVIOUS
    <2> QED BY <2>2, <2>3, <2>4 DEF t
  <1> QED BY <1>1, <1>2, <1>3 DEF LegInv, GoodSeats, Single, RootsIn

LEMMA LegAbandon == ASSUME LegInv, Abandon PROVE LegInv'
  BY DEF LegInv, Abandon, GoIdle, coreVars, GoodSeats, Single, RootsIn

\* A step of the chain leaves the books alone.
LEMMA LegStutter ==
    ASSUME LegInv, UNCHANGED <<coreVars, guestVars>> PROVE LegInv'
  BY DEF LegInv, coreVars, guestVars, GoodSeats, Single, RootsIn

LEMMA LegNext == ASSUME LegInv, [Next]_vars PROVE LegInv'
  <1>1. CASE UNCHANGED vars
    BY <1>1, LegStutter DEF vars
  <1>2. CASE NextBlock
    BY <1>2, LegStutter DEF NextBlock
  <1>3. ASSUME NEW x \in Oracle, NEW time \in 0..MaxTime, NEW rate \in Rate,
               BindTwap(x, time, rate)
        PROVE  LegInv'
    BY <1>3, LegStutter DEF BindTwap
  <1>4. ASSUME NEW x \in Oracle, SetPaused(x) PROVE LegInv'
    BY <1>4, LegStutter DEF SetPaused
  <1>5. ASSUME NEW touch \in SUBSET Owner, NEW new \in SUBSET (Trade \ folded),
               NEW tears, Resolve(touch, new, tears)
        PROVE  LegInv'
    BY <1>5, LegResolve
  <1>6. ASSUME NEW a \in Owner, NEW c \in Owner, NEW im \in MakerIm, NEW p \in posts[a],
               Novate(a, c, p, im) \/ CloseOut(a, c, p, im)
        PROVE  LegInv'
    <2>1. Move(a, c, p, im) /\ stage' # "idle"
      BY <1>6 DEF Novate, CloseOut
    <2> QED BY <2>1, LegMove
  <1>7. CASE Commit
    BY <1>7, LegCommit
  <1>8. CASE Abandon
    BY <1>8, LegAbandon
  <1> QED BY <1>1, <1>2, <1>3, <1>4, <1>5, <1>6, <1>7, <1>8 DEF Next

LEMMA LegsFollow == ASSUME LegInv PROVE LegsAreSingle
  <1> SUFFICES ASSUME NEW o \in Owner, NEW p \in book[o]
               PROVE  /\ o = holder[Root(p.id)][p.side]
                      /\ \A field \in {"cp", "oracle", "notional", "entry", "expiry"} :
                            p[field] = Seat(Root(p.id), Signer(Root(p.id), p.side))[field]
                      /\ Legs(book, Root(p.id), p.side) = {<<o, p>>}
    BY DEF LegsAreSingle
  <1>1. GoodSeat(p) /\ Single(book) /\ holder[Root(p.id)][p.side] = o
    BY DEF LegInv, GoodSeats
  <1> QED BY <1>1, LegSeatIsSeat, LegIsOne

\* Every seat is a leg of a signed trade on that trade's terms, and each leg
\* has one seat only, however often it was handed on, by consent or in
\* default (state_transition.rs, apply_handoff_move).
THEOREM LegsStaySingle == Spec => []LegsAreSingle
  <1>1. LegInv /\ [Next]_vars => LegInv'
    BY LegNext
  <1> QED BY LegInit, <1>1, LegsFollow, PTL DEF Spec

-----------------------------------------------------------------------------
(* Legs are balanced. *)

PriceInv ==
    /\ now \in Nat
    /\ \A w \in prices : w \in PriceRecord /\ w.time <= now
    /\ \A v, w \in prices : v.oracle = w.oracle /\ v.time = w.time => v = w

Mirrored(B, p) ==
    \E o \in Owner : \E q \in B[o] : Root(q.id) = Root(p.id) /\ q.side = -p.side

Due(p) == \E w \in prices : BindsTwap(w, p)

Balanced(B) ==
    \A o \in Owner : \A p \in B[o] :
       Mirrored(B, p) \/ Due(p) \/ Root(p.id) \in crossed

BalanceInv ==
    /\ PriceInv /\ Balanced(book) /\ Balanced(posts)
    /\ \A o \in Owner : \A p \in book[o] : p.cp = o => Root(p.id) \in crossed

\* The row of a touched account has all the prices that bind a seat of it: an
\* open that is not yet due is bound by none.
LEMMA RowPrices ==
    ASSUME LegInv, PriceInv,
           NEW touch \in SUBSET Owner, NEW new \in SUBSET Trade,
           \A t \in new : Parties(t) \subseteq touch,
           NEW o \in touch, NEW p \in Opened(touch, new)[o]
    PROVE  LET rows == Rows(touch)
               in == EpochInputs(rows, new)
           IN  {w \in TwapsOf(rows, in, o) : BindsTwap(w, p)}
                  = {w \in prices : BindsTwap(w, p)}
  <1> DEFINE rows == Rows(touch)
             in == EpochInputs(rows, new)
  <1>1. DOMAIN in.twaps = DueTwaps(rows) /\ DueTwaps(rows) \subseteq prices
    BY DEF EpochInputs, DueTwaps
  <1>2. rows[o].positions = book[o] /\ o \in Owner
    BY DEF Rows
  <1>3. ASSUME NEW w \in prices, BindsTwap(w, p) PROVE w \in TwapsOf(rows, in, o)
    <2>1. CASE p \in book[o]
      <3>1. w \in DueTwaps(rows)
        BY <1>2, <1>3, <2>1 DEF DueTwaps
      <3> QED BY <1>1, <1>2, <1>3, <2>1, <3>1 DEF TwapsOf
    <2>2. CASE p \notin book[o]
      <3>1. \E t \in new :
               /\ Terms[t].a # Terms[t].b /\ Terms[t].expiry > now
               /\ o \in Parties(t) /\ p = Seat(t, o)
               /\ \A q \in Parties(t) : q \in Owner /\ Seat(t, q) \in Opened(touch, new)[q]
        <4>1. Entered(touch, new, o, p)
          BY <2>2, OldOrNew
        <4> QED BY <4>1 DEF Entered
      <3>2. PICK t \in new : Terms[t].expiry > now /\ p = Seat(t, o)
        BY <3>1
      <3>3. p.expiry = Terms[t].expiry /\ t \in Trade
        BY <3>2 DEF Seat
      <3>4. w.time = Terms[t].expiry /\ w.time <= now /\ w.time \in Nat /\ now \in Nat
        BY <1>3, <3>3 DEF BindsTwap, PriceInv, PriceRecord
      <3> QED BY <3>2, <3>4
    <2> QED BY <2>1, <2>2
  <1>4. TwapsOf(rows, in, o) \subseteq prices
    BY <1>1 DEF TwapsOf
  <1> HIDE DEF rows, in
  <1>5. {w \in TwapsOf(rows, in, o) : BindsTwap(w, p)} = {w \in prices : BindsTwap(w, p)}
    BY <1>3, <1>4
  <1> QED BY <1>5 DEF rows, in

\* When a seat of a touched account retires.
LEMMA RetiresWhen ==
    ASSUME LegInv, PriceInv,
           NEW touch \in SUBSET Owner, NEW new \in SUBSET Trade,
           \A t \in new : Parties(t) \subseteq touch, NEW tears,
           NEW o \in touch, NEW p \in Opened(touch, new)[o]
    PROVE  p \in Retiring(Rows(touch), EpochInputs(Rows(touch), new), tears, o)
             <=> p.oracle \notin paused /\ (Due(p) \/ \E u \in tears : u.id = p.id)
  <1> DEFINE rows == Rows(touch)
             in == EpochInputs(rows, new)
  <1>1. in.paused = paused
    BY DEF EpochInputs
  <1>2. p \in SeatsAfterOpens(rows, in, o)
    BY DEF Opened
  <1>3. {w \in TwapsOf(rows, in, o) : BindsTwap(w, p)} = {w \in prices : BindsTwap(w, p)}
    BY RowPrices
  <1> HIDE DEF rows, in
  <1>4. (\E w \in TwapsOf(rows, in, o) : BindsTwap(w, p)) <=> Due(p)
    BY <1>3 DEF Due
  <1>5. p \in Retiring(rows, in, tears, o)
          <=> p.oracle \notin paused /\ (Due(p) \/ \E u \in tears : u.id = p.id)
    BY <1>1, <1>2, <1>4 DEF Retiring, Settling
  <1> QED BY <1>5 DEF rows, in

\* Legs of one trade name one pair and one expiry, hence the same prices.
LEMMA SameTrade ==
    ASSUME NEW p, GoodSeat(p), NEW q, GoodSeat(q), Root(p.id) = Root(q.id)
    PROVE  /\ p.oracle = q.oracle /\ p.expiry = q.expiry
           /\ p.entry = q.entry /\ p.notional = q.notional
           /\ \A w : BindsTwap(w, p) <=> BindsTwap(w, q)
           /\ Due(p) <=> Due(q)
           /\ p.side # q.side => p.side = -q.side
           /\ p.side \in {1, -1} /\ q.side \in {1, -1}
  <1>1. p.oracle = q.oracle /\ p.expiry = q.expiry /\ p.entry = q.entry /\ p.notional = q.notional
    BY SeatFacts DEF Terms1
  <1>2. p.side \in {1, -1} /\ q.side \in {1, -1}
    BY DEF GoodSeat
  <1> QED BY <1>1, <1>2 DEF BindsTwap, Due

\* The opens leave legs balanced, and no new seat faces its holder.
LEMMA OpenedBalance ==
    ASSUME LegInv, BalanceInv,
           NEW touch \in SUBSET Owner, NEW new \in SUBSET (Trade \ folded),
           \A t \in new : Parties(t) \subseteq touch
    PROVE  /\ Balanced(Opened(touch, new))
           /\ \A o \in Owner : \A p \in Opened(touch, new)[o] :
                 p.cp = o => Root(p.id) \in crossed
  <1> DEFINE B == Opened(touch, new)
  <1>0. new \in SUBSET Trade
    OBVIOUS
  <1>1. \A o \in Owner : book[o] \subseteq B[o]
    BY DEF Opened, SeatsAfterOpens, Rows
  <1>2. ASSUME NEW o \in Owner, NEW p \in B[o], p \notin book[o]
        PROVE  p.cp # o /\ Mirrored(B, p)
    <2>1. \E t \in new :
             /\ Terms[t].a # Terms[t].b /\ o \in Parties(t) /\ p = Seat(t, o)
             /\ \A q \in Parties(t) : q \in Owner /\ Seat(t, q) \in B[q]
      <3>1. Entered(touch, new, o, p)
        BY <1>0, <1>2, OldOrNew
      <3> QED BY <3>1 DEF Entered
    <2> HIDE DEF B
    <2>2. PICK t \in new :
             /\ Terms[t].a # Terms[t].b /\ o \in Parties(t) /\ p = Seat(t, o)
             /\ \A q \in Parties(t) : q \in Owner /\ Seat(t, q) \in B[q]
      BY <2>1
    <2>3. p.cp # o /\ \E q \in Parties(t) : Seat(t, q).side = -p.side
      BY <2>2, SeatIsLegSeat
    <2>4. PICK q \in Parties(t) : Seat(t, q).side = -p.side
      BY <2>3
    <2>5. Root(Seat(t, q).id) = t /\ Root(p.id) = t
      BY <2>2, NewSeat
    <2> QED BY <2>2, <2>3, <2>4, <2>5 DEF Mirrored
  <1>3. ASSUME NEW o \in Owner, NEW p \in book[o]
        PROVE  Mirrored(B, p) \/ Due(p) \/ Root(p.id) \in crossed
    <2> HIDE DEF B
    <2>1. Mirrored(book, p) \/ Due(p) \/ Root(p.id) \in crossed
      BY DEF BalanceInv, Balanced
    <2>2. Mirrored(book, p) => Mirrored(B, p)
      BY <1>1 DEF Mirrored
    <2> QED BY <2>1, <2>2
  <1> HIDE DEF B
  <1>4. Balanced(B)
    BY <1>2, <1>3 DEF Balanced
  <1>5. \A o \in Owner : \A p \in B[o] : p.cp = o => Root(p.id) \in crossed
    BY <1>2 DEF BalanceInv
  <1> QED BY <1>4, <1>5 DEF B

\* What an unwind has to find: both legs, unless the trade has crossed.
LEMMA UnwindFindsBoth ==
    ASSUME LegInv, BalanceInv,
           NEW touch \in SUBSET Owner, NEW new \in SUBSET (Trade \ folded),
           NEW tears, Resolve(touch, new, tears),
           NEW u \in tears,
           NEW o \in Owner, NEW q \in Opened(touch, new)[o], Root(q.id) = Root(u.id)
    PROVE  (o \in touch /\ q.id = u.id) \/ Root(q.id) \in crossed
  <1> DEFINE B == Opened(touch, new)
             rows == Rows(touch)
             in == EpochInputs(rows, new)
  <1>1. /\ \A t \in new : Parties(t) \subseteq touch
        /\ u.a \in touch /\ u.b \in touch /\ UnwindValid(rows, in, u)
    BY DEF Resolve
  <1>2. GoodSeats(B) /\ Single(B)
    BY <1>1, OpenedLegs
  <1>3. \A x \in Owner : \A p \in B[x] : p.cp = x => Root(p.id) \in crossed
    BY <1>1, OpenedBalance
  <1>4. PICK p1 \in SeatsAfterOpens(rows, in, u.a) : p1.id = u.id /\ p1.cp = u.b
    BY <1>1 DEF UnwindValid
  <1>5. PICK p2 \in SeatsAfterOpens(rows, in, u.b) : p2.id = u.id /\ p2.cp = u.a
    BY <1>1 DEF UnwindValid
  <1>6. /\ u.a \in Owner /\ u.b \in Owner /\ p1 \in B[u.a] /\ p2 \in B[u.b]
    BY <1>1 DEF Opened
  <1> HIDE DEF B, rows, in
  <1>7. q \in B[o]
    BY DEF B
  <1>8. GoodSeat(q) /\ GoodSeat(p1) /\ GoodSeat(p2)
    BY <1>2, <1>6, <1>7 DEF GoodSeats
  <1>9. CASE p1.side = p2.side
    <2>1. u.a = u.b /\ p1 = p2
      BY <1>2, <1>4, <1>5, <1>6, <1>9 DEF Single
    <2> QED BY <1>3, <1>4, <1>6, <2>1
  <1>10. CASE p1.side # p2.side
    <2>1. p1.side = q.side \/ p2.side = q.side
      BY <1>8, <1>10 DEF GoodSeat
    <2>2. CASE p1.side = q.side
      <3>1. o = u.a /\ q = p1
        BY <1>2, <1>4, <1>6, <1>7, <2>2 DEF Single
      <3> QED BY <1>1, <1>4, <3>1
    <2>3. CASE p2.side = q.side
      <3>1. o = u.b /\ q = p2
        BY <1>2, <1>5, <1>6, <1>7, <2>3 DEF Single
      <3> QED BY <1>1, <1>5, <3>1
    <2> QED BY <2>1, <2>2, <2>3
  <1> QED BY <1>9, <1>10

LEMMA BalanceResolve ==
    ASSUME LegInv, BalanceInv,
           NEW touch \in SUBSET Owner, NEW new \in SUBSET (Trade \ folded),
           NEW tears, Resolve(touch, new, tears)
    PROVE  BalanceInv'
  <1> DEFINE B == Opened(touch, new)
             retiring(o) == Retiring(Rows(touch), EpochInputs(Rows(touch), new), tears, o)
  <1>1. /\ UNCHANGED <<chainVars, coreVars>>
        /\ \A t \in new : Parties(t) \subseteq touch
    BY DEF Resolve
  <1>2. /\ \A o \in Owner : posts'[o] = B[o] \ (IF o \in touch THEN retiring(o) ELSE {})
        /\ \A o \in Owner : posts'[o] \subseteq B[o]
    BY ResolveLegs
  <1>3. GoodSeats(B) /\ Single(B) /\ Balanced(B)
    BY <1>1, OpenedLegs, OpenedBalance
  <1>4. ASSUME NEW o \in touch, NEW p \in B[o]
        PROVE  p \in retiring(o)
                 <=> p.oracle \notin paused /\ (Due(p) \/ \E u \in tears : u.id = p.id)
    BY <1>1, <1>4, RetiresWhen DEF BalanceInv
  <1>5. ASSUME NEW u \in tears, NEW o \in Owner, NEW q \in B[o], Root(q.id) = Root(u.id)
        PROVE  (o \in touch /\ q.id = u.id) \/ Root(q.id) \in crossed
    BY <1>5, UnwindFindsBoth
  <1> HIDE DEF B, retiring
  <1>6. ASSUME NEW o \in Owner, NEW p \in posts'[o]
        PROVE  Mirrored(posts', p) \/ Due(p) \/ Root(p.id) \in crossed
    <2> SUFFICES ASSUME ~Due(p), Root(p.id) \notin crossed PROVE Mirrored(posts', p)
      OBVIOUS
    <2>1. p \in B[o] /\ GoodSeat(p)
      BY <1>2, <1>3 DEF GoodSeats
    <2>2. Mirrored(B, p)
      BY <1>3, <2>1 DEF Balanced
    <2>3. PICK o2 \in Owner : \E q \in B[o2] : Root(q.id) = Root(p.id) /\ q.side = -p.side
      BY <2>2 DEF Mirrored
    <2>4. PICK q \in B[o2] : Root(q.id) = Root(p.id) /\ q.side = -p.side
      BY <2>3
    <2>5. GoodSeat(q)
      BY <1>3 DEF GoodSeats
    <2>6. q.oracle = p.oracle /\ ~Due(q)
      BY <2>1, <2>4, <2>5, SameTrade
    <2>7. q \in posts'[o2]
      <3> SUFFICES ASSUME o2 \in touch, q \in retiring(o2) PROVE FALSE
        BY <1>2
      <3>1. PICK u \in tears : u.id = q.id /\ q.oracle \notin paused
        BY <1>4, <2>6
      <3>2. o \in touch /\ p.id = u.id
        BY <1>5, <2>1, <2>4, <3>1
      <3>3. p \in retiring(o)
        BY <1>4, <2>1, <2>6, <3>1, <3>2
      <3> QED BY <1>2, <3>2, <3>3
    <2> QED BY <2>4, <2>7 DEF Mirrored
  <1>7. Balanced(posts)'
    BY <1>1, <1>6 DEF Balanced, Mirrored, Due, chainVars, coreVars
  <1> QED BY <1>1, <1>7 DEF BalanceInv, PriceInv, Balanced, Mirrored, Due, chainVars, coreVars

LEMMA BalanceMove ==
    ASSUME LegInv, BalanceInv, NEW a \in Owner, NEW c \in Owner, NEW p, NEW im,
           Move(a, c, p, im)
    PROVE  BalanceInv'
  <1> DEFINE m == MovedPosition(p, a, c, im)
  <1>1. /\ p \in posts[a] /\ m \in posts'[c]
        /\ \A o \in Owner : \A q \in posts'[o] :
              \/ q \in posts[o] /\ (q # p \/ o # a)
              \/ q = m /\ o = c
        /\ \A o \in Owner : \A q \in posts[o] :
              \/ q \in posts'[o]
              \/ q = p /\ o = a
    BY MoveSeats
  <1>2. UNCHANGED <<chainVars, coreVars>>
    BY DEF Move
  <1>3. GoodSeat(p)
    BY <1>1 DEF LegInv, GoodSeats
  <1>4. /\ GoodSeat(m) /\ Root(m.id) = Root(p.id) /\ m.side = p.side
    BY <1>3, MovedSeat
  <1>5. Due(m) <=> Due(p)
    BY <1>3, <1>4, SameTrade
  <1> HIDE DEF m
  <1>6. ASSUME NEW q, Mirrored(posts, q) PROVE Mirrored(posts', q)
    <2>1. PICK o \in Owner : \E r \in posts[o] : Root(r.id) = Root(q.id) /\ r.side = -q.side
      BY <1>6 DEF Mirrored
    <2>2. PICK r \in posts[o] : Root(r.id) = Root(q.id) /\ r.side = -q.side
      BY <2>1
    <2>3. r \in posts'[o] \/ (r = p /\ m \in posts'[c])
      BY <1>1
    <2> QED BY <1>4, <2>2, <2>3 DEF Mirrored
  <1>7. ASSUME NEW o \in Owner, NEW q \in posts'[o]
        PROVE  Mirrored(posts', q) \/ Due(q) \/ Root(q.id) \in crossed
    <2>1. CASE q \in posts[o]
      BY <1>6, <2>1 DEF BalanceInv, Balanced
    <2>2. CASE q = m
      <3>1. Mirrored(posts, p) \/ Due(p) \/ Root(p.id) \in crossed
        BY <1>1 DEF BalanceInv, Balanced
      <3>2. Mirrored(posts, p) => Mirrored(posts, q)
        BY <1>4, <2>2 DEF Mirrored
      <3> QED BY <1>4, <1>5, <1>6, <2>2, <3>1, <3>2
    <2> QED BY <1>1, <2>1, <2>2
  <1>8. Balanced(posts)'
    BY <1>2, <1>7 DEF Balanced, Mirrored, Due, chainVars, coreVars
  <1> QED BY <1>2, <1>8 DEF BalanceInv, PriceInv, Balanced, Mirrored, Due, chainVars, coreVars

LEMMA BalanceCommit == ASSUME LegInv, BalanceInv, Commit PROVE BalanceInv'
  <1>1. book' = posts /\ posts' = posts /\ UNCHANGED chainVars /\ crossed \subseteq crossed'
    BY DEF Commit
  <1>2. \A o \in Owner : \A p \in posts[o] : p.cp = o => Root(p.id) \in crossed'
    <2>1. ASSUME NEW o \in Owner, NEW p \in posts[o], p.cp = o PROVE Root(p.id) \in crossed'
      <3>1. Root(p.id) \in Trade
        BY DEF LegInv, GoodSeats, GoodSeat
      <3> QED BY <2>1, <3>1 DEF Commit
    <2> QED BY <2>1
  <1>3. \A o \in Owner : \A p \in posts[o] :
           Mirrored(posts, p) \/ Due(p) \/ Root(p.id) \in crossed'
    BY <1>1 DEF BalanceInv, Balanced
  <1> QED BY <1>1, <1>2, <1>3 DEF BalanceInv, PriceInv, Balanced, Mirrored, Due, chainVars

LEMMA BalanceBind ==
    ASSUME BalanceInv, NEW x \in Oracle, NEW time \in 0..MaxTime, NEW rate \in Rate,
           BindTwap(x, time, rate)
    PROVE  BalanceInv'
  <1>1. /\ prices' = prices \cup {[oracle |-> x, time |-> time, rate |-> rate]}
        /\ time <= now /\ UNCHANGED <<now, coreVars, guestVars>>
        /\ ~\E w \in prices : w.oracle = x /\ w.time = time
    BY DEF BindTwap
  <1>2. time \in Nat /\ rate \in Nat
    BY HandoffAssumption
  <1>3. [oracle |-> x, time |-> time, rate |-> rate] \in PriceRecord
    BY <1>2 DEF PriceRecord
  <1>4. PriceInv'
    BY <1>1, <1>3 DEF PriceInv, BalanceInv
  <1>5. \A q : Due(q) => Due(q)'
    BY <1>1 DEF Due
  <1> QED BY <1>1, <1>4, <1>5 DEF BalanceInv, Balanced, Mirrored, coreVars, guestVars

LEMMA BalanceNext == ASSUME LegInv, BalanceInv, [Next]_vars PROVE BalanceInv'
  <1> USE DEF BalanceInv, PriceInv, Balanced, Mirrored, Due
  <1>1. CASE UNCHANGED vars
    BY <1>1 DEF vars, chainVars, coreVars, guestVars
  <1>2. CASE NextBlock
    <2>1. now' = now + 1 /\ prices' = prices /\ UNCHANGED <<coreVars, guestVars>>
      BY <1>2 DEF NextBlock
    <2>2. PriceInv'
      BY <2>1 DEF PriceRecord
    <2> QED BY <2>1, <2>2 DEF coreVars, guestVars
  <1>3. ASSUME NEW x \in Oracle, SetPaused(x) PROVE BalanceInv'
    BY <1>3 DEF SetPaused, coreVars, guestVars
  <1>4. CASE Abandon
    BY <1>4 DEF Abandon, chainVars, coreVars
  <1>5. ASSUME NEW a \in Owner, NEW c \in Owner, NEW im \in MakerIm, NEW p \in posts[a],
               Novate(a, c, p, im) \/ CloseOut(a, c, p, im)
        PROVE  BalanceInv'
    BY <1>5, BalanceMove DEF Novate, CloseOut
  <1> QED BY <1>1, <1>2, <1>3, <1>4, <1>5, BalanceBind, BalanceResolve, BalanceCommit DEF Next

LEMMA BalanceInit == Init => BalanceInv
  BY DEF Init, BalanceInv, PriceInv, Balanced

LEMMA BalanceFollows == ASSUME LegInv, BalanceInv PROVE LegsBalance
  <1> SUFFICES ASSUME NEW o \in Owner, NEW p \in book[o],
                      ~Due(p), Root(p.id) \notin crossed
               PROVE  Legs(book, Root(p.id), -p.side) # {}
    BY DEF LegsBalance, Due
  <1>1. Mirrored(book, p)
    BY DEF BalanceInv, Balanced
  <1>2. PICK o2 \in Owner : \E q \in book[o2] : Root(q.id) = Root(p.id) /\ q.side = -p.side
    BY <1>1 DEF Mirrored
  <1>3. PICK q \in book[o2] : Root(q.id) = Root(p.id) /\ q.side = -p.side
    BY <1>2
  <1>4. <<o2, q>> \in Legs(book, Root(p.id), -p.side)
    BY <1>3, LegsOf
  <1> QED BY <1>4

\* A leg of a trade is live as long as the other one is, or a settle price is
\* bound that retires it too, unless a party was handed the seat that faces it
\* (state_transition.rs, the two endpoints of an unwind).
THEOREM LegsStayBalanced == Spec => []LegsBalance
  <1>1. Init => LegInv /\ BalanceInv
    BY LegInit, BalanceInit
  <1>2. LegInv /\ BalanceInv /\ [Next]_vars => LegInv' /\ BalanceInv'
    BY LegNext, BalanceNext
  <1>3. LegInv /\ BalanceInv => LegsBalance
    BY BalanceFollows
  <1> QED BY <1>1, <1>2, <1>3, PTL DEF Spec

-----------------------------------------------------------------------------
(* A trade is paid off once. *)

\* No seat of the leg that has paid is left.
Gone(B, r) ==
    \A o \in Owner : \A q \in B[o] : Root(q.id) = Root(r.id) => q.side # r.side

\* The other leg, where it is still held, settles at a price at which it wins.
Wins(B, r) ==
    \A o \in Owner : \A q \in B[o] :
       Root(q.id) = Root(r.id) =>
          \/ Root(r.id) \in crossed
          \/ \E w \in prices : BindsTwap(w, q) /\ ~(PositionVm(q, w.rate) < 0)

GoodResidual(r) ==
    /\ Root(r.id) \in Trade /\ r.side \in {1, -1}
    /\ r.payer = holder[Root(r.id)][r.side]
    /\ r.payee = Signer(Root(r.id), -r.side)

ResidualInv ==
    /\ \A r \in residuals : Root(r.id) \in folded /\ Gone(book, r) /\ Wins(book, r)
    /\ \A r \in residuals \cup emitted :
          /\ GoodResidual(r) /\ Root(r.id) \in folded \cup opens
          /\ Gone(posts, r) /\ Wins(posts, r)
    /\ \A r, s \in residuals \cup emitted :
          Root(r.id) = Root(s.id) => r = s \/ Root(r.id) \in crossed
    /\ \A t \in Trade \ folded : \A side \in {1, -1} : holder[t][side] = Signer(t, side)
    /\ stage = "idle" => emitted = {}

\* Opposite legs cannot both lose at one price.
LEMMA OneLoser ==
    ASSUME NEW p, GoodSeat(p), NEW q, GoodSeat(q), Root(p.id) = Root(q.id),
           p.side # q.side, NEW rate \in Nat
    PROVE  ~(PositionVm(p, rate) < 0 /\ PositionVm(q, rate) < 0)
  <1>1. /\ q.entry = p.entry /\ q.notional = p.notional
        /\ p.side \in {1, -1} /\ q.side = -p.side
    BY SameTrade DEF GoodSeat
  <1>2. p.entry \in Nat /\ p.notional \in Nat
    <2>1. /\ p.entry = Terms1(p).entry
          /\ p.notional = GrossNotional(Terms1(p).quantity, Terms1(p).entry)
      BY SeatFacts
    <2> QED BY <2>1, GrossIsNat, EngineAssumption DEF GoodSeat, Terms1
  <1> QED BY <1>1, <1>2, OneLoserAt

\* The price at which a seat closes.
LEMMA CloseAt ==
    ASSUME LegInv, PriceInv,
           NEW touch \in SUBSET Owner, NEW new \in SUBSET Trade,
           \A t \in new : Parties(t) \subseteq touch, NEW tears,
           NEW o \in touch, NEW p \in Opened(touch, new)[o]
    PROVE  LET price == ClosePrice(Rows(touch), EpochInputs(Rows(touch), new), tears, o, p)
           IN  /\ \A w \in prices : BindsTwap(w, p) => price = w.rate
               /\ ~Due(p) => price = (CHOOSE u \in tears : u.id = p.id).price
  <1> DEFINE rows == Rows(touch)
             in == EpochInputs(rows, new)
             binding == {w \in TwapsOf(rows, in, o) : BindsTwap(w, p)}
             price == ClosePrice(rows, in, tears, o, p)
  <1>1. binding = {w \in prices : BindsTwap(w, p)}
    BY RowPrices
  <1>2. price = IF binding # {} THEN (CHOOSE w \in binding : TRUE).rate
                ELSE (CHOOSE u \in tears : u.id = p.id).price
    BY DEF ClosePrice
  <1> HIDE DEF rows, in, binding, price
  <1>3. ASSUME NEW w \in prices, BindsTwap(w, p) PROVE price = w.rate
    <2>1. binding # {}
      BY <1>1, <1>3
    <2>2. (CHOOSE v \in binding : TRUE) \in binding
      BY <2>1
    <2>3. ASSUME NEW v \in binding PROVE v = w
      BY <1>1, <1>3 DEF BindsTwap, PriceInv
    <2> QED BY <1>2, <2>1, <2>2, <2>3
  <1>4. ASSUME ~Due(p) PROVE price = (CHOOSE u \in tears : u.id = p.id).price
    <2>1. binding = {}
      BY <1>1, <1>4 DEF Due
    <2> QED BY <1>2, <2>1
  <1> QED BY <1>3, <1>4 DEF price, rows, in

\* The unwinds of one epoch: at most one, at a price.
OneUnwind(tears) == \A u \in tears : u.price \in Nat /\ \A v \in tears : u = v

\* Where a residual comes from.
EmittedBy(r, touch, new, tears, o, p) ==
    LET in == EpochInputs(Rows(touch), new)
    IN  /\ p \in Opened(touch, new)[o]
        /\ p \in Retiring(Rows(touch), in, tears, o)
        /\ PositionVm(p, ClosePrice(Rows(touch), in, tears, o, p)) < 0
        /\ r.id = p.id /\ r.payer = o /\ r.payee = p.cp /\ r.side = p.side
        /\ r = [id |-> r.id, payer |-> r.payer, payee |-> r.payee, side |-> r.side]

LEMMA Emission ==
    ASSUME NEW touch \in SUBSET Owner, NEW new, NEW tears, Resolve(touch, new, tears),
           NEW r \in emitted'
    PROVE  \E o \in touch : \E p : EmittedBy(r, touch, new, tears, o, p)
  <1> DEFINE rows == Rows(touch)
             in == EpochInputs(rows, new)
  <1>1. PICK o \in touch : r \in Residuals(rows, in, tears, o)
    BY DEF Resolve
  <1>2. PICK p \in Retiring(rows, in, tears, o) :
           /\ PositionVm(p, ClosePrice(rows, in, tears, o, p)) < 0
           /\ r = [id |-> p.id, payer |-> o, payee |-> p.cp, side |-> p.side]
    BY <1>1 DEF Residuals
  <1>3. p \in Opened(touch, new)[o]
    BY DEF Retiring, Settling, Opened
  <1>4. EmittedBy(r, touch, new, tears, o, p)
    <2> HIDE DEF rows, in
    <2>1. /\ r.id = p.id /\ r.payer = o /\ r.payee = p.cp /\ r.side = p.side
          /\ r = [id |-> r.id, payer |-> r.payer, payee |-> r.payee, side |-> r.side]
      BY <1>2
    <2> QED BY <1>2, <1>3, <2>1 DEF EmittedBy, rows, in
  <1> QED BY <1>4

\* A leg that loses at resolve: it is gone, the other one wins or goes too, and
\* they do not both emit.
LEMMA LoserGoes ==
    ASSUME LegInv, BalanceInv,
           NEW touch \in SUBSET Owner, NEW new \in SUBSET (Trade \ folded),
           NEW tears, OneUnwind(tears), Resolve(touch, new, tears),
           NEW r, NEW o \in touch, NEW p, EmittedBy(r, touch, new, tears, o, p)
    PROVE  /\ Gone(posts', r) /\ Wins(posts', r)
           /\ \A s : \A o2 \in touch : \A q :
                 EmittedBy(s, touch, new, tears, o2, q) /\ Root(s.id) = Root(r.id) => s = r
  <1> DEFINE B == Opened(touch, new)
             rows == Rows(touch)
             in == EpochInputs(rows, new)
             retiring(x) == Retiring(rows, in, tears, x)
             price(x, q) == ClosePrice(rows, in, tears, x, q)
  <1>1. /\ \A t \in new : Parties(t) \subseteq touch
        /\ o \in Owner /\ new \in SUBSET Trade /\ PriceInv
    BY DEF Resolve, BalanceInv
  <1>2. GoodSeats(B) /\ Single(B)
    BY <1>1, OpenedLegs
  <1>3. /\ \A x \in Owner : posts'[x] = B[x] \ (IF x \in touch THEN retiring(x) ELSE {})
        /\ \A x \in Owner : posts'[x] \subseteq B[x]
    BY ResolveLegs
  <1>4. ASSUME NEW x \in touch, NEW q \in B[x]
        PROVE  /\ q \in retiring(x)
                     <=> q.oracle \notin paused /\ (Due(q) \/ \E u \in tears : u.id = q.id)
               /\ \A w \in prices : BindsTwap(w, q) => price(x, q) = w.rate
               /\ ~Due(q) => price(x, q) = (CHOOSE u \in tears : u.id = q.id).price
    BY <1>1, <1>4, RetiresWhen, CloseAt
  <1>5. ASSUME NEW u \in tears, NEW x \in Owner, NEW q \in B[x], Root(q.id) = Root(u.id)
        PROVE  (x \in touch /\ q.id = u.id) \/ Root(q.id) \in crossed
    BY <1>5, UnwindFindsBoth
  <1>6. /\ p \in B[o] /\ p \in retiring(o) /\ PositionVm(p, price(o, p)) < 0
        /\ r.id = p.id /\ r.side = p.side /\ r.payer = o /\ r.payee = p.cp
        /\ r = [id |-> r.id, payer |-> r.payer, payee |-> r.payee, side |-> r.side]
    BY DEF EmittedBy
  <1>7. ASSUME NEW s, NEW x \in touch, NEW q, EmittedBy(s, touch, new, tears, x, q)
        PROVE  /\ q \in B[x] /\ q \in retiring(x) /\ PositionVm(q, price(x, q)) < 0
               /\ s.id = q.id /\ s.side = q.side /\ s.payer = x /\ s.payee = q.cp
               /\ s = [id |-> s.id, payer |-> s.payer, payee |-> s.payee, side |-> s.side]
    BY <1>7 DEF EmittedBy
  <1> HIDE DEF B, rows, in, retiring, price
  <1>8. GoodSeat(p)
    BY <1>1, <1>2, <1>6 DEF GoodSeats
  <1>9. Gone(posts', r)
    <2> SUFFICES ASSUME NEW x \in Owner, NEW q \in posts'[x],
                        Root(q.id) = Root(r.id), q.side = r.side
                 PROVE  FALSE
      BY DEF Gone
    <2>1. x = o /\ q = p
      BY <1>1, <1>2, <1>3, <1>6 DEF Single
    <2> QED BY <1>1, <1>3, <1>6, <2>1
  <1>10. Wins(posts', r)
    <2> SUFFICES ASSUME NEW x \in Owner, NEW q \in posts'[x],
                        Root(q.id) = Root(r.id), Root(r.id) \notin crossed
                 PROVE  \E w \in prices : BindsTwap(w, q) /\ ~(PositionVm(q, w.rate) < 0)
      <3> HIDE DEF PriceInv
      <3> QED BY DEF Wins
    <2>1. q \in B[x] /\ GoodSeat(q) /\ Root(q.id) = Root(p.id) /\ q.side # p.side
      BY <1>2, <1>3, <1>6, <1>9 DEF GoodSeats, Gone
    <2>2. CASE Due(p)
      <3>1. PICK w \in prices : BindsTwap(w, p)
        BY <2>2 DEF Due
      <3>2. BindsTwap(w, q)
        BY <1>8, <2>1, <3>1, SameTrade
      <3>3. PositionVm(p, w.rate) < 0 /\ w.rate \in Nat
        BY <1>1, <1>4, <1>6, <3>1 DEF PriceInv, PriceRecord
      <3>4. ~(PositionVm(q, w.rate) < 0)
        BY <1>8, <2>1, <3>3, OneLoser
      <3> QED BY <3>2, <3>4
    <2>3. CASE ~Due(p)
      <3>1. PICK u \in tears : u.id = p.id /\ p.oracle \notin paused
        BY <1>4, <1>6, <2>3
      <3>2. x \in touch /\ q.id = u.id
        BY <1>5, <1>6, <2>1, <3>1
      <3>3. q.oracle = p.oracle
        BY <1>8, <2>1, SameTrade
      <3>4. q \in retiring(x)
        BY <1>4, <2>1, <3>1, <3>2, <3>3
      <3> QED BY <1>3, <3>2, <3>4
    <2> QED BY <2>2, <2>3
  <1>11. ASSUME NEW s, NEW x \in touch, NEW q, EmittedBy(s, touch, new, tears, x, q),
                Root(s.id) = Root(r.id)
         PROVE  s = r
    <2>1. /\ q \in B[x] /\ q \in retiring(x) /\ PositionVm(q, price(x, q)) < 0
          /\ s.id = q.id /\ s.side = q.side /\ s.payer = x /\ s.payee = q.cp
          /\ s = [id |-> s.id, payer |-> s.payer, payee |-> s.payee, side |-> s.side]
      BY <1>7, <1>11
    <2>2. x \in Owner /\ GoodSeat(q) /\ Root(q.id) = Root(p.id)
      BY <1>2, <1>6, <1>11, <2>1 DEF GoodSeats
    <2>3. CASE q.side = p.side
      <3>1. x = o /\ q = p
        BY <1>1, <1>2, <1>6, <2>1, <2>2, <2>3 DEF Single
      <3> QED BY <1>6, <2>1, <3>1
    <2>4. CASE q.side # p.side
      <3>1. CASE Due(p)
        <4>1. PICK w \in prices : BindsTwap(w, p)
          BY <3>1 DEF Due
        <4>2. BindsTwap(w, q)
          BY <1>8, <2>2, <4>1, SameTrade
        <4>3. price(o, p) = w.rate /\ price(x, q) = w.rate /\ w.rate \in Nat
          BY <1>1, <1>4, <1>6, <2>1, <4>1, <4>2 DEF PriceInv, PriceRecord
        <4> QED BY <1>6, <1>8, <2>1, <2>2, <2>4, <4>3, OneLoser
      <3>2. CASE ~Due(p)
        <4>1. ~Due(q)
          BY <1>8, <2>2, <3>2, SameTrade
        <4>2. /\ \E u \in tears : u.id = p.id
              /\ \E u \in tears : u.id = q.id
          BY <1>4, <1>6, <2>1, <3>2, <4>1
        <4>3. /\ (CHOOSE u \in tears : u.id = p.id) \in tears
              /\ (CHOOSE u \in tears : u.id = q.id) \in tears
          BY <4>2
        <4>4. price(o, p) = price(x, q) /\ price(o, p) \in Nat
          BY <1>4, <1>6, <2>1, <3>2, <4>1, <4>3 DEF OneUnwind
        <4> QED BY <1>6, <1>8, <2>1, <2>2, <2>4, <4>4, OneLoser
      <3> QED BY <3>1, <3>2
    <2> QED BY <2>3, <2>4
  <1> QED BY <1>9, <1>10, <1>11

LEMMA ResidualResolve ==
    ASSUME LegInv, BalanceInv, ResidualInv,
           NEW touch \in SUBSET Owner, NEW new \in SUBSET (Trade \ folded),
           NEW tears, OneUnwind(tears), Resolve(touch, new, tears)
    PROVE  ResidualInv'
  <1> DEFINE B == Opened(touch, new)
  <1>1. /\ UNCHANGED <<chainVars, coreVars>> /\ stage = "idle" /\ stage' # "idle"
        /\ \A t \in new : Parties(t) \subseteq touch
        /\ opens' = new /\ new \in SUBSET Trade /\ touch \subseteq Owner
    BY DEF Resolve
  <1>2. GoodSeats(B) /\ Single(B) /\ RootsIn(B, folded \cup new)
    BY <1>1, OpenedLegs
  <1>3. \A x \in Owner : posts'[x] \subseteq B[x]
    BY ResolveLegs
  <1>4. /\ \A r \in residuals : /\ GoodResidual(r) /\ Root(r.id) \in folded
                                 /\ Gone(book, r) /\ Wins(book, r)
        /\ \A r, s \in residuals :
              Root(r.id) = Root(s.id) => r = s \/ Root(r.id) \in crossed
        /\ \A t \in Trade \ folded : \A side \in {1, -1} : holder[t][side] = Signer(t, side)
    BY DEF ResidualInv
  <1>5. ASSUME NEW x \in Owner, NEW q \in B[x], q \notin book[x]
        PROVE  /\ Root(q.id) \notin folded /\ Root(q.id) \in Trade
               /\ x = Signer(Root(q.id), q.side)
    <2>1. Entered(touch, new, x, q)
      BY <1>1, <1>5, OldOrNew
    <2>2. PICK t \in new : Terms[t].a # Terms[t].b /\ x \in Parties(t) /\ q = Seat(t, x)
      BY <2>1 DEF Entered
    <2>3. Root(q.id) = t /\ Signer(t, q.side) = x
      BY <2>2, NewSeat, SeatIsLegSeat
    <2> QED BY <2>2, <2>3
  <1>6. ASSUME NEW r \in emitted'
        PROVE  \E o \in touch : \E p : EmittedBy(r, touch, new, tears, o, p)
    BY <1>6, Emission
  <1> HIDE DEF B
  <1>7. ASSUME NEW r \in emitted', NEW o \in touch, NEW p, EmittedBy(r, touch, new, tears, o, p)
        PROVE  /\ GoodResidual(r) /\ Root(r.id) \in folded \cup new
               /\ Gone(posts', r) /\ Wins(posts', r)
               /\ \A s \in emitted' : Root(s.id) = Root(r.id) => s = r
               /\ \A s \in residuals : Root(s.id) = Root(r.id) => Root(r.id) \in crossed
    <2>1. /\ p \in B[o] /\ o \in Owner
          /\ PositionVm(p, ClosePrice(Rows(touch), EpochInputs(Rows(touch), new), tears, o, p)) < 0
          /\ r.id = p.id /\ r.payer = o /\ r.payee = p.cp /\ r.side = p.side
      BY <1>7 DEF EmittedBy, B
    <2>2. GoodSeat(p) /\ Root(p.id) \in folded \cup new
      BY <1>2, <2>1 DEF GoodSeats, RootsIn
    <2>3. p.cp = Signer(Root(p.id), -p.side) /\ Root(p.id) \in Trade /\ p.side \in {1, -1}
      BY <2>2, SeatFacts DEF GoodSeat
    <2>4. holder[Root(p.id)][p.side] = o
      <3>1. CASE p \in book[o]
        BY <2>1, <3>1 DEF LegInv
      <3>2. CASE p \notin book[o]
        BY <1>4, <1>5, <2>1, <2>3, <3>2
      <3> QED BY <3>1, <3>2
    <2>5. GoodResidual(r)
      BY <2>1, <2>3, <2>4 DEF GoodResidual
    <2>6. /\ Gone(posts', r) /\ Wins(posts', r)
          /\ \A s : \A o2 \in touch : \A q :
                EmittedBy(s, touch, new, tears, o2, q) /\ Root(s.id) = Root(r.id) => s = r
      BY <1>7, LoserGoes
    <2>7. \A s \in emitted' : Root(s.id) = Root(r.id) => s = r
      BY <1>6, <2>6
    <2>8. ASSUME NEW s \in residuals, Root(s.id) = Root(r.id), Root(r.id) \notin crossed
          PROVE  FALSE
      <3>1. p \in book[o]
        BY <1>4, <1>5, <2>1, <2>8
      <3>2. PICK w \in prices : BindsTwap(w, p) /\ ~(PositionVm(p, w.rate) < 0)
        BY <1>4, <2>1, <2>8, <3>1 DEF Wins
      <3>3. ClosePrice(Rows(touch), EpochInputs(Rows(touch), new), tears, o, p) = w.rate
        <4>1. PriceInv /\ p \in Opened(touch, new)[o]
          BY <2>1 DEF BalanceInv, B
        <4> QED BY <1>1, <3>2, <4>1, CloseAt
      <3> QED BY <2>1, <3>2, <3>3
    <2> QED BY <2>1, <2>2, <2>5, <2>6, <2>7, <2>8
  <1>8. ASSUME NEW r \in residuals
        PROVE  Gone(posts', r) /\ Wins(posts', r)
    <2>1. ASSUME NEW x \in Owner, NEW q \in posts'[x], Root(q.id) = Root(r.id)
          PROVE  q \in book[x]
      BY <1>3, <1>4, <1>5, <2>1
    <2>2. Gone(book, r) /\ Wins(book, r)
      BY <1>4
    <2> QED BY <2>1, <2>2 DEF Gone, Wins
  <1>9. \A r \in emitted' : /\ GoodResidual(r) /\ Root(r.id) \in folded \cup new
                            /\ Gone(posts', r) /\ Wins(posts', r)
                            /\ \A s \in emitted' : Root(s.id) = Root(r.id) => s = r
                            /\ \A s \in residuals :
                                  Root(s.id) = Root(r.id) => Root(r.id) \in crossed
    BY <1>6, <1>7
  <1>10. /\ \A r \in residuals \cup emitted' :
               /\ GoodResidual(r) /\ Root(r.id) \in folded \cup new
               /\ Gone(posts', r) /\ Wins(posts', r)
         /\ \A r, s \in residuals \cup emitted' :
               Root(r.id) = Root(s.id) => r = s \/ Root(r.id) \in crossed
    BY <1>4, <1>8, <1>9
  <1> QED BY <1>1, <1>4, <1>10 DEF ResidualInv, GoodResidual, Gone, Wins, chainVars, coreVars

LEMMA ResidualMove ==
    ASSUME LegInv, ResidualInv, NEW a \in Owner, NEW c \in Owner, NEW p, NEW im,
           Move(a, c, p, im), stage' # "idle"
    PROVE  ResidualInv'
  <1> DEFINE m == MovedPosition(p, a, c, im)
  <1>1. /\ p \in posts[a]
        /\ \A o \in Owner : \A q \in posts'[o] :
              \/ q \in posts[o] /\ (q # p \/ o # a)
              \/ q = m /\ o = c
    BY MoveSeats
  <1>2. UNCHANGED <<chainVars, coreVars, opens, emitted>>
    BY DEF Move
  <1>3. GoodSeat(p)
    BY <1>1 DEF LegInv, GoodSeats
  <1>4. /\ Root(m.id) = Root(p.id) /\ m.side = p.side
        /\ m.oracle = p.oracle /\ m.expiry = p.expiry
        /\ m.entry = p.entry /\ m.notional = p.notional
    BY <1>3, MovedSeat
  <1> HIDE DEF m
  <1>5. /\ \A w : BindsTwap(w, m) <=> BindsTwap(w, p)
        /\ \A w : PositionVm(m, w.rate) = PositionVm(p, w.rate)
    BY <1>4 DEF BindsTwap, PositionVm
  <1>6. ASSUME NEW r, Gone(posts, r), Wins(posts, r)
        PROVE  Gone(posts', r) /\ Wins(posts', r)
    <2>1. Gone(posts', r)
      BY <1>1, <1>4, <1>6 DEF Gone
    <2>2. ASSUME NEW o \in Owner, NEW q \in posts'[o], Root(q.id) = Root(r.id),
                 Root(r.id) \notin crossed
          PROVE  \E w \in prices : BindsTwap(w, q) /\ ~(PositionVm(q, w.rate) < 0)
      <3>1. CASE q \in posts[o]
        BY <1>6, <2>2, <3>1 DEF Wins
      <3>2. CASE q = m
        <4>1. Root(p.id) = Root(r.id)
          BY <1>4, <2>2, <3>2
        <4>2. PICK w \in prices : BindsTwap(w, p) /\ ~(PositionVm(p, w.rate) < 0)
          BY <1>1, <1>6, <2>2, <4>1 DEF Wins
        <4>3. BindsTwap(w, q) /\ PositionVm(q, w.rate) = PositionVm(p, w.rate)
          BY <1>5, <3>2, <4>2
        <4> QED BY <4>2, <4>3
      <3> QED BY <1>1, <3>1, <3>2
    <2> QED BY <2>1, <2>2 DEF Wins
  <1>7. \A r \in residuals \cup emitted : Gone(posts', r) /\ Wins(posts', r)
    BY <1>6 DEF ResidualInv
  <1> QED BY <1>2, <1>7 DEF ResidualInv, GoodResidual, Gone, Wins, chainVars, coreVars

LEMMA ResidualCommit == ASSUME LegInv, ResidualInv, Commit PROVE ResidualInv'
  <1>1. /\ book' = posts /\ posts' = posts /\ prices' = prices
        /\ residuals' = residuals \cup emitted /\ emitted' = {}
        /\ folded' = folded \cup opens /\ opens' = {} /\ crossed \subseteq crossed'
    BY DEF Commit, GoIdle, chainVars
  <1>2. ASSUME NEW t \in Trade, NEW side \in {1, -1},
               \A o \in Owner : \A q \in posts[o] : Root(q.id) = t => q.side # side
        PROVE  holder'[t][side] = holder[t][side]
    <2>1. Legs(posts, t, side) = {}
      BY <1>2, LegsOf
    <2> QED BY <2>1 DEF Commit
  <1>3. ASSUME NEW r \in residuals \cup emitted
        PROVE  /\ GoodResidual(r)' /\ Root(r.id) \in folded \cup opens
               /\ Gone(posts, r) /\ Wins(posts, r)'
    <2>1. /\ GoodResidual(r) /\ Root(r.id) \in folded \cup opens
          /\ Gone(posts, r) /\ Wins(posts, r)
      BY DEF ResidualInv
    <2>2. holder'[Root(r.id)][r.side] = holder[Root(r.id)][r.side]
      BY <1>2, <2>1 DEF GoodResidual, Gone
    <2>3. Wins(posts, r)'
      BY <1>1, <2>1 DEF Wins
    <2> QED BY <2>1, <2>2, <2>3 DEF GoodResidual
  <1>4. ASSUME NEW t \in Trade \ folded', NEW side \in {1, -1}
        PROVE  holder'[t][side] = Signer(t, side)
    <2>1. \A o \in Owner : \A q \in posts[o] : Root(q.id) # t
      BY <1>1 DEF LegInv, RootsIn
    <2>2. holder'[t][side] = holder[t][side]
      BY <1>2, <2>1
    <2>3. t \in Trade \ folded
      BY <1>1
    <2> QED BY <2>2, <2>3 DEF ResidualInv
  <1>5. \A r, s \in residuals' : Root(r.id) = Root(s.id) => r = s \/ Root(r.id) \in crossed'
    BY <1>1 DEF ResidualInv
  <1> QED BY <1>1, <1>3, <1>4, <1>5 DEF ResidualInv, Gone, Wins

LEMMA ResidualAbandon == ASSUME LegInv, ResidualInv, Abandon PROVE ResidualInv'
  <1>1. /\ UNCHANGED <<chainVars, coreVars>> /\ posts' = book /\ emitted' = {} /\ opens' = {}
    BY DEF Abandon, GoIdle
  <1> QED BY <1>1 DEF ResidualInv, GoodResidual, Gone, Wins, chainVars, coreVars

LEMMA ResidualNext == ASSUME LegInv, BalanceInv, ResidualInv, [Next]_vars PROVE ResidualInv'
  <1>1. CASE UNCHANGED <<coreVars, guestVars>> /\ prices \subseteq prices'
    <2>1. \A B, r : Wins(B, r) =>
             \A o \in Owner : \A q \in B[o] :
                Root(q.id) = Root(r.id) =>
                   \/ Root(r.id) \in crossed
                   \/ \E w \in prices' : BindsTwap(w, q) /\ ~(PositionVm(q, w.rate) < 0)
      BY <1>1 DEF Wins
    <2> QED BY <1>1, <2>1 DEF ResidualInv, GoodResidual, Gone, Wins, coreVars, guestVars
  <1>2. CASE UNCHANGED vars
    BY <1>1, <1>2 DEF vars, chainVars
  <1>3. CASE NextBlock
    BY <1>1, <1>3 DEF NextBlock
  <1>4. ASSUME NEW x \in Oracle, NEW time \in 0..MaxTime, NEW rate \in Rate,
               BindTwap(x, time, rate)
        PROVE  ResidualInv'
    BY <1>1, <1>4 DEF BindTwap
  <1>5. ASSUME NEW x \in Oracle, SetPaused(x) PROVE ResidualInv'
    BY <1>1, <1>5 DEF SetPaused
  <1>6. ASSUME NEW touch \in SUBSET Owner, NEW new \in SUBSET (Trade \ folded),
               Resolve(touch, new, {})
        PROVE  ResidualInv'
    <2>1. OneUnwind({})
      BY DEF OneUnwind
    <2> QED BY <1>6, <2>1, ResidualResolve
  <1>7. ASSUME NEW touch \in SUBSET Owner, NEW new \in SUBSET (Trade \ folded),
               NEW u \in Unwinds, Resolve(touch, new, {u})
        PROVE  ResidualInv'
    <2>1. OneUnwind({u})
      BY HandoffAssumption DEF OneUnwind, Unwinds
    <2> QED BY <1>7, <2>1, ResidualResolve
  <1>8. ASSUME NEW a \in Owner, NEW c \in Owner, NEW im \in MakerIm, NEW p \in posts[a],
               Novate(a, c, p, im) \/ CloseOut(a, c, p, im)
        PROVE  ResidualInv'
    <2>1. Move(a, c, p, im) /\ stage' # "idle"
      BY <1>8 DEF Novate, CloseOut
    <2> QED BY <2>1, ResidualMove
  <1> QED BY <1>2, <1>3, <1>4, <1>5, <1>6, <1>7, <1>8, ResidualCommit, ResidualAbandon DEF Next

LEMMA ResidualInit == Init => ResidualInv
  BY DEF Init, ResidualInv

LEMMA ResidualFollows == ASSUME ResidualInv PROVE ResidualOnce
  BY DEF ResidualInv, ResidualOnce, GoodResidual

\* A trade is paid off once, by the holder of the losing leg to the signer of
\* the other one, whoever holds that by then (resolve.rs, the loser's seat
\* emits; state_transition.rs, unwinds and settle prices).
THEOREM ResidualsAreSingle == Spec => []ResidualOnce
  <1>1. Init => LegInv /\ BalanceInv /\ ResidualInv
    BY LegInit, BalanceInit, ResidualInit
  <1>2. /\ LegInv /\ BalanceInv /\ ResidualInv /\ [Next]_vars
        => LegInv' /\ BalanceInv' /\ ResidualInv'
    BY LegNext, BalanceNext, ResidualNext
  <1>3. ResidualInv => ResidualOnce
    BY ResidualFollows
  <1> QED BY <1>1, <1>2, <1>3, PTL DEF Spec

-----------------------------------------------------------------------------
(* Unwinds take both seats. *)

LEMMA UnwindResolve ==
    ASSUME LegInv, BalanceInv,
           NEW touch \in SUBSET Owner, NEW new \in SUBSET (Trade \ folded),
           NEW tears, Resolve(touch, new, tears), NEW u \in tears,
           Root(u.id) \notin crossed, NEW s \in {1, -1}
    PROVE  (Legs(posts', Root(u.id), s) # {}) <=> (Terms[Root(u.id)].oracle \in paused)
  <1> DEFINE B == Opened(touch, new)
             rows == Rows(touch)
             in == EpochInputs(rows, new)
             retiring(o) == Retiring(rows, in, tears, o)
  <1>1. /\ \A t \in new : Parties(t) \subseteq touch
        /\ u.a \in touch /\ u.b \in touch /\ UnwindValid(rows, in, u)
    BY DEF Resolve
  <1>2. /\ \A o \in Owner : posts'[o] = B[o] \ (IF o \in touch THEN retiring(o) ELSE {})
        /\ \A o \in Owner : posts'[o] \subseteq B[o]
    BY ResolveLegs
  <1>3. GoodSeats(B) /\ Single(B)
    BY <1>1, OpenedLegs
  <1>4. \A o \in Owner : \A p \in B[o] : p.cp = o => Root(p.id) \in crossed
    BY <1>1, OpenedBalance
  <1>5. PICK p1 \in SeatsAfterOpens(rows, in, u.a) : p1.id = u.id /\ p1.cp = u.b
    BY <1>1 DEF UnwindValid
  <1>6. PICK p2 \in SeatsAfterOpens(rows, in, u.b) : p2.id = u.id /\ p2.cp = u.a
    BY <1>1 DEF UnwindValid
  <1>7. u.a \in Owner /\ u.b \in Owner /\ p1 \in B[u.a] /\ p2 \in B[u.b]
    BY <1>1 DEF Opened
  <1>8. ASSUME NEW o \in touch, NEW p \in B[o], p.id = u.id
        PROVE  p \in retiring(o) <=> p.oracle \notin paused
    BY <1>1, <1>8, RetiresWhen DEF BalanceInv
  <1> HIDE DEF B, rows, in, retiring
  <1>9. p1.side # p2.side
    <2> SUFFICES ASSUME p1.side = p2.side PROVE FALSE
      OBVIOUS
    <2>1. u.a = u.b
      BY <1>3, <1>5, <1>6, <1>7 DEF Single
    <2> QED BY <1>4, <1>5, <1>7, <2>1
  <1>10. /\ GoodSeat(p1) /\ GoodSeat(p2)
         /\ p1.side \in {1, -1} /\ p2.side \in {1, -1}
    BY <1>3, <1>7 DEF GoodSeats, GoodSeat
  <1>11. PICK x \in touch : \E p \in B[x] : p.id = u.id /\ p.side = s
    <2>1. p1.side = s \/ p2.side = s
      BY <1>9, <1>10
    <2> QED BY <1>1, <1>5, <1>6, <1>7, <2>1
  <1>12. PICK p \in B[x] : p.id = u.id /\ p.side = s
    BY <1>11
  <1>13. p.oracle = Terms[Root(u.id)].oracle
    <2>1. GoodSeat(p)
      BY <1>3 DEF GoodSeats
    <2> QED BY <1>12, <2>1, SeatFacts DEF Terms1
  <1>14. CASE p.oracle \in paused
    <2>1. p \in posts'[x]
      BY <1>2, <1>8, <1>12, <1>14
    <2>2. <<x, p>> \in Legs(posts', Root(u.id), s)
      BY <1>12, <2>1, LegsOf
    <2> QED BY <1>13, <1>14, <2>2
  <1>15. CASE p.oracle \notin paused
    <2>1. ASSUME NEW h \in Legs(posts', Root(u.id), s) PROVE FALSE
      <3>1. PICK o \in Owner : \E q \in posts'[o] :
               h = <<o, q>> /\ Root(q.id) = Root(u.id) /\ q.side = s
        BY <2>1, LegsOf
      <3>2. PICK q \in posts'[o] : Root(q.id) = Root(u.id) /\ q.side = s
        BY <3>1
      <3>3. o = x /\ q = p
        BY <1>2, <1>3, <1>12, <3>2 DEF Single
      <3> QED BY <1>2, <1>8, <1>12, <1>15, <3>2, <3>3
    <2> QED BY <1>13, <1>15, <2>1
  <1> QED BY <1>14, <1>15

\* An unwind takes both legs of its trade or neither, unless the trade has
\* crossed (state_transition.rs, unwind_entry_valid and its two endpoints;
\* resolve.rs, the pause hold).
THEOREM UnwindsTakeBoth == Spec => UnwindTakesBoth
  <1> DEFINE Step == stage = "idle" /\ stage' = "novations" =>
         \A u \in torn' :
            \/ Root(u.id) \in crossed
            \/ \A s \in {1, -1} :
                  (Legs(posts', Root(u.id), s) # {}) <=> (Terms[Root(u.id)].oracle \in paused)
  <1>1. ASSUME LegInv, BalanceInv, [Next]_vars PROVE Step
    <2> SUFFICES ASSUME stage = "idle", stage' = "novations", NEW u \in torn',
                        Root(u.id) \notin crossed, NEW s \in {1, -1}
                 PROVE  (Legs(posts', Root(u.id), s) # {})
                           <=> (Terms[Root(u.id)].oracle \in paused)
      OBVIOUS
    <2>1. PICK touch \in SUBSET Owner : \E new \in SUBSET (Trade \ folded) :
             \E tears : Resolve(touch, new, tears)
      BY <1>1 DEF Next, NextBlock, BindTwap, SetPaused, Novate, CloseOut, Commit, Abandon,
                  vars, guestVars
    <2>2. PICK new \in SUBSET (Trade \ folded) : \E tears : Resolve(touch, new, tears)
      BY <2>1
    <2>3. PICK tears : Resolve(touch, new, tears)
      BY <2>2
    <2>4. u \in tears
      BY <2>3 DEF Resolve
    <2> QED BY <1>1, <2>3, <2>4, UnwindResolve
  <1>2. Init => LegInv /\ BalanceInv
    BY LegInit, BalanceInit
  <1>3. LegInv /\ BalanceInv /\ [Next]_vars => LegInv' /\ BalanceInv'
    BY LegNext, BalanceNext
  <1> QED BY <1>1, <1>2, <1>3, PTL DEF Spec, UnwindTakesBoth

-----------------------------------------------------------------------------
(* Requirements. *)

\* Rows are written for the accounts of the epoch only, so it matters that no
\* other account has changed, and that a set which lapsed is still empty.
RequirementInv ==
    /\ RequirementsFollowBooks
    /\ \A o, c \in Owner : <<o, c>> \in lapsed => Facing(book[o], c) = {}
    /\ \A o \in Owner \ touched : posts[o] = book[o]

LEMMA NoDemand ==
    ASSUME NEW seats, NEW c, Facing(seats, c) = {} PROVE Demand(seats, c) = 0
  <1> DEFINE f == [p \in Facing(seats, c) |-> p.im]
  <1>1. Demand(seats, c) = SumFunctionOnSet(f, {})
    BY DEF Demand, SumFunction
  <1> QED BY <1>1, SumEmpty

LEMMA RequirementCommit ==
    ASSUME RequirementInv, Commit PROVE RequirementInv'
  <1>1. /\ book' = posts /\ posts' = posts /\ touched' = {}
        /\ required' = [o \in Owner |-> [c \in Owner |-> Requirement(o, c)]]
        /\ lapsed' = {h \in Owner \X Owner :
                        /\ Facing(posts[h[1]], h[2]) = {}
                        /\ ~Unwound(h[1], h[2])
                        /\ h \in lapsed \/ Facing(book[h[1]], h[2]) # {}}
    BY DEF Commit, GoIdle, Unwound
  <1>2. ASSUME NEW o \in Owner, NEW c \in Owner
        PROVE  \/ Requirement(o, c) = Demand(posts[o], c)
               \/ <<o, c>> \in lapsed'
    <2>1. CASE o \in touched /\ Facing(posts[o], c) # {}
      BY <2>1 DEF Requirement
    <2>2. CASE Unwound(o, c) /\ Facing(posts[o], c) = {}
      BY <2>2, NoDemand DEF Requirement
    <2>3. CASE o \notin touched /\ Facing(posts[o], c) # {}
      <3>1. posts[o] = book[o] /\ Requirement(o, c) = required[o][c]
        BY <2>3 DEF Requirement, RequirementInv
      <3>2. <<o, c>> \notin lapsed
        BY <2>3, <3>1 DEF RequirementInv
      <3> QED BY <3>1, <3>2 DEF RequirementInv, RequirementsFollowBooks
    <2>4. CASE ~Unwound(o, c) /\ Facing(posts[o], c) = {}
      <3>1. CASE <<o, c>> \in lapsed \/ Facing(book[o], c) # {}
        BY <1>1, <2>4, <3>1
      <3>2. CASE <<o, c>> \notin lapsed /\ Facing(book[o], c) = {}
        <4>1. required[o][c] = Demand(book[o], c)
          BY <3>2 DEF RequirementInv, RequirementsFollowBooks
        <4>2. Demand(book[o], c) = 0 /\ Demand(posts[o], c) = 0
          BY <2>4, <3>2, NoDemand
        <4>3. Requirement(o, c) = required[o][c]
          BY <2>4 DEF Requirement
        <4> QED BY <4>1, <4>2, <4>3
      <3> QED BY <3>1, <3>2
    <2> QED BY <2>1, <2>2, <2>3, <2>4
  <1>3. \A o, c \in Owner : required'[o][c] = Requirement(o, c)
    BY <1>1
  <1>4. \A o, c \in Owner : <<o, c>> \in lapsed' => Facing(posts[o], c) = {}
    BY <1>1
  <1>5. RequirementsFollowBooks'
    BY <1>1, <1>2, <1>3 DEF RequirementsFollowBooks, Demand, Facing
  <1> QED BY <1>1, <1>4, <1>5 DEF RequirementInv, Facing

LEMMA RequirementStep ==
    ASSUME LegInv, RequirementInv, [Next]_vars PROVE RequirementInv'
  <1>0. ASSUME UNCHANGED <<coreVars>>, \A o \in Owner \ touched' : posts'[o] = book[o]
        PROVE  RequirementInv'
    BY <1>0 DEF RequirementInv, RequirementsFollowBooks, Demand, Facing, coreVars
  <1>1. CASE UNCHANGED <<coreVars, guestVars>>
    BY <1>0, <1>1 DEF RequirementInv, guestVars
  <1>2. CASE \/ UNCHANGED vars \/ NextBlock \/ \E x \in Oracle : SetPaused(x)
             \/ \E x \in Oracle, time \in 0..MaxTime, rate \in Rate : BindTwap(x, time, rate)
    BY <1>1, <1>2 DEF vars, NextBlock, SetPaused, BindTwap
  <1>3. ASSUME NEW touch \in SUBSET Owner, NEW new, NEW tears, Resolve(touch, new, tears)
        PROVE  RequirementInv'
    <2>1. UNCHANGED coreVars /\ touched' = touch
      BY <1>3 DEF Resolve
    <2>2. \A o \in Owner \ touch : posts'[o] = book[o]
      BY <1>3, ResolveLegs DEF Opened
    <2> QED BY <1>0, <2>1, <2>2
  <1>4. ASSUME NEW a \in Owner, NEW c \in Owner, NEW p, NEW im, Move(a, c, p, im)
        PROVE  RequirementInv'
    <2>1. /\ UNCHANGED coreVars /\ touched' = touched /\ {a, c} \subseteq touched
          /\ posts' = [posts EXCEPT ![a] = @ \ {p}, ![c] = @ \cup {MovedPosition(p, a, c, im)}]
      BY <1>4 DEF Move
    <2>2. \A o \in Owner \ touched : posts'[o] = posts[o]
      BY <2>1 DEF LegInv
    <2> QED BY <1>0, <2>1, <2>2 DEF RequirementInv
  <1>5. CASE Abandon
    <2>1. UNCHANGED coreVars /\ posts' = book
      BY <1>5 DEF Abandon
    <2> QED BY <1>0, <2>1
  <1>6. CASE Commit
    BY <1>6, RequirementCommit
  <1> QED BY <1>2, <1>3, <1>4, <1>5, <1>6 DEF Next, Novate, CloseOut

LEMMA RequirementInit == ASSUME Init PROVE RequirementInv
  <1>1. /\ book = [o \in Owner |-> {}] /\ posts = book /\ lapsed = {}
        /\ required = [o \in Owner |-> [c \in Owner |-> 0]]
    BY DEF Init
  <1>2. ASSUME NEW o \in Owner, NEW c \in Owner
        PROVE  required[o][c] = Demand(book[o], c)
    <2>1. Facing(book[o], c) = {}
      BY <1>1 DEF Facing
    <2> QED BY <1>1, <2>1, NoDemand
  <1> QED BY <1>1, <1>2 DEF RequirementInv, RequirementsFollowBooks

\* The requirement that the core holds for a netting set is what its seats ask
\* for, however they were opened, handed on and retired; the only stale ones are
\* of sets that something other than an unwind has emptied (state_transition.rs,
\* the zero rows).
THEOREM RequirementsFollowBooksAlways == Spec => []RequirementsFollowBooks
  <1>1. Init => LegInv /\ RequirementInv
    BY LegInit, RequirementInit
  <1>2. LegInv /\ RequirementInv /\ [Next]_vars => LegInv' /\ RequirementInv'
    BY LegNext, RequirementStep
  <1>3. RequirementInv => RequirementsFollowBooks
    BY DEF RequirementInv
  <1> QED BY <1>1, <1>2, <1>3, PTL DEF Spec

-----------------------------------------------------------------------------
(* Types. *)

Records(B) == \A o \in Owner : \A p \in B[o] : IsRecord(p)

\* A seat is a record as soon as its id and its IM are typed: its trade says the
\* rest.
LEMMA SeatIsTyped ==
    ASSUME NEW p, GoodSeat(p)
    PROVE  IsRecord(p) <=> IsId(p.id) /\ p.im \in Nat
  <1> DEFINE t == Root(p.id)
             q == [p EXCEPT !.id = t]
  <1>1. p = [id |-> p.id, cp |-> p.cp, oracle |-> p.oracle, notional |-> p.notional,
             entry |-> p.entry, side |-> p.side, expiry |-> p.expiry, im |-> p.im]
    BY DEF GoodSeat, LegSeat
  <1>2. q = [id |-> t, cp |-> p.cp, oracle |-> p.oracle, notional |-> p.notional,
             entry |-> p.entry, side |-> p.side, expiry |-> p.expiry, im |-> p.im]
    BY <1>1
  <1>3. /\ t \in Trade /\ p.cp \in Owner /\ p.side \in {1, -1}
        /\ p.oracle = Terms[t].oracle /\ p.expiry = Terms[t].expiry
        /\ p.entry = Terms[t].entry
        /\ p.notional = GrossNotional(Terms[t].quantity, Terms[t].entry)
    BY SeatFacts DEF GoodSeat, Terms1
  <1> HIDE DEF t, q
  <1>4. /\ p.oracle \in Oracle /\ p.expiry \in Nat /\ p.entry \in Nat /\ p.notional \in Nat
    BY <1>3, GrossIsNat, EngineAssumption
  <1>5. q \in PositionRecord <=> p.im \in Nat
    BY <1>2, <1>3, <1>4 DEF PositionRecord
  <1> QED BY <1>5 DEF IsRecord, q, t

LEMMA TradeIsId == ASSUME NEW t \in Trade PROVE IsId(t)
  <1>1. t \in Seq({t[1]}) /\ Len(t) = 1 /\ Root(t) = t /\ t \in Seq(Owner \cup {t[1]})
    BY HandoffAssumption, RootOfTrade
  <1>2. MaxHandoffs[t] \in Nat
    BY HandoffAssumption
  <1> QED BY <1>1, <1>2 DEF IsId

\* A handoff lengthens the id by one party, up to the bound.
LEMMA MovedIsId ==
    ASSUME NEW id, IsId(id), NEW c \in Owner, Len(id) <= MaxHandoffs[Root(id)]
    PROVE  IsId(Append(id, c))
  <1> DEFINE S == Owner \cup {id[1]}
             new == Append(id, c)
  <1>1. /\ id \in Seq(S) /\ c \in S /\ Root(id) \in Trade
        /\ Len(id) \in 1..(MaxHandoffs[Root(id)] + 1)
        /\ \A i \in 2..Len(id) : id[i] \in Owner
    BY DEF IsId
  <1>2. MaxHandoffs[Root(id)] \in Nat
    BY <1>1, HandoffAssumption
  <1> HIDE DEF S
  <1>3. Len(id) \in Nat /\ Len(new) = Len(id) + 1 /\ new \in Seq(S)
    BY <1>1
  <1>4. \A i \in 1..Len(id) : new[i] = id[i]
    BY <1>1
  <1>5. new[Len(id) + 1] = c
    BY <1>1
  <1>6. new[1] = id[1]
    BY <1>1, <1>3, <1>4
  <1> HIDE DEF new
  <1>7. Root(new) = Root(id)
    BY <1>6 DEF Root
  <1>8. \A i \in 2..Len(new) : new[i] \in Owner
    <2> SUFFICES ASSUME NEW i \in 2..Len(new) PROVE new[i] \in Owner
      OBVIOUS
    <2>1. i \in 2..Len(id) \/ i = Len(id) + 1
      BY <1>3
    <2>2. i \in 2..Len(id) => new[i] = id[i]
      BY <1>3, <1>4
    <2> QED BY <1>1, <1>5, <2>1, <2>2
  <1>9. Len(new) \in 1..(MaxHandoffs[Root(new)] + 1)
    BY <1>2, <1>3, <1>7
  <1>10. new \in Seq(Owner \cup {new[1]})
    BY <1>3, <1>6 DEF S
  <1>11. IsId(new)
    BY <1>1, <1>7, <1>8, <1>9, <1>10 DEF IsId
  <1> QED BY <1>11 DEF new

\* The holder of a leg has finitely many seats, each asking for a natural number.
LEMMA DemandIsNat ==
    ASSUME NEW B, GoodSeats(B), Single(B), Records(B), NEW o \in Owner, NEW c
    PROVE  Demand(B[o], c) \in Nat
  <1> DEFINE leg == [p \in B[o] |-> <<Root(p.id), p.side>>]
             f == [p \in Facing(B[o], c) |-> p.im]
  <1>1. leg \in Injection(B[o], Trade \X {1, -1})
    <2>1. \A p \in B[o] : Root(p.id) \in Trade /\ p.side \in {1, -1}
      BY DEF GoodSeats, GoodSeat
    <2>2. \A p, q \in B[o] : Root(p.id) = Root(q.id) /\ p.side = q.side => p = q
      BY DEF Single
    <2> QED BY <2>1, <2>2 DEF Injection, IsInjective
  <1>2. IsFiniteSet(Trade \X {1, -1})
    <2>1. IsFiniteSet({1}) /\ IsFiniteSet({1} \cup {-1})
      BY FS_Singleton, FS_AddElement
    <2>2. {1, -1} = {1} \cup {-1}
      OBVIOUS
    <2>3. IsFiniteSet({1, -1})
      BY <2>1, <2>2
    <2> QED BY <2>3, EngineAssumption, FS_Product
  <1>3. IsFiniteSet(B[o])
    <2> HIDE DEF leg
    <2> QED BY <1>1, <1>2, FS_Injection
  <1>4. Facing(B[o], c) \in SUBSET B[o] /\ IsFiniteSet(Facing(B[o], c))
    <2>1. Facing(B[o], c) \in SUBSET B[o]
      BY DEF Facing
    <2> QED BY <1>3, <2>1, FS_Subset
  <1>5. \A p \in Facing(B[o], c) : f[p] \in Nat
    <2>1. \A p \in B[o] : p.im \in Nat
      BY SeatIsTyped DEF GoodSeats, Records
    <2> QED BY <1>4, <2>1
  <1>6. Demand(B[o], c) = SumFunctionOnSet(f, Facing(B[o], c))
    BY DEF Demand, SumFunction
  <1> HIDE DEF f
  <1> QED BY <1>4, <1>5, <1>6, SumIsNat

LEMMA OpenedRecords ==
    ASSUME LegInv, Records(book),
           NEW touch \in SUBSET Owner, NEW new \in SUBSET (Trade \ folded),
           \A t \in new : Parties(t) \subseteq touch
    PROVE  Records(Opened(touch, new))
  <1> SUFFICES ASSUME NEW o \in Owner, NEW p \in Opened(touch, new)[o] PROVE IsRecord(p)
    BY DEF Records
  <1>1. new \in SUBSET Trade
    OBVIOUS
  <1>2. CASE p \in book[o]
    BY <1>2 DEF Records
  <1>3. CASE p \notin book[o]
    <2>1. Entered(touch, new, o, p)
      BY <1>1, <1>3, OldOrNew
    <2>2. PICK t \in new : Terms[t].a # Terms[t].b /\ o \in Parties(t) /\ p = Seat(t, o)
      BY <2>1 DEF Entered
    <2>3. GoodSeat(p) /\ p.id = t /\ t \in Trade
      BY <2>2, NewSeat, SeatIsLegSeat
    <2>4. p.im \in Nat
      BY <2>2, <2>3, SeatIsRecord DEF PositionRecord
    <2> QED BY <2>3, <2>4, TradeIsId, SeatIsTyped
  <1> QED BY <1>2, <1>3

\* The type invariant by what changes it.
ChainOK ==
    /\ now \in 0..MaxTime /\ prices \subseteq PriceRecord
    /\ paused \subseteq Oracle /\ pauses \in 0..MaxPauses

CoreOK ==
    /\ folded \subseteq Trade /\ Records(book)
    /\ required \in [Owner -> [Owner -> Nat]]
    /\ holder \in [Trade -> [{1, -1} -> Owner]]
    /\ \A r \in residuals : IsResidual(r)
    /\ crossed \subseteq Trade /\ lapsed \subseteq Owner \X Owner

GuestOK ==
    /\ stage \in {"idle", "novations", "closeouts"}
    /\ touched \subseteq Owner /\ opens \subseteq Trade \ folded
    /\ \A u \in torn : IsId(u.id) /\ u.a \in Owner /\ u.b \in Owner
    /\ Records(posts) /\ \A r \in emitted : IsResidual(r)

LEMMA TypeParts == TypeOK <=> ChainOK /\ CoreOK /\ GuestOK
  BY DEF TypeOK, ChainOK, CoreOK, GuestOK, Records

LEMMA TypeInit == ASSUME Init PROVE TypeOK
  <1>1. now \in 0..MaxTime /\ pauses \in 0..MaxPauses
    BY HandoffAssumption DEF Init
  <1>2. \A t \in Trade, side \in {1, -1} : Signer(t, side) \in Owner
    BY EngineAssumption DEF Signer
  <1>3. holder \in [Trade -> [{1, -1} -> Owner]]
    BY <1>2 DEF Init
  <1>4. required \in [Owner -> [Owner -> Nat]]
    BY DEF Init
  <1> QED BY <1>1, <1>3, <1>4 DEF Init, TypeOK

LEMMA TypeResolve ==
    ASSUME LegInv, CoreOK,
           NEW touch \in SUBSET Owner, NEW new \in SUBSET (Trade \ folded),
           NEW tears \in SUBSET Unwinds, Resolve(touch, new, tears)
    PROVE  GuestOK'
  <1> DEFINE B == Opened(touch, new)
  <1>1. /\ stage' = "novations" /\ touched' = touch /\ opens' = new /\ torn' = tears
        /\ folded' = folded /\ \A t \in new : Parties(t) \subseteq touch
    BY DEF Resolve, coreVars
  <1>2. GoodSeats(B) /\ Records(B)
    BY <1>1, OpenedLegs, OpenedRecords DEF CoreOK
  <1>3. \A o \in Owner : posts'[o] \subseteq B[o]
    BY ResolveLegs
  <1>4. Records(posts')
    BY <1>2, <1>3 DEF Records
  <1>5. ASSUME NEW r \in emitted' PROVE IsResidual(r)
    <2>1. PICK o \in touch : \E p : EmittedBy(r, touch, new, tears, o, p)
      BY Emission
    <2>2. PICK p : EmittedBy(r, touch, new, tears, o, p)
      BY <2>1
    <2>3. /\ o \in Owner /\ p \in B[o]
          /\ r.id = p.id /\ r.payer = o /\ r.payee = p.cp /\ r.side = p.side
      BY <2>2 DEF EmittedBy
    <2>4. GoodSeat(p) /\ IsId(p.id)
      BY <1>2, <2>3, SeatIsTyped DEF GoodSeats, Records
    <2>5. p.cp \in Owner /\ p.side \in {1, -1}
      BY <2>4, SeatFacts DEF GoodSeat
    <2> QED BY <2>3, <2>4, <2>5 DEF IsResidual
  <1>6. ASSUME NEW u \in tears PROVE IsId(u.id) /\ u.a \in Owner /\ u.b \in Owner
    <2>1. PICK o \in Owner : \E p \in book[o] : u.id = p.id
      BY DEF Unwinds
    <2>2. \A p \in book[o] : IsId(p.id)
      BY SeatIsTyped DEF LegInv, GoodSeats, CoreOK, Records
    <2>3. u.a \in Owner /\ u.b \in Owner
      BY DEF Unwinds
    <2> QED BY <2>1, <2>2, <2>3
  <1> QED BY <1>1, <1>4, <1>5, <1>6 DEF GuestOK

LEMMA TypeMove ==
    ASSUME LegInv, GuestOK, NEW a \in Owner, NEW c \in Owner, NEW im \in MakerIm, NEW p,
           Move(a, c, p, im)
    PROVE  Records(posts')
  <1> DEFINE m == MovedPosition(p, a, c, im)
  <1>0. p \in posts[a] /\ Len(p.id) <= MaxHandoffs[Root(p.id)]
    BY DEF Move
  <1>1. \A o \in Owner : \A q \in posts'[o] : q \in posts[o] \/ q = m
    BY MoveSeats
  <1>2. GoodSeat(p) /\ IsId(p.id)
    BY <1>0, SeatIsTyped DEF LegInv, GoodSeats, GuestOK, Records
  <1>3. GoodSeat(m)
    BY <1>2, MovedSeat
  <1>4. m.id = Append(p.id, c) /\ m.im = im
    BY DEF MovedPosition
  <1>5. im \in Nat
    BY HandoffAssumption
  <1> HIDE DEF m
  <1>6. IsRecord(m)
    BY <1>0, <1>2, <1>3, <1>4, <1>5, MovedIsId, SeatIsTyped
  <1> QED BY <1>1, <1>6 DEF GuestOK, Records

LEMMA TypeCommit ==
    ASSUME LegInv, CoreOK, GuestOK, Commit PROVE CoreOK' /\ GuestOK'
  <1>1. /\ book' = posts /\ posts' = posts /\ folded' = folded \cup opens
        /\ residuals' = residuals \cup emitted
        /\ stage' = "idle" /\ touched' = {} /\ opens' = {} /\ torn' = {} /\ emitted' = {}
        /\ required' = [o \in Owner |-> [c \in Owner |-> Requirement(o, c)]]
        /\ crossed' \subseteq Trade /\ lapsed' \subseteq Owner \X Owner
    BY DEF Commit, GoIdle, CoreOK
  <1>2. ASSUME NEW o \in Owner, NEW c \in Owner PROVE Requirement(o, c) \in Nat
    <2>1. Demand(posts[o], c) \in Nat
      BY DemandIsNat DEF LegInv, GuestOK
    <2>2. required[o][c] \in Nat
      BY DEF CoreOK
    <2> QED BY <2>1, <2>2 DEF Requirement
  <1>3. required' \in [Owner -> [Owner -> Nat]]
    BY <1>1, <1>2
  <1>4. ASSUME NEW t \in Trade, NEW side \in {1, -1}
        PROVE  (IF Legs(posts, t, side) = {} THEN holder[t][side]
                ELSE (CHOOSE h \in Legs(posts, t, side) : TRUE)[1]) \in Owner
    <2>1. holder[t][side] \in Owner
      BY DEF CoreOK
    <2>2. \A h \in Legs(posts, t, side) : h[1] \in Owner
      BY LegsOf
    <2> QED BY <2>1, <2>2
  <1>5. holder' \in [Trade -> [{1, -1} -> Owner]]
    BY <1>4 DEF Commit
  <1>6. folded' \subseteq Trade /\ \A r \in residuals' : IsResidual(r)
    BY <1>1 DEF CoreOK, GuestOK
  <1>7. Records(book') /\ Records(posts')
    BY <1>1 DEF GuestOK
  <1> QED BY <1>1, <1>3, <1>5, <1>6, <1>7 DEF CoreOK, GuestOK

LEMMA TypeStep == ASSUME LegInv, TypeOK, [Next]_vars PROVE TypeOK'
  <1>1. ChainOK /\ CoreOK /\ GuestOK
    BY TypeParts
  <1>2. SUFFICES ChainOK' /\ CoreOK' /\ GuestOK'
    BY TypeParts, PTL
  <1>3. ASSUME UNCHANGED chainVars PROVE ChainOK'
    BY <1>1, <1>3 DEF ChainOK, chainVars
  <1>4. ASSUME UNCHANGED coreVars PROVE CoreOK'
    BY <1>1, <1>4 DEF CoreOK, coreVars, Records
  <1>5. ASSUME UNCHANGED <<coreVars, guestVars>> PROVE CoreOK' /\ GuestOK'
    BY <1>1, <1>4, <1>5 DEF GuestOK, guestVars, coreVars, Records
  <1>6. CASE UNCHANGED vars
    BY <1>3, <1>5, <1>6 DEF vars
  <1>7. CASE NextBlock
    <2>1. ChainOK'
      BY <1>1, <1>7, HandoffAssumption DEF NextBlock, ChainOK
    <2> QED BY <1>5, <1>7, <2>1 DEF NextBlock
  <1>8. ASSUME NEW x \in Oracle, NEW time \in 0..MaxTime, NEW rate \in Rate,
               BindTwap(x, time, rate)
        PROVE  ChainOK' /\ CoreOK' /\ GuestOK'
    <2>1. [oracle |-> x, time |-> time, rate |-> rate] \in PriceRecord
      BY HandoffAssumption DEF PriceRecord
    <2>2. ChainOK'
      BY <1>1, <1>8, <2>1 DEF BindTwap, ChainOK
    <2> QED BY <1>5, <1>8, <2>2 DEF BindTwap
  <1>9. ASSUME NEW x \in Oracle, SetPaused(x) PROVE ChainOK' /\ CoreOK' /\ GuestOK'
    <2>1. ChainOK'
      BY <1>1, <1>9, HandoffAssumption DEF SetPaused, ChainOK
    <2> QED BY <1>5, <1>9, <2>1 DEF SetPaused
  <1>10. ASSUME NEW touch \in SUBSET Owner, NEW new \in SUBSET (Trade \ folded),
                NEW tears \in SUBSET Unwinds, Resolve(touch, new, tears)
         PROVE  ChainOK' /\ CoreOK' /\ GuestOK'
    <2>1. UNCHANGED chainVars /\ UNCHANGED coreVars
      BY <1>10 DEF Resolve
    <2> QED BY <1>1, <1>3, <1>4, <1>10, <2>1, TypeResolve
  <1>11. ASSUME NEW a \in Owner, NEW c \in Owner, NEW im \in MakerIm, NEW p \in posts[a],
                Novate(a, c, p, im) \/ CloseOut(a, c, p, im)
         PROVE  ChainOK' /\ CoreOK' /\ GuestOK'
    <2>1. Move(a, c, p, im) /\ stage' \in {"novations", "closeouts"}
      BY <1>11 DEF Novate, CloseOut
    <2>2. UNCHANGED <<chainVars, coreVars, touched, opens, torn, emitted>>
      BY <2>1 DEF Move
    <2>3. Records(posts')
      BY <1>1, <2>1, TypeMove
    <2>4. folded' = folded
      BY <2>2 DEF coreVars
    <2>5. GuestOK'
      BY <1>1, <2>1, <2>2, <2>3, <2>4 DEF GuestOK
    <2> QED BY <1>3, <1>4, <2>2, <2>5
  <1>12. CASE Commit
    <2>1. UNCHANGED chainVars
      BY <1>12 DEF Commit
    <2> QED BY <1>1, <1>3, <1>12, <2>1, TypeCommit
  <1>13. CASE Abandon
    <2>1. /\ UNCHANGED chainVars /\ UNCHANGED coreVars /\ posts' = book
          /\ stage' = "idle" /\ touched' = {} /\ opens' = {} /\ torn' = {} /\ emitted' = {}
      BY <1>13 DEF Abandon, GoIdle
    <2>2. GuestOK'
      BY <1>1, <2>1 DEF CoreOK, GuestOK
    <2> QED BY <1>3, <1>4, <2>1, <2>2
  <1>14. ASSUME NEW touch \in SUBSET Owner, NEW new \in SUBSET (Trade \ folded),
                Resolve(touch, new, {}) \/ \E u \in Unwinds : Resolve(touch, new, {u})
         PROVE  ChainOK' /\ CoreOK' /\ GuestOK'
    <2>1. PICK tears \in SUBSET Unwinds : Resolve(touch, new, tears)
      BY <1>14
    <2> QED BY <1>10, <2>1
  <1> QED BY <1>6, <1>7, <1>8, <1>9, <1>11, <1>12, <1>13, <1>14 DEF Next

\* Every variable keeps its type: however a seat is handed on, its id is a trade
\* and parties, and requirements are natural numbers.
THEOREM HandoffTypes == Spec => []TypeOK
  <1>1. Init => LegInv /\ TypeOK
    BY LegInit, TypeInit
  <1>2. LegInv /\ TypeOK /\ [Next]_vars => LegInv' /\ TypeOK'
    BY LegNext, TypeStep
  <1> QED BY <1>1, <1>2, PTL DEF Spec
=============================================================================
