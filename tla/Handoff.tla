------------------------------- MODULE Handoff -------------------------------
(***************************************************************************)
(* Handoffs and unwinds (crxvm handoff.rs, unwind.rs and their loops in    *)
(* state_transition.rs).  The keepers of this repository make no such rows *)
(* and do not replay them; other provers do, and the guest proves them.    *)
(*                                                                         *)
(* A handoff gives the seat of A in a trade to C, under a new id; B, whom  *)
(* the seat faces, is not touched.  The new id is the hash of the old one  *)
(* and of C: an id is the sequence of a trade and of the parties that its  *)
(* seat was handed to.  An unwind tears up a trade at a price that both    *)
(* parties have signed.                                                    *)
(*                                                                         *)
(* An epoch is made in steps, as the loops of the guest make it: resolve,  *)
(* any number of novations, any number of closeouts, commit.  Nothing else *)
(* happens meanwhile; races between epochs are the subject of Keeper.      *)
(*                                                                         *)
(* Abstractions.  Consents are choices: who signs what is up to the        *)
(* parties.  Marks, and with them the VM, are left out (see Lane), and so  *)
(* is the cash of a handoff itself, which is one computation on its        *)
(* witness.  A requirement is its floor, the IM pushed by the seats of a   *)
(* netting set.  All trades are bound from the beginning.                  *)
(***************************************************************************)
EXTENDS Engine, Sequences

CONSTANTS
    Rate,           \* prices a TWAP may have
    Quote,          \* prices that the parties of an unwind may sign
    MakerIm,        \* IM that a maker may sign for the seat it takes
    CLOSEOUT_NOVATION_MARK_MAX_AGE_SECS,
    MaxTime,        \* bound: clock values
    MaxPrices,      \* bound: bound TWAPs
    MaxPauses,      \* bound: pause changes
    MaxHandoffs     \* bound, per trade: handoffs of one seat

ASSUME HandoffAssumption ==
    /\ \A t \in Trade : t \in Seq({t[1]}) /\ Len(t) = 1
    /\ Rate \subseteq Nat /\ Quote \subseteq Nat /\ MakerIm \subseteq Nat
    /\ CLOSEOUT_NOVATION_MARK_MAX_AGE_SECS \in Nat
    /\ MaxTime \in Nat /\ MaxPrices \in Nat /\ MaxPauses \in Nat
    /\ MaxHandoffs \in [Trade -> Nat]

VARIABLES
    now,            \* block time
    prices,         \* TwapBound events
    paused,         \* pairs paused now
    pauses,         \* pause changes so far
    folded,         \* ids that landed folds surfaced
    book,           \* the seats of each party
    required,       \* imRequired of the core
    stage,          \* the loop the guest is in, or "idle"
    touched,        \* the accounts of the epoch
    opens,          \* the opens it consumes
    torn,           \* its unwinds
    posts,          \* the seats after the steps made so far
    emitted,        \* the residuals it emits
    holder,         \* history: who has held each leg of a trade last
    residuals,      \* history: all residuals that landed
    crossed,        \* history: trades with a seat handed to the party it faces
    lapsed          \* history: netting sets emptied, but not by an unwind

chainVars == <<now, prices, paused, pauses>>
coreVars == <<folded, book, required, holder, residuals, crossed, lapsed>>
guestVars == <<stage, touched, opens, torn, posts, emitted>>
vars == <<chainVars, coreVars, guestVars>>

Root(id) == <<id[1]>>

Unwinds == [id : {p.id : p \in UNION {book[o] : o \in Owner}},
            a : Owner, b : Owner, price : Quote]

\* The party that has signed a leg.
Signer(t, side) == IF side = Terms[t].side THEN Terms[t].a ELSE Terms[t].b

Init ==
    /\ now = 0 /\ prices = {} /\ paused = {} /\ pauses = 0
    /\ folded = {} /\ book = [o \in Owner |-> {}]
    /\ required = [o \in Owner |-> [c \in Owner |-> 0]]
    /\ stage = "idle" /\ touched = {} /\ opens = {} /\ torn = {}
    /\ posts = book /\ emitted = {}
    /\ holder = [t \in Trade |-> [s \in {1, -1} |-> Signer(t, s)]]
    /\ residuals = {} /\ crossed = {} /\ lapsed = {}

-----------------------------------------------------------------------------
(* The chain between epochs. *)

NextBlock ==
    /\ stage = "idle" /\ now < MaxTime
    /\ now' = now + 1
    /\ UNCHANGED <<prices, paused, pauses, coreVars, guestVars>>

\* boundTwap is written once per feed and close time, after that time.
BindTwap(x, time, rate) ==
    /\ stage = "idle" /\ Cardinality(prices) < MaxPrices
    /\ time <= now
    /\ ~\E w \in prices : w.oracle = x /\ w.time = time
    /\ prices' = prices \cup {[oracle |-> x, time |-> time, rate |-> rate]}
    /\ UNCHANGED <<now, paused, pauses, coreVars, guestVars>>

SetPaused(x) ==
    /\ stage = "idle" /\ pauses < MaxPauses
    /\ pauses' = pauses + 1
    /\ paused' = IF x \in paused THEN paused \ {x} ELSE paused \cup {x}
    /\ UNCHANGED <<now, prices, coreVars, guestVars>>

-----------------------------------------------------------------------------
(* The epoch: valves, opens, unwinds, resolve. *)

\* The rows of the accounts in touch, without marks.
Rows(touch) ==
    [o \in Owner |-> [vm |-> 0, positions |-> IF o \in touch THEN book[o] ELSE {}]]

DueTwaps(rows) ==
    {w \in prices : \E o \in Owner : \E p \in rows[o].positions : BindsTwap(w, p)}

EpochInputs(rows, new) ==
    [opens |-> new, marks |-> {}, twaps |-> [w \in DueTwaps(rows) |-> 1],
     paused |-> paused, now |-> now]

\* Every position set that is touched must have unique ids.
DuplicateId(rows) ==
    \E o \in Owner : \E p, q \in rows[o].positions : p # q /\ p.id = q.id

\* Mutant: the mirror seat need not be there.
UnwindHalfValid(rows, in, u) ==
    \E p \in SeatsAfterOpens(rows, in, u.a) : p.id = u.id /\ p.cp = u.b

\* unwind_entry_valid and the two endpoints: A holds the id and faces B, and B
\* holds it and faces A.
UnwindValid(rows, in, u) ==
    /\ \E p \in SeatsAfterOpens(rows, in, u.a) : p.id = u.id /\ p.cp = u.b
    /\ \E q \in SeatsAfterOpens(rows, in, u.b) : q.id = u.id /\ q.cp = u.a

\* Seats that retire: named by a settle price or by an unwind, and not held by
\* a pause.
Retiring(rows, in, tears, o) ==
    Settling(rows, in, o)
      \cup {p \in SeatsAfterOpens(rows, in, o) :
              p.oracle \notin in.paused /\ \E u \in tears : u.id = p.id}

\* The first signal counts: a settle price comes before a signed close.
ClosePrice(rows, in, tears, o, p) ==
    LET binding == {w \in TwapsOf(rows, in, o) : BindsTwap(w, p)}
    IN  IF binding # {} THEN (CHOOSE w \in binding : TRUE).rate
        ELSE (CHOOSE u \in tears : u.id = p.id).price

\* Mutant: both seats emit.
ResidualsOfBoth(rows, in, tears, o) ==
    LET realized(p) == PositionVm(p, ClosePrice(rows, in, tears, o, p))
    IN  {[id |-> p.id, payer |-> o, payee |-> p.cp, side |-> p.side] :
           p \in {q \in Retiring(rows, in, tears, o) : realized(q) # 0}}

\* The loser's seat emits.
Residuals(rows, in, tears, o) ==
    LET realized(p) == PositionVm(p, ClosePrice(rows, in, tears, o, p))
    IN  {[id |-> p.id, payer |-> o, payee |-> p.cp, side |-> p.side] :
           p \in {q \in Retiring(rows, in, tears, o) : realized(q) < 0}}

Resolve(touch, new, tears) ==
    LET rows == Rows(touch)
        in == EpochInputs(rows, new)
    IN  /\ stage = "idle"
        /\ \A t \in new : Parties(t) \subseteq touch
        /\ ~GuestPanics(rows, in) /\ ~DuplicateId(rows)
        /\ \A u \in tears : {u.a, u.b} \subseteq touch /\ UnwindValid(rows, in, u)
        /\ stage' = "novations"
        /\ touched' = touch /\ opens' = new /\ torn' = tears
        /\ posts' = [o \in Owner |->
                       IF o \in touch
                       THEN SeatsAfterOpens(rows, in, o) \ Retiring(rows, in, tears, o)
                       ELSE book[o]]
        /\ emitted' = UNION {Residuals(rows, in, tears, o) : o \in touch}
        /\ UNCHANGED <<chainVars, coreVars>>

-----------------------------------------------------------------------------
(* The epoch: handoffs. *)

\* Mutants: the id is hashed the wrong way round; the seat turns to face the
\* party it comes from.
MovedSwapped(p, a, c, im) == [p EXCEPT !.id = <<c>> \o @, !.im = im]
MovedFacing(p, a, c, im) ==
    [p EXCEPT !.id = Append(@, c), !.cp = a, !.im = im]

\* The terms of A's seat, verbatim, under the new id and with C's IM.
MovedPosition(p, a, c, im) ==
    [id |-> Append(p.id, c), cp |-> p.cp, oracle |-> p.oracle,
     notional |-> p.notional, entry |-> p.entry, side |-> p.side,
     expiry |-> p.expiry, im |-> im]

\* apply_handoff_move.
Move(a, c, p, im) ==
    /\ a # c /\ {a, c} \subseteq touched
    /\ p \in posts[a]
    /\ \A q \in posts[a] : q.id = p.id => q = p
    /\ Len(p.id) <= MaxHandoffs[Root(p.id)]
    /\ posts' = [posts EXCEPT ![a] = @ \ {p},
                              ![c] = @ \cup {MovedPosition(p, a, c, im)}]
    /\ UNCHANGED <<chainVars, coreVars, touched, opens, torn, emitted>>

\* C has signed the transfer; an entry of the forced kind needs no signature
\* (handoff.rs).  Both kinds move the same seat in the same way.
Novate(a, c, p, im) ==
    /\ stage = "novations"
    /\ Move(a, c, p, im)
    /\ UNCHANGED stage

\* A is in default.  Its seat must be the one of the signed terms, the first
\* party's, under its first id, and a fresh price must be bound for the pair.
CloseOut(a, c, p, im) ==
    /\ stage \in {"novations", "closeouts"}
    /\ p.id \in Trade /\ a = Terms[p.id].a /\ p = Seat(p.id, a)
    /\ im > 0
    /\ \E w \in prices :
          w.oracle = p.oracle /\ now - w.time <= CLOSEOUT_NOVATION_MARK_MAX_AGE_SECS
    /\ Move(a, c, p, im)
    /\ stage' = "closeouts"

-----------------------------------------------------------------------------
(* The epoch lands. *)

Facing(seats, c) == {p \in seats : p.cp = c}

Demand(seats, c) == SumFunction([p \in Facing(seats, c) |-> p.im])

\* Mutant: a zero row for one direction only.
UnwoundOneWay(o, c) == \E u \in torn : <<u.a, u.b>> = <<o, c>>

Unwound(o, c) == \E u \in torn : {u.a, u.b} = {o, c}

\* Rows for the netting sets of touched accounts that have seats, and zero rows
\* for those that an unwind has emptied.  The core overwrites what has a row.
Requirement(o, c) ==
    IF o \in touched /\ Facing(posts[o], c) # {} THEN Demand(posts[o], c)
    ELSE IF Unwound(o, c) /\ Facing(posts[o], c) = {} THEN 0
    ELSE required[o][c]

Legs(seats, t, side) ==
    {h \in UNION {{o} \X seats[o] : o \in Owner} :
       Root(h[2].id) = t /\ h[2].side = side}

GoIdle ==
    /\ stage' = "idle" /\ touched' = {} /\ opens' = {} /\ torn' = {}
    /\ emitted' = {}

Commit ==
    /\ stage # "idle"
    /\ book' = posts
    /\ folded' = folded \cup opens
    /\ required' = [o \in Owner |-> [c \in Owner |-> Requirement(o, c)]]
    /\ holder' = [t \in Trade |-> [s \in {1, -1} |->
                    IF Legs(posts, t, s) = {} THEN holder[t][s]
                    ELSE (CHOOSE h \in Legs(posts, t, s) : TRUE)[1]]]
    /\ residuals' = residuals \cup emitted
    /\ crossed' = crossed \cup
          {t \in Trade : \E o \in Owner : \E p \in posts[o] : Root(p.id) = t /\ p.cp = o}
    /\ lapsed' = {h \in Owner \X Owner :
                    /\ Facing(posts[h[1]], h[2]) = {}
                    /\ ~\E u \in torn : {u.a, u.b} = {h[1], h[2]}
                    /\ h \in lapsed \/ Facing(book[h[1]], h[2]) # {}}
    /\ GoIdle
    /\ UNCHANGED <<chainVars, posts>>

\* The guest panics at a later row, or the proof is not used.
Abandon ==
    /\ stage # "idle"
    /\ posts' = book
    /\ GoIdle
    /\ UNCHANGED <<chainVars, coreVars>>

Next ==
    \/ NextBlock
    \/ \E x \in Oracle, time \in 0..MaxTime, rate \in Rate : BindTwap(x, time, rate)
    \/ \E x \in Oracle : SetPaused(x)
    \/ \E touch \in SUBSET Owner, new \in SUBSET (Trade \ folded) :
          \/ Resolve(touch, new, {})
          \/ \E u \in Unwinds : Resolve(touch, new, {u})
    \/ \E a, c \in Owner, im \in MakerIm : \E p \in posts[a] :
          Novate(a, c, p, im) \/ CloseOut(a, c, p, im)
    \/ Commit \/ Abandon

Spec == Init /\ [][Next]_vars

-----------------------------------------------------------------------------
(* Safety. *)

IsId(id) ==
    /\ id \in Seq(Owner \cup {id[1]}) /\ Root(id) \in Trade
    /\ Len(id) \in 1..(MaxHandoffs[Root(id)] + 1)
    /\ \A i \in 2..Len(id) : id[i] \in Owner

IsRecord(p) == IsId(p.id) /\ [p EXCEPT !.id = Root(p.id)] \in PositionRecord

IsResidual(r) ==
    /\ IsId(r.id) /\ r.payer \in Owner /\ r.payee \in Owner /\ r.side \in {1, -1}

TypeOK ==
    /\ now \in 0..MaxTime /\ prices \subseteq PriceRecord
    /\ paused \subseteq Oracle /\ pauses \in 0..MaxPauses
    /\ folded \subseteq Trade /\ opens \subseteq Trade \ folded
    /\ stage \in {"idle", "novations", "closeouts"}
    /\ touched \subseteq Owner
    /\ \A o \in Owner : \A p \in book[o] \cup posts[o] : IsRecord(p)
    /\ \A u \in torn : IsId(u.id) /\ u.a \in Owner /\ u.b \in Owner
    /\ \A r \in residuals \cup emitted : IsResidual(r)
    /\ required \in [Owner -> [Owner -> Nat]]
    /\ holder \in [Trade -> [{1, -1} -> Owner]]
    /\ crossed \subseteq Trade /\ lapsed \subseteq Owner \X Owner

\* Every seat is a leg of a signed trade, on the terms of that trade, and each
\* leg has one seat only, however it was handed around.
LegsAreSingle ==
    \A o \in Owner : \A p \in book[o] :
       LET t == Root(p.id)
       IN  /\ o = holder[t][p.side]
           /\ \A field \in {"cp", "oracle", "notional", "entry", "expiry"} :
                p[field] = Seat(t, Signer(t, p.side))[field]
           /\ Legs(book, t, p.side) = {<<o, p>>}

\* Matched principal: a leg is live as long as the other one is, or until it
\* settles at the price the other one has settled at.  A trade in which a party
\* was handed the seat that faces it is the exception: that party can unwind
\* the one with itself.
LegsBalance ==
    \A o \in Owner : \A p \in book[o] :
       \/ Legs(book, Root(p.id), -p.side) # {}
       \/ \E w \in prices : BindsTwap(w, p)
       \/ Root(p.id) \in crossed

\* A trade is paid off once, by the party that holds the losing leg, to the
\* party that has signed the other leg, be it still in the trade or not.
ResidualOnce ==
    /\ \A r, s \in residuals : Root(r.id) = Root(s.id) => r = s \/ Root(r.id) \in crossed
    /\ \A r \in residuals :
          /\ r.payer = holder[Root(r.id)][r.side]
          /\ r.payee = Signer(Root(r.id), -r.side)

\* An unwind takes both legs of its trade or, when the pair is paused, leaves
\* both, whatever became of the trade before and in the same epoch.  Again a
\* trade is excepted in which a party was handed the seat that faces it: that
\* party can unwind the one seat with itself, and the other leg stays.
UnwindTakesBoth ==
    [][stage = "idle" /\ stage' = "novations" =>
         \A u \in torn' :
            \/ Root(u.id) \in crossed
            \/ \A s \in {1, -1} :
                  (Legs(posts', Root(u.id), s) # {}) <=> (Terms[Root(u.id)].oracle \in paused)]_vars

\* The requirement of a netting set is the one of its seats; only a set that
\* was emptied by something other than an unwind keeps an old one.
RequirementsFollowBooks ==
    \A o, c \in Owner :
       required[o][c] = Demand(book[o], c) \/ <<o, c>> \in lapsed

-----------------------------------------------------------------------------
(* What the code says of itself and does not keep (see the README). *)

\* "(loser out = gross, winner in = gross)".
WinnerIsPaid ==
    \A r \in residuals :
       r.payee = holder[Root(r.id)][-r.side] \/ Root(r.id) \in crossed
=============================================================================
