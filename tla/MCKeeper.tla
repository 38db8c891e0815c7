------------------------------ MODULE MCKeeper ------------------------------
(***************************************************************************)
(* A small lane for TLC.  A tree is the set of live trades and the price   *)
(* they are marked at.  "close" settles every trade that was live before   *)
(* the epoch, so the tree can return to a value it had.                    *)
(***************************************************************************)
EXTENDS Keeper, TLC

MCTree == [live : SUBSET OpenId, vm : Price \cup {NoPrice}]

MCEmpty == [live |-> {}, vm |-> NoPrice]

\* The host rejects opens whose expiry (Late) has come.
Late == 1

MCPredict(t, in) ==
    LET closes == in.price = "close" /\ ~in.paused
        live == (IF in.now < Late THEN in.opens ELSE {})
                  \cup (IF closes THEN {} ELSE t.live)
    IN  [live |-> live,
         vm |-> IF live = {} \/ closes THEN NoPrice
                ELSE IF in.price = "mark" THEN "mark" ELSE t.vm]

\* A guest that panics on the first open while a mark is fresh, and disagrees
\* with the host on another class of inputs, so that both refusals of the free
\* gate are taken.
MCExecute(t, in) ==
    IF t.live = {} /\ in.opens # {} /\ in.price = "mark" THEN NoTree
    ELSE IF in.opens # {} /\ in.price = "close" THEN MCEmpty
    ELSE MCPredict(t, in)

\* The replay bails on an epoch that rejected an open, and holds or settles by
\* the pause it reads from the events.  (That it also bails on settlements is left
\* out here, so that keepers get to see a tree that came back.)
MCReplay(t, in, before) ==
    IF in.opens # {} /\ in.now >= Late THEN NoTree
    ELSE MCPredict(t, [in EXCEPT !.paused = before])

MCHolds(t, in) == in.paused /\ in.price = "close" /\ t.live # {}

\* Both parties unwind a trade before its expiry.
MCForeign(t) == {[t EXCEPT !.live = @ \ {o}] : o \in t.live}

MCRegistry(t) == t.live

Symmetric == Permutations(Keeper) \cup Permutations(OpenId)
=============================================================================
