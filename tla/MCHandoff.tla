----------------------------- MODULE MCHandoff -----------------------------
(***************************************************************************)
(* Three parties and two trades on one pair for TLC: one that falls due    *)
(* and is handed around, and one that does neither, between the same two.  *)
(***************************************************************************)
EXTENDS Handoff, TLC

TermsOf(a, b, side, expiry) ==
    [a |-> a, b |-> b, oracle |-> "x", side |-> side, quantity |-> 2,
     entry |-> 2, expiry |-> expiry, imBpsA |-> 1, imBpsB |-> 1]

MCTerms ==
    <<"t">> :> TermsOf("p", "q", 1, 1) @@ <<"u">> :> TermsOf("q", "p", 1, 9)

MCTrade == DOMAIN MCTerms

MCMaxHandoffs == <<"t">> :> 2 @@ <<"u">> :> 0
=============================================================================
