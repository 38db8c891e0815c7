------------------------------- MODULE MCLane -------------------------------
(***************************************************************************)
(* A lane of three parties for TLC: trades that share a party, on one pair *)
(* or on two.                                                              *)
(***************************************************************************)
EXTENDS Lane, TLC

TermsOf(a, b, oracle, side, expiry) ==
    [a |-> a, b |-> b, oracle |-> oracle, side |-> side, quantity |-> 3,
     entry |-> 2, expiry |-> expiry, imBpsA |-> 1, imBpsB |-> 1]

\* One trade of p, and one that falls due later, on another pair or on the same.
MCTerms ==
    "t1" :> TermsOf("p", "q", "x", 1, 1) @@ "t2" :> TermsOf("r", "p", "y", -1, 3)
      @@ "t3" :> TermsOf("r", "p", "x", -1, 3)

\* Two trades of p with different parties on one pair.
MCOnePair ==
    "t1" :> TermsOf("p", "q", "x", 1, 1) @@ "t2" :> TermsOf("r", "p", "x", -1, 3)

\* The same, and nothing ever falls due.
MCFarExpiry ==
    "t1" :> TermsOf("p", "q", "x", 1, 9) @@ "t2" :> TermsOf("r", "p", "x", -1, 9)
=============================================================================
