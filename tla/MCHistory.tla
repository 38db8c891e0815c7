------------------------------ MODULE MCHistory ------------------------------
(***************************************************************************)
(* A short chain for TLC.  Prices of one feed, the newest negative; opens  *)
(* whose call is not in the calldata, is alone, comes after the one of     *)
(* another trade, or has one with other signatures in front or behind.     *)
(***************************************************************************)
EXTENDS History

Plain(o) == [id |-> o, verified |-> TRUE]
Other(o) == [id |-> o, verified |-> FALSE]

MCCalldata == {<<>>, <<Plain("o2"), Plain("o1")>>, <<Other("o1"), Plain("o1")>>,
               <<Plain("o1"), Other("o1")>>, <<Plain("o3")>>}

MCPrice == {[feed |-> "x", time |-> 1, rate |-> 1],
            [feed |-> "x", time |-> 2, rate |-> 2],
            [feed |-> "x", time |-> 3, rate |-> -1]}
=============================================================================
