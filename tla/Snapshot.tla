------------------------------ MODULE Snapshot ------------------------------
(***************************************************************************)
(* What a scan of the chain promises: a reader asks, the core goes on, and *)
(* the answer, if there is one, is what the core held at the moment of the *)
(* question.  Keeper!Scan takes this for granted; module History shows     *)
(* that the paged scan of scan.rs implements it.                           *)
(***************************************************************************)
CONSTANTS
    Start,      \* the core when it is deployed
    View(_),    \* what a reader is told of a state of the core
    NoAnswer,   \* the reader has no answer (yet)
    Refused     \* the reader cannot make sense of the core's history

VARIABLES
    core,       \* the state of the core; it moves as it likes
    taken,      \* the state at the last question
    answer      \* the answer to it

Init == core = Start /\ taken = Start /\ answer = NoAnswer

Move == UNCHANGED <<taken, answer>>

Ask ==
    /\ taken' = core
    /\ answer' = NoAnswer
    /\ UNCHANGED core

Tell ==
    /\ answer = NoAnswer
    /\ answer' \in {View(taken), Refused}
    /\ UNCHANGED <<core, taken>>

Next == Move \/ Ask \/ Tell

Spec == Init /\ [][Next]_<<core, taken, answer>>
=============================================================================
