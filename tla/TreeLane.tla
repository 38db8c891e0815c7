------------------------------ MODULE TreeLane ------------------------------
(***************************************************************************)
(* What a lane promises to the parties of its trades, with no keeper, no   *)
(* proof and no transaction in sight: the committed tree moves by whole    *)
(* epochs.  An epoch starts from the tree that is committed, takes some    *)
(* bound trades that no epoch took before and at most one bound price, and *)
(* commits what the engine computes from them (its pause and its clock are *)
(* free here), or it hands seats around and takes no trade.                *)
(***************************************************************************)
CONSTANTS OpenId, Price, NoPrice, Inputs, EmptyTree, Predict(_, _), Foreign(_)

VARIABLES
    tree,       \* the committed tree
    bound,      \* trades both parties have bound
    folded,     \* trades an epoch has taken
    prices      \* prices bound so far

laneVars == <<tree, bound, folded, prices>>

Init == tree = EmptyTree /\ bound = {} /\ folded = {} /\ prices = {}

Bind(o) ==
    /\ o \notin bound
    /\ bound' = bound \cup {o}
    /\ UNCHANGED <<tree, folded, prices>>

BindPrice(p) ==
    /\ prices' = prices \cup {p}
    /\ UNCHANGED <<tree, bound, folded>>

\* One epoch, atomically.
Advance(in) ==
    /\ in.opens \subseteq bound \ folded
    /\ in.price \in prices \cup {NoPrice}
    /\ tree' = Predict(tree, in)
    /\ tree' # tree
    /\ folded' = folded \cup in.opens
    /\ UNCHANGED <<bound, prices>>

\* One epoch of novations, closeouts and unwinds.
HandOver ==
    /\ tree' \in Foreign(tree) \ {tree}
    /\ UNCHANGED <<bound, folded, prices>>

Next ==
    \/ \E o \in OpenId : Bind(o)
    \/ \E p \in Price : BindPrice(p)
    \/ \E in \in Inputs : Advance(in)
    \/ HandOver

Spec == Init /\ [][Next]_laneVars
=============================================================================
