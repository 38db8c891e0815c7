\* The tree leaves a root and comes back to it while keepers rebase, fail and
\* start again with a transaction in the mempool.
CONSTANTS
    OpenId = {o1}
    Price = {"close"}
    NoPrice = NoPrice
    NoTree = NoTree
    Tree <- MCTree
    EmptyTree <- MCEmpty
    Predict <- MCPredict
    Execute <- MCExecute
    Replay <- MCReplay
    Holds <- MCHolds
    Registry <- MCRegistry
    Foreign <- MCForeign
    MAX_PROOF_STALENESS = 0
    MaxTime = 1
    MaxPauses = 0
    MaxBinds = 2
    MaxRotations = 0
    MaxForeign = 1
    Keeper = {k1, k2}
    Auditor = {}
    Unfit = {}
    MAX_REBASE = 2
    MaxFaults = 1
SPECIFICATION Spec
SYMMETRY Symmetric
INVARIANTS TypeOK TreeIsReplay RetriesAreRaces StaleOpensMeanReturn OpenMarksMatchEvents
PROPERTIES ImplementsLane GaveUpMeansOvertaken DriftMeansReturn
