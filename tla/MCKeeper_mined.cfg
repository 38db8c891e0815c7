\* "already known" is reported as Mined before the transaction is.
CONSTANTS
    OpenId = {o1}
    Price = {"mark"}
    NoPrice = NoPrice
    NoTree = NoTree
    Tree <- MCTree
    EmptyTree <- MCEmpty
    Predict <- MCPredict
    Execute <- MCExecute
    Replay <- MCReplay
    Holds <- MCHolds
    Registry <- MCRegistry
    Foreign <- MCForeign
    MAX_PROOF_STALENESS = 0
    MaxTime = 0
    MaxPauses = 0
    MaxBinds = 1
    MaxRotations = 0
    MaxForeign = 0
    Keeper = {k1, k2}
    Auditor = {}
    Unfit = {}
    MAX_REBASE = 2
    MaxFaults = 0
SPECIFICATION Spec
INVARIANTS MinedSucceeds
