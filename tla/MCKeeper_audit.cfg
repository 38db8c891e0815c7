\* An auditor rebuilds while a keeper races for two trades with the transactions
\* that its own earlier invocations left in the mempool.
CONSTANTS
    OpenId = {o1, o2}
    Price = {"close"}
    NoPrice = NoPrice
    NoTree = NoTree
    Tree <- MCTree
    EmptyTree <- MCEmpty
    Predict <- MCPredict
    Execute <- MCExecute
    Replay <- MCReplay
    Holds <- MCHolds
    Registry <- MCRegistry
    Foreign <- MCForeign
    MAX_PROOF_STALENESS = 1
    MaxTime = 2
    MaxPauses = 2
    MaxBinds = 1
    MaxRotations = 1
    MaxForeign = 0
    Keeper = {k1}
    Auditor = {a1}
    Unfit = {o2}
    MAX_REBASE = 2
    MaxFaults = 1
SPECIFICATION Spec
PROPERTIES AlarmMeansOvertaken ProofsAreLostToChange
