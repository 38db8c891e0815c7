\* Scans in pages of two blocks while blocks are added.  The data of o2 is
\* short, the rate of o3 is oversize.
CONSTANTS
    OpenId = {"o1", "o2", "o3"}
    Short = {"o2"}
    Oversize = {"o3"}
    Calldata <- MCCalldata
    Instrument = {"ndf"}
    Pair = {"x"}
    Price <- MCPrice
    NoAnswer = NoAnswer
    Refused = Refused
    DeployBlock = 1
    LOG_CHUNK = 2
    MaxBlocks = 3
    MaxEvents = 3
SPECIFICATION Spec
INVARIANTS ScanTypeOK RefusalsAreForGood
PROPERTIES ReadsSnapshot
