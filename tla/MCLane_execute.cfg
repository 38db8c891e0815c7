\* A first open cannot be folded while marks are fresh.
CONSTANTS
    Owner = {"p", "q", "r"}
    Desk = {}
    Oracle = {"x"}
    Trade = {"t1", "t2"}
    Terms <- MCFarExpiry
    MARK_MAX_AGE_SECS = 1
    PRICE_SCALE = 1
    BPS_DENOM = 10
    Panic = Panic
    Rate = {1, 4}
    NoFold = NoFold
    MAX_PROOF_STALENESS = 1
    MaxTime = 2
    MaxPrices = 1
    MaxPauses = 0
    MaxOpens = 2
SPECIFICATION Spec
INVARIANTS PredictionExecutes
