\* Two of three trades, on two pairs or on one, marked, paused and settled.
CONSTANTS
    Owner = {"p", "q", "r"}
    Desk = {}
    Oracle = {"x", "y"}
    Trade = {"t1", "t2", "t3"}
    Terms <- MCTerms
    MARK_MAX_AGE_SECS = 1
    PRICE_SCALE = 1
    BPS_DENOM = 10
    Panic = Panic
    Rate = {1, 4}
    NoFold = NoFold
    MAX_PROOF_STALENESS = 1
    MaxTime = 3
    MaxPrices = 3
    MaxPauses = 1
    MaxOpens = 2
SPECIFICATION Spec
INVARIANTS TypeOK BooksMatched PaidOnce PaidMeansRetired VmIsShares VmZeroSum
PROPERTIES ReplayFailsOnlyFor
