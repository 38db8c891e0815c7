\* Trades handed around, unwound and settled.
CONSTANTS
    Owner = {"p", "q", "r"}
    Desk = {}
    Oracle = {"x"}
    Trade <- MCTrade
    Terms <- MCTerms
    MARK_MAX_AGE_SECS = 1
    PRICE_SCALE = 1
    BPS_DENOM = 10
    Panic = Panic
    Rate = {4}
    Quote = {1}
    MakerIm = {2}
    CLOSEOUT_NOVATION_MARK_MAX_AGE_SECS = 1
    MaxTime = 1
    MaxPrices = 2
    MaxPauses = 1
    MaxHandoffs <- MCMaxHandoffs
SPECIFICATION Spec
INVARIANTS TypeOK LegsAreSingle LegsBalance ResidualOnce RequirementsFollowBooks
PROPERTIES UnwindTakesBoth
