CONSTANTS
    ckb = ckb
    Assets = {ckb}
    Flows <- MCFlows
    Amounts = {4, 9}
    Unlimited = 9
    Coins = {1, 2}
    Window = 2
    Margin = 1
    Skews <- MCSkews
    MaxEntries = 2
    MaxTxs = 3
    MaxTime = 3
    MaxChanges = 1
    MaxOutside = 1
    None = None
    Sources <- MCSources
    Targets <- MCTargets
    MaxCells = 2
    FeeCap = 1
    FundingFee = 2
    Exempt = 1
SPECIFICATION Spec
INVARIANTS
    DailyAmountHolds
    PlanStands
    OneChain
    AskedInFull
    SignedIsCounted
CHECK_DEADLOCK FALSE
