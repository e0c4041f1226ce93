SPECIFICATION PipeSpec
CONSTANTS
    s1 = s1
    s2 = s2
    main = main
    None = None
    Protocols = {1, 2}
    Slots = {s1, s2}
    RunOf <- MCRunOf
    MainRun = main
    DryRuns = {TRUE, FALSE}
    MaxConcurrent = 1
    MaxProposals = 2
    MaxPlans = 2
    Wallets <- MCWallets
    Shapes <- MCTwoShapes
    Unreliable = {2}
    Risky = {}
    MaxRuns = 1
    MaxMain = 1
    Shared <- MCDebtShared
    MaxOthers = 1
    MaxCrashes = 0
INVARIANTS OneOpenPlan NoDuplicateLegs OneReceiptPerPlan LoopsAreBacked DecidedOnce
CHECK_DEADLOCK FALSE
