SPECIFICATION FairPipeSpec
CONSTANTS
    s1 = s1
    s2 = s2
    main = main
    None = None
    Protocols = {1, 2}
    Slots = {s1}
    RunOf <- MCRunOf
    MainRun = main
    DryRuns = {FALSE}
    MaxConcurrent = 1
    MaxProposals = 2
    MaxPlans = 2
    Wallets <- MCFunded
    Shapes <- MCOneShape
    Unreliable = {}
    Risky = {1}
    MaxRuns = 1
    MaxMain = 0
    Shared <- MCOwn
    MaxOthers = 0
    MaxCrashes = 0
PROPERTIES LockedLoopsUnwind
CHECK_DEADLOCK FALSE
