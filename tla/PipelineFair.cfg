SPECIFICATION FairPipeSpec
CONSTANTS
    s1 = s1
    s2 = s2
    main = main
    None = None
    Protocols = {1, 2}
    Slots = {s1}
    RunOf <- MCRunOf
    MainRun = main
    DryRuns = {FALSE}
    MaxConcurrent = 1
    MaxProposals = 1
    MaxPlans = 2
    Wallets <- MCFunded
    Shapes <- MCOneShape
    Unreliable = {2}
    Risky = {1}
    MaxRuns = 2
    MaxMain = 0
    Shared <- MCOwn
    MaxOthers = 0
    MaxCrashes = 1
INVARIANTS PipeTypeOK
PROPERTIES OpenPlansClose
CHECK_DEADLOCK FALSE
