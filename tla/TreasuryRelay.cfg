SPECIFICATION RelaySpec
CONSTANTS
    c1 = c1
    c2 = c2
    Aborted = Aborted
    Uncapped = Uncapped
    UtilScale = 10000
    Tolerance = 500
    LAMBDA_ITERATIONS = 18
    X_ITERATIONS = 5
    IntentLife = 1
    Millis = 2
    MaxU64 = 100
    MaxClock = 4
    MaxOwner = 1
    Calls <- MCCalls
    Deployments <- MCDeployments
INVARIANTS
    RelayTypeOK
    LegsWithinBudget
    CapsUpToRounding
    NoBetterSplit
    NoDustBesideAnother
    OneBudgetOnce
    SubmittedMeansReleased
PROPERTIES
    AbortsForAReason
    BudgetIsHonoured
SYMMETRY MCSymmetry
CHECK_DEADLOCK FALSE
