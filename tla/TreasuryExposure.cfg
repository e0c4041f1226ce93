SPECIFICATION Spec
CONSTANTS
    navi = navi
    scallop = scallop
    NoAgent = NoAgent
    NoReceipt = NoReceipt
    Treasuries = {t1}
    Protocols <- MCProtocols1
    Adapters <- MCAdapters1
    Home <- MCHome1
    Closing <- MCAdapters1
    Terms <- MCTermsMixed
    Amounts = {1, 2}
    MaxU64 = 15
    MaxNow = 5
    MaxInflow = 4
    MaxMinted = 0
    MaxBrought = 0
INVARIANTS SpentIsWindowTotal TwoWindowsPerSpan LifetimeExposure
PROPERTIES MandateEndsForGood ImplementsVault
CHECK_DEADLOCK FALSE
