SPECIFICATION Spec
CONSTANTS
    navi = navi
    scallop = scallop
    NoAgent = NoAgent
    NoReceipt = NoReceipt
    Treasuries = {t1, t2}
    Protocols <- MCProtocols
    Adapters <- MCAdapters
    Home <- MCHome
    Closing <- MCClosing
    Terms <- MCTermsShort
    Amounts = {1}
    MaxU64 = 15
    MaxNow = 0
    MaxInflow = 1
    MaxMinted = 1
    MaxBrought = 1
INVARIANTS TypeOK Conservation
SYMMETRY Symmetry
CHECK_DEADLOCK FALSE
