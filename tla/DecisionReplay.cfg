SPECIFICATION DecSpec
CONSTANTS
    t1 = t1
    t2 = t2
    navi = navi
    naviV2 = naviV2
    old = old
    new = new
    k1 = k1
    k2 = k2
    NoAgent = NoAgent
    NoReceipt = NoReceipt
    NoAdapter = NoAdapter
    Treasuries = {t1}
    Protocols <- MCProtocols
    Adapters <- MCAdapters2
    Home <- MCHome2
    Closing = {navi}
    Terms <- MCTerms
    Amounts = {1}
    MaxU64 = 15
    MaxNow = 1
    MaxInflow = 2
    MaxMinted = 0
    MaxBrought = 0
    Images = {old, new}
    Keys <- MCKeys
    ImageOf <- MCImageOf
    MaxVersion = 1
    Intents <- MCIntents1
    Bindings <- MCBindings2
INVARIANTS DecTypeOK OneReleasePerNonce CurrentObjectsAttested CurrentReleasesAttested
PROPERTY ImplementsTreasury
CHECK_DEADLOCK FALSE
