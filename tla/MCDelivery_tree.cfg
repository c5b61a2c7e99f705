\* Every pass over every tree.
SPECIFICATION DeliverySpec
CONSTANTS
    NameOrder <- MCNameOrder
    MaxHops = 8
    Trees <- MCTrees
    Source <- MCSource
    Output <- MCOutput
    Configs <- MCConfigs
    Wrapped <- MCWrapped
    Discarded = {"l.a"}
    OpenSSL = {"openssl"}
CHECK_DEADLOCK FALSE
INVARIANTS
    DeliveryTypeOK
    NoStoreInTextOrHeaders
    UnpackedAsPacked
    InstalledAsPacked
    ListedUnlessLinksCycle
PROPERTIES
    CopyKeepsPrograms
    PruneIsAllAtOnce
