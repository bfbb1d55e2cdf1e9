CONSTANTS
    OldCfg = OldCfg
    NewCfg = NewCfg
    None = None
    Malformed = Malformed
    p1 = p1
    p2 = p2
    c1 = c1
    Configs <- MCConfigs
    Fork = 2
    MaxHeight = 3
    ProtocolVersions = {1, 2}
    Peers = {p1, p2}
    Callers = {c1}
    Capability <- MCCapability
    BlockNumbers <- MCBlockNumbers
    Hashes <- MCHashes
    Decoys <- MCDecoys
    UintWidth = 3
SPECIFICATION FairSpec
INVARIANT TypeOK
INVARIANT HeadersObeyStoredConfig
INVARIANT NoLiveComponentOnClosedDb
INVARIANT RetrievedIsRequested
PROPERTY ImplementsChainStore
PROPERTY SucceedsUnlessExhausted
PROPERTY CallReturns
