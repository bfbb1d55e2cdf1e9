SPECIFICATION Spec
CONSTANTS
    OldCfg = OldCfg
    NewCfg = NewCfg
    None = None
    Configs <- MCConfigs
    PeerCounts <- MCPeerCounts
    Fork = 2
    MaxHeight = 3
    BlockChainVersion = 3
    ExtraDatas = {0, 32, 33}
    DefaultExtra = 26
    MaximumExtraDataSize = 32
SYMMETRY ConfigSymmetry
INVARIANT TypeOK
INVARIANT ChainObeysStoredConfig
INVARIANT NoLiveComponentOnClosedDb
PROPERTY ImplementsChainStore
