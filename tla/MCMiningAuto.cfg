CONSTANTS
    c1 = c1
    c2 = c2
    Wallet = Wallet
    Foreign = Foreign
    NoAddr = NoAddr
    Callers <- MCCallers
    Addresses <- MCAddresses
    LocalAccounts <- MCLocalAccounts
    ChainConfigs <- MCChainConfigs
    PowModes <- MCPowModes
    MaxSpawned = 1
SPECIFICATION Spec
PROPERTY AutoConfigFillsOnlyUnset
