SPECIFICATION Spec
CONSTANTS
    Sepolia = Sepolia
    Mainnet = Mainnet
    Accounts = {alice}
    Contacts = {bob}
    None = None
    MaxOpen = 2
INVARIANTS
    Acknowledged
    RpcServesPool
PROPERTY
    SavesWhereConnected
CHECK_DEADLOCK FALSE
