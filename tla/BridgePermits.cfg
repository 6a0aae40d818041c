CONSTANTS
    usdc = usdc  weth = weth  podUsd = podUsd  podEth = podEth
    alice = alice  bob = bob  relayer = relayer  admin = admin  pauser = pauser
    newBridge = newBridge  market = market
    BridgeAddress = BridgeAddress  NoAddress = NoAddress
    Tokens = {usdc}
    MirrorTokens = {podUsd}
    Accounts = {alice, bob, BridgeAddress}
    Spenders = {BridgeAddress}
    CallContracts = {}
    Callers = {alice}
    Holders = {alice}
    Admins = {admin}
    Pausers = {}
    Relayers = {relayer}
    Minters = {alice}
    TokenPausers = {pauser}
    TokenAdmins = {admin}
    MaxUint = 100
    InitialLedger <- PermitLedger
    Versions = {1}
    InitialValidators = {1}
    InitialResilience = 0
    InitialVersion = 1
    Amounts = {1, 2}
    Reserves = {0}
    DepositBatches <- PermitBatches
    ClaimBatches = {}
    Configurations <- PermitConfigs
    ValidatorLists = {}
    Resiliences = {}
    MerkleRoots = {}
    NewContracts = {}
    Day = 2
    MaxTime = 0
    MaxDeposits = 2
    MaxNonce = 2
    MaxSupply = 6
SPECIFICATION BridgeSpec
PROPERTIES
    TokenPauseFreezes
    FrontRunTolerated
CHECK_DEADLOCK FALSE
