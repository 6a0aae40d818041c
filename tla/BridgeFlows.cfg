CONSTANTS
    usdc = usdc  weth = weth  podUsd = podUsd  podEth = podEth
    alice = alice  bob = bob  relayer = relayer  admin = admin  pauser = pauser
    newBridge = newBridge  market = market
    BridgeAddress = BridgeAddress  NoAddress = NoAddress
    Tokens = {usdc}
    MirrorTokens = {podUsd}
    Accounts = {alice, bob, BridgeAddress}
    Spenders = {BridgeAddress}
    CallContracts = {}
    Callers = {alice, bob}
    Holders = {}
    Admins = {admin}
    Pausers = {}
    Relayers = {relayer}
    Minters = {}
    TokenPausers = {}
    TokenAdmins = {}
    MaxUint = 100
    InitialLedger <- FlowLedger
    Versions = {1}
    InitialValidators = {1}
    InitialResilience = 0
    InitialVersion = 1
    Amounts = {1, 3}
    Reserves = {0}
    DepositBatches <- FlowBatches
    ClaimBatches <- FlowClaims
    Configurations <- FlowConfigs
    ValidatorLists = {}
    Resiliences = {}
    MerkleRoots = {}
    NewContracts = {}
    Day = 2
    MaxTime = 3
    MaxDeposits = 3
    MaxNonce = 0
    MaxSupply = 8
SPECIFICATION BridgeSpec
INVARIANTS
    BridgeTypeOK
    DepositIdsDense
PROPERTIES
    EventsFunded
    DepositsRateLimited
    ClaimsRateLimited
CHECK_DEADLOCK FALSE
