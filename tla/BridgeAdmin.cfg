CONSTANTS
    usdc = usdc  weth = weth  podUsd = podUsd  podEth = podEth
    alice = alice  bob = bob  relayer = relayer  admin = admin  pauser = pauser
    newBridge = newBridge  market = market
    BridgeAddress = BridgeAddress  NoAddress = NoAddress
    Tokens = {usdc}
    MirrorTokens = {podUsd, podEth}
    Accounts = {alice, BridgeAddress, newBridge}
    Spenders = {BridgeAddress}
    CallContracts = {market}
    Callers = {alice}
    Holders = {}
    Admins = {admin}
    Pausers = {pauser}
    Relayers = {relayer}
    Minters = {}
    TokenPausers = {}
    TokenAdmins = {}
    MaxUint = 100
    InitialLedger <- AdminLedger
    Versions = {1, 2}
    InitialValidators = {1, 2}
    InitialResilience = 1
    InitialVersion = 1
    Amounts = {1, 2}
    Reserves = {0, 2}
    DepositBatches <- AdminBatches
    ClaimBatches <- AdminClaims
    Configurations <- AdminConfigs
    ValidatorLists <- AdminLists
    Resiliences = {1, 2}
    MerkleRoots <- AdminRoots
    NewContracts = {newBridge}
    Day = 2
    MaxTime = 0
    MaxDeposits = 2
    MaxNonce = 0
    MaxSupply = 8
SPECIFICATION BridgeSpec
INVARIANTS
    ValidatorCountExact
    PaidOnce
    ReserveCovered
PROPERTIES
    MirrorFixed
    StoppedHolds
    MigrationFinal
CHECK_DEADLOCK FALSE
