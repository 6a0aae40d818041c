CONSTANTS
    usdc = usdc  podUsd = podUsd  alice = alice
    admin = admin  newBridge = newBridge
    BridgeAddress = BridgeAddress  NoAddress = NoAddress
    Tokens = {usdc}
    MirrorTokens = {podUsd}
    Accounts = {alice, BridgeAddress, newBridge}
    Spenders = {BridgeAddress}
    CallContracts = {}
    Callers = {alice}
    Holders = {}
    Admins = {admin}
    Pausers = {}
    Relayers = {alice}
    Minters = {}
    TokenPausers = {}
    TokenAdmins = {}
    MaxUint = 100
    InitialLedger <- MCLedger
    Versions = {1, 2, 3, 4, 5}
    Validators = {1, 2, 3, 4}
    Byzantine = {3}
    InitialValidators = {1, 2, 3}
    InitialResilience = 1
    InitialVersion = 1
    Amounts = {1}
    Reserves = {0}
    DepositBatches <- MCBatches
    ClaimBatches = {}
    Configurations <- MCConfigs
    ValidatorLists <- Rotations
    Resiliences = {1}
    MerkleRoots = {}
    NewContracts = {newBridge}
    AuxSuffixes = {s1}
    s1 = s1
    MaxProofVersion = 3
    MaxWithdrawals = 1
    MaxClaims = 1
    MaxSigners = 3
    Day = 1
    MaxTime = 0
    MaxDeposits = 1
    MaxNonce = 0
    MaxSupply = 0
SPECIFICATION UpgradeSpec
INVARIANTS
    NoForgedClaim
    Backed
    NeverStranded
CHECK_DEADLOCK FALSE
