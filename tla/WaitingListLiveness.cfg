CONSTANTS
    usdc = usdc  podUsd = podUsd  alice = alice  relayer = relayer  admin = admin
    NoHash = NoHash  BridgeAddress = BridgeAddress  WaitingList = WaitingList  NoAddress = NoAddress
    Tokens = {usdc}
    MirrorTokens = {podUsd}
    Accounts = {alice, BridgeAddress, WaitingList}
    Spenders = {BridgeAddress, WaitingList}
    CallContracts = {}
    Callers = {alice}
    Holders = {}
    Admins = {admin}
    Pausers = {}
    Relayers = {WaitingList}
    WaitingRelayers = {relayer}
    Minters = {}
    TokenPausers = {}
    TokenAdmins = {}
    MaxUint = 100
    InitialLedger <- MCLedger
    Versions = {1}
    InitialValidators = {1}
    InitialResilience = 0
    InitialVersion = 1
    Amounts = {1, 2}
    Reserves = {0}
    DepositBatches = {}
    ClaimBatches = {}
    Configurations <- MCConfigs
    ValidatorLists = {}
    Resiliences = {}
    MerkleRoots = {}
    NewContracts = {}
    Day = 2
    MaxTime = 2
    MaxDeposits = 2
    MaxNonce = 0
    MaxSupply = 0
    MaxWaiting = 2
    MaxApply = 2
SPECIFICATION SteadySpec
PROPERTIES
    EveryDepositLeaves
