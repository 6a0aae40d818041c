CONSTANTS
    usdc = usdc  weth = weth  podUsd = podUsd  alice = alice  bob = bob  relayer = relayer
    admin = admin  newBridge = newBridge  market = market
    NoHash = NoHash  BridgeAddress = BridgeAddress  WaitingList = WaitingList  NoAddress = NoAddress
    Tokens = {usdc}
    MirrorTokens = {podUsd}
    Accounts = {alice, bob, BridgeAddress, WaitingList, newBridge}
    Spenders = {BridgeAddress, WaitingList}
    CallContracts = {}
    Callers = {alice, bob}
    Holders = {}
    Admins = {admin}
    Pausers = {}
    Relayers = {WaitingList}
    WaitingRelayers = {relayer}
    Minters = {}
    TokenPausers = {}
    TokenAdmins = {}
    MaxUint = 100
    InitialLedger <- MCLedger
    Versions = {1}
    InitialValidators = {1}
    InitialResilience = 0
    InitialVersion = 1
    Amounts = {1, 2}
    Reserves = {0}
    DepositBatches = {}
    ClaimBatches = {}
    Configurations <- LoweredConfigs
    ValidatorLists = {}
    Resiliences = {}
    MerkleRoots = {}
    NewContracts = {newBridge}
    Day = 1
    MaxTime = 1
    MaxDeposits = 3
    MaxNonce = 0
    MaxSupply = 0
    MaxWaiting = 2
    MaxApply = 2
SPECIFICATION Spec
PROPERTIES
    LargerNeverApplied
CHECK_DEADLOCK FALSE
