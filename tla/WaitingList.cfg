CONSTANTS
    usdc = usdc  weth = weth  podUsd = podUsd  alice = alice  bob = bob  relayer = relayer
    admin = admin  newBridge = newBridge  market = market
    NoHash = NoHash  BridgeAddress = BridgeAddress  WaitingList = WaitingList  NoAddress = NoAddress
    Tokens = {usdc, weth}
    MirrorTokens = {podUsd}
    Accounts = {alice, bob, BridgeAddress, WaitingList, newBridge}
    Spenders = {BridgeAddress, WaitingList}
    CallContracts = {market}
    Callers = {alice, bob}
    Holders = {}
    Admins = {admin}
    Pausers = {}
    Relayers = {WaitingList}
    WaitingRelayers = {relayer}
    Minters = {}
    TokenPausers = {}
    TokenAdmins = {}
    MaxUint = 100
    InitialLedger <- MCLedger
    Versions = {1}
    InitialValidators = {1}
    InitialResilience = 0
    InitialVersion = 1
    Amounts = {1, 2}
    Reserves = {0, 1}
    DepositBatches = {}
    ClaimBatches = {}
    Configurations <- MCConfigs
    ValidatorLists = {}
    Resiliences = {}
    MerkleRoots = {}
    NewContracts = {}
    Day = 1
    MaxTime = 0
    MaxDeposits = 3
    MaxNonce = 0
    MaxSupply = 0
    MaxWaiting = 2
    MaxApply = 2
SPECIFICATION Spec
INVARIANTS
    Solvent
    WaitingTypeOK
    LeavesOnce
    AlwaysRefundable
    AppliedAsDeposited
PROPERTIES
    RefundsDepositor
    ImplementsEscrow
CHECK_DEADLOCK FALSE
