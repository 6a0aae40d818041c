CONSTANTS
    alice = alice  bob = bob  carol = carol
    NoOp = NoOp  create = create  updateA = updateA  updateB = updateB  updateC = updateC
    onB = onB  onC = onC
    Ops <- MCOps
    NoCid = NoOp
    Users = {alice, bob, carol}
    Deployer = alice
    Supply = 2
    VoteChoices = {1, 2}
    Deadline = 1
    v1 = v1  v2 = v2  v3 = v3
    Validators = {v1, v2, v3}
    VotesNeeded = 2
    Workloads <- MCWorkloads
SPECIFICATION Spec
INVARIANTS
    Converged
    OneOwner
    PollCloses
    StrongestWins
SYMMETRY Symmetry
CHECK_DEADLOCK FALSE
