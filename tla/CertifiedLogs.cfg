CONSTANTS
    NoAddress = 0
    Validators = {1, 2, 3, 4}
    Faulty = {3}
    QuorumSize = 3
    Receipts <- MCReceipts
    Digest <- MCDigest
    Unsigned = Unsigned
    MaxAttestations = 6
SPECIFICATION CertificationSpec
INVARIANTS
    ReliedWasEmitted
    ChainAgrees
    OneOutcome
CHECK_DEADLOCK FALSE
