CONSTANTS
    Logs <- MCLogs
    MaxLogs = 2
    MaxAsked = 3
SPECIFICATION ProofsSpec
INVARIANTS
    ProofsComplete
    ProofsBind
    LogsProvable
CHECK_DEADLOCK FALSE
