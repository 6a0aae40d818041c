CONSTANTS
    Logs <- MCLogs
    MaxLogs = 2
    MaxAsked = 3
SPECIFICATION ProofsSpec
INVARIANTS
    LogHashesProvable
CHECK_DEADLOCK FALSE
