SPECIFICATION Spec
CONSTANTS
    MaxCalls = 3
    Kinds = {"exec", "query", "ping", "prepare", "stmtExec", "stmtQuery", "stmtClose", "begin", "commit", "rollback"}
    Features = {"multi", "infile", "tooLarge", "livenessCheck", "rejectReadOnly", "sysvar", "charsets", "params", "longData", "again", "tls", "pubKey"}
    Faults = {"cancel", "break", "timeout"}
    Plugins = {"native", "caching_sha2", "sha256", "gssapi"}
    Allowed = {"native", "caching_sha2", "sha256"}
INVARIANTS TypeOK OwnAnswers NothingOutstanding RetrySafe WatcherInStep ConnectedOrClosed
PROPERTIES CancelledInTime
CHECK_DEADLOCK FALSE
