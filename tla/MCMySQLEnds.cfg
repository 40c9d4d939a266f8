SPECIFICATION FairSpec
CONSTANTS
    MaxCalls = 2
    Kinds = {"exec", "query", "ping", "prepare", "stmtExec", "stmtQuery", "stmtClose", "begin", "commit", "rollback"}
    Features = {"multi", "infile", "tooLarge", "livenessCheck", "rejectReadOnly", "sysvar", "charsets", "params", "longData", "again", "tls", "pubKey"}
    Faults = {"cancel", "break"}
    Plugins = {"native", "caching_sha2", "sha256", "gssapi"}
    Allowed = {"native", "caching_sha2", "sha256"}
PROPERTIES CancelEndsCall WatcherEnds AnsweredCallsReturn
CHECK_DEADLOCK FALSE
