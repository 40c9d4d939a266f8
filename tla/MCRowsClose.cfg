SPECIFICATION FairSpec
CONSTANTS
    MaxCalls = 2
    Kinds = {"query"}
    Features = {"multi"}
    Faults = {}
    Plugins = {"native"}
    Allowed = {"native"}
PROPERTIES CloseReturns
CHECK_DEADLOCK FALSE
