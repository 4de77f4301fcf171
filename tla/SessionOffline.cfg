SPECIFICATION Spec
CONSTANTS
    Ids = {a, b, c}
    NULL = NULL
    auto_reconnect = FALSE
    ConnectOutcomes = {"ok"}
    otr = FALSE
    CleanClose = FALSE
    Signals = TRUE
    SigPipe = FALSE
PROPERTIES
    OfflineIsSafe
CHECK_DEADLOCK FALSE
