SPECIFICATION FairSpec
CONSTANTS
    Ids = {a, b, c}
    NULL = NULL
    auto_reconnect = TRUE
    ConnectOutcomes = {"ok", "refused", "nosock", "handshake"}
    otr = TRUE
    CleanClose = TRUE
    Signals = TRUE
    SigPipe = TRUE
INVARIANTS
    NoDangling
    OneConnection
    ShownSession
    NeverStuck
PROPERTIES
    ClosedStaysClosed
    LoginSpec
    MarkedAreFreed
    LostReconnects
    KeyboardServed
    LoopsEnd
    CrashesAreKnown
CHECK_DEADLOCK FALSE
