SPECIFICATION FairSpec
CONSTANTS
    FirstSeq = 5
    MaxSeq = 8
    MaxFailures = 1
    MaxMessages = 1
    MaxParts = 2
    MaxInbox = 2
INVARIANTS
    NumbersFollow
    InTurn
    AskedOnce
    AwaitedIsUnderWay
PROPERTIES
    LoginSpec
    CompletesOrStalls
CHECK_DEADLOCK FALSE
