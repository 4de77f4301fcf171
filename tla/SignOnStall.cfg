SPECIFICATION FairSpec
CONSTANTS
    FirstSeq = 5
    MaxSeq = 8
    MaxFailures = 0
    MaxMessages = 0
    MaxParts = 2
    MaxInbox = 2
PROPERTIES
    SignOnCompletes
CHECK_DEADLOCK FALSE
