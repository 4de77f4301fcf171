SPECIFICATION Spec
CONSTANTS
    Lunch = Lunch
    Meeting = Meeting
    Silence = Silence
    None = None
    Messages <- SomeMessages
    NoMessage <- None
    Empty <- Silence
    idle_rep_time = 2
    MaxAge = 4
    Otr = TRUE
    Reconnects = TRUE
INVARIANTS
    AwayKnown
    NeverHiddenUnawares
    NeverFalselyIdle
