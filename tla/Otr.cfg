SPECIFICATION Spec
CONSTANTS
    Sns = {anna, bert}
INVARIANTS
    LabelIsTrue
    NotLogged
PROPERTIES
    NeverInTheClear
    CrashesAreKnown
CHECK_DEADLOCK FALSE
