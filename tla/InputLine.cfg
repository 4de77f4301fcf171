SPECIFICATION Spec
CONSTANTS
    Sns = {anna, bert}
    NoSn = none
    SnLen = 1
    MaxLine = 11
    MaxOver = 15
    MaxSize = 9
    MaxPasted = 3
INVARIANTS
    TypingIsMarked
    PastedInOrder
    MessagesFit
PROPERTIES
    PassedByEscapes
    OnlyErasingLingers
    SentAtEnd
