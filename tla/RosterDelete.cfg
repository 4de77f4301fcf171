SPECIFICATION Spec
CONSTANTS
    Sns = {anna, bert}
    Groups = {1, 2}
    MaxId = 2
    MaxSent = 2
    MaxLost = 1
INVARIANTS
    DeletedIsGone
