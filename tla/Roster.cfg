SPECIFICATION Spec
CONSTANTS
    Sns = {anna, bert}
    Groups = {1, 2}
    MaxId = 3
    MaxSent = 3
    MaxLost = 1
SYMMETRY Symmetry
INVARIANTS
    InSync
PROPERTIES
    BatchesTakeEffect
