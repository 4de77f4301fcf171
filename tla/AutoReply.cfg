SPECIFICATION Spec
CONSTANTS
    Ann = Ann
    Bob = Bob
    Clients <- Couple
    MaxWritten = 3
SYMMETRY Swaps
INVARIANTS
    SendersAreTold
PROPERTIES
    ExchangesRunDown
    OneAnswer
