SPECIFICATION Spec
CONSTANTS
    Groups <- AllGroups
    Payloads <- AllPayloads
    WordBits = 5
    IntBits = 10
    LongBits = 12
    Mantissa = 12
    ScaleBits = 4
    MaxLogged = 2
INVARIANTS Faithful WriteBack NeverWraps NothingHidden NoGuess
