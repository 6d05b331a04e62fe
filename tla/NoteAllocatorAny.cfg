SPECIFICATION Spec
CONSTANTS
    Value <- MCValue
    MaxNotes = 4
    IntRange = 512
    Inputs <- FewInputs
INVARIANTS
    TypeOK
    Conservation
    WithinStock
    Sound
