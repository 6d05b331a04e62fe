SPECIFICATION PatientSpec
CONSTANTS
    Value <- MCValue
    MaxNotes = 4
    IntRange = 512
    Inputs <- ManyInputs
INVARIANTS
    Complete
    BracketHoldsTarget
PROPERTIES
    Terminates
    RefinesGreedy
