SPECIFICATION Spec
CONSTANTS
    Users = {ann, bob}
    Emails = {home, work}
    StaleForms = FALSE
    Faults = TRUE
    MaxTokens = 2
SYMMETRY Symmetry
INVARIANTS
    TypeOK
    ValidatedByOwnCode
PROPERTIES
    SetupAsksAll
