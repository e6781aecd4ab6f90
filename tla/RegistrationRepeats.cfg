SPECIFICATION Spec
CONSTANTS
    LicenseTypes = {life}
    Emails = {home}
    Workers = {w1, w2}
    Faults = TRUE
    MaxUndo = 0
    MaxStale = 2
    MaxSubmit = 2
SYMMETRY Symmetry
INVARIANTS
    IdSurvivesRepeats
    FiledInOrder
