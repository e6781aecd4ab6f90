SPECIFICATION FairSpec
CONSTANTS
    LicenseTypes = {life, series6}
    Emails = {home, work}
    Workers = {w1}
    Faults = FALSE
    MaxUndo = 4
    MaxStale = 0
    MaxSubmit = 2
INVARIANTS
    TypeOK
    FreshInv
    PagesBeforeStepDone
    SubmittedIsComplete
    EmailConfirmed
    OneApplication
PROPERTIES
    ImplementsApplication
    SelectedLicensesKept
    Completes
