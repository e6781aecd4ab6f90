SPECIFICATION Spec
CONSTANTS
    LicenseTypes = {life, health}
    Submitted = {life, health}
    Admins = {ann}
    Submissions = 1
    Filing = FALSE
    PictureLinks = TRUE
    Faults = TRUE
    MaxUploads = 2
    MaxPending = 2
SYMMETRY Symmetry
INVARIANTS
    TypeOK
    AccountNeedsLicenses
    NoDanglingRequest
PROPERTIES
    ImplementsApplication
    VerdictFinal
