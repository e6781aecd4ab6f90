SPECIFICATION Spec
CONSTANTS
    LicenseTypes = {life}
    Submitted = {life}
    Admins = {ann}
    Submissions = 1
    Filing = TRUE
    PictureLinks = FALSE
    Faults = FALSE
    MaxUploads = 1
    MaxPending = 1
INVARIANTS
    AccountNeedsLicenses
