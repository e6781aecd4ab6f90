SPECIFICATION FairSpec
CONSTANTS
    LicenseTypes = {life, health}
    Submitted = {life}
    Admins = {ann, bob}
    Submissions = 1
    Filing = TRUE
    PictureLinks = TRUE
    Faults = FALSE
    MaxUploads = 1
    MaxPending = 1
INVARIANTS
    ApprovalTakesEffect
PROPERTIES
    ApprovalReachesBroker
