SPECIFICATION FairSpec
CONSTANTS
    Secrets = {first, second}
    Workers = {one, two}
    Expiry = 2
    Faults = TRUE
    MaxImpatient = 1
INVARIANTS
    TypeOK
    LinkHasTime
PROPERTIES
    LinkExpires
    Recovers
