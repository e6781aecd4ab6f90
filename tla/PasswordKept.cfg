SPECIFICATION Spec
CONSTANTS
    Secrets = {first, second}
    Workers = {one}
    Expiry = 2
    Faults = FALSE
    MaxImpatient = 0
INVARIANTS
    PasswordKept
