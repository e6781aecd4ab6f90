SPECIFICATION Spec
CONSTANTS
    Users = {uma, ugo}
    Brokers = {kim}
    Administrators = {}
    Registered = {kim, uma, ugo}
    Founders = {}
    Browsers = {desk, phone}
    Nil = Nil
    MaxTokens = 2
SYMMETRY Symmetry
INVARIANTS
    TypeOK
    GreetsOnlySignedIn
    OneRememberedBrowser
    UsersKept
