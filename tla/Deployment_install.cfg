\* Two logins of one account, two keys, any number of setups, edits and restarts.
CONSTANTS
    SecretKeys = {k1, k2}
    Keys = {k1, k2}
    NoKey = "none"
    Flows = {f1, f2}
    Emails = {e1}
SPECIFICATION Spec
SYMMETRY Symmetry
INVARIANTS
    TypeOK
    KeyOpensTokens
    LoginFailsForAReason
PROPERTIES
    UntouchedSettingsStay
CHECK_DEADLOCK FALSE
