\* One login of one account, two keys, any number of setups, edits and restarts.
CONSTANTS
    SecretKeys = {k1, k2}
    Keys = {k1, k2}
    NoKey = "none"
    Flows = {f1}
    Emails = {e1}
SPECIFICATION Spec
PROPERTIES
    SetupKeepsValues
CHECK_DEADLOCK FALSE
