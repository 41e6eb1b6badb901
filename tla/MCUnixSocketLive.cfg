SPECIFICATION FairSpec
CONSTANTS
    Client = {a}
    Manager = {m1, m2, m3}
    NoManager = none
    TPM = 1
    MaxCharges = 1
PROPERTIES
    CallsReturn
    LonelyManagersExit
