SPECIFICATION Spec
CONSTANTS
    Client = {a, b}
    Manager = {m1, m2}
    NoManager = none
    TPM = 1
    MaxCharges = 1
SYMMETRY Interchangeable
INVARIANTS
    TypeOK
    HandledOnce
    RepliesAnswerCalls
    UsageIsThisMinutes
