SPECIFICATION FairSpec
CONSTANTS
    p = p  q = q  groq = groq
    Process = {p, q}
    Remote = {p, q}
    Provider = {groq}
    Work <- Small
    TPM <- Tokens
    RPM <- Requests
    MaxRequests = 3
INVARIANTS
    TypeOK
    BackendCountsCharges
    OverchargeIsBounded
PROPERTIES
    CalmChargesFit
    LocalTrackingWorks
    FittingWorkIsLaunched
