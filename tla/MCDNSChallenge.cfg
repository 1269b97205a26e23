SPECIFICATION Spec
CONSTANTS
    domain = domain
    Challenges = {c1, c2}
    Domains = {domain}
    DomainOf <- MCDomainOf
    Calls = {k1, k2}
    Lifetime = 1
    Skew = 1
    MaxTime = 3
    NoChallenge = NoChallenge
INVARIANTS
    VerifiedInTime
    AnswerHolds
PROPERTIES
    ImplementsDomainProof
CHECK_DEADLOCK FALSE
