SPECIFICATION Spec
CONSTANTS
    user = user
    Agents = {a1}
    Subjects = {user}
    SubjectOf <- MCSubjectOf
    Hosted = {a1}
    OwnerOf <- MCSubjectOf
    MaxAgents = 1
    Requests = {r1, r2, r3}
SYMMETRY RequestSymmetry
INVARIANTS
    GateHolds
    NoPhantomEntries
    AnsweredMeansLogged
    RealTimeOrder
    LatestCertListed
PROPERTIES
    OnlyActivateUnrevokes
    ImplementsStatus
CHECK_DEADLOCK FALSE
