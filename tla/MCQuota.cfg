SPECIFICATION Spec
CONSTANTS
    user = user
    Agents = {a1, a2}
    Subjects = {user}
    SubjectOf <- MCSubjectOf
    Hosted = {a1, a2}
    OwnerOf <- MCSubjectOf
    MaxAgents = 1
    Requests = {r1, r2}
SYMMETRY RequestSymmetry
PROPERTY RegistrationWithinQuota
CHECK_DEADLOCK FALSE
