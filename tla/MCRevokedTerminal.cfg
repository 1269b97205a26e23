SPECIFICATION Spec
CONSTANTS
    user = user
    Agents = {a1}
    Subjects = {user}
    SubjectOf <- MCSubjectOf
    Hosted = {a1}
    OwnerOf <- MCSubjectOf
    MaxAgents = 1
    Requests = {r1, r2}
SYMMETRY RequestSymmetry
PROPERTY RevokedIsTerminal
CHECK_DEADLOCK FALSE
