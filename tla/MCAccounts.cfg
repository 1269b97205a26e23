SPECIFICATION Spec
CONSTANTS
    slug = slug
    github = github
    google = google
    Addresses = {m1}
    NoMail = NoMail
    BaseOf <- MCBaseOf
    MaxSuffix = 2
    Passwords = {p1, p2}
    Identities <- MCIdentities
    MailsOf <- MCMailsOf
    Tokens = {t1}
    Requests = {r1, r2}
    None = None
SYMMETRY AccountSymmetry
INVARIANTS
    SessionMatchesIdentity
    SpentTokenRefused
    Inductive
PROPERTIES
    PasswordOnlyByReset
    ImplementsMailProof
CHECK_DEADLOCK FALSE
