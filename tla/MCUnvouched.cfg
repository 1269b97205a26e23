SPECIFICATION Spec
CONSTANTS
    slug = slug
    github = github
    google = google
    Addresses = {m1}
    NoMail = NoMail
    BaseOf <- MCBaseOf
    MaxSuffix = 2
    Passwords = {p1}
    Identities <- MCIdentities
    MailsOf <- MCMailsOf
    Tokens = {t1}
    Requests = {r1}
    None = None
INVARIANT VerifiedByProvider
CHECK_DEADLOCK FALSE
