------------------------------ MODULE Accounts ------------------------------
(***************************************************************************)
(* User accounts: sign-up with a password or through an OAuth provider,     *)
(* e-mail verification, log-in and password reset.  Requests interleave     *)
(* statement by statement over the users, user_oauth and                    *)
(* email_verifications tables.  An account is known by its e-mail address,  *)
(* which the table keeps unique; accounts are never deleted.               *)
(***************************************************************************)
EXTENDS Naturals

CONSTANTS
    Addresses,   \* e-mail addresses one can sign up with
    NoMail,      \* the empty address, which a provider may report
    BaseOf,      \* the slug of each address, the first username tried
    MaxSuffix,   \* bound on the suffix of a username: 9999
    Passwords,   \* passwords of at least eight characters
    Identities,  \* provider accounts: records with a provider and an id
    MailsOf,     \* the addresses a provider may report for each
    Tokens,      \* bound on the verification and reset tokens
    Requests,
    None

Mails == Addresses \cup {NoMail}
Providers == {i.provider : i \in Identities}
Suffixes == 1 .. MaxSuffix
Names == {<<BaseOf[e], n>> : e \in Mails, n \in Suffixes}

ASSUME NoneAssumption ==
    None \notin Mails \cup Names \cup Passwords \cup Tokens \cup Identities
ASSUME NoMailAssumption == NoMail \notin Addresses
ASSUME MailsOfAssumption == MailsOf \in [Identities -> SUBSET Mails]

VARIABLES
    username,    \* users.username by address, None where there is no row
    hash,        \* users.password_hash, None for an account without one
    verified,    \* users.email_verified
    link,        \* user_oauth: the account each identity is linked to
    token,       \* email_verifications
    req,         \* the requests under way
    reported,    \* ghost: the addresses a provider gave for an identity
    shown        \* ghost: addresses whose mailbox was shown to be reachable

table == <<username, hash, verified, link>>
vars == <<username, hash, verified, link, token, req, reported, shown>>

-----------------------------------------------------------------------------
Kinds == {"verify", "reset"}

NoToken == [kind |-> "none", owner |-> None, state |-> "fresh"]

IdleReq == [op |-> "none", pc |-> "idle", mail |-> None, secret |-> None,
            name |-> None, token |-> None, ident |-> None, flag |-> FALSE]

Init ==
    /\ username = [e \in Mails |-> None]
    /\ hash = [e \in Mails |-> None]
    /\ verified = {}
    /\ link = [i \in Identities |-> None]
    /\ token = [t \in Tokens |-> NoToken]
    /\ req = [r \in Requests |-> IdleReq]
    /\ reported = [i \in Identities |-> {}]
    /\ shown = {}

Exists(e) == username[e] # None

At(r, pc) == req[r].pc = pc
Set(r, new) == req' = [req EXCEPT ![r] = new]
Goto(r, pc) == Set(r, [req[r] EXCEPT !.pc = pc])

\* The answer, with the session it carries, None where there is none.
Answer(r, says, session) ==
    Set(r, [IdleReq EXCEPT !.op = req[r].op, !.pc = says, !.mail = session,
                           !.ident = req[r].ident, !.flag = req[r].flag])

Refuse(r) == Answer(r, "refused", None)

-----------------------------------------------------------------------------
(* Sign-up and log-in with a password *)

\* The look-ups stop at the first candidate that is not found; a look-up that
\* fails counts as one that found something.
FreeNames(e) ==
    {<<BaseOf[e], n>> : n \in Suffixes} \ {username[f] : f \in Mails}

Signup(r, e, p) ==
    /\ At(r, "idle")
    /\ \E n \in FreeNames(e) :
          Set(r, [IdleReq EXCEPT !.op = "signup", !.pc = "insert", !.mail = e,
                                 !.secret = p, !.name = n])
    /\ UNCHANGED <<table, token, reported, shown>>

\* The insert, which is refused when a unique constraint is violated.  "born"
\* says whether the account is verified from the start.
InsertRow(r, violated, born) ==
    LET e == req[r].mail IN
    /\ At(r, "insert")
    /\ IF violated
       THEN Refuse(r) /\ UNCHANGED table
       ELSE /\ username' = [username EXCEPT ![e] = req[r].name]
            /\ hash' = [hash EXCEPT ![e] = req[r].secret]
            /\ verified' = IF born THEN verified \cup {e} ELSE verified
            /\ Goto(r, IF req[r].op = "oauth" THEN "link" ELSE "send")
            /\ UNCHANGED link
    /\ UNCHANGED <<token, reported, shown>>

NameTaken(n) == \E f \in Mails : username[f] = n

\* Slip: the username column has no unique constraint.
CreateSameName(r) ==
    InsertRow(r, Exists(req[r].mail), req[r].op = "oauth")

\* Slip: every account is born verified.
CreateVerified(r) ==
    InsertRow(r, Exists(req[r].mail) \/ NameTaken(req[r].name), TRUE)

\* An account made by a provider's sign-in is born verified, and without a
\* password.
Create(r) ==
    InsertRow(r, Exists(req[r].mail) \/ NameTaken(req[r].name),
              req[r].op = "oauth")

\* An account without a password, made by a provider's sign-in, has none to
\* compare with.
Authentic(e, p) == Exists(e) /\ hash[e] = p

\* A log-in changes nothing.
Login(r, e, p) ==
    /\ At(r, "idle")
    /\ IF Authentic(e, p)
       THEN Set(r, [IdleReq EXCEPT !.op = "login", !.pc = "ok", !.mail = e])
       ELSE Set(r, [IdleReq EXCEPT !.op = "login", !.pc = "refused"])
    /\ UNCHANGED <<table, token, reported, shown>>

-----------------------------------------------------------------------------
(* Tokens sent by e-mail *)

\* Both forms of a resend, with a session and with an address, do nothing for
\* an address that is unknown or verified.
Unverified(e) == Exists(e) /\ e \notin verified

ResendVerification(r, e) ==
    /\ At(r, "idle")
    /\ Unverified(e)
    /\ Set(r, [IdleReq EXCEPT !.op = "resend", !.pc = "send", !.mail = e])
    /\ UNCHANGED <<table, token, reported, shown>>

\* An account without a password is told so by mail and gets no token.
Resettable(e) == Exists(e) /\ hash[e] # None

ForgotPassword(r, e) ==
    /\ At(r, "idle")
    /\ Resettable(e)
    /\ Set(r, [IdleReq EXCEPT !.op = "forgot", !.pc = "send", !.mail = e])
    /\ UNCHANGED <<table, token, reported, shown>>

CreateToken(r, t) ==
    /\ token[t] = NoToken
    /\ token' = [token EXCEPT
          ![t] = [kind  |-> IF req[r].op = "forgot" THEN "reset" ELSE "verify",
                  owner |-> req[r].mail, state |-> "fresh"]]

\* A token is stored, then mailed.  Only the mail tells it, so one whose mail
\* fails is as good as not stored.  The caller of a sign-up is not told of a
\* failure: the account is there and another token can be asked for.
SendToken(r) ==
    /\ At(r, "send")
    /\ (\E t \in Tokens : CreateToken(r, t)) \/ UNCHANGED token
    /\ Answer(r, "ok", IF req[r].op = "signup" THEN req[r].mail ELSE None)
    /\ UNCHANGED <<table, reported, shown>>

\* Twenty-four hours, or one for a reset, pass.
Expire(t) ==
    /\ token[t] # NoToken
    /\ token[t].state = "fresh"
    /\ token' = [token EXCEPT ![t].state = "late"]
    /\ UNCHANGED <<table, req, reported, shown>>

-----------------------------------------------------------------------------
(* Using a token *)

Spent(t) == token[t].state # "fresh"

\* A request with a token, and with a new password for a reset.  The flag
\* records whether the token was spent when the request came in.
Present(r, op, t, p) ==
    /\ At(r, "idle")
    /\ token[t] # NoToken
    /\ Set(r, [IdleReq EXCEPT !.op = op, !.pc = "select", !.token = t,
                              !.secret = p, !.flag = Spent(t)])
    /\ UNCHANGED <<table, token, reported, shown>>

VerifyEmail(r, t) == Present(r, "verify", t, None)

ResetPassword(r, t, p) == Present(r, "reset", t, p)

\* The first statement of the transaction reads the token without a lock.
ReadToken(r, refused) ==
    LET t == req[r].token IN
    /\ At(r, "select")
    /\ IF refused THEN Refuse(r) /\ UNCHANGED shown
       ELSE /\ Set(r, [req[r] EXCEPT !.pc = "mark", !.mail = token[t].owner])
            /\ shown' = shown \cup {token[t].owner}
    /\ UNCHANGED <<table, token, reported>>

\* Slip: the query has no condition on token_type.
SelectTokenAnyKind(r) == ReadToken(r, Spent(req[r].token))

\* Slip: used_at is not looked at.
SelectUsedToken(r) ==
    LET t == req[r].token IN
    ReadToken(r, token[t].kind # req[r].op \/ token[t].state = "late")

SelectToken(r) ==
    LET t == req[r].token IN
    ReadToken(r, token[t].kind # req[r].op \/ Spent(t))

\* The transaction commits: the token is used, whatever happened to it since
\* it was read, and for a verification the address is verified with it.  The
\* caller may not be told, when the read of the account that follows fails.
CommitToken(r) ==
    /\ At(r, "mark")
    /\ token' = [token EXCEPT ![req[r].token].state = "used"]
    /\ IF req[r].op = "verify"
       THEN /\ verified' = verified \cup {req[r].mail}
            /\ Answer(r, "ok", None) \/ Refuse(r)
       ELSE Goto(r, "store") /\ UNCHANGED verified
    /\ UNCHANGED <<username, hash, link, reported, shown>>

\* The new password is stored after the transaction, by another statement.
SetPasswordHash(r) ==
    /\ At(r, "store")
    /\ hash' = [hash EXCEPT ![req[r].mail] = req[r].secret]
    /\ Answer(r, "ok", None)
    /\ UNCHANGED <<username, verified, link, token, reported, shown>>

-----------------------------------------------------------------------------
(* Signing in through a provider *)

\* The browser is sent to the provider with a signed state that names it.  A
\* state that has expired is one whose browser does not come back.
OAuthRedirect(r, p) ==
    /\ At(r, "idle")
    /\ Set(r, [IdleReq EXCEPT !.op = "oauth", !.pc = "away", !.name = p])
    /\ UNCHANGED <<table, token, reported, shown>>

\* What a provider says of an identity: an address, which may change from one
\* sign-in to the next, or none, as when GitHub hides it and the second query
\* fails.  With an address the provider vouches for its mailbox, without one it
\* vouches for nothing.
UserInfo(r, i, e) ==
    /\ reported' = [reported EXCEPT ![i] = @ \cup {e}]
    /\ shown' = shown \cup ({e} \ {NoMail})
    /\ Set(r, [req[r] EXCEPT !.pc = "lookup", !.name = None, !.ident = i,
                             !.mail = e])

\* The state must name the provider that calls back.
StateValid(r, i) == req[r].name = i.provider

OAuthCallback(r, i, e) ==
    /\ At(r, "away")
    /\ StateValid(r, i)
    /\ UserInfo(r, i, e)
    /\ UNCHANGED <<table, token>>

\* Slip: identities are looked up by their id alone.
LookupAnyProvider(r) ==
    LET same == {i \in Identities : /\ i.id = req[r].ident.id
                                    /\ link[i] # None} IN
    /\ At(r, "lookup")
    /\ IF same = {} THEN Goto(r, "byMail")
       ELSE \E i \in same :
               Answer(r, "ok", link[i])
    /\ UNCHANGED <<table, token, reported, shown>>

GetByOAuth(r) ==
    LET e == link[req[r].ident] IN
    /\ At(r, "lookup")
    /\ IF e = None THEN Goto(r, "byMail")
       ELSE Answer(r, "ok", e)
    /\ UNCHANGED <<table, token, reported, shown>>

\* The account with the address is taken if there is one; the flag keeps
\* whether the row that was read has still to be verified.
GetByEmail(r) ==
    LET e == req[r].mail IN
    /\ At(r, "byMail")
    /\ IF Exists(e)
       THEN Set(r, [req[r] EXCEPT !.pc = "link", !.flag = Unverified(e)])
       ELSE \E n \in FreeNames(e) :
               Set(r, [req[r] EXCEPT !.pc = "insert", !.name = n])
    /\ UNCHANGED <<table, token, reported, shown>>

\* An identity that is linked already stays as it is, and a failure is only
\* logged.
LinkOAuth(r) ==
    /\ At(r, "link")
    /\ \/ /\ link[req[r].ident] = None
          /\ link' = [link EXCEPT ![req[r].ident] = req[r].mail]
       \/ UNCHANGED link
    /\ IF req[r].flag THEN Goto(r, "prove") ELSE Answer(r, "ok", req[r].mail)
    /\ UNCHANGED <<username, hash, verified, token, reported, shown>>

\* The error of the update is dropped.
SetEmailVerified(r) ==
    /\ At(r, "prove")
    /\ verified' \in {verified, verified \cup {req[r].mail}}
    /\ Answer(r, "ok", req[r].mail)
    /\ UNCHANGED <<username, hash, link, token, reported, shown>>

\* The gate of the activation of hosted agents.
IsEmailVerified(e) == Exists(e) /\ e \in verified

-----------------------------------------------------------------------------
\* A statement fails, the caller or the process goes: the request ends, and
\* what it has committed stays.
Fail(r) ==
    /\ req[r].pc \notin {"idle", "ok", "refused"}
    /\ Refuse(r)
    /\ UNCHANGED <<table, token, reported, shown>>

\* The answer is delivered, and the request forgotten.
Done(r) ==
    /\ req[r].pc \in {"ok", "refused"}
    /\ Set(r, IdleReq)
    /\ UNCHANGED <<table, token, reported, shown>>

Serve(r) ==
    \/ \E e \in Addresses, p \in Passwords : Signup(r, e, p) \/ Login(r, e, p)
    \/ \E e \in Mails : ResendVerification(r, e) \/ ForgotPassword(r, e)
    \/ \E t \in Tokens : VerifyEmail(r, t)
    \/ \E t \in Tokens, p \in Passwords : ResetPassword(r, t, p)
    \/ \E p \in Providers : OAuthRedirect(r, p)
    \/ \E i \in Identities : \E e \in MailsOf[i] : OAuthCallback(r, i, e)
    \/ Create(r) \/ SendToken(r)
    \/ SelectToken(r) \/ CommitToken(r) \/ SetPasswordHash(r)
    \/ GetByOAuth(r) \/ GetByEmail(r) \/ LinkOAuth(r) \/ SetEmailVerified(r)
    \/ Fail(r) \/ Done(r)

Next ==
    \/ \E r \in Requests : Serve(r)
    \/ \E t \in Tokens : Expire(t)

Spec == Init /\ [][Next]_vars

-----------------------------------------------------------------------------
(* Properties *)

\* A session handed out after a provider sign-in is for an account that
\* exists and whose address the provider has reported for that identity,
\* however sign-ins, sign-ups and changes of the address interleave.
SessionMatchesIdentity ==
    \A r \in Requests : At(r, "ok") /\ req[r].op = "oauth" =>
        /\ Exists(req[r].mail)
        /\ req[r].mail \in reported[req[r].ident]

\* A token that was used or expired before a request came in is refused by
\* it.  (Two requests that overlap can both use one token.)
SpentTokenRefused ==
    \A r \in Requests :
        At(r, "ok") /\ req[r].op \in Kinds => ~req[r].flag

\* The password of an account changes only in a request that presented a
\* reset token of that account, not a verification token, which was unspent
\* when the request came in and is used up now.  So an account made by a
\* provider sign-in never gets one.
PasswordOnlyByReset ==
    [][\A e \in Mails : Exists(e) /\ hash'[e] # hash[e] =>
          /\ hash[e] # None
          /\ \E r \in Requests : \E t \in Tokens :
                /\ req[r].token = t /\ ~req[r].flag /\ req[r].secret = hash'[e]
                /\ token[t] = [kind |-> "reset", owner |-> e, state |-> "used"]
      ]_vars

\* For the activation of hosted agents the verified addresses are what proven
\* domains are for the others: an address is verified only after a token
\* mailed to it came back in time or a provider vouched for it, and it stays
\* verified.  This is so of addresses only: the account without one is verified
\* as well, and nobody vouches for it (VerifiedByProvider).
MailProof == INSTANCE DomainProof
                WITH Domains <- Mails, shown <- shown,
                     proven <- {e \in Addresses : IsEmailVerified(e)}
ImplementsMailProof == MailProof!Spec

\* The comment on the account that a provider's sign-in makes: its e-mail is
\* verified by the provider.  Together with the tokens that are mailed: the
\* gate of the activation is open to an account only if its mailbox was shown
\* to be reachable.
VerifiedByProvider == \A e \in Mails : IsEmailVerified(e) => e \in shown

-----------------------------------------------------------------------------
(* The inductive invariant *)

ReqType ==
    [op     : Kinds \cup {"none", "signup", "login", "resend", "forgot", "oauth"},
     pc     : {"idle", "insert", "send", "select", "mark", "store", "away",
               "lookup", "byMail", "link", "prove", "ok", "refused"},
     mail   : Mails \cup {None},
     secret : Passwords \cup {None},
     name   : Names \cup Providers \cup {None},
     token  : Tokens \cup {None},
     ident  : Identities \cup {None},
     flag   : BOOLEAN]

TokenType == [kind  : Kinds \cup {"none"},
              owner : Mails \cup {None},
              state : {"fresh", "used", "late"}]

\* Every variable has its type.
TypeOK ==
    /\ username \in [Mails -> Names \cup {None}]
    /\ hash \in [Mails -> Passwords \cup {None}]
    /\ verified \in SUBSET Mails
    /\ link \in [Identities -> Mails \cup {None}]
    /\ token \in [Tokens -> TokenType]
    /\ req \in [Requests -> ReqType]
    /\ reported \in [Identities -> SUBSET Mails]
    /\ shown \in SUBSET Mails

\* Two accounts never have one username.
NamesUnique ==
    \A e, f \in Mails : Exists(e) /\ username[e] = username[f] => e = f

\* What the tables refer to is there, and was vouched for.
TableInv ==
    /\ \A e \in Mails : hash[e] # None \/ e \in verified => Exists(e)
    /\ verified \subseteq shown \cup {NoMail}
    /\ \A i \in Identities :
          /\ reported[i] \subseteq shown \cup {NoMail}
          /\ link[i] # None => Exists(link[i]) /\ link[i] \in reported[i]

\* A token is for an account, and a reset token for one with a password.
TokenInv ==
    \A t \in Tokens : token[t] # NoToken =>
        /\ token[t].kind \in Kinds
        /\ token[t].owner \in Mails
        /\ Exists(token[t].owner)
        /\ token[t].kind = "reset" => hash[token[t].owner] # None

\* What a request knows at each of its statements.
MailReqInv(q) ==
    /\ q.pc = "send" =>
          /\ q.op \in {"signup", "resend", "forgot"}
          /\ q.mail \in Mails
          /\ Exists(q.mail)
          /\ q.op = "forgot" => hash[q.mail] # None
    /\ q.pc \in {"select", "mark", "store"} =>
          /\ q.op \in Kinds
          /\ q.token \in Tokens
          /\ token[q.token] # NoToken
          /\ q.op = "reset" => q.secret \in Passwords
          /\ q.flag => Spent(q.token)
    /\ q.pc \in {"mark", "store"} =>
          /\ ~q.flag
          /\ token[q.token].kind = q.op
          /\ token[q.token].owner = q.mail
          /\ q.mail \in shown
    /\ q.pc = "store" => q.op = "reset" /\ token[q.token].state = "used"
    /\ q.pc = "ok" /\ q.op \in Kinds => ~q.flag

OAuthReqInv(q) ==
    /\ q.pc = "insert" =>
          /\ q.op \in {"signup", "oauth"}
          /\ q.name \in Names
          /\ q.mail \in Mails
    /\ q.pc \in {"away", "lookup", "byMail", "link", "prove"} => q.op = "oauth"
    /\ q.op = "oauth" /\ q.pc \notin {"away", "refused"} =>
          /\ q.ident \in Identities
          /\ q.mail \in reported[q.ident]
    /\ q.pc \in {"link", "prove"} => Exists(q.mail)
    /\ q.pc = "ok" /\ q.op = "oauth" => Exists(q.mail)

Inductive ==
    /\ TypeOK
    /\ NamesUnique
    /\ TableInv
    /\ TokenInv
    /\ \A r \in Requests : MailReqInv(req[r]) /\ OAuthReqInv(req[r])
=============================================================================
