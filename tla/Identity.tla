------------------------------ MODULE Identity ------------------------------
(***************************************************************************)
(* The identity of the registry and of its agents: the CA that is kept in  *)
(* two files and loaded or made anew at each start, the certificates that  *)
(* activations hand out, the task tokens they are exchanged for, and the   *)
(* other tokens that the same key signs for the same issuer: sessions of   *)
(* users and of the administrator, states of a sign-in, endorsements.  A   *)
(* file holds the number of the CA it is from, 0 when it is not there.     *)
(***************************************************************************)
EXTENDS FiniteSets, Naturals

CONSTANTS
    Agents,
    People,       \* users of the registry
    OwnedBy,      \* the user whose agent it is: at most one
    CertLife,     \* 365 days, also of an endorsement
    TokenLife,    \* identity.token_ttl_seconds
    SessionLife,  \* of a user's session: 24 hours
    StateLife,    \* of an administrator's session, or of the state of a sign-in
    MaxCA,        \* bound: CAs that are made
    MaxTokens,    \* bound: tokens that are issued
    MaxDay        \* bound on the clock

VARIABLES
    file,         \* ca.crt and ca.key
    registry,     \* the process: "down", "create", "write_key" or "up"
    loaded,       \* the certificate and the key it has loaded
    front,        \* the issuer of the token endpoint: "local", "federated" or "unanchored"
    made,         \* the CAs that were made
    certs,        \* the certificates that agents have
    tokens,       \* everything the key has signed as a token
    login,        \* ghost: the last day each user has logged in, 0 for never
    day,
    misread       \* ghost: a start took files that were there for missing

caVars == <<file, registry, loaded, front, made>>
signedVars == <<tokens, login>>

identityVars == <<caVars, certs, signedVars, day, misread>>

IdentityAssumption ==
    /\ {CertLife, TokenLife, SessionLife, StateLife} \subseteq Nat
    /\ OwnedBy \in [Agents -> SUBSET People]

-----------------------------------------------------------------------------
NoCA == [cert |-> 0, key |-> 0]

IdentityInit ==
    /\ file = NoCA
    /\ registry = "down"
    /\ loaded = NoCA
    /\ front = "local"
    /\ made = 0
    /\ certs = {}
    /\ tokens = {}
    /\ login = [u \in People |-> 0]
    /\ day = 1
    /\ misread = FALSE

\* Both files are read and decoded; that they belong together is not looked at.
Load == file.cert # 0 /\ file.key # 0

\* The root's certificate is fetched, or there is no pool of roots.
FetchRootCAPool == {"federated", "unanchored"}

\* In the federated role the token endpoint gets the issuer of the intermediate
\* CA, if its files can be read.  The agent service keeps the local one.
Fronts == {"local"} \cup FetchRootCAPool

\* The CA is loaded.  Any error is taken for a first run.
LoadOrCreate ==
    /\ registry = "down"
    /\ \/ /\ Load
          /\ registry' = "up"
          /\ loaded' = file
          /\ UNCHANGED misread
       \/ /\ registry' = "create"
          /\ misread' = (misread \/ Load)
          /\ UNCHANGED loaded
    /\ front' \in Fronts
    /\ UNCHANGED <<file, made, certs, signedVars, day>>

\* Create writes the new certificate, then the key, each over what was there.
WriteCert ==
    /\ registry = "create"
    /\ made < MaxCA
    /\ made' = made + 1
    /\ file' = [file EXCEPT !.cert = made + 1]
    /\ registry' = "write_key"
    /\ UNCHANGED <<loaded, front, certs, signedVars, day, misread>>

\* Slip: that the key could not be written is not looked at.
WriteKeyUnchecked ==
    /\ registry = "write_key"
    /\ file' \in {file, [file EXCEPT !.key = file.cert]}
    /\ loaded' = [cert |-> file.cert, key |-> file.cert]
    /\ registry' = "up"
    /\ UNCHANGED <<front, made, certs, signedVars, day, misread>>

WriteKey ==
    /\ registry = "write_key"
    /\ file' = [file EXCEPT !.key = file.cert]
    /\ loaded' = [cert |-> file.cert, key |-> file.cert]
    /\ registry' = "up"
    /\ UNCHANGED <<front, made, certs, signedVars, day, misread>>

\* The process stops; a start that cannot write its files does so too.
Crash ==
    /\ registry # "down"
    /\ registry' = "down"
    /\ loaded' = NoCA
    /\ front' = "local"
    /\ UNCHANGED <<file, made, certs, signedVars, day, misread>>

-----------------------------------------------------------------------------
\* x509 refuses to sign with a key that is not that of the certificate.
Signing == registry = "up" /\ loaded.cert = loaded.key

\* The agent service signs with the local CA whatever the role is.
IssueAgentCert(a) ==
    /\ Signing
    /\ certs' = certs \cup {[agent |-> a, ca |-> loaded.key, until |-> day + CertLife]}
    /\ UNCHANGED <<caVars, signedVars, day, misread>>

\* Slip: the dates of the certificate are not looked at.
VerifyChain(c) == registry = "up" /\ front = "local" /\ c.ca = loaded.cert

\* The chain to the pool of the token endpoint's issuer, and the dates.  The
\* agent's row and the revocation list are not looked at.
VerifyPeerCert(c) ==
    /\ registry = "up"
    /\ front = "local"
    /\ c.ca = loaded.cert
    /\ day =< c.until

\* RequireMTLS takes the agent from a certificate it can verify.
RequireMTLS(c) == c \in certs /\ VerifyPeerCert(c)

-----------------------------------------------------------------------------
\* Every token is signed with the key of the local CA and names the same issuer.
\* It has the claims of its kind: the agent of a task token and whether the scopes
\* it was asked for have nexus:admin, the user of a session.
Sign(agents, admin, users, life) ==
    /\ registry = "up"
    /\ Cardinality(tokens) < MaxTokens
    /\ tokens' = tokens \cup {[agents |-> agents, admin |-> admin, users |-> users,
                               key |-> loaded.key, expires |-> day + life]}
    /\ UNCHANGED <<caVars, certs, day, misread>>

\* The token endpoint grants the scopes that the request has.
IssueToken(c, admin) ==
    /\ RequireMTLS(c)
    /\ Sign({c.agent}, admin, {}, TokenLife)
    /\ UNCHANGED login

\* A user has logged in.
IssueSession(u) ==
    /\ Sign({}, FALSE, {u}, SessionLife)
    /\ login' = [login EXCEPT ![u] = day]

\* An endorsement names its agent in a claim of another name; the session of the
\* administrator and the state of a sign-in name no user that owns agents.  Cards
\* and states are handed out to anyone.
IssueOther(life) ==
    /\ Sign({}, FALSE, {}, life)
    /\ UNCHANGED login

\* The method, the issuer and the expiry, not the kind of the token.
Verify(t) == t.key = loaded.key /\ day < t.expires

\* The routes of the agents let a token pass that can be verified.
RequireToken(t) == registry = "up" /\ Verify(t)

\* The token's claims name the agent or have the scope of an administrator, or are
\* those of a session of the agent's owner.
MayRevoke(t, a) ==
    /\ RequireToken(t)
    /\ a \in t.agents \/ t.admin \/ OwnedBy[a] \cap t.users # {}

Tick ==
    /\ day < MaxDay
    /\ day' = day + 1
    /\ UNCHANGED <<caVars, certs, signedVars, misread>>

-----------------------------------------------------------------------------
IdentityNext ==
    \/ LoadOrCreate \/ WriteCert \/ WriteKey \/ Crash \/ Tick
    \/ \E a \in Agents : IssueAgentCert(a)
    \/ \E c \in certs, admin \in BOOLEAN : IssueToken(c, admin)
    \/ \E u \in People : IssueSession(u)
    \/ \E life \in {CertLife, StateLife} : IssueOther(life)

IdentitySpec == IdentityInit /\ [][IdentityNext]_identityVars

-----------------------------------------------------------------------------
(* Properties *)

\* Crashes and restarts at any step keep the CA: a process that is up and whose
\* token endpoint has the local issuer accepts each certificate that was ever
\* handed out, till its end -- unless some start failed to read files that were
\* there, and so replaced the CA.
CertsSurviveRestarts ==
    ~misread => \A c \in certs :
        /\ registry = "up" => loaded = [cert |-> c.ca, key |-> c.ca]
        /\ registry = "up" /\ front = "local" /\ day =< c.until => VerifyPeerCert(c)

\* Any token of the CA's key passes the gate of the route that revokes an agent,
\* endorsements and sign-in states included.  A revocation by token is owed all
\* the same to a certificate of that agent (of some agent, with the scope of an
\* administrator) that the key in use has signed and that ended less than a
\* token's lifetime ago, or to a login of its owner less than a session ago:
\* whatever starts and CAs came in between.
TokensBounded ==
    \A t \in tokens, a \in Agents : MayRevoke(t, a) =>
        \/ \E c \in certs :
             /\ c.agent = a \/ t.admin
             /\ c.ca = loaded.key
             /\ day < c.until + TokenLife
        \/ \E u \in OwnedBy[a] : login[u] > 0 /\ day < login[u] + SessionLife
=============================================================================
