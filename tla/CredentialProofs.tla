-------------------------- MODULE CredentialProofs --------------------------
(***************************************************************************)
(* Proofs about what stands for an agent: the CA, its certificates and     *)
(* tokens (Identity), the token of the Go client (AgentClient) and the     *)
(* files of the command line (Claim); for any agents, callers, runs,       *)
(* lifetimes and lengths of a card.                                        *)
(***************************************************************************)
EXTENDS Identity, AgentClient, Claim, FiniteSetTheorems, TLAPS

-----------------------------------------------------------------------------
(* The CA, its certificates and its tokens.                                *)

Pair == [cert : Nat, key : Nat]
Cert == [agent : Agents, ca : Nat \ {0}, until : Nat]
Token == [agents : SUBSET Agents, admin : BOOLEAN, users : SUBSET People,
          key : Nat, expires : Nat]

IdentityTypeOK ==
    /\ file \in Pair
    /\ loaded \in Pair
    /\ registry \in {"down", "create", "write_key", "up"}
    /\ front \in Fronts
    /\ made \in Nat
    /\ certs \in SUBSET Cert
    /\ tokens \in SUBSET Token
    /\ login \in [People -> Nat]
    /\ day \in Nat \ {0}
    /\ misread \in BOOLEAN

\* The key is written after its certificate, and what is up was read, or
\* written, whole.
FilesInOrder ==
    /\ file.key =< file.cert
    /\ file.cert =< made
    /\ registry = "write_key" => file.cert = made /\ made # 0
    /\ registry = "up" => loaded = file /\ file.key # 0

\* No certificate is from a CA whose key has not reached the file.
CertsOfKeys == \A c \in certs : c.ca =< file.key

\* Files that were never taken for missing are those of the one CA there is.
OneCA ==
    ~misread =>
        /\ registry \in {"create", "write_key"} => file.key = 0
        /\ file.key # 0 => file.key = file.cert
        /\ \A c \in certs : c.ca = file.key

Backed(t, c) == t.key = c.ca /\ t.expires =< c.until + TokenLife

\* A token that names an agent, or has the scope of an administrator, was issued
\* for a certificate of the key that signed it, in time; one that names a user,
\* at a login that was not after the last.
TokensOfCerts ==
    /\ \A u \in People : login[u] =< day
    /\ \A t \in tokens :
        /\ \A a \in t.agents : \E c \in certs : c.agent = a /\ Backed(t, c)
        /\ t.admin => \E c \in certs : Backed(t, c)
        /\ \A u \in t.users : login[u] > 0 /\ t.expires =< login[u] + SessionLife

IdentityInductive ==
    IdentityTypeOK /\ FilesInOrder /\ CertsOfKeys /\ OneCA /\ TokensOfCerts

-----------------------------------------------------------------------------
LEMMA InitIdentityInductive == IdentityInit => IdentityInductive
<1> SUFFICES ASSUME IdentityInit PROVE IdentityInductive
  OBVIOUS
<1>1. IdentityTypeOK
  <2>1. misread \in BOOLEAN
    BY DEF IdentityInit
  <2>2. /\ file \in Pair /\ loaded \in Pair
        /\ registry \in {"down", "create", "write_key", "up"}
        /\ front \in Fronts
    BY DEF IdentityInit, NoCA, Fronts, Pair
  <2>3. /\ made \in Nat /\ certs \in SUBSET Cert /\ tokens \in SUBSET Token
        /\ login \in [People -> Nat] /\ day \in Nat \ {0}
    BY DEF IdentityInit
  <2> QED
    BY <2>1, <2>2, <2>3 DEF IdentityTypeOK
<1>2. FilesInOrder /\ CertsOfKeys /\ OneCA /\ TokensOfCerts
  BY DEF IdentityInit, NoCA, FilesInOrder, CertsOfKeys, OneCA, TokensOfCerts
<1> QED
  BY <1>1, <1>2 DEF IdentityInductive

LEMMA LoadKeeps ==
    ASSUME IdentityInductive, LoadOrCreate
    PROVE  IdentityInductive'
<1> USE DEF IdentityInductive, LoadOrCreate, Load, signedVars
<1>1. IdentityTypeOK'
  BY DEF IdentityTypeOK, Pair, Cert, Token
<1>2. FilesInOrder'
  BY DEF FilesInOrder, IdentityTypeOK, Pair
<1>3. CertsOfKeys'
  BY DEF CertsOfKeys
<1>4. OneCA'
  <2>1. UNCHANGED <<file, certs>>
    OBVIOUS
  <2>2. CASE registry' = "up" /\ misread' = misread
    BY <2>1, <2>2 DEF OneCA
  <2>3. CASE registry' = "create" /\ misread' = (misread \/ Load)
    <3> SUFFICES ASSUME ~misread, ~Load PROVE OneCA'
      BY <2>3 DEF OneCA
    <3>1. file.key = 0
      BY DEF FilesInOrder, IdentityTypeOK, Pair
    <3> QED
      BY <2>1, <3>1 DEF OneCA
  <2> QED
    BY <2>2, <2>3
<1>5. TokensOfCerts'
  BY DEF TokensOfCerts
<1> QED
  BY <1>1, <1>2, <1>3, <1>4, <1>5

(* Writing the certificate leaves the old key behind it.                   *)
LEMMA WriteCertKeeps ==
    ASSUME IdentityInductive, WriteCert
    PROVE  IdentityInductive'
<1> USE DEF IdentityInductive, WriteCert, signedVars
<1>1. IdentityTypeOK'
  BY DEF IdentityTypeOK, Pair, Cert, Token
<1>2. FilesInOrder'
  BY DEF FilesInOrder, IdentityTypeOK, Pair
<1>3. CertsOfKeys'
  BY DEF CertsOfKeys, IdentityTypeOK, Pair
<1>4. OneCA'
  BY DEF OneCA, IdentityTypeOK, Pair
<1>5. TokensOfCerts'
  BY DEF TokensOfCerts
<1> QED
  BY <1>1, <1>2, <1>3, <1>4, <1>5

LEMMA WriteKeyKeeps ==
    ASSUME IdentityInductive, WriteKey
    PROVE  IdentityInductive'
<1> USE DEF IdentityInductive, WriteKey, signedVars
<1>1. IdentityTypeOK'
  BY DEF IdentityTypeOK, Pair, Cert, Token
<1>2. FilesInOrder'
  BY DEF FilesInOrder, IdentityTypeOK, Pair
<1>3. CertsOfKeys'
  BY DEF CertsOfKeys, FilesInOrder, IdentityTypeOK, Pair, Cert
<1>4. OneCA'
  <2>1. ~misread => certs = {}
    BY DEF OneCA, IdentityTypeOK, Cert
  <2> QED
    BY <2>1 DEF OneCA, IdentityTypeOK, Pair
<1>5. TokensOfCerts'
  BY DEF TokensOfCerts
<1> QED
  BY <1>1, <1>2, <1>3, <1>4, <1>5

LEMMA CrashKeeps ==
    ASSUME IdentityInductive, Crash
    PROVE  IdentityInductive'
<1> USE DEF IdentityInductive, Crash, signedVars
<1>1. IdentityTypeOK'
  BY DEF IdentityTypeOK, Pair, Cert, Token, NoCA, Fronts
<1>2. FilesInOrder' /\ CertsOfKeys' /\ OneCA' /\ TokensOfCerts'
  BY DEF FilesInOrder, CertsOfKeys, OneCA, TokensOfCerts
<1> QED
  BY <1>1, <1>2

(* Only a CA whose key is that of its certificate signs.                   *)
LEMMA IssueCertKeeps ==
    ASSUME IdentityAssumption, IdentityInductive, NEW a \in Agents, IssueAgentCert(a)
    PROVE  IdentityInductive'
<1> DEFINE new == [agent |-> a, ca |-> loaded.key, until |-> day + CertLife]
<1> USE DEF IdentityInductive, IssueAgentCert, Signing, caVars, signedVars
<1>1. new \in Cert /\ new.ca = file.key
  BY DEF IdentityAssumption, IdentityTypeOK, FilesInOrder, Pair, Cert
<1>2. certs' = certs \cup {new}
  OBVIOUS
<1> HIDE DEF new
<1>3. IdentityTypeOK'
  BY <1>1, <1>2 DEF IdentityTypeOK, Pair, Token
<1>4. FilesInOrder'
  BY DEF FilesInOrder
<1>5. CertsOfKeys'
  BY <1>1, <1>2 DEF CertsOfKeys, IdentityTypeOK, Pair
<1>6. OneCA'
  BY <1>1, <1>2 DEF OneCA
<1>7. TokensOfCerts'
  BY <1>2 DEF TokensOfCerts
<1> QED
  BY <1>3, <1>4, <1>5, <1>6, <1>7

(* Whatever is signed leaves the CA alone; the token has to be explained.   *)
LEMMA SignKeeps ==
    ASSUME IdentityInductive, NEW new \in Token,
           tokens' = tokens \cup {new}, UNCHANGED <<caVars, certs, day, misread>>,
           login' \in [People -> Nat],
           \A u \in People : login[u] =< login'[u] /\ login'[u] =< day,
           \A a \in new.agents : \E c \in certs : c.agent = a /\ Backed(new, c),
           new.admin => \E c \in certs : Backed(new, c),
           \A u \in new.users : login'[u] > 0 /\ new.expires =< login'[u] + SessionLife,
           SessionLife \in Nat
    PROVE  IdentityInductive'
<1> USE DEF IdentityInductive, caVars
<1>1. IdentityTypeOK'
  BY DEF IdentityTypeOK, Pair
<1>2. FilesInOrder' /\ CertsOfKeys' /\ OneCA'
  BY DEF FilesInOrder, CertsOfKeys, OneCA
<1>3. TokensOfCerts'
  <2>1. ASSUME NEW t \in tokens, NEW u \in t.users
        PROVE  login'[u] > 0 /\ t.expires =< login'[u] + SessionLife
    <3>1. t \in Token /\ u \in People
      BY DEF IdentityTypeOK, Token
    <3>2. t.expires \in Nat /\ login[u] \in Nat /\ login'[u] \in Nat
      BY <3>1 DEF IdentityTypeOK, Token
    <3>3. login[u] > 0 /\ t.expires =< login[u] + SessionLife
      BY DEF TokensOfCerts
    <3> QED
      BY <3>1, <3>2, <3>3
  <2>2. ASSUME NEW t \in tokens'
        PROVE  /\ \A a \in t.agents : \E c \in certs' : c.agent = a /\ Backed(t, c)
               /\ t.admin => \E c \in certs' : Backed(t, c)
               /\ \A u \in t.users : login'[u] > 0 /\ t.expires =< login'[u] + SessionLife
    BY <2>1 DEF TokensOfCerts
  <2> QED
    BY <2>2 DEF TokensOfCerts, Backed
<1> QED
  BY <1>1, <1>2, <1>3

(* A certificate that the CA verifies is of the key that signs the token: a *)
(* certificate of the newest CA exists only when its key has been written.  *)
LEMMA IssueTokenKeeps ==
    ASSUME IdentityAssumption, IdentityInductive, NEW c \in certs, NEW admin \in BOOLEAN,
           IssueToken(c, admin)
    PROVE  IdentityInductive'
<1> DEFINE new == [agents |-> {c.agent}, admin |-> admin, users |-> {},
                   key |-> loaded.key, expires |-> day + TokenLife]
<1> USE DEF IdentityInductive
<1>1. /\ registry = "up"
      /\ c.ca = loaded.cert
      /\ day =< c.until
  BY DEF IssueToken, RequireMTLS, VerifyPeerCert
<1>2. c \in Cert
  BY DEF IdentityTypeOK
<1>3. c.ca = loaded.key
  BY <1>1, <1>2 DEF FilesInOrder, CertsOfKeys, IdentityTypeOK, Pair, Cert
<1>4. new \in Token /\ new.agents = {c.agent} /\ new.users = {}
  BY <1>1, <1>2 DEF IdentityAssumption, IdentityTypeOK, Pair, Cert, Token
<1>5. Backed(new, c)
  BY <1>1, <1>2, <1>3 DEF IdentityAssumption, IdentityTypeOK, Cert, Backed
<1>6. tokens' = tokens \cup {new} /\ UNCHANGED <<caVars, certs, day, misread>>
  BY DEF IssueToken, Sign
<1>7. /\ login' \in [People -> Nat] /\ SessionLife \in Nat
      /\ \A u \in People : login[u] =< login'[u] /\ login'[u] =< day
  BY DEF IssueToken, IdentityTypeOK, TokensOfCerts, IdentityAssumption
<1> HIDE DEF new
<1> QED
  BY <1>4, <1>5, <1>6, <1>7, SignKeeps

LEMMA IssueSessionKeeps ==
    ASSUME IdentityAssumption, IdentityInductive, NEW u \in People, IssueSession(u)
    PROVE  IdentityInductive'
<1> DEFINE new == [agents |-> {}, admin |-> FALSE, users |-> {u},
                   key |-> loaded.key, expires |-> day + SessionLife]
<1> USE DEF IdentityInductive
<1>1. /\ new \in Token /\ new.agents = {} /\ ~new.admin /\ new.users = {u}
      /\ new.expires = day + SessionLife
  BY DEF IdentityAssumption, IdentityTypeOK, Pair, Token
<1>2. tokens' = tokens \cup {new} /\ UNCHANGED <<caVars, certs, day, misread>>
  BY DEF IssueSession, Sign
<1>3. /\ login' \in [People -> Nat] /\ SessionLife \in Nat
      /\ \A p \in People : login[p] =< login'[p] /\ login'[p] =< day
      /\ login'[u] = day /\ day > 0
  BY DEF IssueSession, IdentityTypeOK, TokensOfCerts, IdentityAssumption
<1> HIDE DEF new
<1>4. \A p \in new.users : login'[p] > 0 /\ new.expires =< login'[p] + SessionLife
  BY <1>1, <1>3
<1> QED
  BY <1>1, <1>2, <1>3, <1>4, SignKeeps

LEMMA IssueOtherKeeps ==
    ASSUME IdentityAssumption, IdentityInductive, NEW life \in {CertLife, StateLife},
           IssueOther(life)
    PROVE  IdentityInductive'
<1> DEFINE new == [agents |-> {}, admin |-> FALSE, users |-> {},
                   key |-> loaded.key, expires |-> day + life]
<1> USE DEF IdentityInductive
<1>1. new \in Token /\ new.agents = {} /\ ~new.admin /\ new.users = {}
  BY DEF IdentityAssumption, IdentityTypeOK, Pair, Token
<1>2. tokens' = tokens \cup {new} /\ UNCHANGED <<caVars, certs, day, misread>>
  BY DEF IssueOther, Sign
<1>3. /\ login' \in [People -> Nat] /\ SessionLife \in Nat
      /\ \A p \in People : login[p] =< login'[p] /\ login'[p] =< day
  BY DEF IssueOther, IdentityTypeOK, TokensOfCerts, IdentityAssumption
<1> HIDE DEF new
<1> QED
  BY <1>1, <1>2, <1>3, SignKeeps

LEMMA TickKeeps ==
    ASSUME IdentityInductive, Tick
    PROVE  IdentityInductive'
<1> USE DEF IdentityInductive, Tick, caVars, signedVars
<1>1. IdentityTypeOK'
  BY DEF IdentityTypeOK, Pair, Cert, Token
<1>2. FilesInOrder' /\ CertsOfKeys' /\ OneCA'
  BY DEF FilesInOrder, CertsOfKeys, OneCA
<1>3. \A u \in People : login[u] =< day => login[u] =< day + 1
  BY DEF IdentityTypeOK
<1>4. TokensOfCerts'
  BY <1>3 DEF TokensOfCerts
<1> QED
  BY <1>1, <1>2, <1>4

(* What the files, the certificates and the tokens have to do with each    *)
(* other holds in every reachable state.                                   *)
THEOREM IdentityInductiveHolds ==
    ASSUME IdentityAssumption
    PROVE  IdentitySpec => []IdentityInductive
<1>1. IdentityInit => IdentityInductive
  BY InitIdentityInductive
<1>2. IdentityInductive /\ [IdentityNext]_identityVars => IdentityInductive'
  <2> SUFFICES ASSUME IdentityInductive, [IdentityNext]_identityVars PROVE IdentityInductive'
    OBVIOUS
  <2>1. CASE LoadOrCreate
    BY <2>1, LoadKeeps
  <2>2. CASE WriteCert
    BY <2>2, WriteCertKeeps
  <2>3. CASE WriteKey
    BY <2>3, WriteKeyKeeps
  <2>4. CASE Crash
    BY <2>4, CrashKeeps
  <2>5. CASE Tick
    BY <2>5, TickKeeps
  <2>6. ASSUME NEW a \in Agents, IssueAgentCert(a) PROVE IdentityInductive'
    BY <2>6, IdentityAssumption, IssueCertKeeps
  <2>7. ASSUME NEW c \in certs, NEW admin \in BOOLEAN, IssueToken(c, admin)
        PROVE  IdentityInductive'
    BY <2>7, IdentityAssumption, IssueTokenKeeps
  <2>8. ASSUME NEW u \in People, IssueSession(u) PROVE IdentityInductive'
    BY <2>8, IdentityAssumption, IssueSessionKeeps
  <2>9. ASSUME NEW life \in {CertLife, StateLife}, IssueOther(life) PROVE IdentityInductive'
    BY <2>9, IdentityAssumption, IssueOtherKeeps
  <2>10. CASE UNCHANGED identityVars
    BY <2>10 DEF identityVars, caVars, signedVars, IdentityInductive, IdentityTypeOK,
                 FilesInOrder, CertsOfKeys, OneCA, TokensOfCerts
  <2> QED
    BY <2>1, <2>2, <2>3, <2>4, <2>5, <2>6, <2>7, <2>8, <2>9, <2>10 DEF IdentityNext
<1> QED
  BY <1>1, <1>2, PTL DEF IdentitySpec

(* Restarts keep what was handed out: the CA that is up is the one of      *)
(* every certificate, unless a start took files that were there for        *)
(* missing.                                                                *)
THEOREM SurviveTheorem ==
    ASSUME IdentityAssumption
    PROVE  IdentitySpec => []CertsSurviveRestarts
<1>1. IdentityInductive => CertsSurviveRestarts
  <2> SUFFICES ASSUME IdentityInductive, ~misread, NEW c \in certs, registry = "up"
               PROVE  /\ loaded = [cert |-> c.ca, key |-> c.ca]
                      /\ front = "local" /\ day =< c.until => VerifyPeerCert(c)
    BY DEF CertsSurviveRestarts
  <2>1. loaded = file /\ file.key = c.ca /\ file.cert = c.ca
    BY DEF IdentityInductive, FilesInOrder, OneCA
  <2>2. file = [cert |-> file.cert, key |-> file.key]
    BY DEF IdentityInductive, IdentityTypeOK, Pair
  <2> QED
    BY <2>1, <2>2 DEF VerifyPeerCert
<1> QED
  BY <1>1, IdentityInductiveHolds, PTL

(* Whatever token the CA's key has signed: a revocation by it is owed to a  *)
(* certificate of that key that ended less than a token's lifetime ago, or *)
(* to a login of the agent's owner less than a session ago.                *)
THEOREM TokensTheorem ==
    ASSUME IdentityAssumption
    PROVE  IdentitySpec => []TokensBounded
<1>1. IdentityInductive => TokensBounded
  <2> SUFFICES ASSUME IdentityInductive, NEW t \in tokens, NEW a \in Agents, MayRevoke(t, a)
               PROVE  \/ \E c \in certs : /\ c.agent = a \/ t.admin
                                         /\ c.ca = loaded.key
                                         /\ day < c.until + TokenLife
                      \/ \E u \in OwnedBy[a] : login[u] > 0 /\ day < login[u] + SessionLife
    BY DEF TokensBounded
  <2>1. /\ t \in Token /\ t.key = loaded.key /\ day < t.expires
        /\ t.expires \in Nat /\ day \in Nat
    BY DEF MayRevoke, RequireToken, Verify, IdentityInductive, IdentityTypeOK, Token
  <2>2. ASSUME NEW c \in certs, Backed(t, c) PROVE c.ca = loaded.key /\ day < c.until + TokenLife
    <3>1. c.until \in Nat
      BY DEF IdentityInductive, IdentityTypeOK, Cert
    <3> QED
      BY <2>1, <2>2, <3>1 DEF Backed, IdentityAssumption
  <2>3. CASE a \in t.agents
    BY <2>2, <2>3 DEF IdentityInductive, TokensOfCerts
  <2>4. CASE t.admin
    BY <2>2, <2>4 DEF IdentityInductive, TokensOfCerts
  <2>5. CASE OwnedBy[a] \cap t.users # {}
    <3>1. PICK u \in OwnedBy[a] : u \in t.users
      BY <2>5
    <3>2. login[u] > 0 /\ t.expires =< login[u] + SessionLife
      BY <3>1 DEF IdentityInductive, TokensOfCerts
    <3>3. login[u] \in Nat
      BY <2>1, <3>1 DEF IdentityInductive, IdentityTypeOK, Token
    <3> QED
      BY <2>1, <3>1, <3>2, <3>3 DEF IdentityAssumption
  <2> QED
    BY <2>3, <2>4, <2>5 DEF MayRevoke
<1> QED
  BY <1>1, IdentityInductiveHolds, PTL

-----------------------------------------------------------------------------
(* The token of the client.                                                *)

OpSteps == {"idle", "lock", "ask", "ask_held", "got", "got_held", "store", "call"}
Op == [pc : OpSteps, token : Int, started : Int]

TokenTypeOK ==
    /\ token \in Int
    /\ tokenExpiry \in Int
    /\ op \in [Callers -> Op]
    /\ clock \in Nat \ {0}

\* A token is renewed while it is good for the buffer yet, less a request.
RenewedInTime(tok, renewal) ==
    /\ tok > 0
    /\ renewal # 0
    /\ renewal =< tok + HttpTimeout - RefreshBuffer

\* A token that is never renewed is the user's own.
StoredInTime ==
    \/ tokenExpiry = 0 /\ token \in {NoToken, Manual}
    \/ RenewedInTime(token, tokenExpiry)

\* A request is answered with a token that was signed after it began.
OpInTime(m) ==
    /\ m.pc \in {"ask", "ask_held", "got", "got_held"} =>
           m.started =< clock /\ clock =< m.started + HttpTimeout /\ m.started > 0
    /\ m.pc \in {"got", "got_held"} => m.token >= m.started + Life
    /\ m.pc = "store" => RenewedInTime(m.token, m.started)
    /\ m.pc = "call" /\ m.token # Manual => m.token > clock + RefreshBuffer - HttpTimeout

TokenInductive ==
    TokenTypeOK /\ StoredInTime /\ \A c \in Callers : OpInTime(op[c])

LEMMA InitTokenInductive == TokenInit => TokenInductive
<1> SUFFICES ASSUME TokenInit PROVE TokenInductive
  OBVIOUS
<1>1. IdleOp \in Op /\ IdleOp.pc = "idle"
  BY DEF IdleOp, Op, OpSteps, NoToken
<1>2. TokenTypeOK
  BY <1>1 DEF TokenInit, TokenTypeOK, NoToken, Manual
<1>3. StoredInTime
  BY DEF TokenInit, StoredInTime
<1>4. \A c \in Callers : OpInTime(op[c])
  BY <1>1 DEF TokenInit, OpInTime
<1> QED
  BY <1>2, <1>3, <1>4 DEF TokenInductive

(* One goroutine goes on, and what is stored stays.                        *)
LEMMA OpKeeps ==
    ASSUME TokenInductive, NEW c \in Callers, NEW m \in Op, OpInTime(m), SetOp(c, m),
           UNCHANGED <<token, tokenExpiry, clock>>
    PROVE  TokenInductive'
<1> USE DEF TokenInductive
<1>1. TokenTypeOK'
  BY DEF SetOp, TokenTypeOK
<1>2. StoredInTime'
  BY DEF StoredInTime, RenewedInTime
<1>3. \A d \in Callers : op'[d] = IF d = c THEN m ELSE op[d]
  BY DEF SetOp, TokenTypeOK
<1>4. ASSUME NEW d \in Callers PROVE OpInTime(op[d])'
  BY <1>3 DEF OpInTime, RenewedInTime
<1> QED
  BY <1>1, <1>2, <1>4

LEMMA OpMoved ==
    ASSUME NEW m \in Op, NEW pc \in OpSteps
    PROVE  /\ [m EXCEPT !.pc = pc] \in Op
           /\ [m EXCEPT !.pc = pc].pc = pc
           /\ [m EXCEPT !.pc = pc].token = m.token
           /\ [m EXCEPT !.pc = pc].started = m.started
BY DEF Op

LEMMA IdleInTime == IdleOp \in Op /\ OpInTime(IdleOp)
BY DEF IdleOp, Op, OpSteps, NoToken, OpInTime

LEMMA CallAgentKeeps ==
    ASSUME TokenInductive, NEW c \in Callers, CallAgent(c)
    PROVE  TokenInductive'
<1> DEFINE m == [op[c] EXCEPT !.pc = "lock"]
<1>1. op[c] \in Op
  BY DEF TokenInductive, TokenTypeOK
<1>2. m \in Op /\ m.pc = "lock"
  BY <1>1, OpMoved DEF OpSteps
<1>3. SetOp(c, m) /\ UNCHANGED <<token, tokenExpiry, clock>>
  BY DEF CallAgent, OpGoto
<1> HIDE DEF m
<1>4. OpInTime(m)
  BY <1>2 DEF OpInTime
<1> QED
  BY <1>2, <1>3, <1>4, OpKeeps

(* A stored token is sent while the client would not renew it: it is good  *)
(* for the buffer yet, less the time its answer took.                      *)
LEMMA EnsureTokenKeeps ==
    ASSUME TokenInductive, NEW c \in Callers, EnsureToken(c)
    PROVE  TokenInductive'
<1> DEFINE use == [op[c] EXCEPT !.pc = "call", !.token = token]
<1> DEFINE ask == [op[c] EXCEPT !.pc = "ask_held", !.started = clock]
<1>1. /\ op[c] \in Op /\ token \in Int /\ tokenExpiry \in Int
      /\ clock \in Nat \ {0} /\ clock \in Int
  BY DEF TokenInductive, TokenTypeOK
<1>2. CASE Valid /\ SetOp(c, use)
  <2>1. use \in Op /\ use.pc = "call" /\ use.token = token
    BY <1>1 DEF Op, OpSteps
  <2> HIDE DEF use
  <2>2. token # Manual => token > clock + RefreshBuffer - HttpTimeout
    <3> SUFFICES ASSUME token # Manual
                 PROVE  token > clock + RefreshBuffer - HttpTimeout
      OBVIOUS
    <3>1. RenewedInTime(token, tokenExpiry) /\ clock < tokenExpiry
      BY <1>2 DEF Valid, TokenInductive, StoredInTime, RenewedInTime
    <3> QED
      BY <1>1, <3>1, TokenAssumption DEF RenewedInTime
  <2>3. OpInTime(use)
    BY <2>1, <2>2 DEF OpInTime
  <2> QED
    BY <1>2, <2>1, <2>3, OpKeeps DEF EnsureToken
<1>3. CASE ~Valid /\ SetOp(c, ask)
  <2>1. ask \in Op /\ ask.pc = "ask_held" /\ ask.started = clock
    BY <1>1 DEF Op, OpSteps
  <2> HIDE DEF ask
  <2>2. OpInTime(ask)
    BY <1>1, <2>1, TokenAssumption DEF OpInTime
  <2> QED
    BY <1>3, <2>1, <2>2, OpKeeps DEF EnsureToken
<1> QED
  BY <1>2, <1>3 DEF EnsureToken

LEMMA FetchTokenKeeps ==
    ASSUME TokenInductive, NEW c \in Callers, FetchToken(c)
    PROVE  TokenInductive'
<1> DEFINE m == [op[c] EXCEPT !.pc = "ask", !.started = clock]
<1>1. op[c] \in Op /\ clock \in Nat \ {0} /\ clock \in Int
  BY DEF TokenInductive, TokenTypeOK
<1>2. m \in Op /\ m.pc = "ask" /\ m.started = clock
  BY <1>1 DEF Op, OpSteps
<1>3. SetOp(c, m) /\ UNCHANGED <<token, tokenExpiry, clock>>
  BY DEF FetchToken
<1> HIDE DEF m
<1>4. OpInTime(m)
  BY <1>1, <1>2, TokenAssumption DEF OpInTime
<1> QED
  BY <1>2, <1>3, <1>4, OpKeeps

LEMMA TokenIssuedKeeps ==
    ASSUME TokenInductive, NEW c \in Callers, TokenIssued(c)
    PROVE  TokenInductive'
<1> DEFINE pc == IF OpAt(c, "ask") THEN "got" ELSE "got_held"
<1> DEFINE signed == clock + Life
<1> DEFINE m == [op[c] EXCEPT !.pc = pc, !.token = signed]
<1>1. op[c] \in Op /\ clock \in Nat \ {0} /\ clock \in Int
  BY DEF TokenInductive, TokenTypeOK
<1>2. SetOp(c, m) /\ UNCHANGED <<token, tokenExpiry, clock>>
  BY DEF TokenIssued
<1>a. pc \in {"got", "got_held"} /\ signed \in Int /\ signed = clock + Life
  BY <1>1, TokenAssumption
<1> HIDE DEF pc, signed
<1>3. m \in Op /\ m.pc = pc /\ m.token = signed /\ m.started = op[c].started
  BY <1>1, <1>a DEF Op, OpSteps
<1>4. /\ op[c].started =< clock /\ clock =< op[c].started + HttpTimeout
      /\ op[c].started > 0
  BY DEF TokenIssued, TokenInductive, OpInTime
<1>5. op[c].started \in Int
  BY <1>1 DEF Op
<1> HIDE DEF m
<1>6. OpInTime(m)
  BY <1>1, <1>a, <1>3, <1>4, <1>5, TokenAssumption DEF OpInTime
<1> QED
  BY <1>2, <1>3, <1>6, OpKeeps

(* The client counts the lifetime from the arrival, which is no later than *)
(* the time out of the request after the token was signed.                 *)
LEMMA ArrivalInTime ==
    ASSUME TokenInductive, NEW c \in Callers, op[c].pc \in {"got", "got_held"}
    PROVE  /\ RenewedInTime(op[c].token, Renewal)
           /\ op[c].token > clock + RefreshBuffer - HttpTimeout
           /\ Renewal \in Int /\ op[c].token \in Int
<1>1. /\ clock \in Nat \ {0} /\ op[c].started \in Int /\ op[c].token \in Int
      /\ clock =< op[c].started + HttpTimeout /\ op[c].started > 0
      /\ op[c].token >= op[c].started + Life
  BY DEF TokenInductive, TokenTypeOK, OpInTime, Op
<1> QED
  BY <1>1, TokenAssumption DEF RenewedInTime, Renewal

LEMMA TokenArrivesKeeps ==
    ASSUME TokenInductive, NEW c \in Callers, TokenArrives(c)
    PROVE  TokenInductive'
<1> DEFINE m == [op[c] EXCEPT !.pc = "call"]
<1>1. op[c] \in Op /\ clock \in Nat \ {0} /\ clock \in Int
  BY DEF TokenInductive, TokenTypeOK
<1>2. m \in Op /\ m.pc = "call" /\ m.token = op[c].token
  BY <1>1, OpMoved DEF OpSteps
<1>3. /\ op' = [op EXCEPT ![c] = m] /\ clock' = clock
      /\ token' = op[c].token /\ tokenExpiry' = Renewal
  BY DEF TokenArrives, OpGoto, SetOp
<1> HIDE DEF m
<1>4. /\ RenewedInTime(token', tokenExpiry')
      /\ m.token > clock + RefreshBuffer - HttpTimeout
      /\ token' \in Int /\ tokenExpiry' \in Int
  BY <1>2, <1>3, ArrivalInTime DEF TokenArrives, OpAt
<1>5. TokenTypeOK'
  BY <1>2, <1>3, <1>4 DEF TokenTypeOK, TokenInductive
<1>6. StoredInTime'
  BY <1>4 DEF StoredInTime, RenewedInTime
<1>7. \A d \in Callers : op'[d] = IF d = c THEN m ELSE op[d]
  BY <1>3 DEF TokenInductive, TokenTypeOK
<1>8. ASSUME NEW d \in Callers PROVE OpInTime(op[d])'
  BY <1>2, <1>3, <1>4, <1>7 DEF OpInTime, RenewedInTime, TokenInductive
<1> QED
  BY <1>5, <1>6, <1>8 DEF TokenInductive

LEMMA FetchArrivesKeeps ==
    ASSUME TokenInductive, NEW c \in Callers, FetchArrives(c)
    PROVE  TokenInductive'
<1> DEFINE m == [op[c] EXCEPT !.pc = "store", !.started = Renewal]
<1>1. op[c] \in Op
  BY DEF TokenInductive, TokenTypeOK
<1>2. RenewedInTime(op[c].token, Renewal) /\ Renewal \in Int
  BY ArrivalInTime DEF FetchArrives, OpAt
<1>3. m \in Op /\ m.pc = "store" /\ m.token = op[c].token /\ m.started = Renewal
  BY <1>1, <1>2 DEF Op, OpSteps
<1>4. SetOp(c, m) /\ UNCHANGED <<token, tokenExpiry, clock>>
  BY DEF FetchArrives
<1> HIDE DEF m
<1>5. OpInTime(m)
  BY <1>2, <1>3 DEF OpInTime
<1> QED
  BY <1>3, <1>4, <1>5, OpKeeps

(* A token is stored with its own time of renewal, in whatever order.      *)
LEMMA FetchStoresKeeps ==
    ASSUME TokenInductive, NEW c \in Callers, FetchStores(c)
    PROVE  TokenInductive'
<1>1. /\ op' = [op EXCEPT ![c] = IdleOp] /\ clock' = clock
      /\ token' = op[c].token /\ tokenExpiry' = op[c].started
      /\ RenewedInTime(op[c].token, op[c].started)
  BY DEF FetchStores, StoreToken, SetOp, OpAt, TokenInductive, OpInTime
<1>2. op[c].token \in Int /\ op[c].started \in Int
  BY DEF TokenInductive, TokenTypeOK, Op
<1>3. TokenTypeOK'
  BY <1>1, <1>2, IdleInTime DEF TokenTypeOK, TokenInductive
<1>4. StoredInTime'
  BY <1>1 DEF StoredInTime, RenewedInTime
<1>5. \A d \in Callers : op'[d] = IF d = c THEN IdleOp ELSE op[d]
  BY <1>1 DEF TokenInductive, TokenTypeOK
<1>6. ASSUME NEW d \in Callers PROVE OpInTime(op[d])'
  BY <1>1, <1>5, IdleInTime DEF OpInTime, RenewedInTime, TokenInductive
<1> QED
  BY <1>3, <1>4, <1>6 DEF TokenInductive

LEMMA BackToIdleKeeps ==
    ASSUME TokenInductive, NEW c \in Callers, SetOp(c, IdleOp),
           UNCHANGED <<token, tokenExpiry, clock>>
    PROVE  TokenInductive'
BY IdleInTime, OpKeeps

(* The clock stands while a call goes out, and waits for a request no      *)
(* longer than its time out.                                               *)
LEMMA TokenTickKeeps ==
    ASSUME TokenInductive, TokenTick
    PROVE  TokenInductive'
<1>1. clock' = clock + 1 /\ UNCHANGED <<token, tokenExpiry, mu, op>> /\ clock \in Nat \ {0}
  BY DEF TokenTick, TokenInductive, TokenTypeOK
<1>2. TokenTypeOK'
  BY <1>1 DEF TokenTypeOK, TokenInductive
<1>3. StoredInTime'
  BY <1>1 DEF StoredInTime, RenewedInTime, TokenInductive
<1>4. ASSUME NEW c \in Callers PROVE OpInTime(op[c])'
  <2>1. /\ op[c] \in Op /\ OpInTime(op[c]) /\ op[c].pc # "call"
        /\ op[c].pc \in {"ask", "ask_held", "got", "got_held"} =>
               clock < op[c].started + HttpTimeout
    BY DEF TokenTick, TokenInductive, TokenTypeOK, OpAt
  <2>2. op[c].started \in Int
    BY <2>1 DEF Op
  <2> QED
    BY <1>1, <2>1, <2>2, TokenAssumption DEF OpInTime, RenewedInTime
<1> QED
  BY <1>2, <1>3, <1>4 DEF TokenInductive

(* The token that goes out with a call is good for the buffer yet, less    *)
(* the time an answer takes, however fetches overlap.                      *)
THEOREM TokenTheorem == TokenSpec => []TokenFresh
<1>1. TokenInductive /\ [TokenNext]_tokenVars => TokenInductive'
  <2> SUFFICES ASSUME TokenInductive, [TokenNext]_tokenVars PROVE TokenInductive'
    OBVIOUS
  <2>1. CASE TokenTick
    BY <2>1, TokenTickKeeps
  <2>2. ASSUME NEW c \in Callers, CallAgent(c) PROVE TokenInductive'
    BY <2>2, CallAgentKeeps
  <2>3. ASSUME NEW c \in Callers, EnsureToken(c) PROVE TokenInductive'
    BY <2>3, EnsureTokenKeeps
  <2>4. ASSUME NEW c \in Callers, FetchToken(c) PROVE TokenInductive'
    BY <2>4, FetchTokenKeeps
  <2>5. ASSUME NEW c \in Callers, TokenIssued(c) PROVE TokenInductive'
    BY <2>5, TokenIssuedKeeps
  <2>6. ASSUME NEW c \in Callers, TokenArrives(c) PROVE TokenInductive'
    BY <2>6, TokenArrivesKeeps
  <2>7. ASSUME NEW c \in Callers, FetchArrives(c) PROVE TokenInductive'
    BY <2>7, FetchArrivesKeeps
  <2>8. ASSUME NEW c \in Callers, FetchStores(c) PROVE TokenInductive'
    BY <2>8, FetchStoresKeeps
  <2>9. ASSUME NEW c \in Callers, FailFetch(c) \/ SendCall(c) PROVE TokenInductive'
    BY <2>9, BackToIdleKeeps DEF FailFetch, SendCall
  <2>10. CASE UNCHANGED tokenVars
    BY <2>10 DEF tokenVars, TokenInductive, TokenTypeOK, StoredInTime, RenewedInTime, OpInTime
  <2> QED
    BY <2>1, <2>2, <2>3, <2>4, <2>5, <2>6, <2>7, <2>8, <2>9, <2>10 DEF TokenNext, CallerStep
<1>2. TokenInductive => TokenFresh
  BY DEF TokenInductive, OpInTime, TokenFresh, OpAt
<1> QED
  BY InitTokenInductive, <1>1, <1>2, PTL DEF TokenSpec

-----------------------------------------------------------------------------
(* The commands that claim a domain and revoke an agent.                   *)

ClaimSteps == {"start", "publish", "poll", "register", "activate", "save_cert",
               "save_key", "save_ca", "done", "failed"}
ClaimRun == [pc : ClaimSteps, place : Places, late : BOOLEAN]
RevokeSteps == {"idle", "confirm", "read_cert", "read_key", "pair", "call", "done", "failed"}
RevokeRun == [pc : RevokeSteps, target : Bundles, cert : Bundles, key : Bundles]

ClaimTypeOK ==
    /\ claim \in [Claims -> ClaimRun]
    /\ challenge \in [Claims -> {"none", "pending", "verified", "expired"}]
    /\ agent \in [Ids -> {"none", "pending", "active", "revoked"}]
    /\ dir \in [cert : Bundles, key : Bundles]
    /\ revoke \in [Revokes -> RevokeRun]
    /\ revokedBy \in [Ids -> Bundles]

\* An agent that was active, of which a certificate exists.
Certified(b) == b # NoId => agent[b] \in {"active", "revoked"}

\* A claim has activated and saved every agent before the one it is at, and has
\* not come to those after it.
ClaimInOrder(r) ==
    /\ claim[r].pc \in {"publish", "poll"} => challenge[r] # "none"
    /\ \A i \in Places : i < claim[r].place =>
           agent[<<r, i>>] # "pending" /\ SavedSince(dir.key, r, i)
    /\ \A i \in Places : i > claim[r].place => agent[<<r, i>>] = "none"
    /\ claim[r].pc \in {"start", "publish", "poll", "register"} => agent[Current(r)] = "none"
    /\ ClaimAt(r, "activate") => agent[Current(r)] = "pending"
    /\ claim[r].pc \in {"save_key", "save_ca", "done"} =>
           SavedSince(dir.cert, r, claim[r].place)
    /\ claim[r].pc \in {"save_ca", "done"} => SavedSince(dir.key, r, claim[r].place)
    /\ ClaimAt(r, "done") => claim[r].place = Card
    /\ claim[r].pc \in {"save_cert", "save_key", "save_ca"} => Certified(Current(r))

\* The files, and what was read from them, are of agents that were active.
FilesOfAgents ==
    /\ Certified(dir.cert)
    /\ \A v \in Revokes : Certified(revoke[v].cert)

RevokesWithPair ==
    \A v \in Revokes :
        /\ ~RevokeAt(v, "idle") => revoke[v].target \in Ids
        /\ RevokeAt(v, "call") => PairMatches(v)

OwnBundle == \A a \in Ids : agent[a] = "revoked" => revokedBy[a] = a

ClaimInductive ==
    /\ ClaimTypeOK
    /\ \A r \in Claims : ClaimInOrder(r)
    /\ FilesOfAgents /\ RevokesWithPair /\ OwnBundle

-----------------------------------------------------------------------------
LEMMA NoIdIsNone == NoId \notin Ids /\ NoId \in Bundles /\ 1 \in Places /\ Places \subseteq Nat
BY ClaimAssumption DEF NoId, Ids, Bundles, Places

LEMMA ClaimTypes ==
    ASSUME ClaimInductive, NEW r \in Claims
    PROVE  /\ claim[r] \in ClaimRun
           /\ claim[r].place \in Places
           /\ Current(r) \in Ids
           /\ Current(r) = <<r, claim[r].place>>
           /\ claim[r].pc \in ClaimSteps
           /\ challenge[r] \in {"none", "pending", "verified", "expired"}
           /\ agent[Current(r)] \in {"none", "pending", "active", "revoked"}
<1>1. claim[r] \in ClaimRun
  BY DEF ClaimInductive, ClaimTypeOK
<1>2. claim[r].place \in Places /\ claim[r].pc \in ClaimSteps
  BY <1>1 DEF ClaimRun
<1>3. Current(r) \in Ids /\ Current(r) = <<r, claim[r].place>>
  BY <1>2 DEF Current, Ids
<1> QED
  BY <1>1, <1>2, <1>3 DEF ClaimInductive, ClaimTypeOK

LEMMA InitClaimInductive == ClaimInit => ClaimInductive
<1> SUFFICES ASSUME ClaimInit PROVE ClaimInductive
  OBVIOUS
<1>1. NewClaim \in ClaimRun /\ NewClaim.pc = "start" /\ NewClaim.place = 1
  BY NoIdIsNone DEF NewClaim, ClaimRun, ClaimSteps
<1>2. NewRevoke \in RevokeRun /\ NewRevoke.pc = "idle" /\ NewRevoke.cert = NoId
  BY NoIdIsNone DEF NewRevoke, RevokeRun, RevokeSteps
<1>3. ClaimTypeOK
  BY <1>1, <1>2, NoIdIsNone DEF ClaimInit, ClaimTypeOK
<1>4. ASSUME NEW r \in Claims PROVE ClaimInOrder(r)
  <2>1. Current(r) \in Ids
    BY <1>1, NoIdIsNone DEF ClaimInit, Current, Ids
  <2>2. \A i \in Places : <<r, i>> \in Ids
    BY DEF Ids
  <2>3. \A i \in Places : ~(i < 1)
    BY DEF Places
  <2> QED
    BY <1>1, <2>1, <2>2, <2>3 DEF ClaimInit, ClaimInOrder, ClaimAt
<1>5. FilesOfAgents /\ RevokesWithPair /\ OwnBundle
  BY <1>2 DEF ClaimInit, FilesOfAgents, Certified, RevokesWithPair, OwnBundle, RevokeAt
<1> QED
  BY <1>3, <1>4, <1>5 DEF ClaimInductive

(* A step of the claim r leaves the other runs, their challenges and agents *)
(* alone.  Of its current agent, one that was active is active or revoked  *)
(* afterwards.                                                             *)
StepOf(r) ==
    /\ claim' \in [Claims -> ClaimRun]
    /\ challenge' \in [Claims -> {"none", "pending", "verified", "expired"}]
    /\ \A q \in Claims \ {r} : claim'[q] = claim[q] /\ challenge'[q] = challenge[q]
    /\ agent' \in [Ids -> {"none", "pending", "active", "revoked"}]
    /\ \A a \in Ids \ {Current(r)} : agent'[a] = agent[a]
    /\ \/ agent'[Current(r)] \in {agent[Current(r)], "active"}
       \/ agent'[Current(r)] = "pending" /\ agent[Current(r)] = "none"
    /\ dir' \in [cert : Bundles, key : Bundles]
    /\ UNCHANGED <<revoke, revokedBy>>

\* The run goes on with the same agent of the card, or with the next one when
\* it has saved this one.
OnwardsInOrder(r) ==
    /\ claim'[r].pc \in {"publish", "poll"} => challenge'[r] # "none"
    /\ claim'[r].pc \in {"save_cert", "save_key", "save_ca"} =>
           /\ claim'[r].place = claim[r].place
           /\ agent'[Current(r)] \in {"active", "revoked"}
    /\ claim'[r].pc = "activate" =>
           claim'[r].place = claim[r].place /\ agent'[Current(r)] = "pending"
    /\ claim'[r].pc = "done" => claim[r].place = Card /\ claim'[r].place = Card
    /\ claim'[r].pc \in {"save_key", "save_ca", "done"} =>
           SavedSince(dir'.cert, r, claim[r].place)
    /\ claim'[r].pc \in {"save_ca", "done"} => SavedSince(dir'.key, r, claim[r].place)
    /\ \/ /\ claim'[r].place = claim[r].place
          /\ claim'[r].pc \in {"start", "publish", "poll", "register"} =>
                 agent'[Current(r)] = "none"
       \/ /\ claim'[r].place = claim[r].place + 1
          /\ agent'[Current(r)] # "pending" /\ SavedSince(dir'.key, r, claim[r].place)
          /\ claim'[r].pc = "register"

(* What was saved over a bundle stays over it when more is saved.          *)
LEMMA SavedStays ==
    ASSUME NEW q \in Claims, NEW i \in Places, NEW r \in Claims, NEW here \in Places,
           NEW b, NEW new, SavedSince(b, q, i),
           new = b \/ (new = <<r, here>> /\ (q = r => here >= i))
    PROVE  SavedSince(new, q, i)
BY DEF SavedSince

LEMMA ClaimStepKeeps ==
    ASSUME ClaimInductive, NEW r \in Claims, StepOf(r), OnwardsInOrder(r),
           \/ dir'.cert = dir.cert
           \/ dir'.cert = Current(r) /\ agent'[Current(r)] \in {"active", "revoked"},
           dir'.key \in {dir.key, Current(r)}
    PROVE  ClaimInductive'
<1> DEFINE here == claim[r].place
<1> DEFINE m == claim'[r]
<1>1. /\ here \in Places /\ Current(r) = <<r, here>> /\ Current(r) \in Ids
      /\ m \in ClaimRun /\ m.place \in Places /\ \A i \in Places : i \in Nat
      /\ Current(r) # NoId
  BY ClaimTypes, NoIdIsNone DEF ClaimRun, StepOf
<1>2. ClaimTypeOK'
  BY <1>1 DEF ClaimInductive, ClaimTypeOK, StepOf
<1>3. /\ \A q \in Claims \ {r} : claim'[q] = claim[q] /\ challenge'[q] = challenge[q]
      /\ \A a \in Ids \ {Current(r)} : agent'[a] = agent[a]
  BY DEF StepOf
<1>4. /\ \A q \in Claims, i \in Places : <<q, i>> \in Ids
      /\ \A q \in Claims, i \in Places : <<q, i>> = Current(r) => q = r /\ i = here
  BY <1>1 DEF Ids, StepOf
<1>5. \A b \in Bundles : Certified(b) => Certified(b)'
  BY <1>1, <1>3 DEF Certified, Bundles, StepOf
<1>6. ASSUME NEW q \in Claims, q # r PROVE ClaimInOrder(q)'
  <2>1. /\ ClaimInOrder(q) /\ Current(q) \in Ids /\ Current(q) \in Bundles
        /\ Current(q) = <<q, claim[q].place>> /\ claim[q].place \in Places
    BY ClaimTypes DEF ClaimInductive, Bundles
  <2>2. Current(q)' = Current(q) /\ claim'[q] = claim[q] /\ challenge'[q] = challenge[q]
    BY <1>3, <1>6 DEF Current
  <2>3. /\ \A i \in Places : agent'[<<q, i>>] = agent[<<q, i>>]
        /\ agent'[Current(q)] = agent[Current(q)]
    BY <1>3, <1>4, <1>6, <2>1
  <2>4. Certified(Current(q)) => Certified(Current(q))'
    BY <1>5, <2>1, <2>2 DEF Certified
  <2>5. ASSUME NEW i \in Places
        PROVE  /\ SavedSince(dir.key, q, i) => SavedSince(dir'.key, q, i)
               /\ SavedSince(dir.cert, q, i) => SavedSince(dir'.cert, q, i)
    BY <1>1, <1>6, SavedStays
  <2> HIDE DEF m, here
  <2> QED
    BY <2>1, <2>2, <2>3, <2>4, <2>5 DEF ClaimInOrder, ClaimAt
<1>7. ClaimInOrder(r)'
  <2>1. ClaimInOrder(r)
    BY DEF ClaimInductive
  <2>2. Current(r)' = <<r, m.place>> /\ <<r, m.place>> \in Ids
    BY <1>1, <1>4 DEF Current
  <2>3. ASSUME NEW i \in Places, i < m.place
        PROVE  agent'[<<r, i>>] # "pending" /\ SavedSince(dir'.key, r, i)
    <3>1. CASE i = here
      BY <1>1, <2>3, <3>1 DEF OnwardsInOrder
    <3>2. CASE i # here
      <4>1. i < here /\ here >= i
        BY <1>1, <2>3, <3>2 DEF OnwardsInOrder
      <4>2. agent'[<<r, i>>] # "pending"
        BY <1>3, <1>4, <2>1, <3>2, <4>1 DEF ClaimInOrder
      <4>3. SavedSince(dir.key, r, i)
        BY <2>1, <4>1 DEF ClaimInOrder
      <4> QED
        BY <1>1, <4>1, <4>2, <4>3, SavedStays
    <3> QED
      BY <3>1, <3>2
  <2>4. \A i \in Places : i > m.place => agent'[<<r, i>>] = "none"
    BY <1>1, <1>3, <1>4, <2>1 DEF ClaimInOrder, OnwardsInOrder
  <2>5. /\ m.pc \in {"save_key", "save_ca", "done"} => SavedSince(dir'.cert, r, m.place)
        /\ m.pc \in {"save_ca", "done"} => SavedSince(dir'.key, r, m.place)
        /\ m.pc = "done" => m.place = Card
        /\ m.pc = "activate" => agent'[<<r, m.place>>] = "pending"
    BY <1>1 DEF OnwardsInOrder
  <2>6. m.pc \in {"start", "publish", "poll", "register"} => agent'[<<r, m.place>>] = "none"
    BY <1>1, <1>3, <1>4, <2>1 DEF ClaimInOrder, OnwardsInOrder
  <2>7. m.pc \in {"save_cert", "save_key", "save_ca"} =>
            agent'[<<r, m.place>>] \in {"active", "revoked"}
    BY <1>1 DEF OnwardsInOrder
  <2>8. m.pc \in {"publish", "poll"} => challenge'[r] # "none"
    BY DEF OnwardsInOrder
  <2> QED
    BY <2>2, <2>3, <2>4, <2>5, <2>6, <2>7, <2>8 DEF ClaimInOrder, Certified, ClaimAt
<1>8. FilesOfAgents'
  <2>1. Certified(dir.cert)'
    <3>1. Certified(dir.cert) /\ dir.cert \in Bundles
      BY DEF ClaimInductive, FilesOfAgents, ClaimTypeOK
    <3> QED
      BY <1>5, <3>1 DEF Certified
  <2>2. \A v \in Revokes : revoke[v].cert \in Bundles
    BY DEF ClaimInductive, ClaimTypeOK, RevokeRun
  <2>3. ASSUME NEW v \in Revokes PROVE Certified(revoke[v].cert)'
    BY <1>5, <2>2 DEF ClaimInductive, FilesOfAgents, Certified, StepOf
  <2> QED
    BY <2>1, <2>3 DEF FilesOfAgents
<1>9. RevokesWithPair'
  BY DEF ClaimInductive, RevokesWithPair, RevokeAt, PairMatches, StepOf
<1>10. OwnBundle'
  BY <1>1, <1>3 DEF ClaimInductive, OwnBundle, StepOf
<1> QED
  BY <1>2, <1>6, <1>7, <1>8, <1>9, <1>10 DEF ClaimInductive

(* The run goes to another step with the same agent of the card.           *)
LEMMA ClaimMoved ==
    ASSUME ClaimInductive, NEW r \in Claims, NEW pc \in ClaimSteps, ClaimStep(r, pc)
    PROVE  /\ claim' \in [Claims -> ClaimRun]
           /\ \A q \in Claims \ {r} : claim'[q] = claim[q]
           /\ claim'[r].pc = pc /\ claim'[r].place = claim[r].place
BY DEF ClaimInductive, ClaimTypeOK, ClaimStep, ClaimRun

(* A run that ends where it is.                                            *)
LEMMA StopKeeps ==
    ASSUME ClaimInductive, NEW r \in Claims, Stop(r),
           UNCHANGED <<challenge, agent, dir, revoke, revokedBy>>
    PROVE  ClaimInductive'
<1>1. /\ claim' \in [Claims -> ClaimRun]
      /\ \A q \in Claims \ {r} : claim'[q] = claim[q]
      /\ claim'[r].pc = "failed" /\ claim'[r].place = claim[r].place
  BY ClaimMoved DEF Stop, ClaimSteps
<1>2. StepOf(r)
  BY <1>1 DEF StepOf, ClaimInductive, ClaimTypeOK
<1>3. OnwardsInOrder(r)
  BY <1>1 DEF OnwardsInOrder
<1> QED
  BY <1>2, <1>3, ClaimStepKeeps

(* The steps up to the verification of the domain: the challenge is there  *)
(* when it is asked for.                                                   *)
LEMMA ProveDomainKeeps ==
    ASSUME ClaimInductive, NEW r \in Claims,
           NEW pc \in {"publish", "poll", "register", "failed"}, ClaimStep(r, pc),
           challenge' \in [Claims -> {"none", "pending", "verified", "expired"}],
           \A q \in Claims \ {r} : challenge'[q] = challenge[q],
           challenge'[r] # "none",
           claim[r].pc \in {"start", "publish", "poll"},
           UNCHANGED <<agent, dir, revoke, revokedBy>>
    PROVE  ClaimInductive'
<1>1. /\ claim' \in [Claims -> ClaimRun]
      /\ \A q \in Claims \ {r} : claim'[q] = claim[q]
      /\ claim'[r].pc = pc /\ claim'[r].place = claim[r].place
  BY ClaimMoved DEF ClaimSteps
<1>2. agent[Current(r)] = "none"
  BY DEF ClaimInductive, ClaimInOrder
<1>3. StepOf(r)
  BY <1>1 DEF StepOf, ClaimInductive, ClaimTypeOK
<1>4. OnwardsInOrder(r)
  BY <1>1, <1>2 DEF OnwardsInOrder
<1> QED
  BY <1>3, <1>4, ClaimStepKeeps

LEMMA StartKeeps ==
    ASSUME ClaimInductive, NEW r \in Claims, StartDNSChallenge(r)
    PROVE  ClaimInductive'
<1>1. PICK pc \in {"publish", "failed"} : ClaimStep(r, pc)
  BY DEF StartDNSChallenge
<1>2. /\ challenge' \in [Claims -> {"none", "pending", "verified", "expired"}]
      /\ \A q \in Claims \ {r} : challenge'[q] = challenge[q]
      /\ challenge'[r] = "pending"
  BY DEF StartDNSChallenge, ClaimInductive, ClaimTypeOK
<1> QED
  BY <1>1, <1>2, ProveDomainKeeps DEF StartDNSChallenge, ClaimAt

LEMMA PressEnterKeeps ==
    ASSUME ClaimInductive, NEW r \in Claims, PressEnter(r)
    PROVE  ClaimInductive'
<1>1. challenge[r] # "none"
  BY DEF PressEnter, ClaimAt, ClaimInductive, ClaimInOrder
<1> QED
  BY <1>1, ProveDomainKeeps DEF PressEnter, ClaimAt, ClaimInductive, ClaimTypeOK

(* The answer says what has become of a challenge that was there.          *)
LEMMA PollKeeps ==
    ASSUME ClaimInductive, NEW r \in Claims, Poll(r)
    PROVE  ClaimInductive'
<1>1. /\ challenge[r] \in {"pending", "verified", "expired"}
      /\ claim[r].pc = "poll"
      /\ UNCHANGED <<agent, dir, revoke, revokedBy>>
  BY ClaimTypes DEF Poll, ClaimAt, ClaimInductive, ClaimInOrder
<1>2. CASE UNCHANGED challenge /\ ClaimStep(r, "failed")
  BY <1>1, <1>2, ProveDomainKeeps DEF ClaimInductive, ClaimTypeOK
<1>3. CASE VerifyDNSChallenge(r) /\ (ClaimStep(r, AfterAnswer(r)) \/ ClaimStep(r, "failed"))
  <2>1. /\ challenge' \in [Claims -> {"none", "pending", "verified", "expired"}]
        /\ \A q \in Claims \ {r} : challenge'[q] = challenge[q]
        /\ challenge'[r] \in {"pending", "verified", "expired"}
    BY <1>1, <1>3 DEF VerifyDNSChallenge, ClaimInductive, ClaimTypeOK
  <2>2. AfterAnswer(r) \in {"register", "poll", "failed"}
    BY <2>1 DEF AfterAnswer
  <2>3. CASE ClaimStep(r, AfterAnswer(r))
    BY <1>1, <2>1, <2>2, <2>3, ProveDomainKeeps
  <2>4. CASE ClaimStep(r, "failed")
    BY <1>1, <2>1, <2>4, ProveDomainKeeps
  <2> QED
    BY <1>3, <2>3, <2>4
<1> QED
  BY <1>2, <1>3 DEF Poll

(* The challenge expires, or the deadline passes: the run stays.           *)
LEMMA WaitKeeps ==
    ASSUME ClaimInductive, NEW r \in Claims, Expire(r) \/ TimeUp(r)
    PROVE  ClaimInductive'
<1>1. /\ claim' \in [Claims -> ClaimRun]
      /\ \A q \in Claims : claim'[q].pc = claim[q].pc /\ claim'[q].place = claim[q].place
      /\ challenge' \in [Claims -> {"none", "pending", "verified", "expired"}]
      /\ \A q \in Claims : challenge'[q] \in {challenge[q], "expired"}
      /\ UNCHANGED <<agent, dir, revoke, revokedBy>>
  <2>1. CASE Expire(r)
    BY <2>1 DEF Expire, ClaimInductive, ClaimTypeOK
  <2>2. CASE TimeUp(r)
    <3>1. [claim[r] EXCEPT !.late = TRUE] \in ClaimRun
      BY ClaimTypes DEF ClaimRun
    <3> QED
      BY <2>2, <3>1 DEF TimeUp, ClaimInductive, ClaimTypeOK
  <2> QED
    BY <2>1, <2>2
<1>2. ClaimTypeOK'
  BY <1>1 DEF ClaimInductive, ClaimTypeOK
<1>3. ASSUME NEW q \in Claims PROVE ClaimInOrder(q)'
  BY <1>1 DEF ClaimInductive, ClaimInOrder, ClaimAt, Certified, Current
<1>4. FilesOfAgents' /\ RevokesWithPair' /\ OwnBundle'
  BY <1>1 DEF ClaimInductive, FilesOfAgents, Certified, RevokesWithPair, RevokeAt,
         PairMatches, OwnBundle
<1> QED
  BY <1>2, <1>3, <1>4 DEF ClaimInductive

(* An agent is registered once: it was not there before.                   *)
LEMMA RegisterKeeps ==
    ASSUME ClaimInductive, NEW r \in Claims, RegisterAgent(r)
    PROVE  ClaimInductive'
<1>1. /\ agent[Current(r)] = "none"
      /\ UNCHANGED <<challenge, dir, revoke, revokedBy>>
  BY DEF RegisterAgent, ClaimAt, ClaimInductive, ClaimInOrder
<1>2. CASE UNCHANGED agent /\ Stop(r)
  BY <1>1, <1>2, StopKeeps
<1>3. ASSUME NEW pc \in {"activate", "failed"}, ClaimStep(r, pc),
             agent' = [agent EXCEPT ![Current(r)] = "pending"]
      PROVE  ClaimInductive'
  <2>1. /\ claim' \in [Claims -> ClaimRun]
        /\ \A q \in Claims \ {r} : claim'[q] = claim[q]
        /\ claim'[r].pc = pc /\ claim'[r].place = claim[r].place
    BY <1>3, ClaimMoved DEF ClaimSteps
  <2>2. StepOf(r)
    BY <1>1, <1>3, <2>1, ClaimTypes DEF StepOf, ClaimInductive, ClaimTypeOK
  <2>3. agent'[Current(r)] = "pending"
    BY <1>3, ClaimTypes DEF ClaimInductive, ClaimTypeOK
  <2>4. OnwardsInOrder(r)
    BY <2>1, <2>3 DEF OnwardsInOrder
  <2> QED
    BY <1>1, <2>2, <2>4, ClaimStepKeeps
<1> QED
  BY <1>2, <1>3 DEF RegisterAgent, Stop

LEMMA ActivateKeeps ==
    ASSUME ClaimInductive, NEW r \in Claims, ActivateAgent(r)
    PROVE  ClaimInductive'
<1>1. UNCHANGED <<challenge, dir, revoke, revokedBy>>
  BY DEF ActivateAgent
<1>2. CASE UNCHANGED agent /\ Stop(r)
  BY <1>1, <1>2, StopKeeps
<1>3. ASSUME NEW pc \in {"save_cert", "failed"}, ClaimStep(r, pc),
             agent' = [agent EXCEPT ![Current(r)] = "active"]
      PROVE  ClaimInductive'
  <2>1. /\ claim' \in [Claims -> ClaimRun]
        /\ \A q \in Claims \ {r} : claim'[q] = claim[q]
        /\ claim'[r].pc = pc /\ claim'[r].place = claim[r].place
    BY <1>3, ClaimMoved DEF ClaimSteps
  <2>2. agent'[Current(r)] = "active"
    BY <1>3, ClaimTypes DEF ClaimInductive, ClaimTypeOK
  <2>3. StepOf(r)
    BY <1>1, <1>3, <2>1, <2>2, ClaimTypes DEF StepOf, ClaimInductive, ClaimTypeOK
  <2>4. OnwardsInOrder(r)
    BY <2>1, <2>2 DEF OnwardsInOrder
  <2> QED
    BY <1>1, <2>3, <2>4, ClaimStepKeeps
<1> QED
  BY <1>2, <1>3 DEF ActivateAgent, Stop

(* The files that are written are of an agent that was active.             *)
LEMMA SaveFileKeeps ==
    ASSUME ClaimInductive, NEW r \in Claims, SaveCert(r) \/ SaveKey(r)
    PROVE  ClaimInductive'
<1>1. /\ UNCHANGED <<challenge, agent, revoke, revokedBy>>
      /\ agent[Current(r)] \in {"active", "revoked"}
      /\ Current(r) \in Bundles
  BY ClaimTypes, NoIdIsNone
     DEF SaveCert, SaveKey, ClaimAt, ClaimInductive, ClaimInOrder, Certified, Bundles
<1>2. CASE UNCHANGED dir /\ Stop(r)
  BY <1>1, <1>2, StopKeeps
<1>3. ASSUME NEW pc \in {"save_key", "save_ca"}, ClaimStep(r, pc),
             \/ pc = "save_key" /\ dir' = [dir EXCEPT !.cert = Current(r)]
             \/ /\ pc = "save_ca" /\ claim[r].pc = "save_key"
                /\ dir' = [dir EXCEPT !.key = Current(r)]
      PROVE  ClaimInductive'
  <2>1. /\ claim' \in [Claims -> ClaimRun]
        /\ \A q \in Claims \ {r} : claim'[q] = claim[q]
        /\ claim'[r].pc = pc /\ claim'[r].place = claim[r].place
    BY <1>3, ClaimMoved DEF ClaimSteps
  <2>2. /\ dir' \in [cert : Bundles, key : Bundles]
        /\ dir'.cert \in {dir.cert, Current(r)} /\ dir'.key \in {dir.key, Current(r)}
        /\ pc = "save_key" => dir'.cert = Current(r)
        /\ pc = "save_ca" => dir'.key = Current(r) /\ dir'.cert = dir.cert
    BY <1>1, <1>3 DEF ClaimInductive, ClaimTypeOK
  <2>3. StepOf(r)
    BY <1>1, <2>1, <2>2 DEF StepOf, ClaimInductive, ClaimTypeOK
  <2>4. /\ pc = "save_key" => SavedSince(dir'.cert, r, claim[r].place)
        /\ pc = "save_ca" => SavedSince(dir'.cert, r, claim[r].place)
                           /\ SavedSince(dir'.key, r, claim[r].place)
    <3>1. SavedSince(Current(r), r, claim[r].place)
      <4> DEFINE here == claim[r].place
      <4>1. here \in Places /\ Current(r) = <<r, here>> /\ here \in Nat
        BY ClaimTypes, NoIdIsNone
      <4>2. here >= here
        BY <4>1
      <4> QED
        BY <4>1, <4>2 DEF SavedSince
    <3>2. pc = "save_ca" => SavedSince(dir.cert, r, claim[r].place)
      <4>1. /\ ClaimInOrder(r)
            /\ pc = "save_ca" => claim[r].pc \in {"save_key", "save_ca", "done"}
        BY <1>3 DEF ClaimInductive
      <4> QED
        BY <4>1 DEF ClaimInOrder
    <3> QED
      BY <2>2, <3>1, <3>2
  <2>5. OnwardsInOrder(r)
    BY <1>1, <2>1, <2>4 DEF OnwardsInOrder
  <2> QED
    BY <1>1, <2>2, <2>3, <2>5, ClaimStepKeeps
<1> QED
  BY <1>2, <1>3 DEF SaveCert, SaveKey, ClaimAt

(* The run goes on with the next agent when this one is saved.             *)
LEMMA SaveCAKeeps ==
    ASSUME ClaimInductive, NEW r \in Claims, SaveCA(r)
    PROVE  ClaimInductive'
<1>1. /\ UNCHANGED <<challenge, agent, dir, revoke, revokedBy>>
      /\ agent[Current(r)] \in {"active", "revoked"}
      /\ SavedSince(dir.cert, r, claim[r].place) /\ SavedSince(dir.key, r, claim[r].place)
  BY ClaimTypes, NoIdIsNone
     DEF SaveCA, ClaimAt, ClaimInductive, ClaimInOrder, Certified
<1>2. CASE Stop(r)
  BY <1>1, <1>2, StopKeeps
<1>3. CASE NextAgent(r)
  <2> DEFINE last == [claim[r] EXCEPT !.pc = "done"]
  <2> DEFINE further == [claim[r] EXCEPT !.pc = "register", !.place = claim[r].place + 1]
  <2>1. claim[r] \in ClaimRun /\ claim[r].place \in Places
    BY ClaimTypes
  <2>2. CASE claim[r].place = Card /\ claim' = [claim EXCEPT ![r] = last]
    <3>1. last \in ClaimRun /\ last.pc = "done" /\ last.place = Card
      BY <2>1, <2>2 DEF ClaimRun, ClaimSteps
    <3> HIDE DEF last
    <3>2. claim' \in [Claims -> ClaimRun] /\ claim'[r] = last
          /\ \A q \in Claims \ {r} : claim'[q] = claim[q]
      BY <2>2, <3>1 DEF ClaimInductive, ClaimTypeOK
    <3>3. StepOf(r)
      BY <1>1, <3>2, ClaimTypes DEF StepOf, ClaimInductive, ClaimTypeOK
    <3>4. OnwardsInOrder(r)
      BY <1>1, <2>2, <3>1, <3>2 DEF OnwardsInOrder
    <3> QED
      BY <1>1, <3>3, <3>4, ClaimStepKeeps
  <2>3. CASE claim[r].place # Card /\ claim' = [claim EXCEPT ![r] = further]
    <3>1. claim[r].place + 1 \in Places
      BY <2>1, <2>3, ClaimAssumption DEF Places
    <3>2. /\ further \in ClaimRun /\ further.pc = "register"
          /\ further.place = claim[r].place + 1
      BY <2>1, <3>1 DEF ClaimRun, ClaimSteps
    <3> HIDE DEF further
    <3>3. claim' \in [Claims -> ClaimRun] /\ claim'[r] = further
          /\ \A q \in Claims \ {r} : claim'[q] = claim[q]
      BY <2>3, <3>2 DEF ClaimInductive, ClaimTypeOK
    <3>4. StepOf(r)
      BY <1>1, <3>3, ClaimTypes DEF StepOf, ClaimInductive, ClaimTypeOK
    <3>5. OnwardsInOrder(r)
      BY <1>1, <3>2, <3>3 DEF OnwardsInOrder
    <3> QED
      BY <1>1, <3>4, <3>5, ClaimStepKeeps
  <2>4. claim' = [claim EXCEPT ![r] = IF claim[r].place = Card THEN last ELSE further]
    BY <1>3 DEF NextAgent
  <2> QED
    BY <2>2, <2>3, <2>4
<1> QED
  BY <1>2, <1>3 DEF SaveCA

(* A step of a revocation that leaves the agents alone: what it read is of *)
(* an agent that was active, and it calls with a certificate and its key.  *)
LEMMA RevokeStepKeeps ==
    ASSUME ClaimInductive, NEW v \in Revokes, NEW m \in RevokeRun, SetRevoke(v, m),
           Certified(m.cert), m.pc # "idle" => m.target \in Ids,
           m.pc = "call" => m.cert = m.key,
           UNCHANGED <<claim, challenge, agent, dir, revokedBy>>
    PROVE  ClaimInductive'
<1>1. /\ revoke' \in [Revokes -> RevokeRun]
      /\ \A w \in Revokes : revoke'[w] = IF w = v THEN m ELSE revoke[w]
  BY DEF SetRevoke, ClaimInductive, ClaimTypeOK
<1>2. ClaimTypeOK'
  BY <1>1 DEF ClaimInductive, ClaimTypeOK
<1>3. ASSUME NEW r \in Claims PROVE ClaimInOrder(r)'
  BY DEF ClaimInductive, ClaimInOrder, ClaimAt, Certified, Current
<1>4. FilesOfAgents'
  BY <1>1 DEF ClaimInductive, FilesOfAgents, Certified
<1>5. RevokesWithPair'
  BY <1>1 DEF ClaimInductive, RevokesWithPair, RevokeAt, PairMatches
<1>6. OwnBundle'
  BY DEF ClaimInductive, OwnBundle
<1> QED
  BY <1>2, <1>3, <1>4, <1>5, <1>6 DEF ClaimInductive

LEMMA RevokeTypes ==
    ASSUME ClaimInductive, NEW v \in Revokes
    PROVE  /\ revoke[v] \in RevokeRun
           /\ ~RevokeAt(v, "idle") => revoke[v].target \in Ids
           /\ Certified(revoke[v].cert)
           /\ dir.cert \in Bundles /\ dir.key \in Bundles /\ Certified(dir.cert)
BY DEF ClaimInductive, ClaimTypeOK, RevokesWithPair, FilesOfAgents

LEMMA ResolveArgKeeps ==
    ASSUME ClaimInductive, NEW v \in Revokes, NEW a \in Ids, ResolveAgentArg(v, a)
    PROVE  ClaimInductive'
<1> DEFINE m == [NewRevoke EXCEPT !.pc = "confirm", !.target = a]
<1>1. /\ m \in RevokeRun /\ m.pc = "confirm" /\ m.target = a /\ m.cert = NoId
  BY NoIdIsNone DEF NewRevoke, RevokeRun, RevokeSteps, Bundles
<1>2. SetRevoke(v, m) /\ UNCHANGED <<claim, challenge, agent, dir, revokedBy>>
  BY DEF ResolveAgentArg
<1> HIDE DEF m
<1>3. Certified(m.cert)
  BY <1>1 DEF Certified
<1> QED
  BY <1>1, <1>2, <1>3, RevokeStepKeeps

(* A revocation goes on, with what it has read.                            *)
LEMMA RevokeGoesOn ==
    ASSUME ClaimInductive, NEW v \in Revokes, ~RevokeAt(v, "idle"),
           NEW pc \in RevokeSteps \ {"idle"},
           SetRevoke(v, [revoke[v] EXCEPT !.pc = pc]),
           pc = "call" => PairMatches(v),
           UNCHANGED <<claim, challenge, agent, dir, revokedBy>>
    PROVE  ClaimInductive'
<1> DEFINE m == [revoke[v] EXCEPT !.pc = pc]
<1>1. /\ m \in RevokeRun /\ m.pc = pc /\ m.target = revoke[v].target
      /\ m.cert = revoke[v].cert /\ m.key = revoke[v].key
  BY RevokeTypes DEF RevokeRun
<1> HIDE DEF m
<1>2. SetRevoke(v, m)
  BY DEF m
<1>3. /\ Certified(m.cert) /\ m.target \in Ids
      /\ m.pc = "call" => m.cert = m.key
  BY <1>1, RevokeTypes DEF PairMatches
<1> QED
  BY <1>1, <1>2, <1>3, RevokeStepKeeps

LEMMA LoadFileKeeps ==
    ASSUME ClaimInductive, NEW v \in Revokes, LoadCert(v) \/ LoadKey(v)
    PROVE  ClaimInductive'
<1>1. PICK m : /\ SetRevoke(v, m)
               /\ \E pc \in {"failed", "read_key", "pair"} :
                     \/ m = [revoke[v] EXCEPT !.cert = dir.cert, !.pc = pc]
                     \/ m = [revoke[v] EXCEPT !.key = dir.key, !.pc = pc]
  <2>1. CASE LoadCert(v)
    BY <2>1 DEF LoadCert
  <2>2. CASE LoadKey(v)
    BY <2>2 DEF LoadKey
  <2> QED
    BY <2>1, <2>2
<1>2. /\ m \in RevokeRun /\ m.pc \in {"failed", "read_key", "pair"}
      /\ m.target = revoke[v].target
      /\ m.cert \in {dir.cert, revoke[v].cert}
  BY <1>1, RevokeTypes DEF RevokeRun, RevokeSteps
<1>3. Certified(m.cert) /\ m.target \in Ids
  BY <1>2, RevokeTypes DEF LoadCert, LoadKey, RevokeAt
<1>4. UNCHANGED <<claim, challenge, agent, dir, revokedBy>>
  BY DEF LoadCert, LoadKey
<1> QED
  BY <1>1, <1>2, <1>3, <1>4, RevokeStepKeeps

LEMMA ConfirmKeeps ==
    ASSUME ClaimInductive, NEW v \in Revokes, Confirm(v) \/ FetchOwnToken(v)
    PROVE  ClaimInductive'
<1>1. /\ ~RevokeAt(v, "idle")
      /\ UNCHANGED <<claim, challenge, agent, dir, revokedBy>>
  BY DEF Confirm, FetchOwnToken, RevokeAt
<1>2. CASE Confirm(v)
  <2>1. PICK pc \in {"read_cert", "done"} : SetRevoke(v, [revoke[v] EXCEPT !.pc = pc])
    BY <1>2 DEF Confirm
  <2>2. pc \in RevokeSteps \ {"idle"} /\ pc # "call"
    BY DEF RevokeSteps
  <2> QED
    BY <1>1, <2>1, <2>2, RevokeGoesOn
<1>3. CASE FetchOwnToken(v)
  <2>1. PICK pc \in {"call", "failed"} :
            /\ pc = "call" => PairMatches(v)
            /\ SetRevoke(v, [revoke[v] EXCEPT !.pc = pc])
    BY <1>3 DEF FetchOwnToken
  <2>2. pc \in RevokeSteps \ {"idle"}
    BY DEF RevokeSteps
  <2> QED
    BY <1>1, <2>1, <2>2, RevokeGoesOn
<1> QED
  BY <1>2, <1>3

(* The agent that is revoked is that of the certificate and of the key, and *)
(* it had been active; so no agent a claim has yet to come to is touched.  *)
LEMMA RevokeAgentKeeps ==
    ASSUME ClaimInductive, NEW v \in Revokes, RevokeAgent(v)
    PROVE  ClaimInductive'
<1> DEFINE t == revoke[v].target
<1>1. /\ RevokeAt(v, "call") /\ ~RevokeAt(v, "idle")
      /\ t \in Ids /\ PairMatches(v) /\ Certified(revoke[v].cert)
  BY RevokeTypes DEF RevokeAgent, RevokeAt, ClaimInductive, RevokesWithPair
<1>2. CASE ~OwnToken(v)
  <2>1. /\ SetRevoke(v, [revoke[v] EXCEPT !.pc = "failed"])
        /\ UNCHANGED <<claim, challenge, agent, dir, revokedBy>>
    BY <1>2 DEF RevokeAgent
  <2> QED
    BY <1>1, <2>1, RevokeGoesOn DEF RevokeSteps
<1>3. CASE OwnToken(v)
  <2>1. /\ revoke[v].cert = t /\ revoke[v].key = t /\ t # NoId
        /\ agent[t] \in {"active", "revoked"}
    BY <1>1, <1>3, NoIdIsNone DEF OwnToken, PairMatches, Certified
  <2>2. PICK pc \in {"done", "failed"} : SetRevoke(v, [revoke[v] EXCEPT !.pc = pc])
    BY <1>3 DEF RevokeAgent
  <2> DEFINE m == [revoke[v] EXCEPT !.pc = pc]
  <2>3. /\ m \in RevokeRun /\ m.pc = pc /\ m.target = t
        /\ m.cert = t /\ m.key = t
    BY <2>1, RevokeTypes DEF RevokeRun, RevokeSteps
  <2>4. SetRevoke(v, m)
    BY <2>2
  <2> HIDE DEF m
  <2>5. /\ revoke' \in [Revokes -> RevokeRun]
        /\ \A w \in Revokes : revoke'[w] = IF w = v THEN m ELSE revoke[w]
    BY <2>3, <2>4 DEF SetRevoke, ClaimInductive, ClaimTypeOK
  <2>6. /\ agent' = [agent EXCEPT ![t] = "revoked"]
        /\ revokedBy' = [revokedBy EXCEPT ![t] = t]
        /\ UNCHANGED <<claim, challenge, dir>>
    BY <1>3, <2>1 DEF RevokeAgent
  <2> HIDE DEF t
  <2>7. /\ agent' \in [Ids -> {"none", "pending", "active", "revoked"}]
        /\ agent'[t] = "revoked" /\ \A a \in Ids \ {t} : agent'[a] = agent[a]
        /\ revokedBy' \in [Ids -> Bundles]
        /\ revokedBy'[t] = t /\ \A a \in Ids \ {t} : revokedBy'[a] = revokedBy[a]
    BY <1>1, <2>6 DEF ClaimInductive, ClaimTypeOK, Bundles
  <2>8. ClaimTypeOK'
    BY <2>5, <2>6, <2>7 DEF ClaimInductive, ClaimTypeOK
  <2>9. /\ \A a \in Ids : (agent[a] = "none") => (agent'[a] = "none")
        /\ \A a \in Ids : (agent[a] = "pending") <=> (agent'[a] = "pending")
        /\ \A b \in Bundles : Certified(b) => Certified(b)'
    BY <2>1, <2>7 DEF Certified, Bundles
  <2>10. ASSUME NEW r \in Claims PROVE ClaimInOrder(r)'
    <3>1. /\ ClaimInOrder(r) /\ Current(r) \in Ids /\ Current(r) \in Bundles
          /\ \A i \in Places : <<r, i>> \in Ids
      BY ClaimTypes DEF ClaimInductive, Bundles, Ids
    <3>2. Current(r)' = Current(r)
      BY <2>6 DEF Current
    <3>3. Certified(Current(r)) => Certified(Current(r))'
      BY <2>9, <3>1, <3>2 DEF Certified
    <3> QED
      BY <2>6, <2>9, <3>1, <3>2, <3>3 DEF ClaimInOrder, ClaimAt
  <2>11. FilesOfAgents'
    <3>1. Certified(dir.cert)'
      BY <2>6, <2>9, RevokeTypes DEF Certified
    <3>2. ASSUME NEW w \in Revokes PROVE Certified(revoke[w].cert)'
      <4>1. CASE w = v
        BY <1>1, <2>3, <2>5, <2>7, <4>1 DEF Certified
      <4>2. CASE w # v
        <5>1. revoke'[w].cert = revoke[w].cert /\ revoke[w].cert \in Bundles
          BY <2>5, <4>2, RevokeTypes DEF RevokeRun
        <5> QED
          BY <2>9, <5>1, RevokeTypes DEF Certified
      <4> QED
        BY <4>1, <4>2
    <3> QED
      BY <3>1, <3>2 DEF FilesOfAgents
  <2>12. RevokesWithPair'
    BY <1>1, <2>3, <2>5 DEF ClaimInductive, RevokesWithPair, RevokeAt, PairMatches
  <2>13. OwnBundle'
    BY <2>7 DEF ClaimInductive, OwnBundle
  <2> QED
    BY <2>8, <2>10, <2>11, <2>12, <2>13 DEF ClaimInductive
<1> QED
  BY <1>2, <1>3

(* Steps that touch nothing the invariant speaks of.                       *)
LEMMA IdleClaimKeeps ==
    ASSUME ClaimInductive,
           UNCHANGED <<claim, challenge, agent, dir, revoke, revokedBy>>
    PROVE  ClaimInductive'
BY DEF ClaimInductive, ClaimTypeOK, ClaimInOrder, FilesOfAgents, Certified, RevokesWithPair,
       RevokeAt, PairMatches, OwnBundle, ClaimAt, Current

LEMMA ClaimNextKeeps == ClaimInductive /\ [ClaimNext]_claimVars => ClaimInductive'
<1> SUFFICES ASSUME ClaimInductive, [ClaimNext]_claimVars PROVE ClaimInductive'
  OBVIOUS
<1>1. CASE UNCHANGED claimVars
  BY <1>1, IdleClaimKeeps DEF claimVars
<1>2. ASSUME NEW r \in Claims,
             \/ StartDNSChallenge(r) \/ PublishRecord(r) \/ PressEnter(r) \/ Expire(r)
             \/ TimeUp(r) \/ Claimed(r) \/ Interrupt(r)
      PROVE  ClaimInductive'
  <2>1. CASE PublishRecord(r)
    BY <2>1, IdleClaimKeeps DEF PublishRecord
  <2>2. CASE GiveUp(r) \/ Interrupt(r)
    BY <2>2, StopKeeps DEF GiveUp, Interrupt, Stop
  <2> QED
    BY <1>2, <2>1, <2>2, StartKeeps, PressEnterKeeps, WaitKeeps, PollKeeps, RegisterKeeps,
       ActivateKeeps, SaveFileKeeps, SaveCAKeeps DEF Claimed
<1>3. ASSUME NEW v \in Revokes, (\E a \in Ids : ResolveAgentArg(v, a)) \/ Revoked(v)
      PROVE  ClaimInductive'
  BY <1>3, ResolveArgKeeps, ConfirmKeeps, LoadFileKeeps, RevokeAgentKeeps DEF Revoked
<1> QED
  BY <1>1, <1>2, <1>3 DEF ClaimNext

(* How far each claim has come, and what is known of the files and of what *)
(* a revocation has read, holds in every reachable state.                  *)
THEOREM ClaimInductiveHolds == ClaimSpec => []ClaimInductive
<1>1. ClaimInit => ClaimInductive
  BY InitClaimInductive
<1>2. ClaimInductive /\ [ClaimNext]_claimVars => ClaimInductive'
  BY ClaimNextKeeps
<1> QED
  BY <1>1, <1>2, PTL DEF ClaimSpec

(* For any number of claims, revocations and agents of a card: no key is   *)
(* lost but with a claim that failed at just that agent, or when a later   *)
(* agent, or another claim, was saved over it, and only the agent a claim  *)
(* was at is left pending.                                                 *)
THEOREM KeysTheorem == ClaimSpec => []KeysAccountedFor
<1>1. ClaimInductive => KeysAccountedFor
  <2> SUFFICES ASSUME ClaimInductive, NEW r \in Claims
               PROVE  /\ \A i \in Places :
                           /\ agent[<<r, i>>] = "pending" => claim[r].place = i
                           /\ agent[<<r, i>>] \in {"active", "revoked"} =>
                                \/ InHand(r, i) \/ FailedAt(r, i)
                                \/ SavedSince(dir.key, r, i)
                      /\ ClaimAt(r, "done") =>
                           SavedSince(dir.cert, r, Card) /\ SavedSince(dir.key, r, Card)
    BY DEF KeysAccountedFor
  <2> DEFINE here == claim[r].place
  <2>1. /\ ClaimInOrder(r) /\ here \in Places /\ Places \subseteq Nat
        /\ Current(r) = <<r, here>> /\ claim[r].pc \in ClaimSteps
    BY ClaimTypes, NoIdIsNone DEF ClaimInductive
  <2>2. ASSUME NEW i \in Places
        PROVE  /\ agent[<<r, i>>] = "pending" => here = i
               /\ agent[<<r, i>>] \in {"active", "revoked"} =>
                    InHand(r, i) \/ FailedAt(r, i) \/ SavedSince(dir.key, r, i)
    <3>1. CASE i = here
      <4>1. agent[Current(r)] = agent[<<r, i>>]
        BY <2>1, <3>1
      <4>2. CASE claim[r].pc \in {"start", "publish", "poll", "register", "activate"}
        <5>1. agent[Current(r)] \in {"none", "pending"}
          BY <2>1, <4>2 DEF ClaimInOrder, ClaimAt
        <5>2. agent[<<r, i>>] \notin {"active", "revoked"}
          BY <4>1, <5>1
        <5> QED
          BY <3>1, <5>2
      <4>3. CASE claim[r].pc \in {"save_cert", "save_key", "failed"}
        BY <3>1, <4>3 DEF InHand, FailedAt, ClaimAt
      <4>4. CASE claim[r].pc \in {"save_ca", "done"}
        BY <2>1, <3>1, <4>4 DEF ClaimInOrder
      <4> QED
        BY <2>1, <3>1, <4>2, <4>3, <4>4 DEF ClaimSteps
    <3>2. CASE i < here
      BY <2>1, <3>2 DEF ClaimInOrder
    <3>3. CASE i > here
      BY <2>1, <3>3 DEF ClaimInOrder
    <3>4. i = here \/ i < here \/ i > here
      <4>1. i \in Nat /\ here \in Nat
        BY <2>1
      <4> QED
        BY <4>1
    <3> QED
      BY <3>1, <3>2, <3>3, <3>4
  <2>3. ClaimAt(r, "done") => SavedSince(dir.cert, r, Card) /\ SavedSince(dir.key, r, Card)
    BY <2>1 DEF ClaimInOrder, ClaimAt
  <2> QED
    BY <2>2, <2>3
<1> QED
  BY <1>1, ClaimInductiveHolds, PTL

(* An agent is revoked with its own certificate and key, also when the     *)
(* files of two bundles are mixed: only a pair that matches gets a token.  *)
THEOREM RevokedTheorem == ClaimSpec => []RevokedWithItsOwn
<1>1. ClaimInductive => RevokedWithItsOwn
  BY DEF ClaimInductive, OwnBundle, FilesOfAgents, Certified, RevokedWithItsOwn
<1> QED
  BY <1>1, ClaimInductiveHolds, PTL
=============================================================================
