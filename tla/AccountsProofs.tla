--------------------------- MODULE AccountsProofs ---------------------------
(***************************************************************************)
(* Proofs about Accounts, for any number of addresses, identities, tokens   *)
(* and requests.                                                           *)
(***************************************************************************)
EXTENDS Accounts, TLAPS

(* What no step undoes: rows stay, an account keeps having a password or    *)
(* not getting one by itself, and a token keeps its kind and its owner.     *)
Grows ==
    /\ \A e \in Mails : /\ Exists(e) => Exists(e)'
                        /\ hash[e] # None => hash'[e] # None
    /\ shown \subseteq shown'
    /\ \A i \in Identities : reported[i] \subseteq reported'[i]
    /\ \A t \in Tokens : token[t] # NoToken =>
          /\ token'[t] # NoToken
          /\ token'[t].kind = token[t].kind
          /\ token'[t].owner = token[t].owner
          /\ token[t].state = "used" => token'[t].state = "used"
          /\ Spent(t) => Spent(t)'

DataType ==
    /\ username \in [Mails -> Names \cup {None}]
    /\ hash \in [Mails -> Passwords \cup {None}]
    /\ verified \in SUBSET Mails
    /\ link \in [Identities -> Mails \cup {None}]
    /\ token \in [Tokens -> TokenType]
    /\ reported \in [Identities -> SUBSET Mails]
    /\ shown \in SUBSET Mails

LEMMA DataTypes == TypeOK <=> DataType /\ req \in [Requests -> ReqType]
BY DEF TypeOK, DataType

LEMMA IdleType == IdleReq \in ReqType
BY DEF IdleReq, ReqType, Kinds

LEMMA InitInductive == Init => Inductive
<1> SUFFICES ASSUME Init PROVE Inductive
  OBVIOUS
<1>1. NoToken \in TokenType
  BY DEF NoToken, TokenType
<1>2. TypeOK
  BY <1>1, IdleType DEF Init, TypeOK
<1>3. NamesUnique /\ TableInv /\ TokenInv
  BY DEF Init, NamesUnique, TableInv, TokenInv, Exists
<1>4. MailReqInv(IdleReq) /\ OAuthReqInv(IdleReq)
  BY DEF MailReqInv, OAuthReqInv, IdleReq, Kinds
<1>5. \A r \in Requests : req[r] = IdleReq
  BY DEF Init
<1> QED
  BY <1>2, <1>3, <1>4, <1>5 DEF Inductive

(* A request under way is not disturbed by what the others do. *)
LEMMA OthersKeep ==
    ASSUME Inductive, Grows, NEW s \in Requests, req'[s] = req[s]
    PROVE  MailReqInv(req[s])' /\ OAuthReqInv(req[s])'
<1>1. req[s] \in ReqType
  BY DEF Inductive, TypeOK
<1>2. /\ req[s].mail \in Mails \cup {None}
      /\ req[s].ident \in Identities \cup {None}
      /\ req[s].token \in Tokens \cup {None}
  BY <1>1 DEF ReqType
<1>3. MailReqInv(req[s]) /\ OAuthReqInv(req[s])
  BY DEF Inductive
<1>4. MailReqInv(req[s])'
  BY <1>2, <1>3 DEF MailReqInv, Grows, Spent
<1>5. OAuthReqInv(req[s])'
  <2>1. shown \in SUBSET Mails /\ \A i \in Identities : reported[i] \subseteq Mails
    BY DEF Inductive, TypeOK
  <2>2. req[s].op = "oauth" /\ req[s].pc \notin {"away", "refused"} =>
           /\ req[s].ident \in Identities
           /\ req[s].mail \in reported'[req[s].ident]
           /\ req[s].mail \in Mails
    BY <1>3, <2>1 DEF OAuthReqInv, Grows
  <2> QED
    BY <1>3, <2>2 DEF OAuthReqInv, Grows
<1> QED
  BY <1>4, <1>5

(* What is left to show of a step of one request. *)
LEMMA StepKeeps ==
    ASSUME Inductive, NEW r \in Requests, Grows, DataType',
           req' \in [Requests -> ReqType],
           \A s \in Requests : s # r => req'[s] = req[s],
           NamesUnique', TableInv', TokenInv',
           MailReqInv(req[r])', OAuthReqInv(req[r])'
    PROVE  Inductive'
<1>1. TypeOK'
  BY DataTypes DEF DataType, TypeOK
<1>2. \A s \in Requests : MailReqInv(req[s])' /\ OAuthReqInv(req[s])'
  BY OthersKeep
<1> QED
  BY <1>1, <1>2 DEF Inductive

(* A step that changes one request and nothing else. *)
LEMMA ReqKeeps ==
    ASSUME Inductive, NEW r \in Requests, NEW new \in ReqType, Set(r, new),
           UNCHANGED <<table, token, reported, shown>>,
           MailReqInv(new), OAuthReqInv(new)
    PROVE  Inductive'
<1> USE DEF table
<1>1. /\ req' \in [Requests -> ReqType]
      /\ req'[r] = new
      /\ \A s \in Requests : s # r => req'[s] = req[s]
  BY DEF Set, Inductive, TypeOK
<1>2. Grows
  BY DEF Grows, Exists, Spent
<1>3. DataType'
  BY DEF Inductive, TypeOK, DataType
<1>4. NamesUnique' /\ TableInv' /\ TokenInv'
  BY DEF Inductive, NamesUnique, TableInv, TokenInv, Exists
<1>5. MailReqInv(req[r])'
  BY <1>1 DEF MailReqInv, Exists, Spent
<1>6. OAuthReqInv(req[r])'
  BY <1>1 DEF OAuthReqInv, Exists
<1> QED
  BY <1>1, <1>2, <1>3, <1>4, <1>5, <1>6, StepKeeps

LEMMA ReqFacts ==
    ASSUME TypeOK, NEW r \in Requests
    PROVE  /\ req[r] \in ReqType
           /\ req[r].mail \in Mails \cup {None}
           /\ req[r].ident \in Identities \cup {None}
           /\ req[r].token \in Tokens \cup {None}
           /\ req[r].secret \in Passwords \cup {None}
           /\ req[r].flag \in BOOLEAN
BY DEF TypeOK, ReqType

(* What an answer leaves of the request. *)
LEMMA AnswerFacts ==
    ASSUME Inductive, NEW r \in Requests, NEW says \in {"ok", "refused"},
           NEW session \in Mails \cup {None}, Answer(r, says, session)
    PROVE  /\ req' \in [Requests -> ReqType]
           /\ req'[r].op = req[r].op
           /\ req'[r].pc = says
           /\ req'[r].mail = session
           /\ req'[r].ident = req[r].ident
           /\ req'[r].flag = req[r].flag
           /\ \A s \in Requests : s # r => req'[s] = req[s]
<1> DEFINE new == [IdleReq EXCEPT !.op = req[r].op, !.pc = says,
                           !.mail = session,
                           !.ident = req[r].ident, !.flag = req[r].flag]
<1>1. req[r] \in ReqType /\ req \in [Requests -> ReqType]
  BY ReqFacts DEF Inductive, TypeOK
<1>2. req' = [req EXCEPT ![r] = new]
  BY DEF Answer, Set
<1>3. /\ new \in ReqType
      /\ new.op = req[r].op /\ new.pc = says /\ new.mail = session
      /\ new.ident = req[r].ident
      /\ new.flag = req[r].flag
  BY <1>1 DEF ReqType, IdleReq, Kinds
<1> HIDE DEF new
<1> QED
  BY <1>1, <1>2, <1>3

(* A request that is refused leaves nothing to show. *)
LEMMA RefuseMeans ==
    ASSUME Inductive, NEW r \in Requests, Refuse(r)
    PROVE  /\ req' \in [Requests -> ReqType]
           /\ \A s \in Requests : s # r => req'[s] = req[s]
           /\ req'[r].pc = "refused"
           /\ MailReqInv(req[r])' /\ OAuthReqInv(req[r])'
<1>1. /\ req' \in [Requests -> ReqType]
      /\ \A s \in Requests : s # r => req'[s] = req[s]
      /\ req'[r].pc = "refused"
  BY AnswerFacts DEF Refuse
<1> QED
  BY <1>1 DEF MailReqInv, OAuthReqInv

(* An answer that changes no table. *)
LEMMA AnswerKeeps ==
    ASSUME Inductive, NEW r \in Requests, NEW says \in {"ok", "refused"},
           NEW session \in Mails \cup {None}, Answer(r, says, session),
           UNCHANGED <<table, token, reported, shown>>,
           says = "ok" => /\ req[r].op \in Kinds => ~req[r].flag
                          /\ req[r].op = "oauth" =>
                                /\ req[r].ident \in Identities
                                /\ session \in reported[req[r].ident]
                                /\ Exists(session)
    PROVE  Inductive'
<1>1. /\ req' \in [Requests -> ReqType]
      /\ \A s \in Requests : s # r => req'[s] = req[s]
      /\ req'[r].op = req[r].op /\ req'[r].pc = says
      /\ req'[r].mail = session /\ req'[r].ident = req[r].ident
      /\ req'[r].flag = req[r].flag
  BY AnswerFacts
<1>2. PICK new \in ReqType : Set(r, new)
  <2>1. Set(r, req'[r]) /\ req'[r] \in ReqType
    BY <1>1 DEF Answer, Set, Inductive, TypeOK
  <2> QED
    BY <2>1
<1>3. new = req'[r]
  BY <1>2 DEF Set, Inductive, TypeOK
<1>4. MailReqInv(new)
  BY <1>1, <1>3 DEF MailReqInv
<1>5. OAuthReqInv(new)
  BY <1>1, <1>3 DEF OAuthReqInv
<1> QED
  BY <1>2, <1>4, <1>5, ReqKeeps

LEMMA RefuseKeeps ==
    ASSUME Inductive, NEW r \in Requests, Refuse(r),
           UNCHANGED <<table, token, reported, shown>>
    PROVE  Inductive'
BY AnswerKeeps DEF Refuse

(* A password request begins. *)
LEMMA SignupKeeps ==
    ASSUME Inductive, NEW r \in Requests, NEW e \in Addresses,
           NEW p \in Passwords, Signup(r, e, p)
    PROVE  Inductive'
<1>1. PICK n \in FreeNames(e) :
        Set(r, [IdleReq EXCEPT !.op = "signup", !.pc = "insert", !.mail = e,
                               !.secret = p, !.name = n])
  BY DEF Signup
<1> DEFINE new == [IdleReq EXCEPT !.op = "signup", !.pc = "insert", !.mail = e,
                                  !.secret = p, !.name = n]
<1>2. n \in Names /\ e \in Mails
  BY <1>1 DEF FreeNames, Names, Mails
<1>3. /\ new \in ReqType
      /\ new.op = "signup" /\ new.pc = "insert" /\ new.mail = e /\ new.name = n
  BY <1>2 DEF ReqType, IdleReq, Mails
<1>4. UNCHANGED <<table, token, reported, shown>>
  BY DEF Signup
<1> HIDE DEF new
<1>5. MailReqInv(new) /\ OAuthReqInv(new)
  BY <1>2, <1>3 DEF MailReqInv, OAuthReqInv
<1> QED
  BY <1>1, <1>3, <1>4, <1>5, ReqKeeps DEF new

LEMMA LoginKeeps ==
    ASSUME Inductive, NEW r \in Requests, NEW e \in Addresses,
           NEW p \in Passwords, Login(r, e, p)
    PROVE  Inductive'
<1>1. PICK new : /\ new \in {[IdleReq EXCEPT !.op = "login", !.pc = "ok", !.mail = e],
                             [IdleReq EXCEPT !.op = "login", !.pc = "refused"]}
                 /\ Set(r, new)
  BY DEF Login
<1>2. /\ new \in ReqType
      /\ new.op = "login" /\ new.pc \in {"ok", "refused"}
  BY <1>1 DEF ReqType, IdleReq, Mails
<1>3. UNCHANGED <<table, token, reported, shown>>
  BY DEF Login
<1>4. MailReqInv(new) /\ OAuthReqInv(new)
  BY <1>2 DEF MailReqInv, OAuthReqInv, Kinds
<1> QED
  BY <1>1, <1>2, <1>3, <1>4, ReqKeeps

LEMMA MailKeeps ==
    ASSUME Inductive, NEW r \in Requests, NEW e \in Mails,
           ResendVerification(r, e) \/ ForgotPassword(r, e)
    PROVE  Inductive'
<1>1. PICK op \in {"resend", "forgot"} :
        /\ Set(r, [IdleReq EXCEPT !.op = op, !.pc = "send", !.mail = e])
        /\ Exists(e)
        /\ op = "forgot" => hash[e] # None
  BY DEF ResendVerification, ForgotPassword, Unverified, Resettable
<1> DEFINE new == [IdleReq EXCEPT !.op = op, !.pc = "send", !.mail = e]
<1>2. /\ new \in ReqType
      /\ new.op = op /\ new.pc = "send" /\ new.mail = e
  BY DEF ReqType, IdleReq
<1>3. UNCHANGED <<table, token, reported, shown>>
  BY DEF ResendVerification, ForgotPassword
<1> HIDE DEF new
<1>4. MailReqInv(new) /\ OAuthReqInv(new)
  BY <1>1, <1>2 DEF MailReqInv, OAuthReqInv
<1> QED
  BY <1>1, <1>2, <1>3, <1>4, ReqKeeps DEF new

LEMMA PresentKeeps ==
    ASSUME Inductive, NEW r \in Requests, NEW t \in Tokens,
           VerifyEmail(r, t) \/ \E p \in Passwords : ResetPassword(r, t, p)
    PROVE  Inductive'
<1>1. PICK op \in Kinds, p \in Passwords \cup {None} :
        /\ Set(r, [IdleReq EXCEPT !.op = op, !.pc = "select", !.token = t,
                                  !.secret = p, !.flag = Spent(t)])
        /\ op = "reset" => p \in Passwords
        /\ token[t] # NoToken
  BY DEF VerifyEmail, ResetPassword, Present, Kinds
<1> DEFINE new == [IdleReq EXCEPT !.op = op, !.pc = "select", !.token = t,
                                  !.secret = p, !.flag = Spent(t)]
<1>2. Spent(t) \in BOOLEAN
  BY DEF Spent
<1>3. /\ new \in ReqType
      /\ new.op = op /\ new.pc = "select" /\ new.token = t /\ new.secret = p
      /\ new.flag => Spent(t)
  BY <1>2 DEF ReqType, IdleReq
<1>4. UNCHANGED <<table, token, reported, shown>>
  BY DEF VerifyEmail, ResetPassword, Present
<1> HIDE DEF new
<1>5. MailReqInv(new) /\ OAuthReqInv(new)
  BY <1>1, <1>3 DEF MailReqInv, OAuthReqInv, Kinds
<1> QED
  BY <1>1, <1>3, <1>4, <1>5, ReqKeeps DEF new

(* A sign-in through a provider, up to its first write. *)
LEMMA RedirectKeeps ==
    ASSUME Inductive, NEW r \in Requests, NEW p \in Providers,
           OAuthRedirect(r, p)
    PROVE  Inductive'
<1> DEFINE new == [IdleReq EXCEPT !.op = "oauth", !.pc = "away", !.name = p]
<1>1. /\ new \in ReqType /\ new.op = "oauth" /\ new.pc = "away"
  BY DEF ReqType, IdleReq
<1>2. Set(r, new) /\ UNCHANGED <<table, token, reported, shown>>
  BY DEF OAuthRedirect
<1> HIDE DEF new
<1>3. MailReqInv(new) /\ OAuthReqInv(new)
  BY <1>1 DEF MailReqInv, OAuthReqInv, Kinds
<1> QED
  BY <1>1, <1>2, <1>3, ReqKeeps

LEMMA DoneKeeps ==
    ASSUME Inductive, NEW r \in Requests, Done(r)
    PROVE  Inductive'
<1>1. MailReqInv(IdleReq) /\ OAuthReqInv(IdleReq)
  BY DEF MailReqInv, OAuthReqInv, IdleReq, Kinds
<1> QED
  BY <1>1, IdleType, ReqKeeps DEF Done

LEMMA CallbackKeeps ==
    ASSUME Inductive, NEW r \in Requests, NEW i \in Identities,
           NEW e \in MailsOf[i], OAuthCallback(r, i, e)
    PROVE  Inductive'
<1>1. /\ e \in Mails /\ req[r].pc = "away"
      /\ UNCHANGED <<username, hash, verified, link, token>>
      /\ reported' = [reported EXCEPT ![i] = @ \cup {e}]
      /\ shown' = shown \cup ({e} \ {NoMail})
      /\ TypeOK /\ req[r] \in ReqType
  BY MailsOfAssumption, ReqFacts
  DEF OAuthCallback, UserInfo, table, At, Inductive
<1> DEFINE new == [req[r] EXCEPT !.pc = "lookup", !.name = None, !.ident = i,
                                 !.mail = e]
<1>2. /\ new \in ReqType
      /\ new.op = req[r].op /\ new.pc = "lookup" /\ new.ident = i
      /\ new.mail = e
  BY <1>1 DEF ReqType
<1>3. req' = [req EXCEPT ![r] = new]
  BY DEF OAuthCallback, UserInfo, Set
<1> HIDE DEF new
<1>4. /\ req' \in [Requests -> ReqType]
      /\ req'[r] = new
      /\ \A s \in Requests : s # r => req'[s] = req[s]
  BY <1>1, <1>2, <1>3 DEF TypeOK
<1>5. /\ reported' \in [Identities -> SUBSET Mails]
      /\ reported'[i] = reported[i] \cup {e}
      /\ \A j \in Identities : j # i => reported'[j] = reported[j]
  BY <1>1 DEF TypeOK
<1>6. Grows
  BY <1>1, <1>5 DEF Grows, Exists, Spent
<1>7. DataType'
  BY <1>1, <1>5 DEF DataType, TypeOK
<1>8. NamesUnique' /\ TokenInv'
  BY <1>1 DEF Inductive, NamesUnique, TokenInv, Exists
<1>9. TableInv'
  BY <1>1, <1>5 DEF Inductive, TableInv, Exists
<1>10. req[r].op = "oauth"
  BY <1>1 DEF Inductive, OAuthReqInv
<1>11. MailReqInv(req[r])' /\ OAuthReqInv(req[r])'
  BY <1>2, <1>4, <1>5, <1>10 DEF MailReqInv, OAuthReqInv, Kinds
<1> QED
  BY <1>4, <1>6, <1>7, <1>8, <1>9, <1>11, StepKeeps

LEMMA LookupKeeps ==
    ASSUME Inductive, NEW r \in Requests, GetByOAuth(r)
    PROVE  Inductive'
<1> DEFINE i == req[r].ident
<1>1. /\ req[r] \in ReqType /\ req[r].pc = "lookup" /\ req[r].op = "oauth"
      /\ i \in Identities
      /\ req[r].mail \in reported[i]
      /\ UNCHANGED <<table, token, reported, shown>>
  BY ReqFacts DEF GetByOAuth, At, Inductive, OAuthReqInv
<1>2. CASE link[i] = None
  <2> DEFINE new == [req[r] EXCEPT !.pc = "byMail"]
  <2>1. /\ new \in ReqType
        /\ new.op = "oauth" /\ new.pc = "byMail" /\ new.ident = i
        /\ new.mail = req[r].mail
    BY <1>1 DEF ReqType
  <2>2. Set(r, new)
    BY <1>2 DEF GetByOAuth, Goto
  <2> HIDE DEF new
  <2>3. MailReqInv(new) /\ OAuthReqInv(new)
    BY <1>1, <2>1 DEF MailReqInv, OAuthReqInv, Kinds
  <2> QED
    BY <1>1, <2>1, <2>2, <2>3, ReqKeeps
<1>3. CASE link[i] # None
  <2>1. link[i] \in Mails /\ Exists(link[i]) /\ link[i] \in reported[i]
    BY <1>1, <1>3 DEF Inductive, TypeOK, TableInv
  <2>2. Answer(r, "ok", link[i])
    BY <1>3 DEF GetByOAuth
  <2>3. req[r].op \notin Kinds
    BY <1>1 DEF Kinds
  <2> QED
    BY <1>1, <2>1, <2>2, <2>3, AnswerKeeps
<1> QED
  BY <1>2, <1>3

LEMMA ByMailKeeps ==
    ASSUME Inductive, NEW r \in Requests, GetByEmail(r)
    PROVE  Inductive'
<1> DEFINE e == req[r].mail
<1>1. /\ req[r] \in ReqType /\ req[r].pc = "byMail" /\ req[r].op = "oauth"
      /\ req[r].ident \in Identities
      /\ e \in reported[req[r].ident]
      /\ UNCHANGED <<table, token, reported, shown>>
  BY ReqFacts DEF GetByEmail, At, Inductive, OAuthReqInv
<1>2. e \in Mails
  BY <1>1 DEF Inductive, TypeOK
<1>3. CASE Exists(e)
  <2> DEFINE new == [req[r] EXCEPT !.pc = "link", !.flag = Unverified(e)]
  <2>0. Unverified(e) \in BOOLEAN
    BY DEF Unverified
  <2>1. /\ new \in ReqType
        /\ new.op = "oauth" /\ new.pc = "link" /\ new.ident = req[r].ident
        /\ new.mail = e
    BY <1>1, <2>0 DEF ReqType
  <2>2. Set(r, new)
    BY <1>3 DEF GetByEmail
  <2> HIDE DEF new
  <2>3. MailReqInv(new) /\ OAuthReqInv(new)
    BY <1>1, <1>3, <2>1 DEF MailReqInv, OAuthReqInv, Kinds
  <2> QED
    BY <1>1, <2>1, <2>2, <2>3, ReqKeeps
<1>4. CASE ~Exists(e)
  <2>1. PICK n \in FreeNames(e) :
          Set(r, [req[r] EXCEPT !.pc = "insert", !.name = n])
    BY <1>4 DEF GetByEmail
  <2> DEFINE new == [req[r] EXCEPT !.pc = "insert", !.name = n]
  <2>2. n \in Names
    BY <1>2, <2>1 DEF FreeNames, Names
  <2>3. /\ new \in ReqType
        /\ new.op = "oauth" /\ new.pc = "insert" /\ new.ident = req[r].ident
        /\ new.mail = e /\ new.name = n
    BY <1>1, <2>2 DEF ReqType
  <2> HIDE DEF new
  <2>4. MailReqInv(new) /\ OAuthReqInv(new)
    BY <1>1, <1>2, <2>2, <2>3 DEF MailReqInv, OAuthReqInv, Kinds
  <2> QED
    BY <1>1, <2>1, <2>3, <2>4, ReqKeeps DEF new
<1> QED
  BY <1>3, <1>4

LEMMA GotoFacts ==
    ASSUME Inductive, NEW r \in Requests,
           NEW pc \in {"send", "mark", "store", "link", "prove"}, Goto(r, pc)
    PROVE  /\ req' \in [Requests -> ReqType]
           /\ req'[r].pc = pc
           /\ req'[r].op = req[r].op /\ req'[r].mail = req[r].mail
           /\ req'[r].ident = req[r].ident /\ req'[r].flag = req[r].flag
           /\ req'[r].token = req[r].token /\ req'[r].secret = req[r].secret
           /\ \A s \in Requests : s # r => req'[s] = req[s]
<1> DEFINE new == [req[r] EXCEPT !.pc = pc]
<1>1. req[r] \in ReqType /\ req \in [Requests -> ReqType]
  BY ReqFacts DEF Inductive, TypeOK
<1>2. /\ new \in ReqType
      /\ new.pc = pc /\ new.op = req[r].op /\ new.mail = req[r].mail
      /\ new.ident = req[r].ident /\ new.flag = req[r].flag
      /\ new.token = req[r].token /\ new.secret = req[r].secret
  BY <1>1 DEF ReqType
<1>3. req' = [req EXCEPT ![r] = new]
  BY DEF Goto, Set
<1> HIDE DEF new
<1> QED
  BY <1>1, <1>2, <1>3

(* The steps that write a table. *)
LEMMA CreateKeeps ==
    ASSUME Inductive, NEW r \in Requests, Create(r)
    PROVE  Inductive'
<1> DEFINE e == req[r].mail
           n == req[r].name
           p == req[r].secret
<1>1. /\ req[r] \in ReqType /\ req[r].pc = "insert"
      /\ req[r].op \in {"signup", "oauth"}
      /\ e \in Mails /\ n \in Names /\ p \in Passwords \cup {None}
      /\ UNCHANGED <<token, reported, shown>>
      /\ req[r].op = "oauth" => /\ req[r].ident \in Identities
                                /\ e \in reported[req[r].ident]
  BY ReqFacts DEF Create, InsertRow, At, Inductive, OAuthReqInv
<1>2. CASE Exists(e) \/ NameTaken(n)
  BY <1>2, RefuseKeeps DEF Create, InsertRow
<1>3. CASE ~(Exists(e) \/ NameTaken(n))
  <2>1. /\ username' = [username EXCEPT ![e] = n]
        /\ hash' = [hash EXCEPT ![e] = p]
        /\ verified' \in {verified, verified \cup {e}}
        /\ req[r].op # "oauth" => verified' = verified
        /\ UNCHANGED link
        /\ Goto(r, IF req[r].op = "oauth" THEN "link" ELSE "send")
    BY <1>3 DEF Create, InsertRow
  <2>2. PICK pc \in {"link", "send"} :
          /\ Goto(r, pc)
          /\ pc = "link" <=> req[r].op = "oauth"
    BY <2>1
  <2>3. /\ req' \in [Requests -> ReqType]
        /\ req'[r].pc = pc /\ req'[r].op = req[r].op /\ req'[r].mail = e
        /\ req'[r].ident = req[r].ident
        /\ \A s \in Requests : s # r => req'[s] = req[s]
    BY <2>2, GotoFacts
  <2>4. None \notin Names
    BY NoneAssumption
  <2>5. /\ username' \in [Mails -> Names \cup {None}]
        /\ username'[e] = n
        /\ \A f \in Mails : f # e => username'[f] = username[f]
        /\ hash' \in [Mails -> Passwords \cup {None}]
        /\ \A f \in Mails : f # e => hash'[f] = hash[f]
        /\ \A f \in Mails : username[f] # n
    BY <1>1, <1>3, <2>1 DEF Inductive, TypeOK, NameTaken
  <2>6. \A f \in Mails : Exists(f)' <=> Exists(f) \/ f = e
    BY <1>1, <1>3, <2>4, <2>5 DEF Exists
  <2>7. hash[e] = None /\ e \notin verified
    BY <1>1, <1>3 DEF Inductive, TableInv
  <2>8. Grows
    <3>1. \A f \in Mails : hash[f] # None => hash'[f] # None
      BY <2>5, <2>7
    <3> QED
      BY <1>1, <2>6, <3>1 DEF Grows, Spent
  <2>9. DataType'
    <3>1. verified' \in SUBSET Mails
      BY <1>1, <2>1 DEF Inductive, TypeOK
    <3> QED
      BY <1>1, <2>1, <2>5, <3>1 DEF Inductive, TypeOK, DataType
  <2>10. NamesUnique'
    BY <2>4, <2>5, <1>1 DEF Inductive, NamesUnique, Exists
  <2>11. e \in shown \cup {NoMail} \/ req[r].op # "oauth"
    BY <1>1 DEF Inductive, TableInv
  <2>12. TableInv'
    <3>1. \A f \in Mails : hash'[f] # None \/ f \in verified' => Exists(f)'
      BY <2>1, <2>5, <2>6 DEF Inductive, TableInv
    <3>2. verified' \subseteq shown' \cup {NoMail}
      BY <1>1, <2>1, <2>11 DEF Inductive, TableInv
    <3>3. \A i \in Identities : link[i] # None => link[i] \in Mails
      BY DEF Inductive, TypeOK
    <3> QED
      BY <1>1, <2>1, <2>6, <3>1, <3>2, <3>3 DEF Inductive, TableInv
  <2>13. TokenInv'
    BY <1>1, <2>8 DEF Inductive, TokenInv, Grows
  <2>14. MailReqInv(req[r])' /\ OAuthReqInv(req[r])'
    <3>1. username'[e] # None
      BY <1>1, <2>4, <2>5
    <3> QED
      BY <1>1, <2>2, <2>3, <3>1 DEF MailReqInv, OAuthReqInv, Kinds, Exists
  <2> QED
    BY <2>3, <2>8, <2>9, <2>10, <2>12, <2>13, <2>14, StepKeeps
<1> QED
  BY <1>2, <1>3

LEMMA SendKeeps ==
    ASSUME Inductive, NEW r \in Requests, SendToken(r)
    PROVE  Inductive'
<1> DEFINE e == req[r].mail
           s == IF req[r].op = "signup" THEN e ELSE None
<1>1. /\ req[r] \in ReqType /\ req[r].pc = "send"
      /\ e \in Mails /\ Exists(e)
      /\ req[r].op = "forgot" => hash[e] # None
      /\ UNCHANGED <<username, hash, verified, link, reported, shown>>
      /\ s \in Mails \cup {None}
      /\ Answer(r, "ok", s)
  BY ReqFacts DEF SendToken, At, Inductive, MailReqInv, table
<1>2. req[r].op # "oauth" /\ req[r].op \notin Kinds
  BY <1>1 DEF Inductive, MailReqInv, Kinds
<1> HIDE DEF s
<1>3. /\ req' \in [Requests -> ReqType]
      /\ req'[r].pc = "ok" /\ req'[r].op = req[r].op
      /\ \A q \in Requests : q # r => req'[q] = req[q]
  BY <1>1, AnswerFacts
<1>4. MailReqInv(req[r])' /\ OAuthReqInv(req[r])'
  BY <1>2, <1>3 DEF MailReqInv, OAuthReqInv
<1>5. CASE UNCHANGED token
  BY <1>1, <1>2, <1>5, AnswerKeeps DEF table
<1>6. CASE \E t \in Tokens : CreateToken(r, t)
  <2>1. PICK t \in Tokens : CreateToken(r, t)
    BY <1>6
  <2>2. PICK k \in Kinds :
          /\ token[t] = NoToken
          /\ token' = [token EXCEPT
                ![t] = [kind |-> k, owner |-> e, state |-> "fresh"]]
          /\ k = "reset" => req[r].op = "forgot"
    BY <2>1 DEF CreateToken, Kinds
  <2>3. [kind |-> k, owner |-> e, state |-> "fresh"] \in TokenType
    BY <1>1 DEF TokenType
  <2>4. /\ token' \in [Tokens -> TokenType]
        /\ token'[t] = [kind |-> k, owner |-> e, state |-> "fresh"]
        /\ \A u \in Tokens : u # t => token'[u] = token[u]
    BY <2>2, <2>3 DEF Inductive, TypeOK
  <2>5. Grows
    BY <1>1, <2>2, <2>4 DEF Grows, Exists, Spent
  <2>6. DataType'
    BY <1>1, <2>4 DEF Inductive, TypeOK, DataType
  <2>7. NamesUnique' /\ TableInv'
    BY <1>1 DEF Inductive, NamesUnique, TableInv, Exists
  <2>8. TokenInv'
    BY <1>1, <2>2, <2>4 DEF Inductive, TokenInv, Exists, Kinds
  <2> QED
    BY <1>3, <1>4, <2>5, <2>6, <2>7, <2>8, StepKeeps
<1> QED
  BY <1>5, <1>6 DEF SendToken

LEMMA SelectKeeps ==
    ASSUME Inductive, NEW r \in Requests, SelectToken(r)
    PROVE  Inductive'
<1> DEFINE t == req[r].token
           e == token[t].owner
<1>1. /\ req[r] \in ReqType /\ req[r].pc = "select"
      /\ req[r].op \in Kinds
      /\ t \in Tokens /\ token[t] # NoToken
      /\ req[r].op = "reset" => req[r].secret \in Passwords
      /\ UNCHANGED <<table, token, reported>>
  BY ReqFacts DEF SelectToken, ReadToken, At, Inductive, MailReqInv
<1>2. CASE token[t].kind # req[r].op \/ Spent(t)
  BY <1>1, <1>2, RefuseKeeps DEF SelectToken, ReadToken
<1>3. CASE ~(token[t].kind # req[r].op \/ Spent(t))
  <2>1. /\ e \in Mails
        /\ shown' = shown \cup {e}
        /\ Set(r, [req[r] EXCEPT !.pc = "mark", !.mail = e])
    BY <1>1, <1>3 DEF SelectToken, ReadToken, Inductive, TokenInv
  <2> DEFINE new == [req[r] EXCEPT !.pc = "mark", !.mail = e]
  <2>2. /\ new \in ReqType
        /\ new.pc = "mark" /\ new.op = req[r].op /\ new.mail = e
        /\ new.token = t /\ new.secret = req[r].secret
        /\ new.flag = req[r].flag
    BY <1>1, <2>1 DEF ReqType
  <2> HIDE DEF new
  <2>3. /\ req' \in [Requests -> ReqType]
        /\ req'[r] = new
        /\ \A s \in Requests : s # r => req'[s] = req[s]
    BY <2>1, <2>2 DEF new, Set, Inductive, TypeOK
  <2>4. Grows
    BY <1>1, <2>1 DEF Grows, Exists, Spent, table
  <2>5. DataType'
    BY <1>1, <2>1 DEF Inductive, TypeOK, DataType, table
  <2>6. NamesUnique' /\ TableInv' /\ TokenInv'
    <3>1. NamesUnique' /\ TokenInv'
      BY <1>1 DEF Inductive, NamesUnique, TokenInv, Exists, table
    <3>2. TableInv'
      BY <1>1, <2>1 DEF Inductive, TableInv, Exists, table
    <3> QED
      BY <3>1, <3>2
  <2>7. ~req[r].flag
    BY <1>1, <1>3 DEF Inductive, MailReqInv
  <2>8. MailReqInv(req[r])'
    BY <1>1, <1>3, <2>1, <2>2, <2>3, <2>7 DEF MailReqInv
  <2>9. OAuthReqInv(req[r])'
    BY <1>1, <2>2, <2>3 DEF OAuthReqInv, Kinds
  <2> QED
    BY <2>3, <2>4, <2>5, <2>6, <2>8, <2>9, StepKeeps
<1> QED
  BY <1>2, <1>3

(* What the transaction knows when it commits. *)
LEMMA MarkFacts ==
    ASSUME Inductive, NEW r \in Requests, req[r].pc \in {"mark", "store"}
    PROVE  /\ req[r] \in ReqType
           /\ req[r].op \in Kinds /\ ~req[r].flag
           /\ req[r].token \in Tokens
           /\ token[req[r].token] # NoToken
           /\ token[req[r].token] \in TokenType
           /\ token[req[r].token].kind = req[r].op
           /\ token[req[r].token].owner = req[r].mail
           /\ req[r].mail \in Mails /\ req[r].mail \in shown
           /\ Exists(req[r].mail)
           /\ req[r].op = "reset" => /\ req[r].secret \in Passwords
                                     /\ hash[req[r].mail] # None
<1>1. MailReqInv(req[r]) /\ TypeOK /\ req[r] \in ReqType
  BY ReqFacts DEF Inductive
<1>2. req[r].token \in Tokens /\ token[req[r].token] # NoToken
  BY <1>1 DEF MailReqInv
<1> QED
  BY <1>1, <1>2 DEF MailReqInv, Inductive, TokenInv, TypeOK

LEMMA CommitKeeps ==
    ASSUME Inductive, NEW r \in Requests, CommitToken(r)
    PROVE  Inductive'
<1> DEFINE t == req[r].token
           e == req[r].mail
<1>1. /\ req[r].pc = "mark"
      /\ token' = [token EXCEPT ![t].state = "used"]
      /\ UNCHANGED <<username, hash, link, reported, shown>>
  BY DEF CommitToken, At
<1>2. /\ req[r].op \in Kinds /\ ~req[r].flag
      /\ t \in Tokens /\ token[t] # NoToken /\ token[t] \in TokenType
      /\ token[t].kind = req[r].op /\ token[t].owner = e
      /\ e \in Mails /\ e \in shown /\ Exists(e)
      /\ req[r].op = "reset" => req[r].secret \in Passwords
  BY <1>1, MarkFacts
<1>3. /\ token' \in [Tokens -> TokenType]
      /\ token'[t].state = "used"
      /\ \A u \in Tokens : /\ token'[u].kind = token[u].kind
                           /\ token'[u].owner = token[u].owner
                           /\ u # t => token'[u] = token[u]
  <2> DEFINE new == [token[t] EXCEPT !.state = "used"]
  <2>1. new \in TokenType /\ new.state = "used"
        /\ new.kind = token[t].kind /\ new.owner = token[t].owner
    BY <1>2 DEF TokenType
  <2>2. token \in [Tokens -> TokenType]
    BY DEF Inductive, TypeOK
  <2>3. token' = [token EXCEPT ![t] = new]
    BY <1>1
  <2> HIDE DEF new
  <2> QED
    BY <1>2, <2>1, <2>2, <2>3
<1>4. token'[t] # NoToken
  BY <1>3 DEF NoToken
<1>5. Grows
  BY <1>1, <1>3, <1>4 DEF Grows, Exists, Spent
<1>6. verified' \in {verified, verified \cup {e}}
  BY DEF CommitToken
<1>7. DataType'
  <2>1. verified' \in SUBSET Mails
    BY <1>2, <1>6 DEF Inductive, TypeOK
  <2> QED
    BY <1>1, <1>3, <2>1 DEF Inductive, TypeOK, DataType
<1>8. NamesUnique'
  BY <1>1 DEF Inductive, NamesUnique, Exists
<1>9. TableInv'
  BY <1>1, <1>2, <1>6 DEF Inductive, TableInv, Exists
<1>10. TokenInv'
  BY <1>1, <1>2, <1>3 DEF Inductive, TokenInv, Exists
<1>11. /\ req' \in [Requests -> ReqType]
       /\ \A s \in Requests : s # r => req'[s] = req[s]
       /\ MailReqInv(req[r])' /\ OAuthReqInv(req[r])'
  <2>1. CASE req[r].op = "verify"
    <3>1. PICK says \in {"ok", "refused"} : Answer(r, says, None)
      BY <2>1 DEF CommitToken, Refuse
    <3>2. /\ req' \in [Requests -> ReqType]
          /\ \A s \in Requests : s # r => req'[s] = req[s]
          /\ req'[r].pc = says /\ req'[r].op = "verify" /\ ~req'[r].flag
      BY <1>2, <2>1, <3>1, AnswerFacts
    <3> QED
      BY <3>2 DEF MailReqInv, OAuthReqInv
  <2>2. CASE req[r].op # "verify"
    <3>1. Goto(r, "store") /\ req[r].op = "reset"
      BY <1>2, <2>2 DEF CommitToken, Kinds
    <3>2. /\ req' \in [Requests -> ReqType]
          /\ \A s \in Requests : s # r => req'[s] = req[s]
          /\ req'[r].pc = "store" /\ req'[r].op = req[r].op
          /\ req'[r].mail = e /\ req'[r].flag = req[r].flag
          /\ req'[r].token = t /\ req'[r].secret = req[r].secret
      BY <3>1, GotoFacts
    <3>3. MailReqInv(req[r])'
      BY <1>1, <1>2, <1>3, <1>4, <3>1, <3>2 DEF MailReqInv, Kinds
    <3>4. OAuthReqInv(req[r])'
      BY <3>1, <3>2 DEF OAuthReqInv
    <3> QED
      BY <3>2, <3>3, <3>4
  <2> QED
    BY <2>1, <2>2
<1> QED
  BY <1>5, <1>7, <1>8, <1>9, <1>10, <1>11, StepKeeps

LEMMA StoreKeeps ==
    ASSUME Inductive, NEW r \in Requests, SetPasswordHash(r)
    PROVE  Inductive'
<1> DEFINE e == req[r].mail
<1>1. /\ req[r].pc = "store"
      /\ hash' = [hash EXCEPT ![e] = req[r].secret]
      /\ Answer(r, "ok", None)
      /\ UNCHANGED <<username, verified, link, token, reported, shown>>
  BY DEF SetPasswordHash, At
<1>2. /\ req[r].op = "reset" /\ ~req[r].flag
      /\ e \in Mails /\ Exists(e)
      /\ req[r].secret \in Passwords
  BY <1>1, MarkFacts DEF Inductive, MailReqInv
<1>3. /\ hash' \in [Mails -> Passwords \cup {None}]
      /\ hash'[e] # None
      /\ \A f \in Mails : f # e => hash'[f] = hash[f]
  BY <1>1, <1>2, NoneAssumption DEF Inductive, TypeOK
<1>4. Grows
  BY <1>1, <1>3 DEF Grows, Exists, Spent
<1>5. DataType'
  BY <1>1, <1>3 DEF Inductive, TypeOK, DataType
<1>6. NamesUnique'
  BY <1>1 DEF Inductive, NamesUnique, Exists
<1>7. TableInv'
  BY <1>1, <1>2, <1>3 DEF Inductive, TableInv, Exists
<1>8. TokenInv'
  BY <1>1, <1>4 DEF Inductive, TokenInv, Grows
<1>9. /\ req' \in [Requests -> ReqType]
      /\ \A s \in Requests : s # r => req'[s] = req[s]
      /\ req'[r].pc = "ok" /\ req'[r].op = "reset" /\ ~req'[r].flag
  BY <1>1, <1>2, AnswerFacts
<1>10. MailReqInv(req[r])' /\ OAuthReqInv(req[r])'
  BY <1>9 DEF MailReqInv, OAuthReqInv
<1> QED
  BY <1>4, <1>5, <1>6, <1>7, <1>8, <1>9, <1>10, StepKeeps

LEMMA LinkKeeps ==
    ASSUME Inductive, NEW r \in Requests, LinkOAuth(r)
    PROVE  Inductive'
<1> DEFINE e == req[r].mail
           i == req[r].ident
<1>1. /\ req[r] \in ReqType /\ req[r].pc = "link" /\ req[r].op = "oauth"
      /\ i \in Identities /\ e \in reported[i] /\ Exists(e)
      /\ UNCHANGED <<username, hash, verified, token, reported, shown>>
  BY ReqFacts DEF LinkOAuth, At, Inductive, OAuthReqInv
<1>2. e \in Mails
  BY <1>1 DEF Inductive, TypeOK
<1>3. link' \in {link, [link EXCEPT ![i] = e]}
  BY DEF LinkOAuth
<1>4. Grows
  BY <1>1 DEF Grows, Exists, Spent
<1>5. DataType'
  BY <1>1, <1>2, <1>3 DEF Inductive, TypeOK, DataType
<1>6. NamesUnique' /\ TokenInv'
  BY <1>1 DEF Inductive, NamesUnique, TokenInv, Exists
<1>7. TableInv'
  <2>1. \A j \in Identities : link'[j] # None =>
            username[link'[j]] # None /\ link'[j] \in reported[j]
    BY <1>1, <1>2, <1>3 DEF Inductive, TypeOK, TableInv, Exists
  <2> QED
    BY <1>1, <2>1 DEF Inductive, TableInv, Exists
<1>8. CASE req[r].flag
  <2>1. Goto(r, "prove")
    BY <1>8 DEF LinkOAuth
  <2>2. /\ req' \in [Requests -> ReqType]
        /\ req'[r].pc = "prove" /\ req'[r].op = req[r].op
        /\ req'[r].mail = e /\ req'[r].ident = i
        /\ \A s \in Requests : s # r => req'[s] = req[s]
    BY <2>1, GotoFacts
  <2>3. MailReqInv(req[r])' /\ OAuthReqInv(req[r])'
    BY <1>1, <2>2 DEF MailReqInv, OAuthReqInv, Kinds, Exists
  <2> QED
    BY <1>4, <1>5, <1>6, <1>7, <2>2, <2>3, StepKeeps
<1>9. CASE ~req[r].flag
  <2>1. Answer(r, "ok", e)
    BY <1>9 DEF LinkOAuth
  <2>2. /\ req' \in [Requests -> ReqType]
        /\ req'[r].pc = "ok" /\ req'[r].op = req[r].op
        /\ req'[r].mail = e /\ req'[r].ident = i
        /\ \A s \in Requests : s # r => req'[s] = req[s]
    BY <1>2, <2>1, AnswerFacts
  <2>3. MailReqInv(req[r])' /\ OAuthReqInv(req[r])'
    BY <1>1, <2>2 DEF MailReqInv, OAuthReqInv, Kinds, Exists
  <2> QED
    BY <1>4, <1>5, <1>6, <1>7, <2>2, <2>3, StepKeeps
<1> QED
  BY <1>8, <1>9, <1>1

LEMMA ProveKeeps ==
    ASSUME Inductive, NEW r \in Requests, SetEmailVerified(r)
    PROVE  Inductive'
<1> DEFINE e == req[r].mail
           i == req[r].ident
<1>1. /\ req[r] \in ReqType /\ req[r].op = "oauth"
      /\ i \in Identities /\ e \in reported[i] /\ Exists(e)
      /\ verified' \in {verified, verified \cup {e}}
      /\ UNCHANGED <<username, hash, link, token, reported, shown>>
  BY ReqFacts DEF SetEmailVerified, At, Inductive, OAuthReqInv
<1>2. e \in Mails /\ e \in shown \cup {NoMail}
  BY <1>1 DEF Inductive, TypeOK, TableInv
<1>3. Grows
  BY <1>1 DEF Grows, Exists, Spent
<1>4. DataType'
  <2>1. verified' \in SUBSET Mails
    BY <1>1, <1>2 DEF Inductive, TypeOK
  <2> QED
    BY <1>1, <2>1 DEF Inductive, TypeOK, DataType
<1>5. NamesUnique' /\ TokenInv'
  BY <1>1 DEF Inductive, NamesUnique, TokenInv, Exists
<1>6. TableInv'
  BY <1>1, <1>2 DEF Inductive, TableInv, Exists
<1>7. /\ req' \in [Requests -> ReqType]
      /\ req'[r].pc = "ok" /\ req'[r].op = req[r].op
      /\ req'[r].mail = e /\ req'[r].ident = i
      /\ \A s \in Requests : s # r => req'[s] = req[s]
  BY <1>2, AnswerFacts DEF SetEmailVerified
<1>8. MailReqInv(req[r])' /\ OAuthReqInv(req[r])'
  BY <1>1, <1>7 DEF MailReqInv, OAuthReqInv, Kinds, Exists
<1> QED
  BY <1>3, <1>4, <1>5, <1>6, <1>7, <1>8, StepKeeps

LEMMA FailKeeps ==
    ASSUME Inductive, NEW r \in Requests, Fail(r)
    PROVE  Inductive'
BY RefuseKeeps DEF Fail

(* A token expires: it was not used, and is refused from now on. *)
LEMMA ExpireKeeps ==
    ASSUME Inductive, NEW t \in Tokens, Expire(t)
    PROVE  Inductive'
<1>1. /\ token[t] # NoToken /\ token[t].state = "fresh"
      /\ token' = [token EXCEPT ![t].state = "late"]
      /\ UNCHANGED <<table, req, reported, shown>>
  BY DEF Expire
<1>2. /\ token' \in [Tokens -> TokenType]
      /\ token'[t].state = "late"
      /\ \A u \in Tokens : /\ token'[u].kind = token[u].kind
                           /\ token'[u].owner = token[u].owner
                           /\ u # t => token'[u] = token[u]
  <2> DEFINE new == [token[t] EXCEPT !.state = "late"]
  <2>1. token \in [Tokens -> TokenType] /\ token[t] \in TokenType
    BY DEF Inductive, TypeOK
  <2>2. /\ new \in TokenType /\ new.state = "late"
        /\ new.kind = token[t].kind /\ new.owner = token[t].owner
    BY <2>1 DEF TokenType
  <2>3. token' = [token EXCEPT ![t] = new]
    BY <1>1
  <2> HIDE DEF new
  <2> QED
    BY <2>1, <2>2, <2>3
<1>3. token'[t] # NoToken
  BY <1>2 DEF NoToken
<1>4. Grows
  BY <1>1, <1>2, <1>3 DEF Grows, Exists, Spent, table
<1>5. DataType' /\ req' \in [Requests -> ReqType]
  BY <1>1, <1>2 DEF Inductive, TypeOK, DataType, table
<1>6. NamesUnique' /\ TableInv'
  BY <1>1 DEF Inductive, NamesUnique, TableInv, Exists, table
<1>7. TokenInv'
  BY <1>1, <1>2 DEF Inductive, TokenInv, Exists, table
<1>8. \A s \in Requests : MailReqInv(req[s])' /\ OAuthReqInv(req[s])'
  <2> SUFFICES ASSUME NEW s \in Requests
               PROVE  MailReqInv(req[s])' /\ OAuthReqInv(req[s])'
    OBVIOUS
  <2>1. req'[s] = req[s]
    BY <1>1
  <2> QED
    BY <1>4, <2>1, OthersKeep
<1>9. TypeOK'
  BY <1>5 DEF DataType, TypeOK
<1> QED
  BY <1>6, <1>7, <1>8, <1>9 DEF Inductive

LEMMA NextInductive == Inductive /\ [Next]_vars => Inductive'
<1> SUFFICES ASSUME Inductive, [Next]_vars PROVE Inductive'
  OBVIOUS
<1>1. ASSUME NEW r \in Requests, Serve(r)
      PROVE  Inductive'
  <2>1. CASE Create(r) \/ SendToken(r) \/ SelectToken(r) \/ CommitToken(r)
               \/ SetPasswordHash(r)
    BY <2>1, CreateKeeps, SendKeeps, SelectKeeps, CommitKeeps, StoreKeeps
  <2>2. CASE GetByOAuth(r) \/ GetByEmail(r) \/ LinkOAuth(r)
               \/ SetEmailVerified(r) \/ Fail(r) \/ Done(r)
    BY <2>2, LookupKeeps, ByMailKeeps, LinkKeeps, ProveKeeps, FailKeeps,
       DoneKeeps
  <2>3. CASE \/ \E e \in Addresses, p \in Passwords :
                   Signup(r, e, p) \/ Login(r, e, p)
             \/ \E e \in Mails : ResendVerification(r, e) \/ ForgotPassword(r, e)
    BY <2>3, SignupKeeps, LoginKeeps, MailKeeps
  <2>4. CASE \/ \E t \in Tokens : VerifyEmail(r, t)
             \/ \E t \in Tokens, p \in Passwords : ResetPassword(r, t, p)
    BY <2>4, PresentKeeps
  <2>5. CASE \/ \E p \in Providers : OAuthRedirect(r, p)
             \/ \E i \in Identities : \E e \in MailsOf[i] : OAuthCallback(r, i, e)
    BY <2>5, RedirectKeeps, CallbackKeeps
  <2> QED
    BY <1>1, <2>1, <2>2, <2>3, <2>4, <2>5 DEF Serve
<1>2. ASSUME NEW t \in Tokens, Expire(t)
      PROVE  Inductive'
  BY <1>2, ExpireKeeps
<1>3. CASE UNCHANGED vars
  <2> USE <1>3 DEF vars, table
  <2>1. TypeOK' /\ NamesUnique' /\ TableInv' /\ TokenInv'
    BY DEF Inductive, TypeOK, NamesUnique, TableInv, TokenInv, Exists
  <2>2. Grows /\ \A s \in Requests : req'[s] = req[s]
    BY DEF Grows, Exists, Spent
  <2>3. \A s \in Requests : MailReqInv(req[s])' /\ OAuthReqInv(req[s])'
    BY <2>2, OthersKeep
  <2> QED
    BY <2>1, <2>3 DEF Inductive
<1> QED
  BY <1>1, <1>2, <1>3 DEF Next

-----------------------------------------------------------------------------
(* The theorems. *)

(* The strengthened invariant: the types, unique usernames, what the tables *)
(* refer to, and what each request knows at each of its statements.         *)
THEOREM InductiveTheorem == Spec => []Inductive
<1>1. Init => Inductive
  BY InitInductive
<1>2. Inductive /\ [Next]_vars => Inductive'
  BY NextInductive
<1> QED
  BY <1>1, <1>2, PTL DEF Spec

(* A session from a provider sign-in is for an account whose address the   *)
(* provider reported for that identity.                                    *)
THEOREM SessionTheorem == Spec => []SessionMatchesIdentity
<1>1. Inductive => SessionMatchesIdentity
  BY DEF Inductive, OAuthReqInv, SessionMatchesIdentity, At
<1> QED
  BY <1>1, InductiveTheorem, PTL

(* A token that was spent when a request came in is refused by it. *)
THEOREM SpentTheorem == Spec => []SpentTokenRefused
<1>1. Inductive => SpentTokenRefused
  BY DEF Inductive, MailReqInv, SpentTokenRefused, At
<1> QED
  BY <1>1, InductiveTheorem, PTL

(* The password of an account changes only by one of its reset tokens, used *)
(* up by the request that sets it.                                         *)
THEOREM PasswordTheorem == Spec => PasswordOnlyByReset
<1> DEFINE ByReset(e) ==
        /\ hash[e] # None
        /\ \E r \in Requests : \E t \in Tokens :
              /\ req[r].token = t /\ ~req[r].flag /\ req[r].secret = hash'[e]
              /\ token[t] = [kind |-> "reset", owner |-> e, state |-> "used"]
<1>1. ASSUME Inductive, [Next]_vars, NEW e \in Mails, Exists(e),
             hash'[e] # hash[e]
      PROVE  ByReset(e)
  <2>1. ASSUME NEW r \in Requests, Create(r)
        PROVE  FALSE
    <3>1. hash' = [hash EXCEPT ![req[r].mail] = req[r].secret]
          /\ ~Exists(req[r].mail)
      BY <1>1, <2>1 DEF Create, InsertRow, table
    <3> QED
      BY <1>1, <3>1 DEF Inductive, TypeOK
  <2>2. PICK r \in Requests : SetPasswordHash(r)
    <3>1. ASSUME NEW r \in Requests, Serve(r)
          PROVE  SetPasswordHash(r)
      BY <1>1, <2>1, <3>1
      DEF Serve, Signup, Login, ResendVerification, ForgotPassword,
          VerifyEmail, ResetPassword, Present, OAuthRedirect, OAuthCallback,
          SendToken, SelectToken, ReadToken, CommitToken, GetByOAuth,
          GetByEmail, LinkOAuth, SetEmailVerified, Fail, Done, table
    <3> QED
      BY <1>1, <3>1 DEF Next, Expire, vars, table
  <2>3. /\ req[r].pc = "store"
        /\ hash' = [hash EXCEPT ![req[r].mail] = req[r].secret]
    BY <2>2 DEF SetPasswordHash, At
  <2>4. /\ req[r].token \in Tokens /\ ~req[r].flag
        /\ token[req[r].token] \in TokenType
        /\ token[req[r].token].kind = req[r].op
        /\ token[req[r].token].owner = req[r].mail
        /\ req[r].op = "reset"
        /\ token[req[r].token].state = "used"
        /\ hash[req[r].mail] # None
        /\ req[r].mail \in Mails
    BY <1>1, <2>3, MarkFacts DEF Inductive, MailReqInv
  <2>5. e = req[r].mail /\ hash'[e] = req[r].secret
    BY <1>1, <2>3, <2>4 DEF Inductive, TypeOK
  <2>6. token[req[r].token] = [kind |-> "reset", owner |-> e, state |-> "used"]
    BY <2>4, <2>5 DEF TokenType
  <2> QED
    BY <2>4, <2>5, <2>6
<1>2. Inductive /\ [Next]_vars =>
          [\A e \in Mails : Exists(e) /\ hash'[e] # hash[e] => ByReset(e)]_vars
  BY <1>1
<1> QED
  BY <1>2, InductiveTheorem, PTL DEF Spec, PasswordOnlyByReset

-----------------------------------------------------------------------------
(* The refinement. *)

LEMMA NextRefines ==
    ASSUME Inductive, Inductive', [Next]_vars
    PROVE  [MailProof!Next]_(MailProof!vars)
<1> DEFINE Proven == {e \in Addresses : IsEmailVerified(e)}
<1>1. Proven = verified \ {NoMail} /\ Proven' = verified' \ {NoMail}
  BY NoMailAssumption DEF Inductive, TypeOK, TableInv, IsEmailVerified, Mails
<1>2. ASSUME NEW e \in Mails, shown' = shown \cup {e}, verified' = verified
      PROVE  MailProof!Next
  BY <1>1, <1>2 DEF MailProof!Next, MailProof!Show
<1>3. ASSUME NEW e \in Mails, e \in shown \cup {NoMail}, shown' = shown,
             verified' = verified \cup {e}
      PROVE  [MailProof!Next]_(MailProof!vars)
  <2>1. CASE e = NoMail
    BY <1>1, <1>3, <2>1 DEF MailProof!vars
  <2>2. CASE e # NoMail
    <3>1. e \in shown /\ Proven' = Proven \cup {e}
      BY <1>1, <1>3, <2>2
    <3> QED
      BY <1>3, <3>1 DEF MailProof!Next, MailProof!Prove
  <2> QED
    BY <2>1, <2>2
<1>4. ASSUME shown' = shown, verified' = verified
      PROVE  UNCHANGED MailProof!vars
  BY <1>1, <1>4 DEF MailProof!vars
<1>5. ASSUME NEW r \in Requests, Serve(r)
      PROVE  [MailProof!Next]_(MailProof!vars)
  <2> DEFINE e == req[r].mail
  <2>1. CASE Create(r)
    <3>1. shown' = shown /\ verified' \in {verified, verified \cup {e}}
      BY <2>1 DEF Create, InsertRow, table
    <3>2. verified' # verified => e \in Mails /\ e \in shown \cup {NoMail}
      <4>1. verified' # verified => req[r].op = "oauth"
        BY <2>1 DEF Create, InsertRow, table
      <4>2. req[r].pc = "insert"
        BY <2>1 DEF Create, InsertRow, At
      <4> QED
        BY <4>1, <4>2 DEF Inductive, OAuthReqInv, TableInv
    <3> QED
      BY <1>3, <1>4, <3>1, <3>2
  <2>2. CASE SelectToken(r)
    <3>1. /\ verified' = verified
          /\ shown' \in {shown, shown \cup {token[req[r].token].owner}}
      BY <2>2 DEF SelectToken, ReadToken, table
    <3>2. token[req[r].token].owner \in Mails
      BY <2>2 DEF SelectToken, ReadToken, At, Inductive, MailReqInv, TokenInv
    <3> QED
      BY <1>2, <1>4, <3>1, <3>2
  <2>3. CASE CommitToken(r)
    <3>1. /\ shown' = shown /\ verified' \in {verified, verified \cup {e}}
          /\ req[r].pc = "mark"
      BY <2>3 DEF CommitToken, At
    <3> QED
      BY <1>3, <1>4, <3>1, MarkFacts
  <2>4. CASE SetEmailVerified(r)
    <3>1. /\ shown' = shown /\ verified' \in {verified, verified \cup {e}}
          /\ req[r].pc = "prove"
      BY <2>4 DEF SetEmailVerified, At
    <3>2. e \in Mails /\ e \in shown \cup {NoMail}
      BY <3>1, ReqFacts DEF Inductive, OAuthReqInv, TypeOK, TableInv
    <3> QED
      BY <1>3, <1>4, <3>1, <3>2
  <2>5. CASE \E i \in Identities : \E m \in MailsOf[i] : OAuthCallback(r, i, m)
    <3>0. PICK i \in Identities : \E m \in MailsOf[i] : OAuthCallback(r, i, m)
      BY <2>5
    <3>1. PICK m \in MailsOf[i] : OAuthCallback(r, i, m)
      BY <3>0
    <3>2. /\ m \in Mails /\ verified' = verified
          /\ shown' = shown \cup ({m} \ {NoMail})
      BY <3>1, MailsOfAssumption DEF OAuthCallback, UserInfo, table
    <3>3. CASE m = NoMail
      BY <1>4, <3>2, <3>3
    <3>4. CASE m # NoMail
      <4>1. shown' = shown \cup {m}
        BY <3>2, <3>4
      <4> QED
        BY <1>2, <3>2, <4>1
    <3> QED
      BY <3>3, <3>4
  <2>6. CASE \/ SendToken(r) \/ SetPasswordHash(r) \/ GetByOAuth(r)
             \/ GetByEmail(r) \/ LinkOAuth(r) \/ Fail(r) \/ Done(r)
    BY <1>4, <2>6
    DEF SendToken, SetPasswordHash, GetByOAuth, GetByEmail, LinkOAuth, Fail,
        Done, table
  <2>7. CASE \/ \E m \in Addresses, p \in Passwords :
                   Signup(r, m, p) \/ Login(r, m, p)
             \/ \E m \in Mails : ResendVerification(r, m) \/ ForgotPassword(r, m)
             \/ \E t \in Tokens : VerifyEmail(r, t)
             \/ \E t \in Tokens, p \in Passwords : ResetPassword(r, t, p)
             \/ \E p \in Providers : OAuthRedirect(r, p)
    BY <1>4, <2>7
    DEF Signup, Login, ResendVerification, ForgotPassword, VerifyEmail,
        ResetPassword, Present, OAuthRedirect, table
  <2> QED
    BY <1>5, <2>1, <2>2, <2>3, <2>4, <2>5, <2>6, <2>7 DEF Serve
<1>6. ASSUME (\E t \in Tokens : Expire(t)) \/ UNCHANGED vars
      PROVE  [MailProof!Next]_(MailProof!vars)
  BY <1>4, <1>6 DEF Expire, vars, table
<1> QED
  BY <1>5, <1>6 DEF Next

(* For the activation of hosted agents, the accounts are the growing set of *)
(* proven addresses that DomainProof describes.                            *)
THEOREM MailTheorem == Spec => ImplementsMailProof
<1>1. Init => MailProof!Init
  BY DEF Init, MailProof!Init, IsEmailVerified
<1>2. Inductive /\ Inductive' /\ [Next]_vars
          => [MailProof!Next]_(MailProof!vars)
  BY NextRefines
<1> QED
  BY <1>1, <1>2, InductiveTheorem, PTL
  DEF Spec, ImplementsMailProof, MailProof!Spec
=============================================================================
