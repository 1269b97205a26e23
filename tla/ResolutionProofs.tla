-------------------------- MODULE ResolutionProofs --------------------------
(***************************************************************************)
(* Proofs about what a name resolves to: the federation of registries      *)
(* (Federation), and the caches of the resolver service and of the client  *)
(* (ClientResolve); for any registries, members, path lengths, requests,   *)
(* keys, lifetimes and time limits.                                        *)
(***************************************************************************)
EXTENDS Federation, ClientResolve, TLAPS

-----------------------------------------------------------------------------
(* The federation.                                                         *)

Statuses == {"none", "pending", "active", "suspended"}
Row == [status : Statuses, url : Urls \cup {None}, len : Nat]
Steps == {"idle", "read", "sign", "store", "table", "dns", "recheck", "ask",
          "ok", "refused", "rejected"}
Req == [op : {"none", "issue", "resolve"}, pc : Steps,
        at : Servers, of : Registries \cup {None}, url : Urls \cup {None},
        cert : Seq(Nat), active : BOOLEAN]

FederationTypeOK ==
    /\ row \in [Servers -> [Registries -> Row]]
    /\ ca \in [Registries -> Seq(Nat)]
    /\ issued \in SUBSET (Registries \X Seq(Nat))
    /\ dns \in [Registries -> Urls \cup {None}]
    /\ req \in [Requests -> Req]

\* Each path length leaves room for those below it.
Descending(chain) ==
    \A k \in 1 .. Len(chain) : chain[k] >= chain[Len(chain)] + Len(chain) - k

\* What is handed out, and what is installed, descends.
Chains ==
    /\ \A i \in issued : Descending(i[2])
    /\ \A r \in Registries : Descending(ca[r])

\* A request is at a step of its operation, and knows whether its member was
\* active while it was served.
Sound(m) ==
    /\ m.pc # "idle" => m.of \in Registries
    /\ m.pc \in {"read", "sign", "store"} => m.op = "issue"
    /\ m.pc \in {"table", "dns", "recheck", "ask"} => m.op = "resolve"
    /\ m.pc = "sign" => Len(m.cert) = 1
    /\ m.pc = "store" => Descending(m.cert)
    /\ m.op = "issue" /\ m.pc \in {"sign", "store", "ok"} => m.active = TRUE
    /\ m.pc = "ask" /\ m.at = Root => m.active = TRUE

Noticed(m) == m.pc # "idle" /\ Active(m.at, m.of) => m.active = TRUE

Requested == \A q \in Requests : Sound(req[q]) /\ Noticed(req[q])

FederationInductive == FederationTypeOK /\ Chains /\ Requested

-----------------------------------------------------------------------------
(* A chain stays descending under a certificate of a shorter length.       *)
LEMMA AppendDescends ==
    ASSUME NEW chain \in Seq(Nat), NEW len \in Nat, Descending(chain),
           Len(chain) > 0 => len < chain[Len(chain)]
    PROVE  Append(chain, len) \in Seq(Nat) /\ Descending(Append(chain, len))
<1> DEFINE longer == Append(chain, len)
<1>1. /\ longer \in Seq(Nat)
      /\ Len(longer) = Len(chain) + 1
      /\ longer[Len(chain) + 1] = len
      /\ \A k \in 1 .. Len(chain) : longer[k] = chain[k]
      /\ Len(chain) \in Nat
      /\ \A k \in 1 .. Len(chain) : chain[k] \in Nat
  OBVIOUS
<1> HIDE DEF longer
<1>2. SUFFICES ASSUME NEW k \in 1 .. Len(longer)
               PROVE  longer[k] >= longer[Len(longer)] + Len(longer) - k
  BY <1>1 DEF Descending, longer
<1>3. CASE k = Len(chain) + 1
  BY <1>1, <1>3
<1>4. CASE k \in 1 .. Len(chain)
  <2> DEFINE n == Len(chain)
  <2>1. n \in Nat /\ k \in Nat /\ 1 =< k /\ k =< n /\ k \in 1 .. n /\ n \in 1 .. n
    BY <1>1, <1>4
  <2>2. chain[k] >= chain[n] + n - k
    BY <1>4 DEF Descending
  <2>3. /\ longer[k] = chain[k] /\ longer[Len(longer)] = len
        /\ Len(longer) = n + 1
        /\ chain[k] \in Nat /\ chain[n] \in Nat
    BY <1>1, <2>1
  <2>4. len < chain[n]
    <3>1. Len(chain) > 0
      BY <2>1
    <3> QED
      BY <3>1
  <2> HIDE DEF n
  <2>5. chain[k] >= len + (n + 1) - k
    BY <2>1, <2>2, <2>3, <2>4
  <2> HIDE DEF longer
  <2> QED
    BY <2>3, <2>5
<1> QED
  BY <1>1, <1>3, <1>4

LEMMA DescendingLeavesRoom ==
    ASSUME NEW chain \in Seq(Nat), Descending(chain), NEW k \in 1 .. Len(chain)
    PROVE  chain[k] >= Len(chain) - k
<1>1. Len(chain) \in 1 .. Len(chain)
  OBVIOUS
<1>2. chain[Len(chain)] \in Nat /\ chain[k] \in Nat /\ Len(chain) \in Nat
  BY <1>1
<1> QED
  BY <1>2 DEF Descending

LEMMA NoneDescends == Descending(<<>>) /\ <<>> \in Seq(Nat)
BY DEF Descending

LEMMA IdleSound == IdleReq \in Req /\ IdleReq.pc = "idle" /\ Sound(IdleReq) /\ Noticed(IdleReq)
<1>1. Root \in Servers
  BY DEF Servers
<1>2. IdleReq \in Req
  BY <1>1, NoneDescends DEF IdleReq, Req, Steps
<1>3. Sound(IdleReq) /\ Noticed(IdleReq)
  BY DEF Sound, Noticed, IdleReq
<1> QED
  BY <1>2, <1>3 DEF IdleReq

LEMMA InitFederationInductive ==
    ASSUME FederationAssumption
    PROVE  Init => FederationInductive
<1> SUFFICES ASSUME Init PROVE FederationInductive
  OBVIOUS
<1>1. IdleReq \in Req /\ Sound(IdleReq) /\ Noticed(IdleReq)
  BY IdleSound
<1>2. FederationTypeOK
  BY <1>1, NoneDescends DEF Init, FederationTypeOK, NoRow, Row, Statuses
<1>3. Chains
  BY NoneDescends DEF Init, Chains
<1>4. Requested
  BY <1>1 DEF Init, Requested
<1> QED
  BY <1>2, <1>3, <1>4 DEF FederationInductive

-----------------------------------------------------------------------------
LEMMA Moved ==
    ASSUME NEW m \in Req, NEW pc \in Steps, NEW new, new = [m EXCEPT !.pc = pc]
    PROVE  /\ new \in Req
           /\ new.pc = pc /\ new.op = m.op /\ new.at = m.at /\ new.of = m.of
           /\ new.cert = m.cert /\ new.active = m.active
BY DEF Req

LEMMA Seen ==
    ASSUME NEW m \in Req, NEW new, new = [m EXCEPT !.active = TRUE]
    PROVE  /\ new \in Req
           /\ new.pc = m.pc /\ new.op = m.op /\ new.at = m.at /\ new.of = m.of
           /\ new.cert = m.cert /\ new.active = TRUE
BY DEF Req

(* A step of one request alone.                                            *)
LEMMA SetKeeps ==
    ASSUME FederationInductive, NEW q \in Requests, NEW new \in Req, Set(q, new), NoChange,
           Sound(new), Noticed(new)
    PROVE  FederationInductive'
<1> USE DEF FederationInductive, Set, NoChange
<1>1. FederationTypeOK'
  BY DEF FederationTypeOK
<1>2. Chains'
  BY DEF Chains
<1>3. Requested'
  BY DEF Requested, FederationTypeOK, Sound, Noticed, Active
<1> QED
  BY <1>1, <1>2, <1>3

LEMMA GotoKeeps ==
    ASSUME FederationInductive, NEW q \in Requests, NEW pc \in {"refused", "rejected", "ok", "dns"},
           pc \in {"ok", "dns"} => req[q].op = "resolve",
           req[q].pc # "idle", Goto(q, pc), NoChange
    PROVE  FederationInductive'
<1> DEFINE new == [req[q] EXCEPT !.pc = pc]
<1>1. req[q] \in Req /\ Sound(req[q]) /\ Noticed(req[q]) /\ pc \in Steps
  BY DEF FederationInductive, FederationTypeOK, Requested, Steps
<1>2. Set(q, new)
  BY DEF Goto
<1> HIDE DEF new
<1>3. /\ new \in Req
      /\ new.pc = pc /\ new.op = req[q].op /\ new.at = req[q].at /\ new.of = req[q].of
      /\ new.cert = req[q].cert /\ new.active = req[q].active
  BY <1>1, Moved DEF new
<1>4. Sound(new) /\ Noticed(new)
  BY <1>1, <1>3 DEF Sound, Noticed
<1> QED
  BY <1>2, <1>3, <1>4, SetKeeps

LEMMA AskKeeps ==
    ASSUME FederationInductive, NEW q \in Requests, NEW u \in Urls \cup {None},
           req[q].pc \in {"table", "dns", "recheck"},
           req[q].at = Root => Active(req[q].at, req[q].of),
           Ask(q, u), NoChange
    PROVE  FederationInductive'
<1> DEFINE new == [req[q] EXCEPT !.pc = "ask", !.url = u]
<1>1. req[q] \in Req /\ Sound(req[q]) /\ Noticed(req[q])
  BY DEF FederationInductive, FederationTypeOK, Requested
<1>2. new \in Req
  BY <1>1 DEF Req, Steps
<1>3. /\ new.pc = "ask" /\ new.op = req[q].op /\ new.at = req[q].at
      /\ new.of = req[q].of /\ new.active = req[q].active
  BY <1>1 DEF Req, Steps
<1>4. Sound(new)
  BY <1>1, <1>3 DEF Sound, Noticed
<1>5. Noticed(new)
  BY <1>1, <1>3 DEF Noticed, Active
<1>6. Set(q, new)
  BY DEF Ask
<1> QED
  BY <1>2, <1>4, <1>5, <1>6, SetKeeps

LEMMA BeginKeeps ==
    ASSUME FederationInductive, NEW q \in Requests, NEW n \in Servers, NEW r \in Registries,
           NEW op, NEW pc,
           \/ op = "issue" /\ pc = "read"
           \/ op = "resolve" /\ pc \in {"ok", "refused", "table", "dns"},
           Begin(q, op, n, r, pc)
    PROVE  FederationInductive'
<1> DEFINE idle == IdleReq
           new == [idle EXCEPT !.op = op, !.pc = pc, !.at = n, !.of = r,
                               !.active = Active(n, r)]
<1>1. idle \in Req /\ Active(n, r) \in BOOLEAN
  BY IdleSound DEF Active
<1>2. Set(q, new) /\ NoChange
  BY DEF Begin
<1> HIDE DEF idle
<1>3. /\ new \in Req
      /\ new.op = op /\ new.pc = pc /\ new.at = n /\ new.of = r
      /\ new.active = Active(n, r)
  BY <1>1 DEF Req, Steps
<1>4. Sound(new) /\ Noticed(new)
  BY <1>1, <1>3 DEF Sound, Noticed
<1> QED
  BY <1>2, <1>3, <1>4, SetKeeps

LEMMA GetMemberKeeps ==
    ASSUME FederationInductive, NEW q \in Requests, GetMember(q)
    PROVE  FederationInductive'
<1> DEFINE m == req[q]
           cert == <<row[m.at][m.of].len>>
           new == [m EXCEPT !.pc = "sign", !.cert = cert]
<1>1. m \in Req /\ Sound(m) /\ Noticed(m) /\ m.pc = "read"
  BY DEF FederationInductive, FederationTypeOK, Requested, GetMember, ReadMember, At
<1>2. CASE ~Active(m.at, m.of)
  BY <1>1, <1>2, GotoKeeps DEF GetMember, ReadMember
<1>3. CASE Active(m.at, m.of)
  <2>1. cert \in Seq(Nat) /\ Len(cert) = 1
    BY <1>1 DEF FederationInductive, FederationTypeOK, Req, Row, Sound
  <2>2. Set(q, new) /\ NoChange
    BY <1>3 DEF GetMember, ReadMember
  <2> HIDE DEF m, cert
  <2>3. /\ new \in Req
        /\ new.pc = "sign" /\ new.cert = cert /\ new.op = m.op
        /\ new.at = m.at /\ new.of = m.of /\ new.active = m.active
    BY <1>1, <2>1 DEF Req, Steps
  <2>4. Sound(new) /\ Noticed(new)
    BY <1>1, <1>3, <2>1, <2>3 DEF Sound, Noticed
  <2> QED
    BY <2>2, <2>3, <2>4, SetKeeps
<1> QED
  BY <1>2, <1>3

(* What may be issued descends from the chain of the issuer.               *)
LEMMA IssueKeeps ==
    ASSUME FederationInductive, NEW q \in Requests, IssueIntermediateCert(q)
    PROVE  FederationInductive'
<1> DEFINE m == req[q]
           above == IF m.at = Root THEN <<>> ELSE ca[m.at]
           cert == Append(above, m.cert[1])
           new == [m EXCEPT !.pc = "store", !.cert = cert]
<1>1. m \in Req /\ Sound(m) /\ Noticed(m) /\ m.pc = "sign"
  BY DEF FederationInductive, FederationTypeOK, Requested, IssueIntermediateCert, At
<1>2. CASE ~MayIssue(m.at, m.cert[1])
  BY <1>1, <1>2, GotoKeeps DEF IssueIntermediateCert
<1>3. CASE MayIssue(m.at, m.cert[1])
  <2>1. m.cert[1] \in Nat /\ Len(m.cert) = 1
    BY <1>1 DEF Req, Sound
  <2>2. m.at = Root \/ m.at \in Registries
    BY <1>1 DEF Req, Servers
  <2>3. /\ above \in Seq(Nat)
        /\ Descending(above)
        /\ Len(above) > 0 => m.cert[1] < above[Len(above)]
    BY <1>3, <2>2, NoneDescends DEF MayIssue, FederationInductive, FederationTypeOK, Chains
  <2>4. cert \in Seq(Nat) /\ Descending(cert)
    BY <2>1, <2>3, AppendDescends
  <2>5. Set(q, new) /\ NoChange
    BY <1>3 DEF IssueIntermediateCert
  <2> HIDE DEF m, cert
  <2>6. /\ new \in Req
        /\ new.pc = "store" /\ new.cert = cert /\ new.op = m.op
        /\ new.at = m.at /\ new.of = m.of /\ new.active = m.active
    BY <1>1, <2>4 DEF Req, Steps
  <2>7. Sound(new) /\ Noticed(new)
    BY <1>1, <2>4, <2>6 DEF Sound, Noticed
  <2> QED
    BY <2>5, <2>6, <2>7, SetKeeps
<1> QED
  BY <1>2, <1>3

LEMMA AnswerKeeps ==
    ASSUME FederationInductive, NEW q \in Requests, AnswerCA(q)
    PROVE  FederationInductive'
<1> DEFINE m == req[q]
           new == [m EXCEPT !.pc = "ok"]
<1>1. m \in Req /\ Sound(m) /\ Noticed(m) /\ m.pc = "store"
  BY DEF FederationInductive, FederationTypeOK, Requested, AnswerCA, At
<1>2. /\ issued' = issued \cup {<<m.of, m.cert>>}
      /\ req' = [req EXCEPT ![q] = new]
      /\ UNCHANGED <<row, ca, dns>>
  BY DEF AnswerCA, Goto, Set
<1>3. m.of \in Registries /\ m.cert \in Seq(Nat) /\ Descending(m.cert)
  BY <1>1 DEF Req, Sound
<1> HIDE DEF m
<1>4. /\ new \in Req
      /\ new.pc = "ok" /\ new.op = m.op
      /\ new.at = m.at /\ new.of = m.of /\ new.active = m.active
  BY <1>1 DEF Req, Steps
<1>5. Sound(new) /\ Noticed(new)
  BY <1>1, <1>4 DEF Sound, Noticed
<1> HIDE DEF new
<1>6. FederationTypeOK'
  BY <1>2, <1>3, <1>4 DEF FederationInductive, FederationTypeOK
<1>7. Chains'
  BY <1>2, <1>3 DEF FederationInductive, Chains
<1>8. Requested'
  BY <1>2, <1>5 DEF FederationInductive, FederationTypeOK, Requested, Sound, Noticed, Active
<1> QED
  BY <1>6, <1>7, <1>8 DEF FederationInductive

-----------------------------------------------------------------------------
(* Operators and administrators.                                           *)
LEMMA InstallKeeps ==
    ASSUME FederationInductive, NEW r \in Registries, NEW cert, Install(r, cert)
    PROVE  FederationInductive'
<1> USE DEF FederationInductive
<1>1. /\ cert \in Seq(Nat) /\ Descending(cert)
      /\ ca' = [ca EXCEPT ![r] = cert]
      /\ UNCHANGED <<row, issued, dns>>
  <2>1. <<r, cert>> \in issued /\ <<r, cert>>[2] = cert
    BY DEF Install
  <2> QED
    BY <2>1 DEF FederationTypeOK, Chains, Install
<1>2. \A q \in Requests :
          \/ req'[q] = req[q]
          \/ req[q].pc # "idle" /\ req'[q] = [req[q] EXCEPT !.pc = "refused"]
  BY DEF Install
<1>3. \A q \in Requests : req'[q] \in Req
  <2> SUFFICES ASSUME NEW q \in Requests PROVE req'[q] \in Req
    OBVIOUS
  <2>1. req[q] \in Req /\ "refused" \in Steps
    BY DEF FederationTypeOK, Steps
  <2>2. CASE req'[q] = [req[q] EXCEPT !.pc = "refused"]
    BY <2>1, <2>2, Moved
  <2> QED
    BY <1>2, <2>1, <2>2
<1>4. FederationTypeOK'
  <2>1. req' \in [Requests -> Req]
    BY <1>3 DEF Install
  <2> QED
    BY <1>1, <2>1 DEF FederationTypeOK
<1>5. Chains'
  BY <1>1 DEF Chains, FederationTypeOK
<1>6. Requested'
  <2> SUFFICES ASSUME NEW q \in Requests PROVE (Sound(req[q]) /\ Noticed(req[q]))'
    BY DEF Requested
  <2>1. req[q] \in Req /\ Sound(req[q]) /\ Noticed(req[q])
    BY DEF FederationTypeOK, Requested
  <2>2. CASE req'[q] = req[q]
    BY <1>1, <2>1, <2>2 DEF Sound, Noticed, Active
  <2>3. CASE req[q].pc # "idle" /\ req'[q] = [req[q] EXCEPT !.pc = "refused"]
    BY <1>1, <2>1, <2>3 DEF Sound, Noticed, Active, Req
  <2> QED
    BY <1>2, <2>2, <2>3
<1> QED
  BY <1>4, <1>5, <1>6

(* A change of a member's row that does not make it active.                *)
LEMMA RowKeeps ==
    ASSUME FederationInductive, NEW n \in Servers, NEW r \in Registries, NEW new \in Row,
           new.status = "active" => Active(n, r),
           row' = [row EXCEPT ![n][r] = new], UNCHANGED <<ca, issued, dns, req>>
    PROVE  FederationInductive'
<1> USE DEF FederationInductive
<1>1. FederationTypeOK'
  BY DEF FederationTypeOK
<1>2. Chains'
  BY DEF Chains
<1>3. \A m \in Servers, s \in Registries : Active(m, s)' => Active(m, s)
  BY DEF Active, FederationTypeOK
<1>4. Requested'
  <2> SUFFICES ASSUME NEW q \in Requests PROVE (Sound(req[q]) /\ Noticed(req[q]))'
    BY DEF Requested
  <2>1. req[q] \in Req /\ Sound(req[q]) /\ Noticed(req[q])
    BY DEF FederationTypeOK, Requested
  <2>2. Sound(req[q])'
    BY <2>1 DEF Sound
  <2>3. Noticed(req[q])'
    BY <1>3, <2>1 DEF Noticed, Sound, Req
  <2> QED
    BY <2>2, <2>3
<1> QED
  BY <1>1, <1>2, <1>4

LEMMA UpdateStatusKeeps ==
    ASSUME FederationInductive, NEW n \in Servers, NEW r \in Registries,
           NEW status \in {"active", "suspended"}, UpdateStatus(n, r, status)
    PROVE  FederationInductive'
<1> DEFINE seen(q) == status = "active" /\ req[q].at = n /\ req[q].of = r
<1> USE DEF FederationInductive
<1>1. /\ row' = [row EXCEPT ![n][r].status = status]
      /\ req' = SeenActive(n, r, status)
      /\ UNCHANGED <<ca, issued, dns>>
  BY DEF UpdateStatus
<1>2. \A q \in Requests : req'[q] = IF seen(q) THEN [req[q] EXCEPT !.active = TRUE] ELSE req[q]
  BY <1>1 DEF SeenActive
<1> HIDE DEF seen
<1>3. \A q \in Requests :
          /\ req'[q] \in Req
          /\ req'[q].op = req[q].op /\ req'[q].pc = req[q].pc /\ req'[q].at = req[q].at
          /\ req'[q].of = req[q].of /\ req'[q].cert = req[q].cert
          /\ req'[q].active = TRUE \/ req'[q].active = req[q].active
          /\ seen(q) => req'[q].active = TRUE
  <2> SUFFICES ASSUME NEW q \in Requests
               PROVE  /\ req'[q] \in Req
                      /\ req'[q].op = req[q].op /\ req'[q].pc = req[q].pc
                      /\ req'[q].at = req[q].at
                      /\ req'[q].of = req[q].of /\ req'[q].cert = req[q].cert
                      /\ req'[q].active = TRUE \/ req'[q].active = req[q].active
                      /\ seen(q) => req'[q].active = TRUE
    OBVIOUS
  <2>1. req[q] \in Req
    BY DEF FederationTypeOK
  <2>2. CASE seen(q)
    <3>1. req'[q] = [req[q] EXCEPT !.active = TRUE]
      BY <1>2, <2>2
    <3> QED
      BY <2>1, <3>1, Seen
  <2>3. CASE ~seen(q)
    <3>1. req'[q] = req[q]
      BY <1>2, <2>3
    <3> QED
      BY <2>1, <2>3, <3>1
  <2> QED
    BY <2>2, <2>3
<1>4. FederationTypeOK'
  <2>1. req' \in [Requests -> Req]
    BY <1>1, <1>3 DEF SeenActive
  <2>2. row' \in [Servers -> [Registries -> Row]]
    <3> DEFINE new == [row[n][r] EXCEPT !.status = status]
    <3>1. row[n][r] \in Row
      BY DEF FederationTypeOK
    <3>2. new \in Row
      BY <3>1 DEF Row, Statuses
    <3>3. row' = [row EXCEPT ![n][r] = new]
      BY <1>1
    <3> QED
      BY <3>2, <3>3 DEF FederationTypeOK
  <2> QED
    BY <1>1, <2>1, <2>2 DEF FederationTypeOK
<1>5. Chains'
  BY <1>1 DEF Chains
<1>6. \A m \in Servers, s \in Registries :
          Active(m, s)' => Active(m, s) \/ (m = n /\ s = r /\ status = "active")
  BY <1>1 DEF Active, FederationTypeOK, Row
<1>7. Requested'
  <2> SUFFICES ASSUME NEW q \in Requests PROVE (Sound(req[q]) /\ Noticed(req[q]))'
    BY DEF Requested
  <2>1. req[q] \in Req /\ Sound(req[q]) /\ Noticed(req[q])
    BY DEF FederationTypeOK, Requested
  <2>2. Sound(req[q])'
    BY <1>3, <2>1 DEF Sound
  <2>3. Noticed(req[q])'
    BY <1>3, <1>6, <2>1 DEF Noticed, Sound, Req, seen
  <2> QED
    BY <2>2, <2>3
<1> QED
  BY <1>4, <1>5, <1>7

-----------------------------------------------------------------------------
(* Members, certificates and requests have to do with each other as the    *)
(* parts of the invariant say, in every reachable state.                   *)
THEOREM FederationInductiveHolds ==
    ASSUME FederationAssumption
    PROVE  Spec => []FederationInductive
<1>1. Init => FederationInductive
  BY FederationAssumption, InitFederationInductive
<1>2. FederationInductive /\ [Next]_vars => FederationInductive'
  <2> SUFFICES ASSUME FederationInductive, [Next]_vars PROVE FederationInductive'
    OBVIOUS
  <2>0. \A n \in Servers : MemberOf[n] \subseteq Registries
    BY DEF FederationAssumption
  <2>1. ASSUME NEW n \in Servers, NEW r \in MemberOf[n], Admin(n, r) PROVE FederationInductive'
    <3>0. r \in Registries
      BY <2>0
    <3>1. ASSUME NEW u \in Urls, RegisterRegistry(n, r, u) PROVE FederationInductive'
      <4> DEFINE new == [NoRow EXCEPT !.status = "pending", !.url = u]
      <4>1. new \in Row /\ new.status = "pending"
        BY DEF NoRow, Row, Statuses
      <4>2. row' = [row EXCEPT ![n][r] = new] /\ UNCHANGED <<ca, issued, dns, req>>
        BY <3>1 DEF RegisterRegistry, Register, Create
      <4> QED
        BY <3>0, <4>1, <4>2, RowKeeps
    <3>2. CASE ApproveRegistry(n, r) \/ SuspendRegistry(n, r)
      BY <3>0, <3>2, UpdateStatusKeeps DEF ApproveRegistry, SuspendRegistry
    <3>3. ASSUME NEW len \in PathLens, UpdateDelegation(n, r, len) PROVE FederationInductive'
      <4> DEFINE new == [row[n][r] EXCEPT !.len = len]
      <4>1. new \in Row /\ new.status = row[n][r].status
        <5>1. row[n][r] \in Row /\ len \in Nat
          BY <3>0, FederationAssumption DEF FederationAssumption, FederationInductive, FederationTypeOK
        <5> QED
          BY <5>1 DEF Row
      <4>2. row' = [row EXCEPT ![n][r] = new] /\ UNCHANGED <<ca, issued, dns, req>>
        BY <3>0, <3>3 DEF UpdateDelegation, UpdateMaxPathLen, SetMaxPathLen, FederationInductive, FederationTypeOK
      <4> HIDE DEF new
      <4> QED
        BY <3>0, <4>1, <4>2, RowKeeps DEF Active
    <3> QED
      BY <2>1, <3>1, <3>2, <3>3 DEF Admin
  <2>2. ASSUME NEW r \in Registries, NEW c \in issued, Install(r, c[2]) PROVE FederationInductive'
    BY <2>2, InstallKeeps
  <2>3. ASSUME NEW r \in Registries, NEW u \in Urls \cup {None}, Publish(r, u) PROVE FederationInductive'
    <3>1. FederationTypeOK'
      BY <2>3 DEF Publish, FederationInductive, FederationTypeOK
    <3>2. Chains' /\ Requested'
      BY <2>3 DEF Publish, FederationInductive, Chains, Requested, Sound, Noticed, Active
    <3> QED
      BY <3>1, <3>2 DEF FederationInductive
  <2>4. ASSUME NEW q \in Requests, Serve(q) PROVE FederationInductive'
    <3>0. req[q] \in Req /\ Sound(req[q]) /\ Noticed(req[q])
      BY DEF FederationInductive, FederationTypeOK, Requested
    <3>1. ASSUME NEW n \in Servers, NEW r \in MemberOf[n], IssueCA(q, n, r) PROVE FederationInductive'
      BY <2>0, <3>1, BeginKeeps DEF IssueCA
    <3>2. ASSUME NEW n \in Servers, NEW r \in Registries \ {n}, Resolve(q, n, r) PROVE FederationInductive'
      <4>1. PICK pc \in {"ok", "refused", "table", "dns"} : Begin(q, "resolve", n, r, pc)
        BY <3>2 DEF Resolve
      <4> QED
        BY <4>1, BeginKeeps
    <3>3. CASE GetMember(q)
      BY <3>3, GetMemberKeeps
    <3>4. CASE IssueIntermediateCert(q)
      BY <3>4, IssueKeeps
    <3>5. CASE AnswerCA(q)
      BY <3>5, AnswerKeeps
    <3>6. ASSUME NEW pc \in {"table", "dns", "recheck"}, req[q].pc = pc, NoChange,
                 Fallback(q)
          PROVE  FederationInductive'
      <4>1. CASE req[q].at = Root
        BY <3>6, <4>1, GotoKeeps DEF Fallback
      <4>2. CASE req[q].at # Root
        BY <3>6, <4>2, FederationAssumption, AskKeeps DEF Fallback, FederationAssumption
      <4> QED
        BY <4>1, <4>2
    <3>7. CASE LookupTable(q)
      <4>1. CASE Active(req[q].at, req[q].of)
        <5>1. row[req[q].at][req[q].of].url \in Urls \cup {None}
          BY <3>0, <3>7 DEF LookupTable, At, FederationInductive, FederationTypeOK, Sound, Req, Row
        <5> QED
          BY <3>7, <4>1, <5>1, AskKeeps DEF LookupTable, At
      <4>2. CASE ~Active(req[q].at, req[q].of)
        BY <3>0, <3>7, <4>2, GotoKeeps DEF LookupTable, At, Sound
      <4> QED
        BY <4>1, <4>2
    <3>8. CASE DiscoverByDNS(q)
      <4> DEFINE u == dns[req[q].of]
      <4>1. CASE Fallback(q)
        BY <3>6, <3>8, <4>1 DEF DiscoverByDNS, At
      <4>2. CASE u # None /\ req[q].at # Root /\ Ask(q, u)
        <5>1. u \in Urls
          BY <3>0, <3>8, <4>2 DEF FederationInductive, FederationTypeOK, Sound, DiscoverByDNS, At
        <5> QED
          BY <3>8, <4>2, <5>1, AskKeeps DEF DiscoverByDNS, At
      <4>3. CASE u # None /\ Set(q, [req[q] EXCEPT !.pc = "recheck", !.url = u])
        <5> DEFINE new == [req[q] EXCEPT !.pc = "recheck", !.url = u]
        <5>1. u \in Urls /\ NoChange /\ req[q].pc = "dns"
          BY <3>0, <3>8, <4>3 DEF FederationInductive, FederationTypeOK, Sound, DiscoverByDNS, At
        <5> HIDE DEF u
        <5>2. /\ new \in Req
              /\ new.pc = "recheck" /\ new.op = req[q].op /\ new.at = req[q].at
              /\ new.of = req[q].of /\ new.active = req[q].active
          BY <3>0, <5>1 DEF Req, Steps
        <5>3. Sound(new) /\ Noticed(new)
          BY <3>0, <5>1, <5>2 DEF Sound, Noticed
        <5> QED
          BY <4>3, <5>1, <5>2, <5>3, SetKeeps
      <4> QED
        BY <3>8, <4>1, <4>2, <4>3 DEF DiscoverByDNS
    <3>9. CASE Recheck(q)
      <4>1. CASE Active(req[q].at, req[q].of)
        <5>1. req[q].url \in Urls \cup {None}
          BY <3>0 DEF FederationInductive, FederationTypeOK, Req, Row
        <5> QED
          BY <3>9, <4>1, <5>1, AskKeeps DEF Recheck, At
      <4>2. CASE ~Active(req[q].at, req[q].of)
        BY <3>6, <3>9, <4>2 DEF Recheck, At
      <4> QED
        BY <4>1, <4>2
    <3>10. CASE RemoteResolve(q)
      BY <3>0, <3>10, GotoKeeps DEF RemoteResolve, At, Sound
    <3>11. CASE Fail(q)
      BY <3>11, GotoKeeps DEF Fail
    <3>12. CASE Done(q)
      BY <3>12, IdleSound, SetKeeps DEF Done
    <3> QED
      BY <2>4, <3>1, <3>2, <3>3, <3>4, <3>5, <3>7, <3>8, <3>9, <3>10, <3>11, <3>12 DEF Serve
  <2>5. CASE UNCHANGED vars
    BY <2>5 DEF vars, FederationInductive, FederationTypeOK, Chains, Requested, Sound, Noticed, Active
  <2> QED
    BY <2>1, <2>2, <2>3, <2>4, <2>5 DEF Next
<1> QED
  BY <1>1, <1>2, PTL DEF Spec

(* Every certificate ever handed out verifies up to the root.              *)
THEOREM ChainTheorem ==
    ASSUME FederationAssumption
    PROVE  Spec => []ChainVerifies
<1>1. FederationInductive => ChainVerifies
  <2> SUFFICES ASSUME FederationInductive, NEW i \in issued, NEW k \in 1 .. Len(i[2])
               PROVE  i[2][k] >= Len(i[2]) - k
    BY DEF ChainVerifies
  <2>1. i[2] \in Seq(Nat) /\ Descending(i[2])
    BY DEF FederationInductive, FederationTypeOK, Chains
  <2> QED
    BY <2>1, DescendingLeavesRoom
<1> QED
  BY <1>1, FederationInductiveHolds, PTL

(* Nothing is issued to, or asked for, a member that was not approved.     *)
THEOREM ApprovalTheorem ==
    ASSUME FederationAssumption
    PROVE  Spec => []ApprovalRespected
<1>1. FederationInductive => ApprovalRespected
  BY DEF FederationInductive, Requested, Sound, ApprovalRespected
<1> QED
  BY <1>1, FederationInductiveHolds, PTL

-----------------------------------------------------------------------------
(* The resolver service and the client in front of it.                     *)

EntryRow == [endpoint : Answers, expiresAt : Nat]
CallRow == [pc : {"idle", "ask", "receive", "answered"}, key : Keys \cup {Missing},
            answer : Answers, started : Nat]
UserRow == [pc : {"idle", "ask", "wait", "receive", "answered"}, key : Keys \cup {Missing},
            answer : Answers, started : Nat]

ResolverTypeOK ==
    /\ now \in Nat /\ now > 0
    /\ listed \in [Keys -> Answers]
    /\ held \in [Keys -> [Answers -> Nat]]
    /\ cache \in [Keys -> EntryRow]
    /\ call \in [Calls -> CallRow]

\* The registry has its present answer now, and had no other one later.
HeldUntilNow ==
    \A k \in Keys :
        /\ held[k][listed[k]] = now
        /\ \A v \in Answers : held[k][v] =< now

\* A call asks, and receives, within its time; it receives what was the
\* registry's answer when it asked, or after.
CallInTime(m) ==
    /\ m.pc # "idle" => m.key \in Keys
    /\ m.pc \in {"ask", "receive"} =>
           0 < m.started /\ m.started =< now /\ now =< m.started + Timeout
    /\ m.pc = "receive" => m.started =< held[m.key][m.answer]
    /\ m.pc = "answered" =>
           /\ 0 < held[m.key][m.answer]
           /\ now =< held[m.key][m.answer] + Timeout + TTL
           /\ m.answer = Missing => now =< held[m.key][m.answer] + Timeout

\* An entry lives no longer than a look-up and a lifetime after what it says
\* was so.
EntryRecent(k, e) ==
    e.expiresAt # 0 =>
        /\ e.endpoint # Missing
        /\ 0 < held[k][e.endpoint]
        /\ e.expiresAt =< held[k][e.endpoint] + Timeout + TTL

ResolverInductive ==
    /\ ResolverTypeOK /\ HeldUntilNow
    /\ \A c \in Calls : CallInTime(call[c])
    /\ \A k \in Keys : EntryRecent(k, cache[k])

-----------------------------------------------------------------------------
LEMMA InitResolverInductive == ResolverInit => ResolverInductive
<1> SUFFICES ASSUME ResolverInit PROVE ResolverInductive
  OBVIOUS
<1>1. /\ NoEntry \in EntryRow /\ NoEntry.expiresAt = 0
      /\ IdleCall \in CallRow /\ IdleCall.pc = "idle"
      /\ Missing \in Answers
  BY DEF NoEntry, EntryRow, IdleCall, CallRow, Answers
<1>2. ResolverTypeOK
  BY <1>1 DEF ResolverInit, ResolverTypeOK
<1>3. HeldUntilNow
  <2> SUFFICES ASSUME NEW k \in Keys
               PROVE  held[k][listed[k]] = now /\ \A v \in Answers : held[k][v] =< now
    BY DEF HeldUntilNow
  <2>1. /\ listed[k] = Missing /\ now = 1
        /\ held[k] = [v \in Answers |-> IF v = Missing THEN 1 ELSE 0]
    BY DEF ResolverInit
  <2> QED
    BY <1>1, <2>1
<1>4. /\ \A c \in Calls : CallInTime(call[c])
      /\ \A k \in Keys : EntryRecent(k, cache[k])
  BY <1>1 DEF ResolverInit, CallInTime, EntryRecent
<1> QED
  BY <1>2, <1>3, <1>4 DEF ResolverInductive

LEMMA ResolverTypes ==
    ASSUME ResolverInductive
    PROVE  /\ now \in Nat /\ now > 0 /\ TTL \in Nat /\ Timeout \in Nat
           /\ \A k \in Keys : listed[k] \in Answers /\ cache[k] \in EntryRow
           /\ \A k \in Keys, v \in Answers : held[k][v] \in Nat /\ held[k][v] =< now
           /\ \A k \in Keys : held[k][listed[k]] = now
           /\ \A c \in Calls : call[c] \in CallRow
BY ResolverAssumption DEF ResolverInductive, ResolverTypeOK, HeldUntilNow

LEMMA RowTypes ==
    /\ \A m \in CallRow \cup UserRow :
           m.answer \in Answers /\ m.started \in Nat /\ m.key \in Keys \cup {Missing}
    /\ \A e \in EntryRow : e.endpoint \in Answers /\ e.expiresAt \in Nat
BY DEF CallRow, UserRow, EntryRow

(* The registry's answers, and the clock, go on; no call waits too long.   *)
HeldGrows ==
    \A k \in Keys, v \in Answers : held'[k][v] \in Nat /\ held[k][v] =< held'[k][v]

LEMMA RegistryStepKeeps ==
    ASSUME ResolverInductive, HeldGrows,
           listed' \in [Keys -> Answers], held' \in [Keys -> [Answers -> Nat]],
           HeldUntilNow',
           \/ now' = now
           \/ /\ now' = now + 1
              /\ \A c \in Calls :
                     /\ call[c].pc # "answered"
                     /\ call[c].pc # "idle" => now < call[c].started + Timeout,
           UNCHANGED <<cache, call>>
    PROVE  ResolverInductive'
<1>1. ResolverTypeOK'
  BY ResolverTypes DEF ResolverInductive, ResolverTypeOK
<1>2. ASSUME NEW c \in Calls PROVE CallInTime(call[c])'
  <2> DEFINE m == call[c]
  <2>1. /\ CallInTime(m) /\ m \in CallRow
        /\ m.answer \in Answers /\ m.started \in Nat
    BY ResolverTypes, RowTypes DEF ResolverInductive
  <2> DEFINE was == held[m.key][m.answer]
  <2> DEFINE is == held'[m.key][m.answer]
  <2>2. m.key \in Keys => was \in Nat /\ is \in Nat /\ was =< is
    BY <2>1, ResolverTypes DEF HeldGrows
  <2>3. /\ now \in Nat /\ now' \in Nat /\ TTL \in Nat /\ Timeout \in Nat
        /\ now =< now'
    BY <1>1, ResolverTypes DEF ResolverTypeOK
  <2>4. m.pc # "idle" => m.key \in Keys
    BY <2>1 DEF CallInTime
  <2>5. m.pc \in {"ask", "receive"} =>
            0 < m.started /\ m.started =< now' /\ now' =< m.started + Timeout
    BY <2>1, <2>3 DEF CallInTime
  <2>6. m.pc = "receive" => m.started =< is
    BY <2>1, <2>2, <2>4 DEF CallInTime
  <2>7. m.pc = "answered" => now' = now
    OBVIOUS
  <2>8. m.pc = "answered" => /\ 0 < is
                             /\ now' =< is + Timeout + TTL
                             /\ m.answer = Missing => now' =< is + Timeout
    BY <2>1, <2>2, <2>3, <2>4, <2>7 DEF CallInTime
  <2> QED
    BY <2>4, <2>5, <2>6, <2>8 DEF CallInTime
<1>3. ASSUME NEW k \in Keys PROVE EntryRecent(k, cache[k])'
  <2>1. /\ EntryRecent(k, cache[k]) /\ cache[k].endpoint \in Answers
        /\ cache[k].expiresAt \in Nat
    BY ResolverTypes, RowTypes DEF ResolverInductive
  <2> QED
    BY <2>1, ResolverTypes DEF EntryRecent, HeldGrows
<1> QED
  BY <1>1, <1>2, <1>3 DEF ResolverInductive

LEMMA ChangeAgentKeeps ==
    ASSUME ResolverInductive, NEW k \in Keys, NEW v \in Answers, ChangeAgent(k, v)
    PROVE  ResolverInductive' /\ HeldGrows /\ now' = now
<1>1. /\ listed' = [listed EXCEPT ![k] = v]
      /\ held' = [held EXCEPT ![k][v] = now]
      /\ UNCHANGED <<cache, call, now>>
  BY DEF ChangeAgent
<1>2. /\ listed' \in [Keys -> Answers] /\ held' \in [Keys -> [Answers -> Nat]]
      /\ \A q \in Keys : listed'[q] = IF q = k THEN v ELSE listed[q]
      /\ \A q \in Keys, w \in Answers :
             held'[q][w] = IF q = k /\ w = v THEN now ELSE held[q][w]
  BY <1>1 DEF ResolverInductive, ResolverTypeOK
<1>3. HeldGrows /\ HeldUntilNow'
  BY <1>1, <1>2, ResolverTypes DEF HeldGrows, HeldUntilNow
<1> QED
  BY <1>1, <1>2, <1>3, RegistryStepKeeps

LEMMA ResolverTickKeeps ==
    ASSUME ResolverInductive, ResolverTick
    PROVE  ResolverInductive' /\ HeldGrows
<1>1. /\ now' = now + 1 /\ UNCHANGED <<listed, cache, call>>
      /\ held' = [k \in Keys |-> [held[k] EXCEPT ![listed[k]] = now + 1]]
      /\ \A c \in Calls :
             /\ call[c].pc # "answered"
             /\ call[c].pc # "idle" => now < call[c].started + Timeout
  BY DEF ResolverTick, CallAt
<1>2. /\ held' \in [Keys -> [Answers -> Nat]]
      /\ \A q \in Keys, w \in Answers :
             held'[q][w] = IF w = listed[q] THEN now + 1 ELSE held[q][w]
  BY <1>1, ResolverTypes DEF ResolverInductive, ResolverTypeOK
<1>3. HeldGrows /\ HeldUntilNow'
  BY <1>1, <1>2, ResolverTypes DEF HeldGrows, HeldUntilNow
<1>4. listed' \in [Keys -> Answers]
  BY <1>1 DEF ResolverInductive, ResolverTypeOK
<1> QED
  BY <1>1, <1>2, <1>3, <1>4, RegistryStepKeeps

-----------------------------------------------------------------------------
(* A step of one call.                                                     *)
LEMMA CallStepKeeps ==
    ASSUME ResolverInductive, NEW c \in Calls, NEW m \in CallRow, SetCall(c, m),
           CallInTime(m),
           cache' \in [Keys -> EntryRow],
           \A k \in Keys : EntryRecent(k, cache'[k]),
           UNCHANGED <<listed, held, now>>
    PROVE  ResolverInductive'
<1>1. /\ call' \in [Calls -> CallRow]
      /\ \A d \in Calls : call'[d] = IF d = c THEN m ELSE call[d]
  BY DEF SetCall, ResolverInductive, ResolverTypeOK
<1>2. ResolverTypeOK' /\ HeldUntilNow'
  BY <1>1 DEF ResolverInductive, ResolverTypeOK, HeldUntilNow
<1>3. ASSUME NEW d \in Calls PROVE CallInTime(call[d])'
  BY <1>1 DEF ResolverInductive, CallInTime
<1>4. ASSUME NEW k \in Keys PROVE EntryRecent(k, cache[k])'
  BY DEF EntryRecent
<1> QED
  BY <1>2, <1>3, <1>4 DEF ResolverInductive

LEMMA IdleInTime == IdleCall \in CallRow /\ IdleCall \in UserRow /\ CallInTime(IdleCall)
BY DEF IdleCall, CallRow, UserRow, Answers, CallInTime

(* A call that is cached is answered with what an entry says.              *)
LEMMA LookupKeeps ==
    ASSUME ResolverInductive, NEW c \in Calls, NEW k \in Keys, Lookup(c, k)
    PROVE  ResolverInductive'
<1>1. /\ UNCHANGED <<listed, held, cache, now>>
      /\ cache' \in [Keys -> EntryRow]
      /\ \A q \in Keys : EntryRecent(q, cache'[q])
  BY DEF Lookup, ResolverInductive, ResolverTypeOK
<1>2. CASE Expired(cache[k])
  <2> DEFINE m == [IdleCall EXCEPT !.pc = "ask", !.key = k, !.started = now]
  <2>1. m \in CallRow /\ m.pc = "ask" /\ m.key = k /\ m.started = now
    BY ResolverTypes DEF IdleCall, CallRow, Answers
  <2>2. SetCall(c, m)
    BY <1>2 DEF Lookup
  <2> HIDE DEF m
  <2>3. CallInTime(m)
    BY <2>1, ResolverTypes DEF CallInTime
  <2> QED
    BY <1>1, <2>1, <2>2, <2>3, CallStepKeeps
<1>3. CASE ~Expired(cache[k])
  <2> DEFINE m == [IdleCall EXCEPT !.pc = "answered", !.key = k, !.answer = cache[k].endpoint]
  <2>1. /\ EntryRecent(k, cache[k]) /\ cache[k].endpoint \in Answers
        /\ cache[k].expiresAt \in Nat /\ now =< cache[k].expiresAt
    BY <1>3, ResolverTypes, RowTypes DEF Expired, ResolverInductive
  <2>2. m \in CallRow /\ m.pc = "answered" /\ m.key = k /\ m.answer = cache[k].endpoint
    BY <2>1 DEF IdleCall, CallRow
  <2>3. SetCall(c, m)
    BY <1>3 DEF Lookup
  <2> HIDE DEF m
  <2>4. CallInTime(m)
    BY <2>1, <2>2, ResolverTypes DEF CallInTime, EntryRecent
  <2> QED
    BY <1>1, <2>2, <2>3, <2>4, CallStepKeeps
<1> QED
  BY <1>2, <1>3

LEMMA QueryRegistryKeeps ==
    ASSUME ResolverInductive, NEW c \in Calls, QueryRegistry(c)
    PROVE  ResolverInductive'
<1> DEFINE m == [call[c] EXCEPT !.pc = "receive", !.answer = listed[call[c].key]]
<1>1. /\ call[c] \in CallRow /\ call[c].pc = "ask" /\ CallInTime(call[c])
      /\ SetCall(c, m)
      /\ UNCHANGED <<listed, held, cache, now>>
      /\ cache' \in [Keys -> EntryRow]
      /\ \A q \in Keys : EntryRecent(q, cache'[q])
  BY DEF QueryRegistry, CallAt, ResolverInductive, ResolverTypeOK
<1>2. call[c].key \in Keys
  BY <1>1 DEF CallInTime
<1>3. /\ m \in CallRow /\ m.pc = "receive" /\ m.key = call[c].key
      /\ m.started = call[c].started /\ m.answer = listed[m.key]
  BY <1>1, <1>2, ResolverTypes DEF CallRow
<1> HIDE DEF m
<1>4. CallInTime(m)
  BY <1>1, <1>2, <1>3, ResolverTypes DEF CallInTime
<1> QED
  BY <1>1, <1>3, <1>4, CallStepKeeps

(* What is cached was the answer when the call asked, or after.            *)
LEMMA ReceiveAnswerKeeps ==
    ASSUME ResolverInductive, NEW c \in Calls, ReceiveAnswer(c)
    PROVE  ResolverInductive'
<1> DEFINE u == call[c]
<1> DEFINE m == [u EXCEPT !.pc = "answered"]
<1>1. /\ u \in CallRow /\ u.pc = "receive" /\ CallInTime(u)
      /\ SetCall(c, m) /\ UNCHANGED <<listed, held, now>>
  BY DEF ReceiveAnswer, CallAt, ResolverInductive, ResolverTypeOK
<1>2. /\ u.key \in Keys /\ u.answer \in Answers /\ u.started \in Nat
      /\ 0 < u.started /\ now =< u.started + Timeout
      /\ u.started =< held[u.key][u.answer]
  BY <1>1, RowTypes DEF CallInTime
<1>3. held[u.key][u.answer] \in Nat
  BY <1>2, ResolverTypes
<1>4. m \in CallRow /\ m.pc = "answered" /\ m.key = u.key /\ m.answer = u.answer
  BY <1>1 DEF CallRow
<1> HIDE DEF m
<1>5. CallInTime(m)
  BY <1>2, <1>3, <1>4, ResolverTypes DEF CallInTime
<1>6. cache' \in [Keys -> EntryRow] /\ \A k \in Keys : EntryRecent(k, cache'[k])
  <2>1. CASE u.answer = Missing
    BY <2>1 DEF ReceiveAnswer, ResolverInductive, ResolverTypeOK
  <2>2. CASE u.answer # Missing
    <3> DEFINE e == [endpoint |-> u.answer, expiresAt |-> now + TTL]
    <3>1. e \in EntryRow /\ e.endpoint = u.answer /\ e.expiresAt = now + TTL
      BY <1>2, ResolverTypes DEF EntryRow
    <3>2. cache' = [cache EXCEPT ![u.key] = e]
      BY <2>2 DEF ReceiveAnswer, CacheSet
    <3> HIDE DEF e
    <3>3. EntryRecent(u.key, e)
      BY <1>2, <1>3, <2>2, <3>1, ResolverTypes DEF EntryRecent
    <3> QED
      BY <3>1, <3>2, <3>3 DEF ResolverInductive, ResolverTypeOK
  <2> QED
    BY <2>1, <2>2
<1> QED
  BY <1>1, <1>4, <1>5, <1>6, CallStepKeeps

LEMMA EndCallKeeps ==
    ASSUME ResolverInductive, NEW c \in Calls, FailCall(c) \/ Return(c)
    PROVE  ResolverInductive'
<1>1. SetCall(c, IdleCall) /\ UNCHANGED <<listed, held, cache, now>>
  BY DEF FailCall, Return
<1> QED
  BY <1>1, IdleInTime, CallStepKeeps DEF ResolverInductive, ResolverTypeOK

(* An entry that is taken out says nothing.                                *)
LEMMA EvictKeeps ==
    ASSUME ResolverInductive, Evict \/ \E k \in Keys : Invalidate(k)
    PROVE  ResolverInductive'
<1>1. NoEntry \in EntryRow /\ \A k \in Keys : EntryRecent(k, NoEntry)
  BY DEF NoEntry, EntryRow, EntryRecent, Answers
<1>2. /\ cache' \in [Keys -> EntryRow]
      /\ \A k \in Keys : cache'[k] \in {cache[k], NoEntry}
      /\ UNCHANGED <<listed, held, call, now>>
  BY <1>1 DEF Evict, Evicted, Invalidate, ResolverInductive, ResolverTypeOK
<1>3. ASSUME NEW k \in Keys PROVE EntryRecent(k, cache[k])'
  <2>1. EntryRecent(k, cache'[k])
    BY <1>1, <1>2 DEF ResolverInductive
  <2> QED
    BY <1>2, <2>1 DEF EntryRecent
<1>4. ResolverTypeOK' /\ HeldUntilNow' /\ \A c \in Calls : CallInTime(call[c])'
  BY <1>2 DEF ResolverInductive, ResolverTypeOK, HeldUntilNow, CallInTime
<1> QED
  BY <1>3, <1>4 DEF ResolverInductive

LEMMA ResolverNextKeeps ==
    ASSUME ResolverInductive, [ResolverNext]_resolverVars
    PROVE  ResolverInductive' /\ HeldGrows
<1>1. CASE UNCHANGED resolverVars
  <2>1. HeldGrows
    BY <1>1, ResolverTypes DEF resolverVars, HeldGrows
  <2>2. UNCHANGED <<listed, held, cache, call, now>>
    BY <1>1 DEF resolverVars
  <2> QED
    BY <2>1, <2>2, RegistryStepKeeps DEF ResolverInductive, ResolverTypeOK, HeldUntilNow
<1>2. ASSUME NEW c \in Calls, ResolveCall(c) PROVE ResolverInductive' /\ HeldGrows
  <2>1. held' = held
    BY <1>2 DEF ResolveCall, Lookup, QueryRegistry, ReceiveAnswer, FailCall, Return
  <2>2. HeldGrows
    BY <2>1, ResolverTypes DEF HeldGrows
  <2> QED
    BY <1>2, <2>2, LookupKeeps, QueryRegistryKeeps, ReceiveAnswerKeeps, EndCallKeeps
       DEF ResolveCall
<1>3. CASE Evict \/ \E k \in Keys : Invalidate(k)
  <2>1. HeldGrows
    BY <1>3, ResolverTypes DEF Evict, Invalidate, HeldGrows
  <2> QED
    BY <1>3, <2>1, EvictKeeps
<1> QED
  BY <1>1, <1>2, <1>3, ChangeAgentKeeps, ResolverTickKeeps DEF ResolverNext

-----------------------------------------------------------------------------
Span == Timeout + TTL + ClientTimeout + ClientTTL

\* The client's requests and entries, in the same way on top of the service's.
RequestInTime(c) ==
    LET u == user[c] IN
    /\ u.pc # "idle" => u.key \in Keys
    /\ u.pc \in {"ask", "wait", "receive"} =>
           0 < u.started /\ u.started =< now /\ now =< u.started + ClientTimeout
    /\ u.pc = "wait" => call[c].pc = "idle" \/ call[c].key = u.key
    /\ u.pc \in {"receive", "answered"} => 0 < held[u.key][u.answer]
    /\ u.pc = "receive" /\ u.answer # Missing =>
           u.started =< held[u.key][u.answer] + Timeout + TTL
    /\ u.pc = "answered" /\ u.answer # Missing =>
           now =< held[u.key][u.answer] + Span

ClientEntryRecent(k, e) ==
    e.expiresAt # 0 =>
        /\ e.endpoint # Missing
        /\ 0 < held[k][e.endpoint]
        /\ e.expiresAt =< held[k][e.endpoint] + Span

ClientTypeOK ==
    /\ clientCache \in [Keys -> EntryRow]
    /\ user \in [Goroutines -> UserRow]

ClientInductive ==
    /\ ResolverInductive /\ ClientTypeOK
    /\ \A c \in Goroutines : RequestInTime(c)
    /\ \A k \in Keys : ClientEntryRecent(k, clientCache[k])

LEMMA InitClientInductive == ClientInit => ClientInductive
<1> SUFFICES ASSUME ClientInit PROVE ClientInductive
  OBVIOUS
<1>1. /\ NoEntry \in EntryRow /\ NoEntry.expiresAt = 0
      /\ IdleCall \in UserRow /\ IdleCall.pc = "idle"
  BY DEF NoEntry, EntryRow, IdleCall, UserRow, Answers
<1>2. ResolverInductive
  BY InitResolverInductive DEF ClientInit
<1>3. ClientTypeOK
  BY <1>1 DEF ClientInit, ClientTypeOK
<1>4. /\ \A c \in Goroutines : RequestInTime(c)
      /\ \A k \in Keys : ClientEntryRecent(k, clientCache[k])
  BY <1>1 DEF ClientInit, RequestInTime, ClientEntryRecent
<1> QED
  BY <1>2, <1>3, <1>4 DEF ClientInductive

LEMMA ClientTypes ==
    ASSUME ClientInductive
    PROVE  /\ ResolverInductive
           /\ ClientTTL \in Nat /\ ClientTimeout \in Nat /\ Span \in Nat
           /\ \A c \in Goroutines : c \in Calls /\ user[c] \in UserRow /\ RequestInTime(c)
           /\ \A k \in Keys : clientCache[k] \in EntryRow /\ ClientEntryRecent(k, clientCache[k])
BY ResolverAssumption, ClientAssumption DEF ClientInductive, ClientTypeOK, Span

(* The registry and the service go on, and the clock when no request has   *)
(* taken its time: the call of a request keeps its key, or ends.           *)
LEMMA ServiceStepKeeps ==
    ASSUME ClientInductive, ResolverInductive', HeldGrows,
           \/ now' = now
           \/ /\ now' = now + 1
              /\ \A c \in Goroutines :
                     /\ user[c].pc # "answered"
                     /\ user[c].pc # "idle" => now < user[c].started + ClientTimeout,
           \A c \in Goroutines :
               \/ call'[c].pc = "idle"
               \/ call[c].pc # "idle" /\ call'[c].key = call[c].key
               \/ call'[c] = call[c],
           UNCHANGED clientVars
    PROVE  ClientInductive'
<1>1. UNCHANGED <<clientCache, user>>
  BY DEF clientVars
<1>2. ClientTypeOK'
  BY <1>1 DEF ClientInductive, ClientTypeOK
<1>3. ASSUME NEW c \in Goroutines PROVE RequestInTime(c)'
  <2> DEFINE u == user[c]
  <2>1. /\ RequestInTime(c) /\ u \in UserRow
        /\ u.answer \in Answers /\ u.started \in Nat
    BY ClientTypes, RowTypes
  <2> DEFINE was == held[u.key][u.answer]
  <2> DEFINE is == held'[u.key][u.answer]
  <2>2. u.key \in Keys => was \in Nat /\ is \in Nat /\ was =< is
    BY <2>1, ClientTypes, ResolverTypes DEF HeldGrows
  <2>3. /\ now \in Nat /\ now' \in Nat /\ TTL \in Nat /\ Timeout \in Nat
        /\ ClientTimeout \in Nat /\ Span \in Nat /\ now =< now'
    BY ClientTypes, ResolverTypes
  <2>4. u.pc # "idle" => u.key \in Keys
    BY <2>1 DEF RequestInTime
  <2>5. u.pc \in {"ask", "wait", "receive"} =>
            0 < u.started /\ u.started =< now' /\ now' =< u.started + ClientTimeout
    BY <2>1, <2>3 DEF RequestInTime
  <2>6. u.pc = "wait" => call'[c].pc = "idle" \/ call'[c].key = u.key
    BY <2>1 DEF RequestInTime
  <2>7. u.pc \in {"receive", "answered"} => 0 < is
    BY <2>1, <2>2, <2>4 DEF RequestInTime
  <2>8. u.pc = "receive" /\ u.answer # Missing => u.started =< is + Timeout + TTL
    BY <2>1, <2>2, <2>3, <2>4 DEF RequestInTime
  <2>9. u.pc = "answered" => now' = now
    OBVIOUS
  <2>10. u.pc = "answered" /\ u.answer # Missing => now' =< is + Span
    BY <2>1, <2>2, <2>3, <2>4, <2>9 DEF RequestInTime
  <2>11. u' = u /\ Span' = Span
    BY <1>1 DEF Span
  <2> HIDE DEF u
  <2>12. user'[c] = u
    BY <1>1 DEF u
  <2> QED
    BY <2>4, <2>5, <2>6, <2>7, <2>8, <2>10, <2>11, <2>12 DEF RequestInTime
<1>4. ASSUME NEW k \in Keys PROVE ClientEntryRecent(k, clientCache[k])'
  <2> DEFINE e == clientCache[k]
  <2>1. /\ ClientEntryRecent(k, e) /\ e.endpoint \in Answers /\ e.expiresAt \in Nat
    BY ClientTypes, RowTypes
  <2>2. clientCache'[k] = e /\ Span' = Span /\ Span \in Nat
    BY <1>1, ClientTypes DEF Span
  <2>3. /\ held[k][e.endpoint] \in Nat /\ held'[k][e.endpoint] \in Nat
        /\ held[k][e.endpoint] =< held'[k][e.endpoint]
    BY <2>1, ClientTypes, ResolverTypes DEF HeldGrows
  <2> HIDE DEF e
  <2> QED
    BY <2>1, <2>2, <2>3 DEF ClientEntryRecent
<1> QED
  BY <1>2, <1>3, <1>4 DEF ClientInductive

LEMMA ServiceNextKeeps ==
    ASSUME ClientInductive, ServiceNext
    PROVE  ClientInductive'
<1>1. ResolverNext /\ UNCHANGED clientVars
  BY DEF ServiceNext, ResolverNext, ResolveCall
<1>2. ResolverInductive' /\ HeldGrows
  BY <1>1, ClientTypes, ResolverNextKeeps
<1>3. now' = now
  BY DEF ServiceNext, Invalidate, ChangeAgent, QueryRegistry, ReceiveAnswer, FailCall,
         ResolveCall, Lookup, Return, Evict
<1>4. ASSUME NEW d \in Goroutines
      PROVE  \/ call'[d].pc = "idle"
             \/ call[d].pc # "idle" /\ call'[d].key = call[d].key
             \/ call'[d] = call[d]
  <2>1. CASE \/ \E k \in Keys : Invalidate(k) \/ \E v \in Answers : ChangeAgent(k, v)
             \/ Evict
    BY <2>1 DEF Invalidate, ChangeAgent, Evict
  <2>2. ASSUME NEW c \in Calls, QueryRegistry(c) \/ ReceiveAnswer(c) \/ FailCall(c)
        PROVE  \/ call'[d].pc = "idle"
               \/ call[d].pc # "idle" /\ call'[d].key = call[d].key
               \/ call'[d] = call[d]
    <3>1. call[c] \in CallRow /\ call \in [Calls -> CallRow] /\ d \in Calls
      BY ClientTypes DEF ResolverInductive, ResolverTypeOK
    <3>2. CASE QueryRegistry(c)
      BY <3>1, <3>2 DEF QueryRegistry, CallAt, SetCall, CallRow
    <3>3. CASE ReceiveAnswer(c)
      BY <3>1, <3>3 DEF ReceiveAnswer, CallAt, SetCall, CallRow
    <3>4. CASE FailCall(c)
      BY <3>1, <3>4 DEF FailCall, SetCall, IdleCall
    <3> QED
      BY <2>2, <3>2, <3>3, <3>4
  <2>3. ASSUME NEW c \in Calls \ Goroutines, ResolveCall(c) PROVE call'[d] = call[d]
    <3>1. call \in [Calls -> CallRow] /\ d \in Calls /\ c # d
      BY ClientTypes DEF ResolverInductive, ResolverTypeOK
    <3> QED
      BY <2>3, <3>1
         DEF ResolveCall, Lookup, QueryRegistry, ReceiveAnswer, FailCall, Return, SetCall
  <2> QED
    BY <2>1, <2>2, <2>3 DEF ServiceNext
<1> QED
  BY <1>1, <1>2, <1>3, <1>4, ServiceStepKeeps

LEMMA ClientTickKeeps ==
    ASSUME ClientInductive, ClientTick
    PROVE  ClientInductive'
<1>1. ResolverInductive' /\ HeldGrows
  BY ClientTypes, ResolverTickKeeps DEF ClientTick
<1>2. /\ now' = now + 1
      /\ \A c \in Goroutines :
             /\ user[c].pc # "answered"
             /\ user[c].pc # "idle" => now < user[c].started + ClientTimeout
      /\ call' = call /\ UNCHANGED clientVars
  BY DEF ClientTick, UserAt, ResolverTick
<1> QED
  BY <1>1, <1>2, ServiceStepKeeps

-----------------------------------------------------------------------------
(* A step of one goroutine.                                                *)
LEMMA UserStepKeeps ==
    ASSUME ClientInductive, NEW c \in Goroutines, NEW m \in UserRow, SetUser(c, m),
           ResolverInductive', UNCHANGED <<held, now>>,
           \A d \in Goroutines \ {c} : call'[d] = call[d],
           user'[c] = m => RequestInTime(c)',
           clientCache' \in [Keys -> EntryRow],
           \A k \in Keys : ClientEntryRecent(k, clientCache'[k])
    PROVE  ClientInductive'
<1>1. /\ user' \in [Goroutines -> UserRow]
      /\ \A d \in Goroutines : user'[d] = IF d = c THEN m ELSE user[d]
  BY DEF SetUser, ClientInductive, ClientTypeOK
<1>2. ClientTypeOK'
  BY <1>1 DEF ClientTypeOK
<1>3. ASSUME NEW d \in Goroutines PROVE RequestInTime(d)'
  <2>1. CASE d = c
    BY <1>1, <2>1
  <2>2. CASE d # c
    <3>1. user'[d] = user[d] /\ call'[d] = call[d] /\ Span' = Span
      BY <1>1, <2>2 DEF Span
    <3> QED
      BY <3>1, ClientTypes DEF RequestInTime
  <2> QED
    BY <2>1, <2>2
<1>4. ASSUME NEW k \in Keys PROVE ClientEntryRecent(k, clientCache[k])'
  BY DEF ClientEntryRecent, Span
<1> QED
  BY <1>2, <1>3, <1>4 DEF ClientInductive

LEMMA ServiceStays ==
    ASSUME ClientInductive, UNCHANGED resolverVars
    PROVE  /\ ResolverInductive'
           /\ UNCHANGED <<listed, held, cache, call, now>> /\ Span' = Span
BY ClientTypes, ResolverNextKeeps DEF resolverVars, Span

LEMMA ClientCacheStays ==
    ASSUME ClientInductive, clientCache' = clientCache
    PROVE  /\ clientCache' \in [Keys -> EntryRow]
           /\ \A k \in Keys : ClientEntryRecent(k, clientCache'[k])
BY DEF ClientInductive, ClientTypeOK

LEMMA UserResolveKeeps ==
    ASSUME ClientInductive, NEW c \in Goroutines, NEW k \in Keys, UserResolve(c, k)
    PROVE  ClientInductive'
<1>1. UNCHANGED resolverVars /\ clientCache' = clientCache
  BY DEF UserResolve
<1>2. /\ ResolverInductive'
      /\ UNCHANGED <<listed, held, cache, call, now>> /\ Span' = Span
  BY <1>1, ServiceStays
<1>3. /\ clientCache' \in [Keys -> EntryRow]
      /\ \A q \in Keys : ClientEntryRecent(q, clientCache'[q])
  BY <1>1, ClientCacheStays
<1>4. CASE Expired(clientCache[k])
  <2> DEFINE m == [IdleCall EXCEPT !.pc = "ask", !.key = k, !.started = now]
  <2>1. m \in UserRow /\ m.pc = "ask" /\ m.key = k /\ m.started = now
    BY ClientTypes, ResolverTypes DEF IdleCall, UserRow, Answers
  <2>2. SetUser(c, m)
    BY <1>4 DEF UserResolve
  <2> HIDE DEF m
  <2>3. user'[c] = m => RequestInTime(c)'
    BY <1>2, <2>1, ClientTypes, ResolverTypes DEF RequestInTime
  <2> QED
    BY <1>2, <1>3, <2>1, <2>2, <2>3, UserStepKeeps
<1>5. CASE ~Expired(clientCache[k])
  <2> DEFINE e == clientCache[k]
  <2> DEFINE m == [IdleCall EXCEPT !.pc = "answered", !.key = k, !.answer = e.endpoint]
  <2>1. /\ ClientEntryRecent(k, e) /\ e.endpoint \in Answers /\ e.expiresAt \in Nat
        /\ now =< e.expiresAt /\ now \in Nat /\ now > 0 /\ Span \in Nat
        /\ held[k][e.endpoint] \in Nat
    BY <1>5, ClientTypes, ResolverTypes, RowTypes DEF Expired
  <2>2. m \in UserRow /\ m.pc = "answered" /\ m.key = k /\ m.answer = e.endpoint
    BY <2>1 DEF IdleCall, UserRow
  <2>3. SetUser(c, m)
    BY <1>5 DEF UserResolve
  <2> HIDE DEF m, e
  <2>4. 0 < held[k][e.endpoint] /\ now =< held[k][e.endpoint] + Span
    BY <2>1 DEF ClientEntryRecent
  <2>5. user'[c] = m => RequestInTime(c)'
    BY <1>2, <2>2, <2>4 DEF RequestInTime
  <2> QED
    BY <1>2, <1>3, <2>2, <2>3, <2>5, UserStepKeeps
<1> QED
  BY <1>4, <1>5

LEMMA AskRegistryKeeps ==
    ASSUME ClientInductive, NEW c \in Goroutines, AskRegistry(c)
    PROVE  ClientInductive'
<1> DEFINE u == user[c]
<1> DEFINE m == [u EXCEPT !.pc = "receive", !.answer = listed[u.key]]
<1>1. /\ u \in UserRow /\ u.pc = "ask" /\ SetUser(c, m)
      /\ UNCHANGED resolverVars /\ clientCache' = clientCache
      /\ u.started \in Nat
  BY ClientTypes, RowTypes DEF AskRegistry, UserAt
<1>2. /\ ResolverInductive'
      /\ UNCHANGED <<listed, held, cache, call, now>> /\ Span' = Span
  BY <1>1, ServiceStays
<1>3. /\ clientCache' \in [Keys -> EntryRow]
      /\ \A q \in Keys : ClientEntryRecent(q, clientCache'[q])
  BY <1>1, ClientCacheStays
<1>4. u.key \in Keys /\ 0 < u.started /\ u.started =< now /\ now =< u.started + ClientTimeout
  BY <1>1, ClientTypes DEF RequestInTime
<1>5. /\ m \in UserRow /\ m.pc = "receive" /\ m.key = u.key /\ m.started = u.started
      /\ m.answer = listed[u.key]
  BY <1>1, <1>4, ClientTypes, ResolverTypes DEF UserRow
<1> HIDE DEF m, u
<1>6. held[m.key][m.answer] = now /\ now \in Nat /\ Timeout \in Nat /\ TTL \in Nat
  BY <1>4, <1>5, ClientTypes, ResolverTypes
<1>7. user'[c] = m => RequestInTime(c)'
  BY <1>1, <1>2, <1>4, <1>5, <1>6 DEF RequestInTime
<1> QED
  BY <1>1, <1>2, <1>3, <1>5, <1>7, UserStepKeeps

LEMMA AskServiceKeeps ==
    ASSUME ClientInductive, NEW c \in Goroutines, AskService(c)
    PROVE  ClientInductive'
<1> DEFINE u == user[c]
<1> DEFINE m == [u EXCEPT !.pc = "wait"]
<1>1. /\ u \in UserRow /\ u.pc = "ask" /\ SetUser(c, m) /\ Lookup(c, u.key)
      /\ clientCache' = clientCache /\ c \in Calls /\ u.started \in Nat
  BY ClientTypes, RowTypes DEF AskService, UserAt
<1>2. u.key \in Keys /\ 0 < u.started /\ u.started =< now /\ now =< u.started + ClientTimeout
  BY <1>1, ClientTypes DEF RequestInTime
<1>3. ResolverInductive'
  BY <1>1, <1>2, ClientTypes, LookupKeeps
<1>4. /\ call \in [Calls -> CallRow] /\ Goroutines \subseteq Calls
  BY ClientAssumption, ClientTypes DEF ResolverInductive, ResolverTypeOK
<1>5. /\ UNCHANGED <<held, now>>
      /\ call'[c].key = u.key
      /\ \A d \in Goroutines \ {c} : call'[d] = call[d]
  BY <1>1, <1>4 DEF Lookup, SetCall, IdleCall
<1>6. /\ clientCache' \in [Keys -> EntryRow]
      /\ \A q \in Keys : ClientEntryRecent(q, clientCache'[q])
  BY <1>1, ClientCacheStays
<1>7. m \in UserRow /\ m.pc = "wait" /\ m.key = u.key /\ m.started = u.started
  BY <1>1 DEF UserRow
<1> HIDE DEF m, u
<1>8. user'[c] = m => RequestInTime(c)'
  BY <1>2, <1>5, <1>7 DEF RequestInTime
<1> QED
  BY <1>1, <1>3, <1>5, <1>6, <1>7, <1>8, UserStepKeeps

(* The answer is of the key that was asked for, also when an earlier        *)
(* request of the goroutine was given up.                                  *)
LEMMA ServiceAnswersKeeps ==
    ASSUME ClientInductive, NEW c \in Goroutines, ServiceAnswers(c)
    PROVE  ClientInductive'
<1> DEFINE u == user[c]
<1> DEFINE a == call[c].answer
<1>1. /\ u \in UserRow /\ Return(c) /\ clientCache' = clientCache /\ c \in Calls
      /\ u.started \in Nat /\ RequestInTime(c)
      /\ call[c] \in CallRow /\ call[c].pc = "answered" /\ a \in Answers
      /\ CallInTime(call[c])
      /\ UNCHANGED <<listed, held, cache, now>>
      /\ SetCall(c, IdleCall)
  BY ClientTypes, ResolverTypes, RowTypes DEF ServiceAnswers, Return, CallAt, ResolverInductive
<1>2. ResolverInductive'
  BY <1>1, ClientTypes, EndCallKeeps
<1>3. /\ call \in [Calls -> CallRow] /\ Goroutines \subseteq Calls
  BY ClientAssumption, ClientTypes DEF ResolverInductive, ResolverTypeOK
<1>4. /\ call'[c].pc = "idle"
      /\ \A d \in Goroutines \ {c} : call'[d] = call[d]
  BY <1>1, <1>3 DEF SetCall, IdleCall
<1>5. /\ clientCache' \in [Keys -> EntryRow]
      /\ \A q \in Keys : ClientEntryRecent(q, clientCache'[q])
  BY <1>1, ClientCacheStays
<1>6. Span' = Span
  BY DEF Span
<1>7. CASE u.pc # "wait"
  <2>1. SetUser(c, u)
    BY <1>7 DEF ServiceAnswers, UserAt
  <2> HIDE DEF u, a
  <2>2. user[c] = u
    BY DEF u
  <2>3. user'[c] = u => RequestInTime(c)'
    BY <1>1, <1>6, <1>7, <2>2 DEF RequestInTime
  <2> QED
    BY <1>1, <1>2, <1>4, <1>5, <2>1, <2>3, UserStepKeeps
<1>8. CASE u.pc = "wait"
  <2> DEFINE m == [u EXCEPT !.pc = "receive", !.answer = a]
  <2>1. SetUser(c, m)
    BY <1>8 DEF ServiceAnswers, UserAt
  <2>2. /\ m \in UserRow /\ m.pc = "receive" /\ m.key = u.key /\ m.started = u.started
        /\ m.answer = a
    BY <1>1 DEF UserRow
  <2>3. /\ u.key \in Keys /\ 0 < u.started /\ u.started =< now
        /\ now =< u.started + ClientTimeout /\ call[c].key = u.key
    BY <1>1, <1>8 DEF RequestInTime
  <2>4. /\ 0 < held[u.key][a] /\ now =< held[u.key][a] + Timeout + TTL
    BY <1>1, <2>3 DEF CallInTime
  <2>5. /\ held[u.key][a] \in Nat /\ now \in Nat /\ Timeout \in Nat /\ TTL \in Nat
    BY <1>1, <2>3, ClientTypes, ResolverTypes
  <2> HIDE DEF m, u, a
  <2>6. u.started =< held[u.key][a] + Timeout + TTL
    BY <1>1, <2>3, <2>4, <2>5
  <2>7. user'[c] = m => RequestInTime(c)'
    BY <1>1, <1>6, <2>2, <2>3, <2>4, <2>6 DEF RequestInTime
  <2> QED
    BY <1>1, <1>2, <1>4, <1>5, <2>1, <2>2, <2>7, UserStepKeeps
<1> QED
  BY <1>7, <1>8

LEMMA UserReceivesKeeps ==
    ASSUME ClientInductive, NEW c \in Goroutines, UserReceives(c)
    PROVE  ClientInductive'
<1> DEFINE u == user[c]
<1> DEFINE m == [u EXCEPT !.pc = "answered"]
<1> DEFINE seen == held[u.key][u.answer]
<1>1. /\ u \in UserRow /\ u.pc = "receive" /\ SetUser(c, m) /\ UNCHANGED resolverVars
      /\ u.started \in Nat /\ u.answer \in Answers
  BY ClientTypes, RowTypes DEF UserReceives, UserAt
<1>2. /\ ResolverInductive'
      /\ UNCHANGED <<listed, held, cache, call, now>> /\ Span' = Span
  BY <1>1, ServiceStays
<1>3. /\ u.key \in Keys /\ now =< u.started + ClientTimeout
      /\ 0 < seen
      /\ u.answer # Missing => u.started =< seen + Timeout + TTL
  BY <1>1, ClientTypes DEF RequestInTime
<1>4. /\ now \in Nat /\ Timeout \in Nat /\ TTL \in Nat /\ ClientTimeout \in Nat
      /\ ClientTTL \in Nat /\ seen \in Nat
  BY <1>1, <1>3, ClientTypes, ResolverTypes
<1>5. m \in UserRow /\ m.pc = "answered" /\ m.key = u.key /\ m.answer = u.answer
  BY <1>1 DEF UserRow
<1> HIDE DEF m, seen
<1>6. u.answer # Missing => (now + ClientTTL =< seen + Span /\ now =< seen + Span)
  BY <1>1, <1>3, <1>4 DEF Span
<1>7. user'[c] = m => RequestInTime(c)'
  BY <1>2, <1>3, <1>5, <1>6 DEF RequestInTime, seen
<1>8. /\ clientCache' \in [Keys -> EntryRow]
      /\ \A k \in Keys : ClientEntryRecent(k, clientCache'[k])
  <2>1. CASE u.answer = Missing
    BY <2>1, ClientCacheStays DEF UserReceives
  <2>2. CASE u.answer # Missing
    <3> DEFINE e == [endpoint |-> u.answer, expiresAt |-> now + ClientTTL]
    <3>1. e \in EntryRow /\ e.endpoint = u.answer /\ e.expiresAt = now + ClientTTL
      BY <1>1, <1>4 DEF EntryRow
    <3>2. clientCache' = [clientCache EXCEPT ![u.key] = e]
      BY <2>2 DEF UserReceives, ClientCacheSet
    <3> HIDE DEF e
    <3>3. ClientEntryRecent(u.key, e)
      BY <1>3, <1>6, <2>2, <3>1 DEF ClientEntryRecent, seen
    <3> QED
      BY <3>1, <3>2, <3>3 DEF ClientInductive, ClientTypeOK
  <2> QED
    BY <2>1, <2>2
<1> QED
  BY <1>1, <1>2, <1>5, <1>7, <1>8, UserStepKeeps

LEMMA UserEndsKeeps ==
    ASSUME ClientInductive, NEW c \in Goroutines, UserFails(c) \/ UserReturns(c)
    PROVE  ClientInductive'
<1>1. SetUser(c, IdleCall) /\ UNCHANGED resolverVars /\ clientCache' = clientCache
  BY DEF UserFails, UserReturns
<1>2. /\ ResolverInductive'
      /\ UNCHANGED <<listed, held, cache, call, now>> /\ Span' = Span
  BY <1>1, ServiceStays
<1>3. /\ clientCache' \in [Keys -> EntryRow]
      /\ \A k \in Keys : ClientEntryRecent(k, clientCache'[k])
  BY <1>1, ClientCacheStays
<1>4. IdleCall \in UserRow /\ IdleCall.pc = "idle"
  BY DEF IdleCall, UserRow, Answers
<1>5. user'[c] = IdleCall => RequestInTime(c)'
  BY <1>4 DEF RequestInTime
<1> QED
  BY <1>1, <1>2, <1>3, <1>4, <1>5, UserStepKeeps

LEMMA ClientNextKeeps ==
    ASSUME ClientInductive, [ClientNext]_<<resolverVars, clientVars>>
    PROVE  ClientInductive'
<1>1. CASE UNCHANGED <<resolverVars, clientVars>>
  <2>1. ResolverInductive' /\ HeldGrows
    BY <1>1, ClientTypes, ResolverNextKeeps
  <2> QED
    BY <1>1, <2>1, ServiceStepKeeps DEF resolverVars
<1>2. ASSUME NEW c \in Goroutines, UserNext(c) PROVE ClientInductive'
  BY <1>2, UserResolveKeeps, AskRegistryKeeps, AskServiceKeeps, ServiceAnswersKeeps,
     UserReceivesKeeps, UserEndsKeeps DEF UserNext
<1> QED
  BY <1>1, <1>2, ServiceNextKeeps, ClientTickKeeps DEF ClientNext

(* How old what a call or a cache holds can be is known in every reachable *)
(* state of the client and the service.                                    *)
THEOREM ClientInductiveHolds == ClientSpec => []ClientInductive
<1>1. ClientInductive /\ [ClientNext]_<<resolverVars, clientVars>> => ClientInductive'
  BY ClientNextKeeps
<1> QED
  BY InitClientInductive, <1>1, PTL DEF ClientSpec

(* What the service knows of its calls bounds how old its answers are.     *)
LEMMA AnswersFollow == ResolverInductive => AnswersRecent
<1> SUFFICES ASSUME ResolverInductive PROVE AnswersRecent
  OBVIOUS
<1> SUFFICES ASSUME NEW c \in Calls, CallAt(c, "answered")
             PROVE  /\ held[call[c].key][call[c].answer] > 0
                    /\ now =< held[call[c].key][call[c].answer] + Timeout
                               + (IF call[c].answer = Missing THEN 0 ELSE TTL)
  BY DEF AnswersRecent
<1> DEFINE seen == held[call[c].key][call[c].answer]
<1>1. /\ 0 < seen /\ now =< seen + Timeout + TTL
      /\ call[c].answer = Missing => now =< seen + Timeout
      /\ call[c].key \in Keys /\ call[c].answer \in Answers
  BY ResolverTypes, RowTypes DEF CallAt, ResolverInductive, CallInTime
<1>2. seen \in Nat /\ Timeout \in Nat
  BY <1>1, ResolverTypes
<1> QED
  BY <1>1, <1>2

(* Whoever calls the resolver service: an answer was the registry's a      *)
(* look-up and a lifetime ago, or since, and a refusal a look-up ago.      *)
THEOREM AnswersTheorem == ResolverSpec => []AnswersRecent
<1>1. ResolverInductive /\ [ResolverNext]_resolverVars => ResolverInductive'
  BY ResolverNextKeeps
<1> QED
  BY InitResolverInductive, <1>1, AnswersFollow, PTL DEF ResolverSpec

(* The client makes no call of the service that another caller could not   *)
(* make: with the client in front of it the service is the one specified.  *)
THEOREM ServiceTheorem == ClientSpec => ResolverSpec
<1>1. ClientInit => ResolverInit
  BY DEF ClientInit
<1>2. ClientInductive /\ [ClientNext]_<<resolverVars, clientVars>> => [ResolverNext]_resolverVars
  <2> SUFFICES ASSUME ClientInductive, [ClientNext]_<<resolverVars, clientVars>>
               PROVE  [ResolverNext]_resolverVars
    OBVIOUS
  <2>1. CASE UNCHANGED <<resolverVars, clientVars>>
    BY <2>1
  <2>2. CASE ServiceNext
    BY <2>2 DEF ServiceNext, ResolverNext, ResolveCall
  <2>3. CASE ClientTick
    BY <2>3 DEF ClientTick, ResolverNext
  <2>4. ASSUME NEW c \in Goroutines, UserNext(c) PROVE [ResolverNext]_resolverVars
    <3>1. c \in Calls
      BY ClientTypes
    <3>2. CASE AskService(c)
      <4>1. user[c].key \in Keys
        BY <3>2, ClientTypes DEF AskService, UserAt, RequestInTime
      <4> QED
        BY <3>1, <3>2, <4>1 DEF AskService, ResolverNext, ResolveCall
    <3>3. CASE ServiceAnswers(c)
      BY <3>1, <3>3 DEF ServiceAnswers, ResolverNext, ResolveCall
    <3>4. ASSUME NEW k \in Keys, UserResolve(c, k) PROVE UNCHANGED resolverVars
      BY <3>4 DEF UserResolve
    <3>5. CASE AskRegistry(c) \/ UserReceives(c) \/ UserFails(c) \/ UserReturns(c)
      BY <3>5 DEF AskRegistry, UserReceives, UserFails, UserReturns
    <3> QED
      BY <2>4, <3>2, <3>3, <3>4, <3>5 DEF UserNext
  <2> QED
    BY <2>1, <2>2, <2>3, <2>4 DEF ClientNext
<1> QED
  BY <1>1, <1>2, ClientInductiveHolds, PTL DEF ClientSpec, ResolverSpec

(* The lifetimes of the two caches and the times of the two requests bound *)
(* how long ago an endpoint that is handed out was the registry's.         *)
THEOREM EndpointsTheorem == ClientSpec => []EndpointsRecent
<1>1. ClientInductive => EndpointsRecent
  <2> SUFFICES ASSUME ClientInductive PROVE EndpointsRecent
    OBVIOUS
  <2>1. AnswersRecent
    BY AnswersFollow DEF ClientInductive
  <2>2. ASSUME NEW c \in Goroutines, UserAt(c, "answered")
        PROVE  LET u == user[c]
                   seen == held[u.key][u.answer] IN
               /\ seen > 0
               /\ u.answer # Missing => now =< seen + Timeout + TTL + ClientTimeout + ClientTTL
    <3> DEFINE u == user[c]
    <3> DEFINE seen == held[u.key][u.answer]
    <3>1. /\ 0 < seen
          /\ u.answer # Missing => now =< seen + Span
          /\ u.key \in Keys /\ u.answer \in Answers
      BY <2>2, ClientTypes, RowTypes DEF UserAt, RequestInTime
    <3>2. /\ seen \in Nat /\ Timeout \in Nat /\ TTL \in Nat
          /\ ClientTimeout \in Nat /\ ClientTTL \in Nat
      BY <3>1, ClientTypes, ResolverTypes
    <3> QED
      BY <3>1, <3>2 DEF Span
  <2> QED
    BY <2>1, <2>2 DEF EndpointsRecent
<1> QED
  BY <1>1, ClientInductiveHolds, PTL
=============================================================================
