----------------------------- MODULE Federation -----------------------------
(***************************************************************************)
(* Registries that trust one root: the table of member registries with its *)
(* approvals, the intermediate CA certificates issued to members (which    *)
(* may issue to members of their own when their path length allows), and   *)
(* the resolution of an agent that is hosted by another registry.  A       *)
(* certificate is the sequence of path lengths from the root's child down. *)
(***************************************************************************)
EXTENDS Naturals, Sequences, FiniteSets

CONSTANTS
    Root,          \* the root registry
    Registries,    \* the other registries, each with the trust root it serves
    MemberOf,      \* the registries that apply at each registry
    MaxAllowedPathLen,
    PathLens,      \* the path lengths an administrator asks for
    Urls,          \* endpoint URLs
    RootUrl,       \* federation.root_registry_url
    ThisCode,      \* the URLs that are served by this program
    Operations,    \* {"issue", "resolve"}, or one of them
    Requests,
    MaxIssued,     \* bound on the certificates handed out
    None

Servers == Registries \cup {Root}

FederationAssumption ==
    /\ Root \notin Registries
    /\ MemberOf \in [Servers -> SUBSET Registries]
    /\ MaxAllowedPathLen \in Nat
    /\ PathLens \subseteq Nat
    /\ RootUrl \in Urls
    /\ None \notin Urls

VARIABLES
    row,       \* registered_registries of each registry; the last certificate
               \* issued, which it keeps for the record, is left out
    ca,        \* the intermediate CA each registry runs with, <<>> for none
    issued,    \* ghost: the certificates handed out, with their holders
    dns,       \* the _nap-registry record of each trust root
    req        \* the requests under way

vars == <<row, ca, issued, dns, req>>

-----------------------------------------------------------------------------
NoRow == [status |-> "none", url |-> None, len |-> 0]

IdleReq == [op |-> "none", pc |-> "idle", at |-> Root, of |-> None,
            url |-> None, cert |-> <<>>, active |-> FALSE]

Init ==
    /\ row = [n \in Servers |-> [r \in Registries |-> NoRow]]
    /\ ca = [r \in Registries |-> <<>>]
    /\ issued = {}
    /\ dns = [r \in Registries |-> None]
    /\ req = [q \in Requests |-> IdleReq]

Active(n, r) == row[n][r].status = "active"

\* A federated registry is wired as a root of its own when the certificate it
\* loaded at its start lets it issue.
SubDelegated(n) == n # Root /\ Len(ca[n]) > 0 /\ ca[n][Len(ca[n])] > 0
RootRoutes(n) == n = Root \/ SubDelegated(n)

-----------------------------------------------------------------------------
(* The table of members *)

\* A trust root has one row.
Create(n, r, new) ==
    /\ row[n][r].status = "none"
    /\ row' = [row EXCEPT ![n][r] = new]

Register(n, r, u) == Create(n, r, [NoRow EXCEPT !.status = "pending", !.url = u])

RegisterRegistry(n, r, u) == Register(n, r, u) /\ UNCHANGED <<ca, issued, dns, req>>

\* The requests that have this member approved at some time, for the ghost.
SeenActive(n, r, status) ==
    [q \in Requests |->
        IF status = "active" /\ req[q].at = n /\ req[q].of = r
        THEN [req[q] EXCEPT !.active = TRUE] ELSE req[q]]

\* Neither update looks at the status the row has.
UpdateStatus(n, r, status) ==
    /\ row[n][r].status # "none"
    /\ row' = [row EXCEPT ![n][r].status = status]
    /\ req' = SeenActive(n, r, status)
    /\ UNCHANGED <<ca, issued, dns>>

ApproveRegistry(n, r) == RootRoutes(n) /\ UpdateStatus(n, r, "active")
SuspendRegistry(n, r) == RootRoutes(n) /\ UpdateStatus(n, r, "suspended")

SetMaxPathLen(n, r, len) ==
    /\ row[n][r].status # "none"
    /\ row' = [row EXCEPT ![n][r].len = len]

UpdateMaxPathLen(n, r, len) == len =< MaxAllowedPathLen /\ SetMaxPathLen(n, r, len)

UpdateDelegation(n, r, len) ==
    /\ RootRoutes(n)
    /\ UpdateMaxPathLen(n, r, len)
    /\ UNCHANGED <<ca, issued, dns, req>>

-----------------------------------------------------------------------------
(* Issuing an intermediate CA *)

At(q, pc) == req[q].pc = pc
Set(q, new) == req' = [req EXCEPT ![q] = new]
Goto(q, pc) == Set(q, [req[q] EXCEPT !.pc = pc])
NoChange == UNCHANGED <<row, ca, issued, dns>>

Begin(q, op, n, r, pc) ==
    /\ At(q, "idle")
    /\ op \in Operations
    /\ Set(q, [IdleReq EXCEPT !.op = op, !.pc = pc, !.at = n, !.of = r,
                              !.active = Active(n, r)])
    /\ NoChange

IssueCA(q, n, r) == RootRoutes(n) /\ Begin(q, "issue", n, r, "read")

\* The path length that was read goes into the certificate, whatever the row
\* says when it is signed.
ReadMember(q, refused) ==
    LET m == req[q] IN
    /\ At(q, "read")
    /\ IF refused THEN Goto(q, "refused")
       ELSE Set(q, [m EXCEPT !.pc = "sign",
                             !.cert = <<row[m.at][m.of].len>>])
    /\ NoChange

\* Slip: the status of the member is not looked at.
ReadAnyMember(q) == ReadMember(q, row[req[q].at][req[q].of].status = "none")

GetMember(q) == ReadMember(q, ~Active(req[q].at, req[q].of))

\* Slip: a child may have the path length of its parent.
EqualAllowed(n, len) ==
    \/ n = Root
    \/ SubDelegated(n) /\ len =< ca[n][Len(ca[n])]

\* The root signs with any length; an intermediate only with a shorter one
\* than its own.
MayIssue(n, len) ==
    \/ n = Root
    \/ SubDelegated(n) /\ len < ca[n][Len(ca[n])]

IssueIntermediateCert(q) ==
    LET n == req[q].at
        len == req[q].cert[1] IN
    /\ At(q, "sign")
    /\ IF MayIssue(n, len)
       THEN Set(q, [req[q] EXCEPT !.pc = "store",
                       !.cert = Append(IF n = Root THEN <<>> ELSE ca[n], len)])
       ELSE Goto(q, "refused")
    /\ NoChange

\* Storing the certificate may fail: the operator has it from the answer.
AnswerCA(q) ==
    /\ At(q, "store")
    /\ Cardinality(issued) < MaxIssued
    /\ issued' = issued \cup {<<req[q].of, req[q].cert>>}
    /\ Goto(q, "ok")
    /\ UNCHANGED <<row, ca, dns>>

\* The operator of a registry installs a certificate it was given, the newest
\* or an older one, and restarts it: what it was doing is lost.
Install(r, cert) ==
    /\ <<r, cert>> \in issued
    /\ cert # ca[r]
    /\ ca' = [ca EXCEPT ![r] = cert]
    /\ req' = [q \in Requests |->
                  IF req[q].at = r /\ req[q].pc # "idle"
                  THEN [req[q] EXCEPT !.pc = "refused"] ELSE req[q]]
    /\ UNCHANGED <<row, issued, dns>>

-----------------------------------------------------------------------------
(* Resolving an agent of another registry *)

\* The domain's owner changes its record.
Publish(r, u) ==
    /\ dns[r] # u
    /\ dns' = [dns EXCEPT ![r] = u]
    /\ UNCHANGED <<row, ca, issued, req>>

\* The agent is looked up in the registry's own table first.  One that is
\* there is answered from it, or refused for its status; a miss, or a look-up
\* that fails, goes on to the members, which only the root knows: a federated
\* registry is given no table to look in.
Resolve(q, n, r) ==
    \E pc \in {"ok", "refused", IF n = Root THEN "table" ELSE "dns"} :
        Begin(q, "resolve", n, r, pc)

Ask(q, u) == Set(q, [req[q] EXCEPT !.pc = "ask", !.url = u])

\* The last resort is the root, which has none itself.
Fallback(q) == IF req[q].at = Root THEN Goto(q, "refused") ELSE Ask(q, RootUrl)

LookupTable(q) ==
    LET m == req[q] IN
    /\ At(q, "table")
    /\ IF Active(m.at, m.of) THEN Ask(q, row[m.at][m.of].url) ELSE Goto(q, "dns")
    /\ NoChange

\* Discovery by DNS may be switched off, or fail.
DiscoverByDNS(q) ==
    LET u == dns[req[q].of] IN
    /\ At(q, "dns")
    /\ \/ Fallback(q)
       \/ /\ u # None
          /\ IF req[q].at = Root
             THEN Set(q, [req[q] EXCEPT !.pc = "recheck", !.url = u])
             ELSE Ask(q, u)
    /\ NoChange

\* Slip: what DNS says is taken without another look at the table.
TakeDNS(q) == At(q, "recheck") /\ Ask(q, req[q].url) /\ NoChange

\* The root takes it only for a member that is active now.
Recheck(q) ==
    /\ At(q, "recheck")
    /\ IF Active(req[q].at, req[q].of) THEN Ask(q, req[q].url) ELSE Fallback(q)
    /\ NoChange

\* The parameters the client sends, and those the handler asks for.
QueryParams == {"trust_root", "cap_node", "agent_id"}
RequiredParams == {"trust_root", "capability_node", "agent_id"}

\* A peer that runs this program rejects a request that lacks a parameter; one
\* that does not answers as it will.
RemoteResolve(q) ==
    /\ At(q, "ask")
    /\ \/ Goto(q, "refused")
       \/ /\ req[q].url \in ThisCode
          /\ ~(RequiredParams \subseteq QueryParams)
          /\ Goto(q, "rejected")
       \/ /\ req[q].url \in ThisCode => RequiredParams \subseteq QueryParams
          /\ Goto(q, "ok")
    /\ NoChange

-----------------------------------------------------------------------------
Ended == {"ok", "refused", "rejected"}

\* A statement or the caller's connection fails.
Fail(q) == req[q].pc \notin Ended \cup {"idle"} /\ Goto(q, "refused") /\ NoChange

Done(q) == req[q].pc \in Ended /\ Set(q, IdleReq) /\ NoChange

Admin(n, r) ==
    \/ \E u \in Urls : RegisterRegistry(n, r, u)
    \/ ApproveRegistry(n, r) \/ SuspendRegistry(n, r)
    \/ \E len \in PathLens : UpdateDelegation(n, r, len)

Serve(q) ==
    \/ \E n \in Servers : \E r \in MemberOf[n] : IssueCA(q, n, r)
    \/ \E n \in Servers : \E r \in Registries \ {n} : Resolve(q, n, r)
    \/ GetMember(q) \/ IssueIntermediateCert(q) \/ AnswerCA(q)
    \/ LookupTable(q) \/ DiscoverByDNS(q) \/ Recheck(q) \/ RemoteResolve(q)
    \/ Fail(q) \/ Done(q)

Next ==
    \/ \E n \in Servers : \E r \in MemberOf[n] : Admin(n, r)
    \/ \E r \in Registries : \E c \in issued : Install(r, c[2])
    \/ "resolve" \in Operations /\ \E r \in Registries, u \in Urls \cup {None} : Publish(r, u)
    \/ \E q \in Requests : Serve(q)

Spec == Init /\ [][Next]_vars

-----------------------------------------------------------------------------
(* Properties *)

\* Every certificate handed out verifies up to the root: each CA above it
\* allows the CAs that are between them, whatever path lengths were set,
\* raised and lowered while certificates were requested and installed.
ChainVerifies ==
    \A i \in issued : LET chain == i[2] IN
        \A k \in 1 .. Len(chain) : chain[k] >= Len(chain) - k

\* A certificate is handed out, and the root asks an endpoint, only for a
\* member that was active at some time while the request was served.
ApprovalRespected ==
    \A q \in Requests :
        /\ req[q].op = "issue" /\ req[q].pc \in {"sign", "store", "ok"} => req[q].active
        /\ req[q].pc = "ask" /\ req[q].at = Root => req[q].active
=============================================================================
