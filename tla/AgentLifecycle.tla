--------------------------- MODULE AgentLifecycle ---------------------------
(***************************************************************************)
(* The life of an agent row under concurrent HTTP requests.                *)
(*                                                                         *)
(* Each request is one goroutine: the handler reads the row and authorises *)
(* the caller, the service reads it again and checks what the operation    *)
(* requires, one SQL statement changes the row, an entry is appended to    *)
(* the trust ledger, the webhook dispatcher is told and the caller is      *)
(* answered.  No transaction spans these steps, so other requests run      *)
(* between them; a statement may commit although its caller sees an error, *)
(* an append may fail (the service only logs that), and the process may    *)
(* crash.  The rows and the ledger are in PostgreSQL and survive.          *)
(*                                                                         *)
(* The ledger is the atomic append that TrustLedger shows it to be, and    *)
(* "proven" is fed by the DNS-01 and e-mail verification flows.            *)
(***************************************************************************)
EXTENDS Naturals, Sequences, FiniteSets

CONSTANTS
    Agents,      \* identities an agent row can have
    Subjects,    \* domains and user accounts
    SubjectOf,   \* the domain or the owner each agent is registered under
    Hosted,      \* the agents registered as nap_hosted; the rest are domain
    OwnerOf,     \* the account in each agent's owner_user_id column, if any
    MaxAgents,   \* free_tier.max_agents, 0 for no limit
    Requests     \* HTTP requests; each is sent once

ASSUME SubjectAssumption == SubjectOf \in [Agents -> Subjects]
ASSUME HostedAssumption ==
    /\ Hosted \subseteq Agents
    /\ \A a \in Hosted : OwnerOf[a] = SubjectOf[a]
ASSUME MaxAgentsAssumption == MaxAgents \in Nat
ASSUME RequestAssumption == {"none", "prior"} \cap Requests = {}

VARIABLES
    row,       \* the agents table
    proven,    \* subjects with a verified DNS challenge or e-mail address
    req,       \* the requests and how far each has got
    trail,     \* entries appended to the trust ledger since the start
    events,    \* requests whose webhook event was handed to the dispatcher
    history,   \* ghost: the table writes since the start, in commit order
    lost       \* ghost: requests whose ledger append failed

vars == <<row, proven, req, trail, events, history, lost>>

-----------------------------------------------------------------------------
(* Data *)

Ops == {"register", "activate", "revoke", "suspend", "restore",
        "deprecate", "update", "delete"}

Stored == {"pending", "active", "suspended", "deprecated", "revoked"}
Activated == {"active", "suspended", "deprecated"}
Status == Stored \cup {"absent", "deleted"}

\* A serial is drawn at random by the issuer, so it is named after the one
\* request that had it issued; "prior" stands for a certificate the agent
\* held before this process started.
Serials == Requests \cup {"none", "prior"}

Row == [status : Status, serial : Serials]

\* Where a request stands.  From "read" to "answer" it is in flight.
InFlight == {"read", "write", "append", "answer"}
Final == {"done", "refused", "dead"}

Request == [pc     : InFlight \cup Final \cup {"idle"},
            op     : Ops \cup {"none"},
            agent  : Agents \cup {"none"},
            after  : SUBSET Requests]

Entry == [by : Requests, action : Ops, agent : Agents]

Record(r) == [by |-> r, action |-> req[r].op, agent |-> req[r].agent]

-----------------------------------------------------------------------------
(* Reads of the agents table *)

Exists(a) == row[a].status \in Stored

\* CountByOwner: every stored row of the owner that is not revoked.
OwnedBy(s) == {a \in Agents : /\ OwnerOf[a] = s
                              /\ Exists(a)
                              /\ row[a].status # "revoked"}

\* ListRevokedCerts, the body of the certificate revocation list.
CRL == {<<a, row[a].serial>> : a \in {b \in Agents :
            row[b].status = "revoked" /\ row[b].serial # "none"}}

-----------------------------------------------------------------------------
(* The database a process starts on: whatever earlier requests left there. *)
Init ==
    /\ row \in [Agents -> Row]
    /\ proven \in SUBSET Subjects
    /\ \A a \in Agents :
          /\ row[a].status \in Activated => /\ SubjectOf[a] \in proven
                                            /\ row[a].serial # "none"
          /\ row[a].status \in {"absent", "pending"} => row[a].serial = "none"
          /\ row[a].serial \notin Requests
    /\ req = [r \in Requests |-> [pc |-> "idle", op |-> "none",
                                  agent |-> "none", after |-> {}]]
    /\ trail = <<>>
    /\ events = {}
    /\ history = <<>>
    /\ lost = {}

-----------------------------------------------------------------------------
(* The handler: the row is read and the caller authorised.                 *)

Goto(r, pc) == req' = [req EXCEPT ![r].pc = pc]

Answered == {r \in Requests : req[r].pc = "done"}

\* Every route but registration reads the row first and answers 404, 401 or
\* 403 itself; deletion has no check of its own in the service.
Receive(r, op, a) ==
    /\ req[r].pc = "idle"
    /\ op # "register"
    /\ \E authorized \in BOOLEAN :
          req' = [req EXCEPT ![r] =
                    [pc    |-> IF ~Exists(a) \/ ~authorized THEN "refused"
                               ELSE IF op = "delete" THEN "write" ELSE "read",
                     op    |-> op,
                     agent |-> a,
                     after |-> Answered]]
    /\ UNCHANGED <<row, proven, trail, events, history, lost>>

\* A registration gets an identity no other row or request has.
ReceiveRegister(r, a) ==
    /\ req[r].pc = "idle"
    /\ row[a].status = "absent"
    /\ \A q \in Requests : req[q].op = "register" => req[q].agent # a
    /\ req' = [req EXCEPT ![r] = [pc |-> "read", op |-> "register",
                                  agent |-> a, after |-> Answered]]
    /\ UNCHANGED <<row, proven, trail, events, history, lost>>

-----------------------------------------------------------------------------
(* The service: what each operation requires of the row it reads.          *)

Check(r, op, admitted) ==
    /\ req[r].pc = "read"
    /\ req[r].op = op
    /\ Goto(r, IF admitted THEN "write" ELSE "refused")
    /\ UNCHANGED <<row, proven, trail, events, history, lost>>

QuotaLeft(a) ==
    \/ a \notin Hosted
    \/ MaxAgents = 0
    \/ Cardinality(OwnedBy(OwnerOf[a])) < MaxAgents

\* The e-mail gate of hosted agents and the DNS-01 gate of the others.
GateOpen(a) == SubjectOf[a] \in proven

CheckRegister(r) == Check(r, "register", QuotaLeft(req[r].agent))


\* Slip: the e-mail gate is forgotten, only domain agents are gated.
CheckActivateUngated(r) ==
    Check(r, "activate", /\ Exists(req[r].agent)
                         /\ req[r].agent \in Hosted \/ GateOpen(req[r].agent))

CheckActivate(r) ==
    Check(r, "activate", Exists(req[r].agent) /\ GateOpen(req[r].agent))

CheckRevoke(r) == Check(r, "revoke", Exists(req[r].agent))

CheckSuspend(r) ==
    Check(r, "suspend", row[req[r].agent].status = "active")

CheckRestore(r) ==
    Check(r, "restore", row[req[r].agent].status = "suspended")

CheckDeprecate(r) ==
    Check(r, "deprecate", row[req[r].agent].status = "active")

CheckUpdate(r) == Check(r, "update", Exists(req[r].agent))

-----------------------------------------------------------------------------
(* The repository: one SQL statement.  "where" is the set of statuses the  *)
(* statement's WHERE clause matches, "next" what the service does after a  *)
(* statement that changed a row; when it changed none the repository       *)
(* returns ErrNotFound.  A statement can commit while its caller gets an   *)
(* error, because the request's context was cancelled or the connection    *)
(* broke before the reply.                                                 *)


\* Slip: the number of affected rows is not looked at.
StatementUnchecked(r, op, where, new, next) ==
    /\ req[r].pc = "write"
    /\ req[r].op = op
    /\ IF row[req[r].agent].status \in where
       THEN /\ row' = [row EXCEPT ![req[r].agent] = new]
            /\ history' = Append(history, Record(r))
       ELSE UNCHANGED <<row, history>>
    /\ Goto(r, next)
    /\ UNCHANGED <<proven, trail, events, lost>>

Statement(r, op, where, new, next) ==
    /\ req[r].pc = "write"
    /\ req[r].op = op
    /\ \/ /\ row[req[r].agent].status \in where
          /\ row' = [row EXCEPT ![req[r].agent] = new]
          /\ history' = Append(history, Record(r))
          /\ \E pc \in {next, "refused"} : Goto(r, pc)
       \/ /\ row[req[r].agent].status \notin where
          /\ Goto(r, "refused")
          /\ UNCHANGED <<row, history>>
    /\ UNCHANGED <<proven, trail, events, lost>>

WithStatus(r, status) == [row[req[r].agent] EXCEPT !.status = status]

CreateRow(r) ==
    Statement(r, "register", {"absent"},
              [status |-> "pending", serial |-> "none"], "append")

ActivateWithCert(r) ==
    Statement(r, "activate", Stored,
              [status |-> "active", serial |-> r], "append")


\* Slip: revoking also clears the serial.
RevokeRowClearingSerial(r) ==
    Statement(r, "revoke", Stored, [status |-> "revoked", serial |-> "none"],
              "append")

\* Slip: a column value the schema does not have.
RevokeRowMisspelt(r) ==
    Statement(r, "revoke", Stored, WithStatus(r, "withdrawn"), "append")

RevokeRow(r) ==
    Statement(r, "revoke", Stored, WithStatus(r, "revoked"), "append")


\* Slip: the statement relies on the status the service read.
SuspendRowUnconditional(r) ==
    Statement(r, "suspend", Stored, WithStatus(r, "suspended"), "append")

SuspendRow(r) ==
    Statement(r, "suspend", {"active"}, WithStatus(r, "suspended"), "append")


\* Slip: the statement relies on the status the service read.
RestoreRowUnconditional(r) ==
    Statement(r, "restore", Stored, WithStatus(r, "active"), "append")

\* Slip: restoring forgets its ledger entry, as it has no webhook event.
RestoreRowUnlogged(r) ==
    Statement(r, "restore", {"suspended"}, WithStatus(r, "active"), "answer")

RestoreRow(r) ==
    Statement(r, "restore", {"suspended"}, WithStatus(r, "active"), "append")

DeprecateRow(r) ==
    Statement(r, "deprecate", {"active"}, WithStatus(r, "deprecated"),
              "append")

\* The mutable columns this statement writes back are not status or serial.
UpdateRow(r) ==
    Statement(r, "update", Stored, row[req[r].agent], "append")

\* Nothing is appended to the ledger for a deletion.
DeleteRow(r) ==
    Statement(r, "delete", Stored, WithStatus(r, "deleted"), "answer")

\* Any read or statement may return an error that changed nothing.
Fail(r) ==
    /\ req[r].pc \in {"read", "write"}
    /\ Goto(r, "refused")
    /\ UNCHANGED <<row, proven, trail, events, history, lost>>

-----------------------------------------------------------------------------
(* After the write. *)


\* Slip: the tail is read in the wrong order, so an entry goes in front.
AppendLedgerInFront(r) ==
    /\ req[r].pc = "append"
    /\ trail' = <<Record(r)>> \o trail
    /\ Goto(r, "answer")
    /\ UNCHANGED <<row, proven, events, history, lost>>

\* appendLedger: the entry is appended, or the error is only logged.
AppendLedger(r) ==
    /\ req[r].pc = "append"
    /\ \/ /\ trail' = Append(trail, Record(r))
          /\ UNCHANGED lost
       \/ /\ lost' = lost \cup {r}
          /\ UNCHANGED trail
    /\ Goto(r, "answer")
    /\ UNCHANGED <<row, proven, events, history>>

\* Operations that announce themselves to webhook subscribers.
Announced == {"register", "activate", "revoke", "suspend", "deprecate"}

Answer(r) ==
    /\ req[r].pc = "answer"
    /\ events' = IF req[r].op \in Announced THEN events \cup {r} ELSE events
    /\ Goto(r, "done")
    /\ UNCHANGED <<row, proven, trail, history, lost>>

\* The process stops; the database keeps what was committed.
Crash ==
    /\ \E r \in Requests : req[r].pc \in InFlight
    /\ req' = [r \in Requests |-> IF req[r].pc \in InFlight
                                  THEN [req[r] EXCEPT !.pc = "dead"]
                                  ELSE req[r]]
    /\ UNCHANGED <<row, proven, trail, events, history, lost>>

\* A DNS-01 challenge or an e-mail verification for the subject succeeds.
Prove(s) ==
    /\ s \notin proven
    /\ proven' = proven \cup {s}
    /\ UNCHANGED <<row, req, trail, events, history, lost>>

-----------------------------------------------------------------------------
Handle(r) ==
    \/ CheckRegister(r) \/ CheckActivate(r) \/ CheckRevoke(r)
    \/ CheckSuspend(r) \/ CheckRestore(r) \/ CheckDeprecate(r)
    \/ CheckUpdate(r)
    \/ CreateRow(r) \/ ActivateWithCert(r) \/ RevokeRow(r) \/ SuspendRow(r)
    \/ RestoreRow(r) \/ DeprecateRow(r) \/ UpdateRow(r) \/ DeleteRow(r)
    \/ AppendLedger(r) \/ Answer(r)

Next ==
    \/ \E r \in Requests :
          \/ \E op \in Ops, a \in Agents : Receive(r, op, a)
          \/ \E a \in Agents : ReceiveRegister(r, a)
          \/ Handle(r)
          \/ Fail(r)
    \/ Crash
    \/ \E s \in Subjects : Prove(s)

Spec == Init /\ [][Next]_vars

-----------------------------------------------------------------------------
(* Properties *)

\* Every variable has its type, and a request that was received names an
\* operation and an agent.
TypeOK ==
    /\ row \in [Agents -> Row]
    /\ proven \in SUBSET Subjects
    /\ req \in [Requests -> Request]
    /\ \A r \in Requests : req[r].pc # "idle" => /\ req[r].op \in Ops
                                                 /\ req[r].agent \in Agents
    /\ trail \in Seq(Entry)
    /\ events \in SUBSET Requests
    /\ history \in Seq(Entry)
    /\ lost \in SUBSET Requests

\* Nobody is active, suspended or deprecated whose domain or account was
\* never proven: the gate of Activate is read two round trips before the row
\* is written, and every other way into these statuses goes through it.
GateHolds ==
    \A a \in Agents : row[a].status \in Activated => SubjectOf[a] \in proven

\* The ledger never tells of something that did not happen: each entry is the
\* entry of a committed table write, and no write has two entries.
NoPhantomEntries ==
    /\ \A i \in DOMAIN trail : \E k \in DOMAIN history : history[k] = trail[i]
    /\ \A i, j \in DOMAIN trail : trail[i].by = trail[j].by => i = j

\* When a caller is told that its operation succeeded, the operation is in
\* the ledger, unless the append failed or the operation was a deletion: the
\* append is made before the answer, by every operation.
AnsweredMeansLogged ==
    \A k \in DOMAIN history :
        LET r == history[k].by IN
        req[r].pc = "done" /\ history[k].action # "delete" =>
            r \in lost \/ \E i \in DOMAIN trail : trail[i] = history[k]

\* The ledger respects real time: a request that was answered before another
\* one was even received never has the later entry.
RealTimeOrder ==
    \A i, j \in DOMAIN trail : i < j => trail[j].by \notin req[trail[i].by].after

\* A revoked row is only ever left by a deletion or by an activation that
\* installs a certificate issued for it: a suspend, restore, deprecate or
\* update that read the row before the revocation cannot bring it back.
OnlyActivateUnrevokes ==
    [][\A a \in Agents :
          row[a].status = "revoked" /\ row'[a].status # "revoked" =>
              \/ row'[a].status = "deleted"
              \/ /\ row'[a].status = "active"
                 /\ row'[a].serial # row[a].serial]_vars

\* The status column moves exactly as AgentStatus says, however the requests
\* interleave.
Abstract == INSTANCE AgentStatus
                WITH status <- [a \in Agents |-> row[a].status]
ImplementsStatus == Abstract!Spec

\* The k-th write is the last activation of the agent so far.
LatestActivation(a, k) ==
    /\ history[k].agent = a
    /\ history[k].action = "activate"
    /\ \A j \in DOMAIN history : j > k => \/ history[j].agent # a
                                          \/ history[j].action # "activate"

\* The revocation list names the certificate that matters: for a revoked
\* agent, the one issued by the last activation that reached the table, even
\* when updates and other activations ran at the same time.
LatestCertListed ==
    \A a \in Agents, k \in DOMAIN history :
        row[a].status = "revoked" /\ LatestActivation(a, k) =>
            <<a, history[k].by>> \in CRL

\* The state diagram of docs/NAP-protocol.md calls "revoked" terminal.
RevokedIsTerminal ==
    [][\A a \in Agents : row[a].status = "revoked" =>
                            row'[a].status \in {"revoked", "deleted"}]_vars

\* MaxAgents is documented as the most agents a free-tier user has: when the
\* row of a hosted agent is inserted there is still room for it.
RegistrationWithinQuota ==
    [][\A a \in Hosted :
          /\ MaxAgents > 0
          /\ row[a].status = "absent"
          /\ row'[a].status = "pending"
          => Cardinality(OwnedBy(OwnerOf[a])) < MaxAgents]_vars

-----------------------------------------------------------------------------
(* The inductive invariant: what relates a request's place in its handler   *)
(* to the table, the history and the ledger, and makes the properties above *)
(* inductive.                                                              *)

Unwritten == {"idle", "read", "write"}

\* A request leaves no trace in the table or the history before its write.
FreshInv ==
    \A r \in Requests : req[r].pc \in Unwritten =>
        /\ \A k \in DOMAIN history : history[k].by # r
        /\ \A a \in Agents : row[a].serial # r

\* Nor in the ledger before its append.
UnloggedInv ==
    \A r \in Requests : req[r].pc \in Unwritten \cup {"append"} =>
        \A i \in DOMAIN trail : trail[i].by # r

\* What is about to be appended has been written.
PendingInv ==
    \A r \in Requests : req[r].pc = "append" =>
        \E k \in DOMAIN history : history[k] = Record(r)

\* The history tells of received requests, and of agents that had a row.
HistoryInv ==
    \A k \in DOMAIN history :
        /\ history[k] = Record(history[k].by)
        /\ row[history[k].agent].status # "absent"

\* An activation past its check has seen the gate open.
AdmittedInv ==
    \A r \in Requests : req[r].pc = "write" /\ req[r].op = "activate" =>
        GateOpen(req[r].agent)

\* What was answered before a request arrived stays answered.
AfterInv == \A r \in Requests : \A q \in req[r].after : req[q].pc = "done"

\* The table holds the serial of the last activation.
SerialInv ==
    \A a \in Agents, k \in DOMAIN history :
        LatestActivation(a, k) => row[a].serial = history[k].by

\* A write whose request is past its append is logged or lost.
LoggedInv ==
    \A k \in DOMAIN history :
        LET r == history[k].by IN
        req[r].pc \in {"answer", "done"} /\ history[k].action # "delete" =>
            r \in lost \/ \E i \in DOMAIN trail : trail[i] = history[k]

\* All of it, with the properties that are conjuncts themselves: what every
\* handler step keeps, whichever other requests are in flight.
Inductive ==
    /\ TypeOK
    /\ FreshInv
    /\ UnloggedInv
    /\ PendingInv
    /\ HistoryInv
    /\ AdmittedInv
    /\ AfterInv
    /\ SerialInv
    /\ LoggedInv
    /\ GateHolds
    /\ NoPhantomEntries
    /\ RealTimeOrder
=============================================================================
