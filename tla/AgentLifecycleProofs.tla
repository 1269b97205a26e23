------------------------ MODULE AgentLifecycleProofs ------------------------
(***************************************************************************)
(* Proofs about AgentLifecycle, for any number of agents, subjects and     *)
(* requests.                                                               *)
(***************************************************************************)
EXTENDS AgentLifecycle, TLAPS

(* A request that was received names an agent. *)
LEMMA Received ==
    ASSUME TypeOK, NEW r \in Requests, req[r].pc # "idle"
    PROVE  /\ req[r].op \in Ops
           /\ req[r].agent \in Agents
           /\ row[req[r].agent] \in Row
           /\ Record(r) \in Entry
<1>1. req[r].op \in Ops /\ req[r].agent \in Agents
  BY DEF TypeOK
<1>2. row[req[r].agent] \in Row
  BY <1>1 DEF TypeOK
<1>3. Record(r) \in Entry
  BY <1>1 DEF Record, Entry
<1> QED
  BY <1>1, <1>2, <1>3

(* A step that moves the pc of one received request keeps the requests typed. *)
LEMMA GotoType ==
    ASSUME TypeOK, NEW r \in Requests, req[r].pc # "idle",
           NEW pc \in InFlight \cup Final, Goto(r, pc)
    PROVE  /\ req' \in [Requests -> Request]
           /\ \A q \in Requests :
                req'[q].pc # "idle" => req'[q].op \in Ops /\ req'[q].agent \in Agents
<1>1. req' = [req EXCEPT ![r].pc = pc]
  BY DEF Goto
<1>2. req' \in [Requests -> Request]
  <2>1. req[r] \in Request
    BY DEF TypeOK
  <2>2. [req[r] EXCEPT !.pc = pc] \in Request
    BY <2>1 DEF Request
  <2> QED
    BY <1>1, <2>2 DEF TypeOK
<1>3. ASSUME NEW q \in Requests, req'[q].pc # "idle"
      PROVE  req'[q].op \in Ops /\ req'[q].agent \in Agents
  <2>1. req'[q].op = req[q].op /\ req'[q].agent = req[q].agent
    BY <1>1 DEF TypeOK, Request
  <2>2. req[q].pc # "idle"
    BY <1>1, <1>3 DEF TypeOK, Request
  <2> QED
    BY <2>1, <2>2 DEF TypeOK
<1> QED
  BY <1>2, <1>3

LEMMA CheckType ==
    ASSUME TypeOK, NEW r \in Requests, NEW op \in Ops, NEW admitted,
           Check(r, op, admitted)
    PROVE  TypeOK'
<1>1. PICK pc \in {"write", "refused"} : Goto(r, pc)
  BY DEF Check
<1>2. pc \in InFlight \cup Final /\ req[r].pc # "idle"
  BY <1>1 DEF InFlight, Final, Check
<1>3. UNCHANGED <<row, proven, trail, events, history, lost>>
  BY DEF Check
<1> QED
  BY <1>1, <1>2, <1>3, GotoType DEF TypeOK

LEMMA StatementType ==
    ASSUME TypeOK, NEW r \in Requests, NEW op \in Ops, NEW where,
           NEW new \in Row, NEW next \in InFlight,
           Statement(r, op, where, new, next)
    PROVE  TypeOK'
<1>1. req[r].pc # "idle"
  BY DEF Statement
<1>2. PICK pc \in {next, "refused"} : Goto(r, pc)
  BY DEF Statement
<1>3. pc \in InFlight \cup Final
  BY <1>2 DEF Final
<1>4. row' \in [Agents -> Row]
  BY Received, <1>1 DEF Statement, TypeOK
<1>5. history' \in Seq(Entry)
  <2>1. Record(r) \in Entry /\ history \in Seq(Entry)
    BY Received, <1>1 DEF TypeOK
  <2>2. history' = history \/ history' = Append(history, Record(r))
    BY DEF Statement
  <2> QED
    BY <2>1, <2>2
<1>6. UNCHANGED <<proven, trail, events, lost>>
  BY DEF Statement
<1> QED
  BY <1>1, <1>2, <1>3, <1>4, <1>5, <1>6, GotoType DEF TypeOK

LEMMA WithStatusType ==
    ASSUME TypeOK, NEW r \in Requests, req[r].pc # "idle", NEW s \in Status
    PROVE  WithStatus(r, s) \in Row
BY Received DEF WithStatus, Row

LEMMA InitType == Init => TypeOK
<1> SUFFICES ASSUME Init PROVE TypeOK
  OBVIOUS
<1>1. req \in [Requests -> Request]
  BY DEF Init, Request
<1>2. \A r \in Requests : req[r].pc = "idle"
  BY DEF Init
<1>3. trail \in Seq(Entry) /\ history \in Seq(Entry)
  BY DEF Init
<1> QED
  BY <1>1, <1>2, <1>3 DEF Init, TypeOK

(* The type invariant is inductive as it is. *)
LEMMA NextType ==
    ASSUME TypeOK, [Next]_vars
    PROVE  TypeOK'
<1>1. ASSUME NEW r \in Requests, NEW op \in Ops, NEW a \in Agents,
             Receive(r, op, a)
      PROVE  TypeOK'
  <2>1. PICK pc \in InFlight \cup Final :
          req' = [req EXCEPT ![r] = [pc |-> pc, op |-> op, agent |-> a,
                                     after |-> Answered]]
    BY <1>1 DEF Receive, InFlight, Final
  <2>2. [pc |-> pc, op |-> op, agent |-> a, after |-> Answered] \in Request
    BY DEF Request, Answered
  <2> QED
    BY <1>1, <2>1, <2>2 DEF Receive, TypeOK
<1>2. ASSUME NEW r \in Requests, NEW a \in Agents, ReceiveRegister(r, a)
      PROVE  TypeOK'
  <2>1. [pc |-> "read", op |-> "register", agent |-> a, after |-> Answered]
          \in Request
    BY DEF Request, Answered, InFlight, Ops
  <2>2. "register" \in Ops
    BY DEF Ops
  <2> QED
    BY <1>2, <2>1, <2>2 DEF ReceiveRegister, TypeOK
<1>3. ASSUME NEW r \in Requests, Handle(r)
      PROVE  TypeOK'
  <2>1. CASE CheckRegister(r)
    BY <2>1, CheckType DEF CheckRegister, Ops
  <2>2. CASE CheckActivate(r)
    BY <2>2, CheckType DEF CheckActivate, Ops
  <2>3. CASE CheckRevoke(r)
    BY <2>3, CheckType DEF CheckRevoke, Ops
  <2>4. CASE CheckSuspend(r)
    BY <2>4, CheckType DEF CheckSuspend, Ops
  <2>5. CASE CheckRestore(r)
    BY <2>5, CheckType DEF CheckRestore, Ops
  <2>6. CASE CheckDeprecate(r)
    BY <2>6, CheckType DEF CheckDeprecate, Ops
  <2>7. CASE CheckUpdate(r)
    BY <2>7, CheckType DEF CheckUpdate, Ops
  <2>8. CASE CreateRow(r)
    <3>1. [status |-> "pending", serial |-> "none"] \in Row
      BY DEF Row, Status, Stored, Serials
    <3> QED
      BY <2>8, <3>1, StatementType DEF CreateRow, Ops, InFlight
  <2>9. CASE ActivateWithCert(r)
    <3>1. [status |-> "active", serial |-> r] \in Row
      BY DEF Row, Status, Stored, Serials
    <3> QED
      BY <2>9, <3>1, StatementType DEF ActivateWithCert, Ops, InFlight
  <2>10. CASE RevokeRow(r)
    <3>1. WithStatus(r, "revoked") \in Row
      BY <2>10, WithStatusType DEF RevokeRow, Statement, Status, Stored
    <3> QED
      BY <2>10, <3>1, StatementType DEF RevokeRow, Ops, InFlight
  <2>11. CASE SuspendRow(r)
    <3>1. WithStatus(r, "suspended") \in Row
      BY <2>11, WithStatusType DEF SuspendRow, Statement, Status, Stored
    <3> QED
      BY <2>11, <3>1, StatementType DEF SuspendRow, Ops, InFlight
  <2>12. CASE RestoreRow(r)
    <3>1. WithStatus(r, "active") \in Row
      BY <2>12, WithStatusType DEF RestoreRow, Statement, Status, Stored
    <3> QED
      BY <2>12, <3>1, StatementType DEF RestoreRow, Ops, InFlight
  <2>13. CASE DeprecateRow(r)
    <3>1. WithStatus(r, "deprecated") \in Row
      BY <2>13, WithStatusType DEF DeprecateRow, Statement, Status, Stored
    <3> QED
      BY <2>13, <3>1, StatementType DEF DeprecateRow, Ops, InFlight
  <2>14. CASE UpdateRow(r)
    <3>1. row[req[r].agent] \in Row
      BY <2>14, Received DEF UpdateRow, Statement
    <3> QED
      BY <2>14, <3>1, StatementType DEF UpdateRow, Ops, InFlight
  <2>15. CASE DeleteRow(r)
    <3>1. WithStatus(r, "deleted") \in Row
      BY <2>15, WithStatusType DEF DeleteRow, Statement, Status
    <3> QED
      BY <2>15, <3>1, StatementType DEF DeleteRow, Ops, InFlight
  <2>16. CASE AppendLedger(r)
    <3>1. req[r].pc # "idle" /\ Goto(r, "answer") /\ "answer" \in InFlight
      BY <2>16 DEF AppendLedger, InFlight
    <3>2. trail' \in Seq(Entry)
      <4>1. Record(r) \in Entry /\ trail \in Seq(Entry)
        BY <3>1, Received DEF TypeOK
      <4>2. trail' = Append(trail, Record(r)) \/ trail' = trail
        BY <2>16 DEF AppendLedger
      <4> QED
        BY <4>1, <4>2
    <3> QED
      BY <2>16, <3>1, <3>2, GotoType DEF AppendLedger, TypeOK
  <2>17. CASE Answer(r)
    <3>1. req[r].pc # "idle" /\ Goto(r, "done") /\ "done" \in Final
      BY <2>17 DEF Answer, Final
    <3> QED
      BY <2>17, <3>1, GotoType DEF Answer, TypeOK
  <2> QED
    BY <1>3, <2>1, <2>2, <2>3, <2>4, <2>5, <2>6, <2>7, <2>8, <2>9, <2>10,
       <2>11, <2>12, <2>13, <2>14, <2>15, <2>16, <2>17 DEF Handle
<1>4. ASSUME NEW r \in Requests, Fail(r)
      PROVE  TypeOK'
  <2>1. req[r].pc # "idle" /\ Goto(r, "refused") /\ "refused" \in Final
    BY <1>4 DEF Fail, Final
  <2> QED
    BY <1>4, <2>1, GotoType DEF Fail, TypeOK
<1>5. CASE Crash
  <2>1. req' = [r \in Requests |-> IF req[r].pc \in InFlight
                                   THEN [req[r] EXCEPT !.pc = "dead"]
                                   ELSE req[r]]
    BY <1>5 DEF Crash
  <2>2. req' \in [Requests -> Request]
    <3>1. ASSUME NEW q \in Requests PROVE req'[q] \in Request
      <4>1. req[q] \in Request
        BY DEF TypeOK
      <4>2. [req[q] EXCEPT !.pc = "dead"] \in Request
        BY <4>1 DEF Request, Final
      <4> QED
        BY <2>1, <4>1, <4>2
    <3> QED
      BY <2>1, <3>1
  <2>3. ASSUME NEW q \in Requests, req'[q].pc # "idle"
        PROVE  req'[q].op \in Ops /\ req'[q].agent \in Agents
    <3>1. req'[q].op = req[q].op /\ req'[q].agent = req[q].agent
      BY <2>1 DEF TypeOK, Request
    <3>2. req[q].pc # "idle"
      BY <2>1, <2>3 DEF TypeOK, Request, InFlight
    <3> QED
      BY <3>1, <3>2 DEF TypeOK
  <2> QED
    BY <1>5, <2>2, <2>3 DEF Crash, TypeOK
<1>6. ASSUME NEW s \in Subjects, Prove(s)
      PROVE  TypeOK'
  BY <1>6 DEF Prove, TypeOK
<1>7. CASE UNCHANGED vars
  BY <1>7 DEF vars, TypeOK
<1> QED
  BY <1>1, <1>2, <1>3, <1>4, <1>5, <1>6, <1>7 DEF Next

(* Every variable has its type: no interleaving of handlers, failures and   *)
(* crashes leaves the table, a request or the ledger ill-formed.           *)
THEOREM TypeCorrect == Spec => []TypeOK
<1>1. Init => TypeOK
  BY InitType
<1>2. TypeOK /\ [Next]_vars => TypeOK'
  BY NextType
<1> QED
  BY <1>1, <1>2, PTL DEF Spec

-----------------------------------------------------------------------------
(* The inductive invariant.  The actions are grouped by what they change:   *)
(* a request arrives, a request moves on, a statement is carried out, an    *)
(* entry is appended, the process stops, a subject is proven.              *)

IsCheck(r) ==
    \/ CheckRegister(r) \/ CheckActivate(r) \/ CheckRevoke(r)
    \/ CheckSuspend(r) \/ CheckRestore(r) \/ CheckDeprecate(r)
    \/ CheckUpdate(r)

IsStatement(r) ==
    \/ CreateRow(r) \/ ActivateWithCert(r) \/ RevokeRow(r) \/ SuspendRow(r)
    \/ RestoreRow(r) \/ DeprecateRow(r) \/ UpdateRow(r) \/ DeleteRow(r)

(* What the statement of request r makes of its agent's row. *)
Effect(r, new) ==
    LET old == row[req[r].agent] IN
    \/ /\ req[r].op = "register"
       /\ old.status = "absent"
       /\ new = [status |-> "pending", serial |-> "none"]
    \/ /\ req[r].op = "activate"
       /\ old.status \in Stored
       /\ new = [status |-> "active", serial |-> r]
    \/ /\ req[r].op \notin {"register", "activate"}
       /\ new.serial = old.serial
       /\ \/ old.status \in Stored /\ new.status = "revoked"
          \/ old.status = "active" /\ new.status = "suspended"
          \/ old.status = "suspended" /\ new.status = "active"
          \/ old.status = "active" /\ new.status = "deprecated"
          \/ old.status \in Stored /\ new = old
          \/ old.status \in Stored /\ new.status = "deleted"

(* A statement that changes a row changes it as its operation says and is   *)
(* followed by the append, or by the answer after a deletion; the request   *)
(* whose statement changed none, or was not answered, is refused.          *)
LEMMA StatementEffect ==
    ASSUME TypeOK, NEW r \in Requests, IsStatement(r)
    PROVE  /\ req[r].pc = "write"
           /\ UNCHANGED <<proven, trail, events, lost>>
           /\ \/ /\ UNCHANGED <<row, history>>
                 /\ Goto(r, "refused")
              \/ /\ \E new \in Row :
                       /\ Effect(r, new)
                       /\ row' = [row EXCEPT ![req[r].agent] = new]
                 /\ history' = Append(history, Record(r))
                 /\ \/ Goto(r, "refused")
                    \/ Goto(r, "append")
                    \/ Goto(r, "answer") /\ req[r].op = "delete"
<1>1. req[r].pc = "write" /\ UNCHANGED <<proven, trail, events, lost>>
  BY DEF IsStatement, CreateRow, ActivateWithCert, RevokeRow, SuspendRow,
         RestoreRow, DeprecateRow, UpdateRow, DeleteRow, Statement
<1>2. ASSUME NEW op, NEW where, NEW new \in Row, NEW next \in {"append", "answer"},
             Statement(r, op, where, new, next),
             next = "answer" => op = "delete",
             row[req[r].agent].status \in where /\ req[r].op = op
                 => Effect(r, new)
      PROVE  \/ /\ UNCHANGED <<row, history>>
                /\ Goto(r, "refused")
             \/ /\ \E n \in Row :
                      /\ Effect(r, n)
                      /\ row' = [row EXCEPT ![req[r].agent] = n]
                /\ history' = Append(history, Record(r))
                /\ \/ Goto(r, "refused")
                   \/ Goto(r, "append")
                   \/ Goto(r, "answer") /\ req[r].op = "delete"
  <2>1. CASE /\ row[req[r].agent].status \in where
             /\ row' = [row EXCEPT ![req[r].agent] = new]
             /\ history' = Append(history, Record(r))
             /\ \E pc \in {next, "refused"} : Goto(r, pc)
    <3>1. req[r].op = op
      BY <1>2 DEF Statement
    <3>2. \/ Goto(r, "refused")
          \/ Goto(r, "append")
          \/ Goto(r, "answer") /\ req[r].op = "delete"
      BY <1>2, <2>1, <3>1
    <3> QED
      BY <1>2, <2>1, <3>1, <3>2
  <2>2. CASE Goto(r, "refused") /\ UNCHANGED <<row, history>>
    BY <2>2
  <2> QED
    BY <1>2, <2>1, <2>2 DEF Statement
<1>3. req[r].pc # "idle" /\ row[req[r].agent] \in Row
  BY <1>1, Received
<1>4. CASE CreateRow(r)
  <2> DEFINE new == [status |-> "pending", serial |-> "none"]
  <2>1. new \in Row
    BY DEF Row, Status, Stored, Serials
  <2>2. row[req[r].agent].status \in {"absent"} /\ req[r].op = "register"
          => Effect(r, new)
    BY DEF Effect
  <2> QED
    BY <1>1, <1>2, <1>4, <2>1, <2>2 DEF CreateRow
<1>5. CASE ActivateWithCert(r)
  <2> DEFINE new == [status |-> "active", serial |-> r]
  <2>1. new \in Row
    BY DEF Row, Status, Stored, Serials
  <2>2. row[req[r].agent].status \in Stored /\ req[r].op = "activate"
          => Effect(r, new)
    BY DEF Effect
  <2> QED
    BY <1>1, <1>2, <1>5, <2>1, <2>2 DEF ActivateWithCert
<1>6. ASSUME NEW s \in Status
      PROVE  /\ WithStatus(r, s) \in Row
             /\ WithStatus(r, s).serial = row[req[r].agent].serial
             /\ WithStatus(r, s).status = s
  BY <1>3 DEF WithStatus, Row
<1>7. {"revoked", "suspended", "active", "deprecated", "deleted"} \subseteq Status
  BY DEF Status, Stored
<1>8. CASE RevokeRow(r)
  <2>1. row[req[r].agent].status \in Stored /\ req[r].op = "revoke"
          => Effect(r, WithStatus(r, "revoked"))
    BY <1>6, <1>7 DEF Effect
  <2> QED
    BY <1>1, <1>2, <1>6, <1>7, <1>8, <2>1 DEF RevokeRow
<1>9. CASE SuspendRow(r)
  <2>1. row[req[r].agent].status \in {"active"} /\ req[r].op = "suspend"
          => Effect(r, WithStatus(r, "suspended"))
    BY <1>6, <1>7 DEF Effect
  <2> QED
    BY <1>1, <1>2, <1>6, <1>7, <1>9, <2>1 DEF SuspendRow
<1>10. CASE RestoreRow(r)
  <2>1. row[req[r].agent].status \in {"suspended"} /\ req[r].op = "restore"
          => Effect(r, WithStatus(r, "active"))
    BY <1>6, <1>7 DEF Effect
  <2> QED
    BY <1>1, <1>2, <1>6, <1>7, <1>10, <2>1 DEF RestoreRow
<1>11. CASE DeprecateRow(r)
  <2>1. row[req[r].agent].status \in {"active"} /\ req[r].op = "deprecate"
          => Effect(r, WithStatus(r, "deprecated"))
    BY <1>6, <1>7 DEF Effect
  <2> QED
    BY <1>1, <1>2, <1>6, <1>7, <1>11, <2>1 DEF DeprecateRow
<1>12. CASE UpdateRow(r)
  <2>1. row[req[r].agent].status \in Stored /\ req[r].op = "update"
          => Effect(r, row[req[r].agent])
    BY DEF Effect
  <2> QED
    BY <1>1, <1>2, <1>3, <1>12, <2>1 DEF UpdateRow
<1>13. CASE DeleteRow(r)
  <2>1. row[req[r].agent].status \in Stored /\ req[r].op = "delete"
          => Effect(r, WithStatus(r, "deleted"))
    BY <1>6, <1>7 DEF Effect
  <2> QED
    BY <1>1, <1>2, <1>6, <1>7, <1>13, <2>1 DEF DeleteRow
<1> QED
  BY <1>4, <1>5, <1>8, <1>9, <1>10, <1>11, <1>12, <1>13 DEF IsStatement

LEMMA InitInductive == Init => Inductive
<1> SUFFICES ASSUME Init PROVE Inductive
  OBVIOUS
<1>1. TypeOK
  BY InitType
<1>2. /\ \A r \in Requests : req[r].pc = "idle" /\ req[r].after = {}
      /\ DOMAIN history = {} /\ DOMAIN trail = {}
      /\ \A a \in Agents : row[a].serial \notin Requests
  BY DEF Init
<1>3. FreshInv /\ UnloggedInv /\ PendingInv /\ HistoryInv /\ AdmittedInv
  BY <1>2 DEF FreshInv, UnloggedInv, PendingInv, HistoryInv, AdmittedInv
<1>4. AfterInv /\ SerialInv /\ LoggedInv /\ NoPhantomEntries /\ RealTimeOrder
  BY <1>2 DEF AfterInv, SerialInv, LoggedInv, NoPhantomEntries, RealTimeOrder
<1>5. GateHolds
  BY DEF Init, GateHolds
<1> QED
  BY <1>1, <1>3, <1>4, <1>5 DEF Inductive

(* What moving the pc of request r leaves alone. *)
LEMMA Moved ==
    ASSUME TypeOK, NEW r \in Requests, NEW pc, Goto(r, pc)
    PROVE  /\ req'[r].pc = pc
           /\ \A q \in Requests :
                 /\ q # r => req'[q].pc = req[q].pc
                 /\ req'[q].op = req[q].op
                 /\ req'[q].agent = req[q].agent
                 /\ req'[q].after = req[q].after
                 /\ Record(q)' = Record(q)
<1>1. req' = [req EXCEPT ![r].pc = pc]
  BY DEF Goto
<1>2. req \in [Requests -> Request]
  BY DEF TypeOK
<1>3. /\ req'[r].pc = pc
      /\ \A q \in Requests :
            /\ q # r => req'[q].pc = req[q].pc
            /\ req'[q].op = req[q].op
            /\ req'[q].agent = req[q].agent
            /\ req'[q].after = req[q].after
  BY <1>1, <1>2 DEF Request
<1> QED
  BY <1>3 DEF Record

(* The entries of the history and of the ledger. *)
LEMMA EntryFacts ==
    ASSUME TypeOK
    PROVE  /\ \A k \in DOMAIN history : /\ history[k] \in Entry
                                        /\ history[k].by \in Requests
                                        /\ history[k].agent \in Agents
           /\ \A i \in DOMAIN trail : /\ trail[i] \in Entry
                                      /\ trail[i].by \in Requests
           /\ \A r \in Requests : Record(r).by = r
<1>1. /\ \A k \in DOMAIN history : history[k] \in Entry
      /\ \A i \in DOMAIN trail : trail[i] \in Entry
  BY DEF TypeOK
<1>2. \A e \in Entry : e.by \in Requests /\ e.agent \in Agents
  BY DEF Entry
<1>3. \A r \in Requests : Record(r).by = r
  BY DEF Record
<1> QED
  BY <1>1, <1>2, <1>3

(* A request arrives: it is new to the history and the ledger, and what was *)
(* answered before it stays answered.                                      *)
LEMMA ArriveKeeps ==
    ASSUME Inductive, TypeOK', NEW r \in Requests, req[r].pc = "idle",
           NEW pc \in {"read", "write", "refused"}, NEW op \in Ops,
           NEW a \in Agents, pc = "write" => op # "activate",
           req' = [req EXCEPT ![r] = [pc |-> pc, op |-> op, agent |-> a,
                                      after |-> Answered]],
           UNCHANGED <<row, proven, trail, events, history, lost>>
    PROVE  Inductive'
<1>1. /\ \A q \in Requests : q # r => req'[q] = req[q] /\ Record(q)' = Record(q)
      /\ req'[r] = [pc |-> pc, op |-> op, agent |-> a, after |-> Answered]
  BY DEF Inductive, TypeOK, Record
<1>2. /\ \A k \in DOMAIN history : history[k].by # r
      /\ \A i \in DOMAIN trail : trail[i].by # r
      /\ \A b \in Agents : row[b].serial # r
  BY DEF Inductive, FreshInv, UnloggedInv, Unwritten
<1>3. TypeOK
  BY DEF Inductive
<1>4. FreshInv' /\ UnloggedInv'
  BY <1>1, <1>2 DEF Inductive, FreshInv, UnloggedInv, Unwritten
<1>5. PendingInv' /\ HistoryInv' /\ AdmittedInv'
  BY <1>1, <1>2, <1>3, EntryFacts
  DEF Inductive, PendingInv, HistoryInv, AdmittedInv, GateOpen
<1>6. AfterInv'
  BY <1>1, <1>3 DEF Inductive, AfterInv, Answered, TypeOK, Request
<1>7. SerialInv' /\ GateHolds'
  BY DEF Inductive, SerialInv, LatestActivation, GateHolds
<1>8. LoggedInv'
  BY <1>1, <1>2, <1>3, EntryFacts DEF Inductive, LoggedInv
<1>9. NoPhantomEntries' /\ RealTimeOrder'
  BY <1>1, <1>2, <1>3, EntryFacts
  DEF Inductive, NoPhantomEntries, RealTimeOrder
<1> QED
  BY <1>4, <1>5, <1>6, <1>7, <1>8, <1>9 DEF Inductive

(* A request moves on, or gives up, and nothing else changes. *)
LEMMA MoveKeeps ==
    ASSUME Inductive, TypeOK', NEW r \in Requests,
           NEW pc \in {"write", "refused", "done"}, Goto(r, pc),
           req[r].pc \in {"read", "write", "answer"},
           pc = "write" => /\ req[r].pc = "read"
                           /\ req[r].op = "activate" => GateOpen(req[r].agent),
           pc = "done" => req[r].pc = "answer",
           pc = "refused" => req[r].pc # "answer",
           UNCHANGED <<row, proven, trail, history, lost>>
    PROVE  Inductive'
<1>1. TypeOK
  BY DEF Inductive
<1>2. FreshInv' /\ UnloggedInv' /\ PendingInv' /\ AdmittedInv'
  BY <1>1, Moved
  DEF Inductive, FreshInv, UnloggedInv, PendingInv, AdmittedInv, Unwritten,
      GateOpen
<1>3. HistoryInv' /\ LoggedInv'
  <2>1. /\ \A q \in Requests : Record(q)' = Record(q)
        /\ \A q \in Requests : req'[q].pc \in {"answer", "done"} =>
                                req[q].pc \in {"answer", "done"}
    BY <1>1, Moved
  <2>2. \A k \in DOMAIN history : history[k].by \in Requests
    BY <1>1, EntryFacts
  <2>3. HistoryInv'
    BY <2>1, <2>2 DEF Inductive, HistoryInv
  <2>4. LoggedInv'
    BY <2>1, <2>2 DEF Inductive, LoggedInv
  <2> QED
    BY <2>3, <2>4
<1>4. AfterInv'
  <2>1. \A q \in Requests : /\ req'[q].after = req[q].after
                            /\ req[q].after \subseteq Requests
                            /\ req[q].pc = "done" => req'[q].pc = "done"
    BY <1>1, Moved DEF TypeOK, Request
  <2> QED
    BY <2>1 DEF Inductive, AfterInv
<1>5. SerialInv' /\ GateHolds' /\ NoPhantomEntries'
  BY DEF Inductive, SerialInv, LatestActivation, GateHolds, NoPhantomEntries
<1>6. RealTimeOrder'
  BY <1>1, Moved, EntryFacts DEF Inductive, RealTimeOrder
<1> QED
  BY <1>2, <1>3, <1>4, <1>5, <1>6 DEF Inductive

(* A statement changes the row of its agent and becomes the last write of   *)
(* the history.                                                            *)
LEMMA WriteKeeps ==
    ASSUME Inductive, TypeOK', NEW r \in Requests, req[r].pc = "write",
           NEW new \in Row, Effect(r, new),
           row' = [row EXCEPT ![req[r].agent] = new],
           history' = Append(history, Record(r)),
           NEW pc \in {"refused", "append", "answer"}, Goto(r, pc),
           pc = "answer" => req[r].op = "delete",
           UNCHANGED <<proven, trail, events, lost>>
    PROVE  Inductive'
<1> DEFINE n == Len(history)
           b == req[r].agent
<1>1. TypeOK /\ b \in Agents /\ row[b] \in Row /\ Record(r) \in Entry
  BY Received DEF Inductive
<1>2. /\ row'[b] = new
      /\ \A a \in Agents : a # b => row'[a] = row[a]
  BY <1>1 DEF TypeOK
<1>3. /\ n \in Nat
      /\ DOMAIN history = 1..n
      /\ DOMAIN history' = 1..(n + 1)
      /\ \A k \in 1..n : history'[k] = history[k]
      /\ history'[n + 1] = Record(r)
  BY <1>1 DEF TypeOK
<1>4. /\ req'[r].pc = pc
      /\ \A q \in Requests :
            /\ q # r => req'[q].pc = req[q].pc
            /\ req'[q].op = req[q].op
            /\ req'[q].agent = req[q].agent
            /\ req'[q].after = req[q].after
            /\ Record(q)' = Record(q)
  BY <1>1, Moved
<1>5. /\ \A k \in DOMAIN history : /\ history[k].by \in Requests
                                   /\ history[k].agent \in Agents
      /\ \A i \in DOMAIN trail : trail[i].by \in Requests
  BY <1>1, EntryFacts
<1>6. Record(r).by = r /\ Record(r).agent = b /\ Record(r).action = req[r].op
  BY DEF Record
<1>7. /\ \A k \in DOMAIN history : history[k].by # r
      /\ \A i \in DOMAIN trail : trail[i].by # r
  BY DEF Inductive, FreshInv, UnloggedInv, Unwritten
<1>8. FreshInv'
  <2>1. new.serial \in {"none", r, row[b].serial}
    BY DEF Effect
  <2>2. "none" \notin Requests
    BY RequestAssumption
  <2>3. ASSUME NEW q \in Requests, req'[q].pc \in Unwritten
        PROVE  /\ \A k \in DOMAIN history' : history'[k].by # q
               /\ \A a \in Agents : row'[a].serial # q
    <3>1. q # r /\ req[q].pc \in Unwritten
      BY <1>4, <2>3 DEF Unwritten
    <3>2. /\ \A k \in DOMAIN history : history[k].by # q
          /\ \A a \in Agents : row[a].serial # q
      BY <3>1 DEF Inductive, FreshInv
    <3> QED
      BY <1>1, <1>2, <1>3, <1>6, <2>1, <2>2, <3>1, <3>2
  <2> QED
    BY <2>3 DEF FreshInv, Unwritten
<1>9. UnloggedInv'
  BY <1>4, <1>7 DEF Inductive, UnloggedInv, Unwritten
<1>10. PendingInv'
  BY <1>3, <1>4 DEF Inductive, PendingInv
<1>11. HistoryInv'
  <2>1. new.status # "absent"
    BY DEF Effect, Stored
  <2>2. ASSUME NEW k \in 1..(n + 1)
        PROVE  /\ history'[k] = Record(history[k].by)'
               /\ row'[history'[k].agent].status # "absent"
    <3>1. CASE k \in 1..n
      <4>1. /\ history[k] = Record(history[k].by)
            /\ row[history[k].agent].status # "absent"
        BY <1>3, <3>1 DEF Inductive, HistoryInv
      <4>2. Record(history[k].by)' = Record(history[k].by)
        BY <1>3, <1>4, <1>5, <3>1
      <4> QED
        BY <1>2, <1>3, <1>5, <2>1, <3>1, <4>1, <4>2
    <3>2. CASE k = n + 1
      BY <1>2, <1>3, <1>4, <1>6, <2>1, <3>2
    <3> QED
      BY <1>3, <3>1, <3>2
  <2> QED
    BY <1>3, <2>2 DEF HistoryInv
<1>12. AdmittedInv'
  BY <1>4 DEF Inductive, AdmittedInv, GateOpen
<1>13. AfterInv'
  <2>1. \A q \in Requests : req[q].after \subseteq Requests
    BY <1>1 DEF TypeOK, Request
  <2> QED
    BY <1>4, <2>1 DEF Inductive, AfterInv
<1>14. SerialInv'
  <2>1. ASSUME NEW a \in Agents, NEW k \in DOMAIN history',
               LatestActivation(a, k)'
        PROVE  row'[a].serial = history'[k].by
    <3>1. CASE k = n + 1
      <4>1. a = b /\ req[r].op = "activate"
        BY <1>3, <1>6, <2>1, <3>1 DEF LatestActivation
      <4> QED
        BY <1>2, <1>3, <1>6, <3>1, <4>1 DEF Effect
    <3>2. CASE k \in 1..n
      <4>1. a # b \/ req[r].op # "activate"
        BY <1>3, <1>6, <2>1, <3>2 DEF LatestActivation
      <4>2. LatestActivation(a, k)
        BY <1>3, <2>1, <3>2 DEF LatestActivation
      <4>3. row[a].serial = history[k].by
        BY <1>3, <3>2, <4>2 DEF Inductive, SerialInv
      <4>4. row[a].status # "absent"
        BY <1>3, <3>2, <4>2 DEF Inductive, HistoryInv, LatestActivation
      <4>5. row'[a].serial = row[a].serial
        BY <1>2, <4>1, <4>4 DEF Effect
      <4> QED
        BY <1>3, <3>2, <4>3, <4>5
    <3> QED
      BY <1>3, <3>1, <3>2
  <2> QED
    BY <2>1 DEF SerialInv
<1>15. LoggedInv'
  <2>1. ASSUME NEW k \in DOMAIN history',
               req'[history'[k].by].pc \in {"answer", "done"},
               history'[k].action # "delete"
        PROVE  \/ history'[k].by \in lost
               \/ \E i \in DOMAIN trail : trail[i] = history'[k]
    <3>1. k # n + 1
      BY <1>3, <1>4, <1>6, <2>1
    <3>2. k \in DOMAIN history /\ history'[k] = history[k]
      BY <1>3, <3>1
    <3>3. req[history[k].by].pc \in {"answer", "done"}
      BY <1>4, <1>5, <1>7, <2>1, <3>2
    <3> QED
      BY <2>1, <3>2, <3>3 DEF Inductive, LoggedInv
  <2> QED
    BY <2>1 DEF LoggedInv
<1>16. GateHolds'
  <2>1. new.status \in Activated => SubjectOf[b] \in proven
    BY <1>1 DEF Inductive, AdmittedInv, GateHolds, GateOpen, Effect, Activated
  <2> QED
    BY <1>1, <1>2, <2>1 DEF Inductive, GateHolds
<1>17. NoPhantomEntries'
  BY <1>3 DEF Inductive, NoPhantomEntries
<1>18. RealTimeOrder'
  BY <1>4, <1>5 DEF Inductive, RealTimeOrder
<1> QED
  BY <1>8, <1>9, <1>10, <1>11, <1>12, <1>13, <1>14, <1>15, <1>16, <1>17,
     <1>18 DEF Inductive

(* An entry is appended, or the append fails and the request is lost. *)
LEMMA AppendKeeps ==
    ASSUME Inductive, TypeOK', NEW r \in Requests, AppendLedger(r)
    PROVE  Inductive'
<1> DEFINE n == Len(trail)
<1>1. TypeOK /\ req[r].pc = "append" /\ Goto(r, "answer")
  BY DEF Inductive, AppendLedger
<1>2. UNCHANGED <<row, proven, events, history>>
  BY DEF AppendLedger
<1>3. /\ req'[r].pc = "answer"
      /\ \A q \in Requests :
            /\ q # r => req'[q].pc = req[q].pc
            /\ req'[q].op = req[q].op
            /\ req'[q].agent = req[q].agent
            /\ req'[q].after = req[q].after
            /\ Record(q)' = Record(q)
  BY <1>1, Moved
<1>4. /\ \A k \in DOMAIN history : history[k].by \in Requests
      /\ \A i \in DOMAIN trail : trail[i].by \in Requests
      /\ Record(r).by = r
  BY <1>1, EntryFacts
<1>5. PICK h \in DOMAIN history : history[h] = Record(r)
  BY <1>1 DEF Inductive, PendingInv
<1>6. \A i \in DOMAIN trail : trail[i].by # r
  BY <1>1 DEF Inductive, UnloggedInv
<1>7. \A q \in Requests : req[q].after \subseteq Requests
  BY <1>1 DEF TypeOK, Request
<1>8. /\ n \in Nat
      /\ DOMAIN trail = 1..n
      /\ \/ trail' = trail /\ lost' = lost \cup {r}
         \/ /\ lost' = lost
            /\ DOMAIN trail' = 1..(n + 1)
            /\ \A i \in 1..n : trail'[i] = trail[i]
            /\ trail'[n + 1] = Record(r)
  <2>1. trail \in Seq(Entry) /\ Record(r) \in Entry
    BY <1>1, Received DEF TypeOK
  <2> QED
    BY <2>1 DEF AppendLedger
<1>9. FreshInv' /\ PendingInv' /\ AdmittedInv'
  BY <1>2, <1>3 DEF Inductive, FreshInv, PendingInv, AdmittedInv, Unwritten,
                    GateOpen
<1>10. UnloggedInv'
  BY <1>3, <1>4, <1>8 DEF Inductive, UnloggedInv, Unwritten
<1>11. HistoryInv'
  BY <1>2, <1>3, <1>4 DEF Inductive, HistoryInv
<1>12. AfterInv'
  BY <1>1, <1>3, <1>7 DEF Inductive, AfterInv
<1>13. SerialInv' /\ GateHolds'
  BY <1>2 DEF Inductive, SerialInv, LatestActivation, GateHolds
<1>14. LoggedInv'
  <2>1. ASSUME NEW k \in DOMAIN history,
               req'[history[k].by].pc \in {"answer", "done"},
               history[k].action # "delete"
        PROVE  \/ history[k].by \in lost'
               \/ \E i \in DOMAIN trail' : trail'[i] = history[k]
    <3>1. CASE history[k].by = r
      <4>1. history[k] = Record(r)
        BY <3>1 DEF Inductive, HistoryInv
      <4> QED
        BY <1>8, <3>1, <4>1
    <3>2. CASE history[k].by # r
      <4>1. \/ history[k].by \in lost
            \/ \E i \in DOMAIN trail : trail[i] = history[k]
        BY <1>3, <1>4, <2>1, <3>2 DEF Inductive, LoggedInv
      <4> QED
        BY <1>8, <4>1
    <3> QED
      BY <3>1, <3>2
  <2> QED
    BY <1>2, <2>1 DEF LoggedInv
<1>15. NoPhantomEntries'
  <2>1. CASE trail' = trail
    BY <1>2, <2>1 DEF Inductive, NoPhantomEntries
  <2>2. CASE /\ DOMAIN trail' = 1..(n + 1)
             /\ \A i \in 1..n : trail'[i] = trail[i]
             /\ trail'[n + 1] = Record(r)
    <3>1. \A i \in DOMAIN trail' : \E k \in DOMAIN history' :
                                       history'[k] = trail'[i]
      BY <1>2, <1>5, <1>8, <2>2 DEF Inductive, NoPhantomEntries
    <3>2. \A i, j \in DOMAIN trail' : trail'[i].by = trail'[j].by => i = j
      BY <1>4, <1>6, <1>8, <2>2 DEF Inductive, NoPhantomEntries
    <3> QED
      BY <3>1, <3>2 DEF NoPhantomEntries
  <2> QED
    BY <1>8, <2>1, <2>2
<1>16. RealTimeOrder'
  <2>1. ASSUME NEW i \in DOMAIN trail', NEW j \in DOMAIN trail', i < j
        PROVE  trail'[j].by \notin req'[trail'[i].by].after
    <3>1. CASE i \in DOMAIN trail /\ j \in DOMAIN trail
      BY <1>3, <1>4, <1>8, <2>1, <3>1 DEF Inductive, RealTimeOrder
    <3>2. CASE j = n + 1 /\ i \in DOMAIN trail /\ trail'[j] = Record(r)
      <4>1. trail'[i] = trail[i] /\ trail[i].by \in Requests
        BY <1>4, <1>8, <3>2
      <4>2. r \notin req[trail[i].by].after
        BY <1>1, <4>1 DEF Inductive, AfterInv
      <4> QED
        BY <1>3, <1>4, <3>2, <4>1, <4>2
    <3> QED
      BY <1>8, <2>1, <3>1, <3>2
  <2> QED
    BY <2>1 DEF RealTimeOrder
<1> QED
  BY <1>9, <1>10, <1>11, <1>12, <1>13, <1>14, <1>15, <1>16 DEF Inductive

(* A crash stops the requests in flight and nothing else. *)
LEMMA CrashKeeps ==
    ASSUME Inductive, TypeOK', Crash
    PROVE  Inductive'
<1>1. UNCHANGED <<row, proven, trail, events, history, lost>>
  BY DEF Crash
<1>2. TypeOK
  BY DEF Inductive
<1>3. \A q \in Requests :
         /\ req'[q].pc = IF req[q].pc \in InFlight THEN "dead" ELSE req[q].pc
         /\ req'[q].op = req[q].op
         /\ req'[q].agent = req[q].agent
         /\ req'[q].after = req[q].after
         /\ req[q].after \subseteq Requests
  BY <1>2 DEF Crash, TypeOK, Request
<1>4. \A q \in Requests : Record(q)' = Record(q)
  BY <1>3 DEF Record
<1>5. /\ \A k \in DOMAIN history : history[k].by \in Requests
      /\ \A i \in DOMAIN trail : trail[i].by \in Requests
  BY <1>2, EntryFacts
<1>6. \A q \in Requests :
         /\ req'[q].pc \in {"idle", "read", "write", "append", "answer", "done"}
              => req'[q].pc = req[q].pc
         /\ req[q].pc = "done" => req'[q].pc = "done"
  BY <1>3 DEF InFlight
<1>7. FreshInv' /\ UnloggedInv' /\ PendingInv' /\ AdmittedInv' /\ AfterInv'
  BY <1>1, <1>3, <1>4, <1>6
  DEF Inductive, FreshInv, UnloggedInv, PendingInv, AdmittedInv, AfterInv,
      Unwritten, GateOpen
<1>8. HistoryInv'
  BY <1>1, <1>4, <1>5 DEF Inductive, HistoryInv
<1>9. LoggedInv'
  BY <1>1, <1>5, <1>6 DEF Inductive, LoggedInv
<1>10. SerialInv' /\ GateHolds' /\ NoPhantomEntries'
  BY <1>1 DEF Inductive, SerialInv, LatestActivation, GateHolds,
              NoPhantomEntries
<1>11. RealTimeOrder'
  BY <1>1, <1>3, <1>5 DEF Inductive, RealTimeOrder
<1> QED
  BY <1>7, <1>8, <1>9, <1>10, <1>11 DEF Inductive

(* What is proven only grows. *)
LEMMA ProveKeeps ==
    ASSUME Inductive, TypeOK', NEW s \in Subjects, Prove(s)
    PROVE  Inductive'
<1>1. /\ UNCHANGED <<row, req, trail, events, history, lost>>
      /\ proven \subseteq proven'
  BY DEF Prove
<1>2. \A q \in Requests : Record(q)' = Record(q)
  BY <1>1 DEF Record
<1>3. \A k \in DOMAIN history : history[k].by \in Requests
  BY EntryFacts DEF Inductive
<1>4. HistoryInv' /\ PendingInv'
  BY <1>1, <1>2, <1>3 DEF Inductive, HistoryInv, PendingInv
<1> QED
  BY <1>1, <1>4
  DEF Inductive, FreshInv, UnloggedInv, AdmittedInv, AfterInv, Unwritten,
      SerialInv, LatestActivation, LoggedInv, GateHolds, GateOpen,
      NoPhantomEntries, RealTimeOrder

(* The statement of a request either changes nothing but the request, or is *)
(* a write.                                                                *)
LEMMA StatementKeeps ==
    ASSUME Inductive, TypeOK', NEW r \in Requests, IsStatement(r)
    PROVE  Inductive'
<1>1. TypeOK
  BY DEF Inductive
<1>2. /\ req[r].pc = "write"
      /\ UNCHANGED <<proven, trail, events, lost>>
  BY <1>1, StatementEffect
<1>3. CASE UNCHANGED <<row, history>> /\ Goto(r, "refused")
  BY <1>2, <1>3, MoveKeeps
<1>4. ASSUME NEW new \in Row,
             Effect(r, new),
             row' = [row EXCEPT ![req[r].agent] = new],
             history' = Append(history, Record(r)),
             \/ Goto(r, "refused")
             \/ Goto(r, "append")
             \/ Goto(r, "answer") /\ req[r].op = "delete"
      PROVE  Inductive'
  <2>1. PICK pc \in {"refused", "append", "answer"} :
          Goto(r, pc) /\ (pc = "answer" => req[r].op = "delete")
    BY <1>4
  <2> QED
    BY <1>2, <1>4, <2>1, WriteKeeps
<1> QED
  BY <1>1, <1>3, <1>4, StatementEffect

LEMMA CheckKeeps ==
    ASSUME Inductive, TypeOK', NEW r \in Requests, IsCheck(r)
    PROVE  Inductive'
<1>1. PICK pc \in {"write", "refused"} :
        /\ req[r].pc = "read"
        /\ Goto(r, pc)
        /\ pc = "write" /\ req[r].op = "activate" => GateOpen(req[r].agent)
        /\ UNCHANGED <<row, proven, trail, history, lost>>
  BY DEF IsCheck, CheckRegister, CheckActivate, CheckRevoke, CheckSuspend,
         CheckRestore, CheckDeprecate, CheckUpdate, Check
<1> QED
  BY <1>1, MoveKeeps

LEMMA NextInductive ==
    ASSUME Inductive, [Next]_vars
    PROVE  Inductive'
<1>1. TypeOK'
  BY NextType DEF Inductive
<1>2. ASSUME NEW r \in Requests, NEW op \in Ops, NEW a \in Agents,
             Receive(r, op, a)
      PROVE  Inductive'
  <2>1. PICK pc \in {"read", "write", "refused"} :
          /\ pc = "write" => op # "activate"
          /\ req' = [req EXCEPT ![r] = [pc |-> pc, op |-> op, agent |-> a,
                                        after |-> Answered]]
    BY <1>2 DEF Receive
  <2>2. req[r].pc = "idle" /\ UNCHANGED <<row, proven, trail, events, history, lost>>
    BY <1>2 DEF Receive
  <2> QED
    BY <1>1, <2>1, <2>2, ArriveKeeps
<1>3. ASSUME NEW r \in Requests, NEW a \in Agents, ReceiveRegister(r, a)
      PROVE  Inductive'
  <2>1. /\ req[r].pc = "idle"
        /\ UNCHANGED <<row, proven, trail, events, history, lost>>
        /\ req' = [req EXCEPT ![r] = [pc |-> "read", op |-> "register",
                                      agent |-> a, after |-> Answered]]
    BY <1>3 DEF ReceiveRegister
  <2>2. "register" \in Ops
    BY DEF Ops
  <2> QED
    BY <1>1, <2>1, <2>2, ArriveKeeps
<1>4. ASSUME NEW r \in Requests, Handle(r)
      PROVE  Inductive'
  <2>1. CASE IsCheck(r)
    BY <1>1, <2>1, CheckKeeps
  <2>2. CASE IsStatement(r)
    BY <1>1, <2>2, StatementKeeps
  <2>3. CASE AppendLedger(r)
    BY <1>1, <2>3, AppendKeeps
  <2>4. CASE Answer(r)
    BY <1>1, <2>4, MoveKeeps DEF Answer
  <2> QED
    BY <1>4, <2>1, <2>2, <2>3, <2>4 DEF Handle, IsCheck, IsStatement
<1>5. ASSUME NEW r \in Requests, Fail(r)
      PROVE  Inductive'
  BY <1>1, <1>5, MoveKeeps DEF Fail
<1>6. CASE Crash
  BY <1>1, <1>6, CrashKeeps
<1>7. ASSUME NEW s \in Subjects, Prove(s)
      PROVE  Inductive'
  BY <1>1, <1>7, ProveKeeps
<1>8. CASE UNCHANGED vars
  <2>1. UNCHANGED <<row, proven, req, trail, events, history, lost>>
    BY <1>8 DEF vars
  <2>2. \A q : Record(q)' = Record(q)
    BY <2>1 DEF Record
  <2>3. HistoryInv' /\ PendingInv'
    BY <2>1, <2>2 DEF Inductive, HistoryInv, PendingInv
  <2> QED
    BY <1>1, <2>1, <2>3
    DEF Inductive, FreshInv, UnloggedInv, AdmittedInv, AfterInv, Unwritten,
        SerialInv, LatestActivation, LoggedInv, GateHolds, GateOpen,
        NoPhantomEntries, RealTimeOrder
<1> QED
  BY <1>2, <1>3, <1>4, <1>5, <1>6, <1>7, <1>8 DEF Next

(* The inductive invariant holds of every reachable state. *)
THEOREM InductiveHolds == Spec => []Inductive
<1>1. Init => Inductive
  BY InitInductive
<1>2. Inductive /\ [Next]_vars => Inductive'
  BY NextInductive
<1> QED
  BY <1>1, <1>2, PTL DEF Spec

-----------------------------------------------------------------------------
(* What follows from it. *)

(* Nobody gets past activation whose domain or account was never proven,    *)
(* although the gate is checked in another step than the row is written.   *)
THEOREM GateTheorem == Spec => []GateHolds
<1>1. Inductive => GateHolds
  BY DEF Inductive
<1> QED
  BY <1>1, InductiveHolds, PTL

(* The ledger tells only of committed writes, and of each once at most. *)
THEOREM NoPhantomTheorem == Spec => []NoPhantomEntries
<1>1. Inductive => NoPhantomEntries
  BY DEF Inductive
<1> QED
  BY <1>1, InductiveHolds, PTL

(* The ledger never orders two operations against real time. *)
THEOREM RealTimeTheorem == Spec => []RealTimeOrder
<1>1. Inductive => RealTimeOrder
  BY DEF Inductive
<1> QED
  BY <1>1, InductiveHolds, PTL

(* An operation whose caller was told of its success is in the ledger, or   *)
(* its append failed, or it was a deletion.                                *)
THEOREM AnsweredTheorem == Spec => []AnsweredMeansLogged
<1>1. Inductive => AnsweredMeansLogged
  BY DEF Inductive, LoggedInv, AnsweredMeansLogged
<1> QED
  BY <1>1, InductiveHolds, PTL

(* The revocation list of a revoked agent holds the certificate that its    *)
(* last activation issued.                                                 *)
THEOREM LatestCertTheorem == Spec => []LatestCertListed
<1>1. Inductive => LatestCertListed
  <2> SUFFICES ASSUME Inductive, NEW a \in Agents, NEW k \in DOMAIN history,
                      row[a].status = "revoked", LatestActivation(a, k)
               PROVE  <<a, history[k].by>> \in CRL
    BY DEF LatestCertListed
  <2>1. row[a].serial = history[k].by
    BY DEF Inductive, SerialInv
  <2>2. history[k].by \in Requests
    BY EntryFacts DEF Inductive
  <2>3. row[a].serial # "none"
    BY <2>1, <2>2, RequestAssumption
  <2> QED
    BY <2>1, <2>3 DEF CRL
<1> QED
  BY <1>1, InductiveHolds, PTL

-----------------------------------------------------------------------------
(* What a step may do to the table. *)

LEMMA TableStep ==
    ASSUME Inductive, [Next]_vars
    PROVE  \/ UNCHANGED <<row, proven>>
           \/ row' = row /\ \E s \in Subjects : proven' = proven \cup {s}
           \/ \E r \in Requests, new \in Row :
                 /\ req[r].pc = "write"
                 /\ Effect(r, new)
                 /\ row' = [row EXCEPT ![req[r].agent] = new]
                 /\ UNCHANGED proven
<1>1. ASSUME NEW r \in Requests, IsStatement(r)
      PROVE  \/ UNCHANGED <<row, proven>>
             \/ \E new \in Row :
                   /\ req[r].pc = "write"
                   /\ Effect(r, new)
                   /\ row' = [row EXCEPT ![req[r].agent] = new]
                   /\ UNCHANGED proven
  BY <1>1, StatementEffect DEF Inductive
<1>2. ASSUME NEW r \in Requests,
             \/ \E op \in Ops, a \in Agents : Receive(r, op, a)
             \/ \E a \in Agents : ReceiveRegister(r, a)
             \/ IsCheck(r) \/ AppendLedger(r) \/ Answer(r) \/ Fail(r)
      PROVE  UNCHANGED <<row, proven>>
  BY <1>2 DEF Receive, ReceiveRegister, IsCheck, CheckRegister, CheckActivate,
              CheckRevoke, CheckSuspend, CheckRestore, CheckDeprecate,
              CheckUpdate, Check, AppendLedger, Answer, Fail
<1>3. ASSUME Crash \/ UNCHANGED vars
      PROVE  UNCHANGED <<row, proven>>
  BY <1>3 DEF Crash, vars
<1>4. ASSUME NEW s \in Subjects, Prove(s)
      PROVE  row' = row /\ proven' = proven \cup {s}
  BY <1>4 DEF Prove
<1> QED
  BY <1>1, <1>2, <1>3, <1>4 DEF Next, Handle, IsCheck, IsStatement

(* Only a deletion, or an activation with a new certificate, takes a row    *)
(* out of "revoked".                                                       *)
THEOREM UnrevokeTheorem == Spec => OnlyActivateUnrevokes
<1> DEFINE Kept == \A a \in Agents :
                      row[a].status = "revoked" /\ row'[a].status # "revoked" =>
                          \/ row'[a].status = "deleted"
                          \/ /\ row'[a].status = "active"
                             /\ row'[a].serial # row[a].serial
<1>1. Inductive /\ [Next]_vars => [Kept]_vars
  <2> SUFFICES ASSUME Inductive, [Next]_vars, NEW a \in Agents,
                      row[a].status = "revoked", row'[a].status # "revoked"
               PROVE  \/ row'[a].status = "deleted"
                      \/ /\ row'[a].status = "active"
                         /\ row'[a].serial # row[a].serial
    OBVIOUS
  <2>1. PICK r \in Requests, new \in Row :
          /\ req[r].pc = "write"
          /\ Effect(r, new)
          /\ row' = [row EXCEPT ![req[r].agent] = new]
    BY TableStep
  <2>2. a = req[r].agent /\ row'[a] = new
    BY <2>1 DEF Inductive, TypeOK
  <2>3. row[a].serial # r
    BY <2>1 DEF Inductive, FreshInv, Unwritten
  <2> QED
    BY <2>1, <2>2, <2>3 DEF Effect, Stored
<1> QED
  BY <1>1, InductiveHolds, PTL DEF Spec, OnlyActivateUnrevokes

-----------------------------------------------------------------------------
(* The refinement. *)

LEMMA InitRefines == Init => Abstract!Init
<1> SUFFICES ASSUME Init PROVE Abstract!Init
  OBVIOUS
<1> DEFINE status == [a \in Agents |-> row[a].status]
<1>1. status \in [Agents -> Abstract!Stored \cup {"absent", "deleted"}]
  BY DEF Init, Row, Status, Stored, Abstract!Stored
<1>2. \A a \in Agents : status[a] \in Abstract!Activated => SubjectOf[a] \in proven
  BY DEF Init, Activated, Abstract!Activated
<1> QED
  BY <1>1, <1>2 DEF Init, Abstract!Init

LEMMA NextRefines ==
    ASSUME Inductive, [Next]_vars
    PROVE  [Abstract!Next]_(Abstract!vars)
<1> DEFINE status == [a \in Agents |-> row[a].status]
<1>1. CASE UNCHANGED <<row, proven>>
  BY <1>1 DEF Abstract!vars
<1>2. ASSUME NEW s \in Subjects, row' = row, proven' = proven \cup {s}
      PROVE  Abstract!Next
  BY <1>2 DEF Abstract!Next, Abstract!Prove
<1>3. ASSUME NEW r \in Requests, NEW new \in Row,
             req[r].pc = "write",
             Effect(r, new),
             row' = [row EXCEPT ![req[r].agent] = new],
             UNCHANGED proven
      PROVE  Abstract!Next \/ UNCHANGED Abstract!vars
  <2> DEFINE b == req[r].agent
  <2>1. b \in Agents /\ row[b] \in Row
    BY <1>3, Received DEF Inductive
  <2>2. status' = [status EXCEPT ![b] = new.status]
    BY <1>3, <2>1 DEF Inductive, TypeOK
  <2>3. status[b] = row[b].status
    BY <2>1
  <2>4. ASSUME NEW from, row[b].status \in from
        PROVE  Abstract!Move(b, from, new.status)
    BY <1>3, <2>2, <2>3, <2>4 DEF Abstract!Move
  <2>5. CASE req[r].op = "register"
    BY <1>3, <2>1, <2>4, <2>5 DEF Effect, Abstract!Next, Abstract!Register
  <2>6. CASE req[r].op = "activate"
    <3>1. SubjectOf[b] \in proven
      BY <1>3, <2>6 DEF Inductive, AdmittedInv, GateOpen
    <3> QED
      BY <1>3, <2>1, <2>4, <2>6, <3>1
      DEF Effect, Stored, Abstract!Next, Abstract!Activate, Abstract!Stored
  <2>7. CASE row[b].status \in Stored /\ new.status = "revoked"
    BY <2>1, <2>4, <2>7
    DEF Stored, Abstract!Next, Abstract!Revoke, Abstract!Stored
  <2>8. CASE row[b].status = "active" /\ new.status = "suspended"
    BY <2>1, <2>4, <2>8 DEF Abstract!Next, Abstract!Suspend
  <2>9. CASE row[b].status = "suspended" /\ new.status = "active"
    BY <2>1, <2>4, <2>9 DEF Abstract!Next, Abstract!Restore
  <2>10. CASE row[b].status = "active" /\ new.status = "deprecated"
    BY <2>1, <2>4, <2>10 DEF Abstract!Next, Abstract!Deprecate
  <2>11. CASE new = row[b]
    <3>1. row' = row
      BY <1>3, <2>1, <2>11 DEF Inductive, TypeOK
    <3> QED
      BY <1>3, <3>1 DEF Abstract!vars
  <2>12. CASE row[b].status \in Stored /\ new.status = "deleted"
    BY <2>1, <2>4, <2>12
    DEF Stored, Abstract!Next, Abstract!Delete, Abstract!Stored
  <2> QED
    BY <1>3, <2>5, <2>6, <2>7, <2>8, <2>9, <2>10, <2>11, <2>12 DEF Effect
<1> QED
  BY <1>1, <1>2, <1>3, TableStep

(* The status column, under any interleaving of handlers, failures and      *)
(* crashes, moves only as the status machine of AgentStatus allows.        *)
THEOREM StatusTheorem == Spec => ImplementsStatus
<1>1. Init => Abstract!Init
  BY InitRefines
<1>2. Inductive /\ [Next]_vars => [Abstract!Next]_(Abstract!vars)
  BY NextRefines
<1> QED
  BY <1>1, <1>2, InductiveHolds, PTL DEF Spec, ImplementsStatus, Abstract!Spec
=============================================================================
