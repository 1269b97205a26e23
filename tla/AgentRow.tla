------------------------------ MODULE AgentRow ------------------------------
(***************************************************************************)
(* The columns of one agent that requests write by reading the row first:  *)
(* PATCH reads the row twice, to authorise and to change it, and writes    *)
(* every mutable column back; an activation stores a certificate in two of *)
(* the columns meanwhile.  A column holds the request whose value it has.  *)
(***************************************************************************)
EXTENDS Naturals, FiniteSets

CONSTANTS
    RowRequests,
    Nobody       \* stands for the value a column was registered with

VARIABLES
    agentRow,    \* the agent's row: whether it is there, and three columns
    hosted,      \* a user owns it
    request,     \* the requests, each made once
    before,      \* ghost: the requests that were answered before each began
    undone       \* ghost: <<v, w>> when w put another value in place of v's
                 \* although it was not to change that column

rowVars == <<agentRow, hosted, request, before, undone>>

-----------------------------------------------------------------------------
\* What a PATCH may name, of the columns that another request writes too.
Mutable == {"endpoint", "public_key_pem"}
Columns == Mutable \cup {"cert_serial"}

NewRow == [there |-> TRUE, col |-> [f \in Columns |-> Nobody]]
NoRequest == [op |-> "none", caller |-> "other", changes |-> {}, pc |-> "none", col |-> NewRow.col]

RowInit ==
    /\ agentRow = NewRow
    /\ hosted \in BOOLEAN
    /\ request = [q \in RowRequests |-> NoRequest]
    /\ before = [q \in RowRequests |-> {}]
    /\ undone = {}

RequestAt(q, pc) == request[q].pc = pc
Advance(q, pc) == request' = [request EXCEPT ![q].pc = pc]

Answered == {q \in RowRequests : RequestAt(q, "answered")}

Receive(q, op, caller, changes) ==
    /\ RequestAt(q, "none")
    /\ request' = [request EXCEPT ![q] = [NoRequest EXCEPT !.op = op, !.caller = caller,
                                                   !.changes = changes, !.pc = "authorize"]]
    /\ before' = [before EXCEPT ![q] = Answered]
    /\ UNCHANGED <<agentRow, hosted, undone>>

\* A PATCH may come with the agent's own token or that of the user who owns it.
MayUpdate(q) == request[q].caller = "owner"

\* An agent that no user owns may be activated by anyone who has its domain.
MayActivate(q) == request[q].caller = "owner" \/ ~hosted

MayDelete(q) == request[q].caller = "owner"

Authorized(q) ==
    \/ request[q].op = "update" /\ MayUpdate(q)
    \/ request[q].op = "activate" /\ MayActivate(q)
    \/ request[q].op = "delete" /\ MayDelete(q)

\* The handler reads the row to authorise the caller.
Authorize(q) ==
    /\ RequestAt(q, "authorize")
    /\ Advance(q, IF agentRow.there /\ Authorized(q)
                  THEN IF request[q].op = "delete" THEN "write" ELSE "read"
                  ELSE "refused")
    /\ UNCHANGED <<agentRow, hosted, before, undone>>

\* The service reads it again and goes on with what it read.  An activation
\* looks at its gate and has a certificate signed, either of which may fail.
Read(q) ==
    /\ RequestAt(q, "read")
    /\ \/ /\ agentRow.there
          /\ request' = [request EXCEPT ![q].pc = "write", ![q].col = agentRow.col]
       \/ /\ ~agentRow.there \/ request[q].op = "activate"
          /\ Advance(q, "refused")
    /\ UNCHANGED <<agentRow, hosted, before, undone>>

-----------------------------------------------------------------------------
Intends(q) == IF request[q].op = "activate" THEN {"public_key_pem", "cert_serial"}
              ELSE request[q].changes

\* Slip: a column the request does not name is written as well.
Overwritten(q) == [f \in Columns |-> IF f \in Mutable THEN q ELSE agentRow.col[f]]

\* Every mutable column is written, with what was read where nothing was named.
Updated(q) ==
    [f \in Columns |-> IF f \in request[q].changes THEN q
                       ELSE IF f \in Mutable THEN request[q].col[f]
                       ELSE agentRow.col[f]]

\* The status, the serial number and the certificate are written at once.
ActivatedWithCert(q) ==
    [f \in Columns |-> IF f \in Intends(q) THEN q ELSE agentRow.col[f]]

Put(q, col) ==
    /\ agentRow' = [agentRow EXCEPT !.col = col]
    /\ undone' = undone \cup
           {<<agentRow.col[f], q>> : f \in {g \in Columns \ Intends(q) : col[g] # agentRow.col[g]}}

\* The statement finds the row by its id, or affects none.
Write(q) ==
    /\ RequestAt(q, "write")
    /\ agentRow.there
    /\ \/ request[q].op = "update" /\ Put(q, Updated(q))
       \/ request[q].op = "activate" /\ Put(q, ActivatedWithCert(q))
       \/ /\ request[q].op = "delete"
          /\ agentRow' = [agentRow EXCEPT !.there = FALSE]
          /\ UNCHANGED undone
    /\ Advance(q, "written")
    /\ UNCHANGED <<hosted, before>>

Answer(q) ==
    /\ RequestAt(q, "written")
    /\ Advance(q, "answered")
    /\ UNCHANGED <<agentRow, hosted, before, undone>>

\* The row is gone, a statement fails, or the process stops; what was written
\* stays, and the client does not know.
FailRequest(q) ==
    /\ request[q].pc \in {"authorize", "read", "write", "written"}
    /\ Advance(q, "refused")
    /\ UNCHANGED <<agentRow, hosted, before, undone>>

-----------------------------------------------------------------------------
RowNext == \E q \in RowRequests :
    \/ \E caller \in {"owner", "other"} :
          \/ \E changes \in SUBSET Mutable : Receive(q, "update", caller, changes)
          \/ \E op \in {"activate", "delete"} : Receive(q, op, caller, {})
    \/ Authorize(q) \/ Read(q) \/ Write(q) \/ Answer(q) \/ FailRequest(q)

RowSpec == RowInit /\ [][RowNext]_rowVars

-----------------------------------------------------------------------------
(* Properties *)

\* A PATCH that writes back what it read takes away only what was written while
\* it was under way: what a client was told before -- its endpoint, its key, the
\* certificate it holds the key of -- is undone by no request that came later
\* and did not name it, unless another PATCH wrote back meanwhile.  So the
\* certificate in the row is that of the serial number unless requests
\* overlapped or a PATCH named it.
AnsweredChangesKept ==
    /\ \A p \in undone :
          \/ p[1] \notin before[p[2]]
          \/ \E o \in undone : o[2] # p[2] /\ o[2] \notin before[p[2]]
    /\ agentRow.col["public_key_pem"] # agentRow.col["cert_serial"] =>
          \/ \E q \in RowRequests : "public_key_pem" \in request[q].changes /\ request[q].op = "update"
          \/ \E p \in undone : p[1] = agentRow.col["cert_serial"]
=============================================================================
