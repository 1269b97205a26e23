------------------------ MODULE RegistryTablesProofs ------------------------
(***************************************************************************)
(* Proofs about what the concurrent requests of the registry leave in its  *)
(* tables: agents (AgentRow), abuse_reports (AbuseReports),                *)
(* webhook_deliveries (Webhooks) and schema_migrations (Migrations); for   *)
(* any requests, subscriptions, events, attempts, limits and files.        *)
(***************************************************************************)
EXTENDS AgentRow, AbuseReports, Webhooks, Migrations, FiniteSetTheorems, TLAPS

-----------------------------------------------------------------------------
(* The row of an agent.                                                    *)

Values == RowRequests \cup {Nobody}
Col == [Columns -> Values]
Row == [there : BOOLEAN, col : Col]
Request == [op : {"none", "update", "activate", "delete"}, caller : {"owner", "other"},
            changes : SUBSET Mutable,
            pc : {"none", "authorize", "read", "write", "written", "answered", "refused"},
            col : Col]

RowTypeOK ==
    /\ agentRow \in Row
    /\ request \in [RowRequests -> Request]
    /\ before \in [RowRequests -> SUBSET RowRequests]
    /\ undone \in SUBSET (Values \X RowRequests)

\* Only a request that was received has a kind, and an activation names nothing.
Received ==
    /\ \A q \in RowRequests : RequestAt(q, "none") => request[q].op = "none"
    /\ \A p \in undone : ~RequestAt(p[2], "none")

\* A request that was answered stays so.
BeforeAnswered == \A q \in RowRequests : before[q] \subseteq Answered

\* Another PATCH has written back since q began.
Disturbed(q) == \E o \in undone : o[2] # q /\ o[2] \notin before[q]

\* What q is about to write back is there still, or has gone since q began.
ReadRecently ==
    \A q \in RowRequests : RequestAt(q, "write") /\ request[q].op = "update" => \A f \in Mutable :
        \/ agentRow.col[f] = request[q].col[f]
        \/ agentRow.col[f] \notin before[q]
        \/ Disturbed(q)

NothingTold == \A p \in undone : p[1] \notin before[p[2]] \/ Disturbed(p[2])

PairKept ==
    agentRow.col["public_key_pem"] # agentRow.col["cert_serial"] =>
        \/ \E q \in RowRequests : "public_key_pem" \in request[q].changes /\ request[q].op = "update"
        \/ \E p \in undone : p[1] = agentRow.col["cert_serial"]

RowInductive ==
    RowTypeOK /\ Received /\ BeforeAnswered /\ ReadRecently /\ NothingTold /\ PairKept

-----------------------------------------------------------------------------
LEMMA InitRowInductive == RowInit => RowInductive
<1> SUFFICES ASSUME RowInit PROVE RowInductive
  OBVIOUS
<1>1. NewRow \in Row /\ NewRow.col = [f \in Columns |-> Nobody]
  BY DEF NewRow, Row, Col, Values
<1>2. NoRequest \in Request /\ NoRequest.pc = "none" /\ NoRequest.op = "none"
  BY <1>1 DEF NoRequest, Request, Row
<1>3. RowTypeOK
  BY <1>1, <1>2 DEF RowInit, RowTypeOK
<1>4. Received /\ BeforeAnswered /\ ReadRecently /\ NothingTold
  BY <1>2 DEF RowInit, RequestAt, Received, BeforeAnswered, ReadRecently, NothingTold
<1>5. PairKept
  BY <1>1 DEF RowInit, PairKept, Columns, Mutable
<1> QED
  BY <1>3, <1>4, <1>5 DEF RowInductive

(* A request that only goes on, from a step that is not its last, to a step *)
(* that is not the write of a PATCH.                                        *)
LEMMA GotoKeeps ==
    ASSUME RowInductive, NEW q \in RowRequests, NEW pc \in {"read", "write", "written", "answered", "refused"},
           pc = "write" => request[q].op # "update",
           ~RequestAt(q, "none"), ~RequestAt(q, "answered"), Advance(q, pc),
           UNCHANGED <<agentRow, before, undone>>
    PROVE  RowInductive'
<1> USE DEF RowInductive
<1>1. request' = [request EXCEPT ![q].pc = pc]
  BY DEF Advance
<1>2. request' \in [RowRequests -> Request]
  BY <1>1 DEF RowTypeOK, Request
<1>3. /\ request'[q].pc = pc
      /\ \A p \in RowRequests \ {q} : request'[p] = request[p]
      /\ \A p \in RowRequests : request'[p].op = request[p].op /\ request'[p].changes = request[p].changes
  BY <1>1 DEF RowTypeOK, Request
<1>4. RowTypeOK'
  BY <1>2 DEF RowTypeOK
<1>5. Received'
  BY <1>3 DEF Received, RequestAt, RowTypeOK
<1>6. BeforeAnswered'
  BY <1>3 DEF BeforeAnswered, Answered, RequestAt
<1>7. ReadRecently'
  BY <1>3 DEF ReadRecently, Disturbed, RequestAt
<1>8. NothingTold'
  BY DEF NothingTold, Disturbed
<1>9. PairKept'
  BY <1>3 DEF PairKept
<1> QED
  BY <1>4, <1>5, <1>6, <1>7, <1>8, <1>9

LEMMA ReceiveKeeps ==
    ASSUME RowInductive, NEW q \in RowRequests, NEW op \in {"update", "activate", "delete"},
           NEW caller \in {"owner", "other"}, NEW changes \in SUBSET Mutable,
           Receive(q, op, caller, changes)
    PROVE  RowInductive'
<1> DEFINE new == [NoRequest EXCEPT !.op = op, !.caller = caller,
                                    !.changes = changes, !.pc = "authorize"]
<1> USE DEF RowInductive
<1>1. /\ RequestAt(q, "none")
      /\ request' = [request EXCEPT ![q] = new]
      /\ before' = [before EXCEPT ![q] = Answered]
      /\ UNCHANGED <<agentRow, undone>>
  BY DEF Receive
<1>2. new \in Request /\ new.pc = "authorize"
  BY DEF NoRequest, NewRow, Request, Col, Values
<1> HIDE DEF new
<1>3. /\ request'[q] = new
      /\ \A p \in RowRequests \ {q} : request'[p] = request[p] /\ before'[p] = before[p]
      /\ before'[q] = Answered
  BY <1>1 DEF RowTypeOK
<1>4. RowTypeOK'
  BY <1>1, <1>2 DEF RowTypeOK, Answered
<1>5. Received'
  BY <1>1, <1>2, <1>3 DEF Received, RequestAt, RowTypeOK
<1>6. BeforeAnswered'
  BY <1>1, <1>2, <1>3 DEF BeforeAnswered, Answered, RequestAt
<1>7. ReadRecently'
  BY <1>1, <1>2, <1>3 DEF ReadRecently, Disturbed, RequestAt
<1>8. NothingTold'
  BY <1>1, <1>3 DEF NothingTold, Disturbed, Received, RowTypeOK
<1>9. PairKept'
  BY <1>1, <1>3 DEF PairKept, Received
<1> QED
  BY <1>4, <1>5, <1>6, <1>7, <1>8, <1>9

LEMMA ReadKeeps ==
    ASSUME RowInductive, NEW q \in RowRequests, RequestAt(q, "read"),
           request' = [request EXCEPT ![q].pc = "write", ![q].col = agentRow.col],
           UNCHANGED <<agentRow, before, undone>>
    PROVE  RowInductive'
<1> USE DEF RowInductive
<1> DEFINE new == [request[q] EXCEPT !.pc = "write", !.col = agentRow.col]
<1>a. /\ new \in Request /\ new.pc = "write" /\ new.col = agentRow.col
      /\ new.op = request[q].op /\ new.changes = request[q].changes
  <2>1. request[q] \in Request /\ agentRow.col \in Col
    BY DEF RowTypeOK, Row
  <2> QED
    BY <2>1 DEF Request
<1>b. request' = [request EXCEPT ![q] = new]
  BY DEF RowTypeOK
<1> HIDE DEF new
<1>1. request' \in [RowRequests -> Request]
  BY <1>a, <1>b DEF RowTypeOK
<1>2. /\ request'[q].pc = "write"
      /\ request'[q].col = agentRow.col
      /\ \A p \in RowRequests \ {q} : request'[p] = request[p]
      /\ \A p \in RowRequests : request'[p].op = request[p].op /\ request'[p].changes = request[p].changes
  BY <1>a, <1>b DEF RowTypeOK
<1>3. RowTypeOK'
  BY <1>1 DEF RowTypeOK
<1>4. Received'
  BY <1>2 DEF Received, RequestAt, RowTypeOK
<1>5. BeforeAnswered'
  <2>1. Answered \subseteq Answered'
    BY <1>2 DEF Answered, RequestAt
  <2> QED
    BY <2>1 DEF BeforeAnswered
<1>6. ReadRecently'
  BY <1>2 DEF ReadRecently, Disturbed, RequestAt
<1>7. NothingTold'
  BY DEF NothingTold, Disturbed
<1>8. PairKept'
  BY <1>2 DEF PairKept
<1> QED
  BY <1>3, <1>4, <1>5, <1>6, <1>7, <1>8

(* A column that is written back takes away what the PATCH did not see.     *)
LEMMA PutBack ==
    ASSUME RowInductive, NEW q \in RowRequests, RequestAt(q, "write"),
           request[q].op = "update" \/ request[q].op = "activate",
           NEW col, col = IF request[q].op = "update" THEN Updated(q) ELSE ActivatedWithCert(q)
    PROVE  /\ col \in Col
           /\ \A f \in Columns : f \in Intends(q) => col[f] = q
           /\ \A f \in Columns \ Intends(q) : col[f] # agentRow.col[f] =>
                  agentRow.col[f] \notin before[q] \/ Disturbed(q)
           /\ "public_key_pem" \in Intends(q) =>
                  \/ "public_key_pem" \in request[q].changes /\ request[q].op = "update"
                  \/ col["public_key_pem"] = col["cert_serial"]
           /\ request[q].op = "update" => col["cert_serial"] = agentRow.col["cert_serial"]
           /\ request[q].op = "activate" => col["cert_serial"] = col["public_key_pem"]
<1> USE DEF RowInductive, Columns, Mutable
<1>1. request[q] \in Request /\ agentRow \in Row
  BY DEF RowTypeOK
<1>2. CASE request[q].op = "update"
  <2>1. col = Updated(q) /\ Intends(q) = request[q].changes
    BY <1>2 DEF Intends
  <2>2. col \in Col
    BY <1>1, <2>1 DEF Updated, Request, Row, Col, Values
  <2>3. \A f \in Columns : col[f] = IF f \in request[q].changes THEN q
                                  ELSE IF f \in Mutable THEN request[q].col[f] ELSE agentRow.col[f]
    BY <2>1 DEF Updated
  <2> QED
    BY <1>1, <1>2, <2>1, <2>2, <2>3 DEF ReadRecently, Request
<1>3. CASE request[q].op = "activate"
  <2>1. col = ActivatedWithCert(q) /\ Intends(q) = {"public_key_pem", "cert_serial"}
    BY <1>3 DEF Intends
  <2>2. col \in Col
    BY <1>1, <2>1 DEF ActivatedWithCert, Row, Col, Values
  <2>3. \A f \in Columns : col[f] = IF f \in Intends(q) THEN q ELSE agentRow.col[f]
    BY <2>1 DEF ActivatedWithCert
  <2> QED
    BY <1>3, <2>1, <2>2, <2>3
<1> QED
  BY <1>2, <1>3

LEMMA PutKeeps ==
    ASSUME RowInductive, NEW q \in RowRequests, RequestAt(q, "write"),
           request[q].op = "update" \/ request[q].op = "activate",
           Put(q, IF request[q].op = "update" THEN Updated(q) ELSE ActivatedWithCert(q)),
           Advance(q, "written"), UNCHANGED before
    PROVE  RowInductive'
<1> DEFINE col == IF request[q].op = "update" THEN Updated(q) ELSE ActivatedWithCert(q)
<1>1. /\ col \in Col
      /\ \A f \in Columns : f \in Intends(q) => col[f] = q
      /\ \A f \in Columns \ Intends(q) : col[f] # agentRow.col[f] =>
             agentRow.col[f] \notin before[q] \/ Disturbed(q)
      /\ "public_key_pem" \in Intends(q) =>
             \/ "public_key_pem" \in request[q].changes /\ request[q].op = "update"
             \/ col["public_key_pem"] = col["cert_serial"]
      /\ request[q].op = "update" => col["cert_serial"] = agentRow.col["cert_serial"]
      /\ request[q].op = "activate" => col["cert_serial"] = col["public_key_pem"]
  BY PutBack
<1>2. /\ agentRow' = [agentRow EXCEPT !.col = col]
      /\ undone' = undone \cup
           {<<agentRow.col[f], q>> : f \in {g \in Columns \ Intends(q) : col[g] # agentRow.col[g]}}
  BY DEF Put
<1> HIDE DEF col
<1> USE DEF RowInductive
<1>3. /\ request' \in [RowRequests -> Request]
      /\ request'[q].pc = "written"
      /\ \A p \in RowRequests \ {q} : request'[p] = request[p]
      /\ \A p \in RowRequests : request'[p].op = request[p].op /\ request'[p].changes = request[p].changes
  BY DEF RowTypeOK, Request, Advance
<1>4. agentRow' \in Row /\ agentRow'.col = col
  BY <1>1, <1>2 DEF RowTypeOK, Row
<1>5. undone \subseteq undone' /\ \A p \in undone' \ undone :
          /\ p \in Values \X RowRequests
          /\ p[2] = q
          /\ p[1] \notin before[q] \/ Disturbed(q)
  BY <1>1, <1>2 DEF RowTypeOK, Row, Col
<1>p. \A f \in Columns \ Intends(q) : col[f] # agentRow.col[f] => <<agentRow.col[f], q>> \in undone'
  BY <1>2
<1>6. q \notin Answered
  BY DEF Answered, RequestAt
<1>7. RowTypeOK'
  BY <1>3, <1>4, <1>5 DEF RowTypeOK
<1>8. Received'
  BY <1>3, <1>5 DEF Received, RequestAt, RowTypeOK
<1>9. BeforeAnswered'
  BY <1>3 DEF BeforeAnswered, Answered, RequestAt
<1>10. \A p \in RowRequests : Disturbed(p) => Disturbed(p)'
  BY <1>5 DEF Disturbed
<1>11. ReadRecently'
  <2> SUFFICES ASSUME NEW p \in RowRequests, RequestAt(p, "write")', request'[p].op = "update", NEW f \in Mutable,
                      agentRow'.col[f] # request'[p].col[f], agentRow'.col[f] \in before'[p]
               PROVE  Disturbed(p)'
    BY DEF ReadRecently
  <2>1. p # q /\ RequestAt(p, "write") /\ request[p].op = "update" /\ request'[p] = request[p]
    BY <1>3 DEF RequestAt
  <2>2. q \notin before[p]
    BY <1>6 DEF BeforeAnswered
  <2>3. f \notin Intends(q) /\ f \in Columns
    BY <1>1, <1>4, <2>2 DEF Columns
  <2>4. CASE col[f] = agentRow.col[f]
    BY <2>1, <2>4, <1>4, <1>10 DEF ReadRecently
  <2>5. CASE col[f] # agentRow.col[f]
    <3>1. <<agentRow.col[f], q>> \in undone' /\ before' = before
      BY <1>p, <2>3, <2>5
    <3>2. <<agentRow.col[f], q>>[2] = q
      OBVIOUS
    <3> QED
      BY <2>1, <2>2, <3>1, <3>2 DEF Disturbed
  <2> QED
    BY <2>4, <2>5
<1>12. NothingTold'
  BY <1>5, <1>10 DEF NothingTold, RowTypeOK
<1>13. PairKept'
  <2> SUFFICES ASSUME col["public_key_pem"] # col["cert_serial"],
                      ~ \E p \in RowRequests : "public_key_pem" \in request[p].changes /\ request[p].op = "update"
               PROVE  \E p \in undone' : p[1] = col["cert_serial"]
    BY <1>3, <1>4 DEF PairKept
  <2>1. /\ request[q].op = "update"
        /\ "public_key_pem" \notin Intends(q)
        /\ col["cert_serial"] = agentRow.col["cert_serial"]
    BY <1>1
  <2>2. CASE col["public_key_pem"] = agentRow.col["public_key_pem"]
    BY <2>1, <2>2, <1>5 DEF PairKept
  <2>3. CASE col["public_key_pem"] # agentRow.col["public_key_pem"]
    <3>1. CASE agentRow.col["public_key_pem"] = agentRow.col["cert_serial"]
      <4>1. <<agentRow.col["public_key_pem"], q>> \in undone'
        BY <1>p, <2>1, <2>3 DEF Columns, Mutable
      <4>2. <<agentRow.col["public_key_pem"], q>>[1] = agentRow.col["public_key_pem"]
        OBVIOUS
      <4> QED
        BY <2>1, <3>1, <4>1, <4>2
    <3>2. CASE agentRow.col["public_key_pem"] # agentRow.col["cert_serial"]
      BY <2>1, <3>2, <1>5 DEF PairKept
    <3> QED
      BY <3>1, <3>2
  <2> QED
    BY <2>2, <2>3
<1> QED
  BY <1>7, <1>8, <1>9, <1>11, <1>12, <1>13

LEMMA DeleteKeeps ==
    ASSUME RowInductive, NEW q \in RowRequests, RequestAt(q, "write"),
           agentRow' = [agentRow EXCEPT !.there = FALSE], Advance(q, "written"),
           UNCHANGED <<before, undone>>
    PROVE  RowInductive'
<1> USE DEF RowInductive
<1>1. /\ request' \in [RowRequests -> Request]
      /\ request'[q].pc = "written"
      /\ \A p \in RowRequests \ {q} : request'[p] = request[p]
      /\ \A p \in RowRequests : request'[p].op = request[p].op /\ request'[p].changes = request[p].changes
  BY DEF RowTypeOK, Request, Advance
<1>2. agentRow' \in Row /\ agentRow'.col = agentRow.col
  BY DEF RowTypeOK, Row
<1>3. RowTypeOK'
  BY <1>1, <1>2 DEF RowTypeOK
<1>4. Received'
  BY <1>1 DEF Received, RequestAt, RowTypeOK
<1>5. BeforeAnswered'
  BY <1>1 DEF BeforeAnswered, Answered, RequestAt
<1>6. ReadRecently'
  BY <1>1, <1>2 DEF ReadRecently, Disturbed, RequestAt
<1>7. NothingTold' /\ PairKept'
  BY <1>1, <1>2 DEF NothingTold, Disturbed, PairKept
<1> QED
  BY <1>3, <1>4, <1>5, <1>6, <1>7

-----------------------------------------------------------------------------
(* What is read, written back and answered has to do with each other as the *)
(* parts of the invariant say, in every reachable state.                    *)
THEOREM RowInductiveHolds == RowSpec => []RowInductive
<1>1. RowInit => RowInductive
  BY InitRowInductive
<1>2. RowInductive /\ [RowNext]_rowVars => RowInductive'
  <2> SUFFICES ASSUME RowInductive, [RowNext]_rowVars PROVE RowInductive'
    OBVIOUS
  <2>1. ASSUME NEW q \in RowRequests, NEW caller \in {"owner", "other"},
               NEW changes \in SUBSET Mutable, Receive(q, "update", caller, changes)
        PROVE  RowInductive'
    BY <2>1, ReceiveKeeps
  <2>2. ASSUME NEW q \in RowRequests, NEW caller \in {"owner", "other"},
               NEW op \in {"activate", "delete"}, Receive(q, op, caller, {})
        PROVE  RowInductive'
    BY <2>2, ReceiveKeeps
  <2>3. ASSUME NEW q \in RowRequests, Authorize(q) PROVE RowInductive'
    <3>1. /\ ~RequestAt(q, "none") /\ ~RequestAt(q, "answered")
          /\ UNCHANGED <<agentRow, before, undone>>
      BY <2>3 DEF Authorize, RequestAt
    <3>2. CASE ~(agentRow.there /\ Authorized(q))
      BY <2>3, <3>1, <3>2, GotoKeeps DEF Authorize
    <3>3. CASE agentRow.there /\ Authorized(q) /\ request[q].op = "delete"
      BY <2>3, <3>1, <3>3, GotoKeeps DEF Authorize
    <3>4. CASE agentRow.there /\ Authorized(q) /\ request[q].op # "delete"
      BY <2>3, <3>1, <3>4, GotoKeeps DEF Authorize
    <3> QED
      BY <3>2, <3>3, <3>4
  <2>4. ASSUME NEW q \in RowRequests, Read(q) PROVE RowInductive'
    <3>1. /\ ~RequestAt(q, "none") /\ ~RequestAt(q, "answered") /\ RequestAt(q, "read")
          /\ UNCHANGED <<agentRow, before, undone>>
      BY <2>4 DEF Read, RequestAt
    <3>2. CASE request' = [request EXCEPT ![q].pc = "write", ![q].col = agentRow.col]
      BY <3>1, <3>2, ReadKeeps
    <3>3. CASE Advance(q, "refused")
      BY <3>1, <3>3, GotoKeeps
    <3> QED
      BY <2>4, <3>2, <3>3 DEF Read
  <2>5. ASSUME NEW q \in RowRequests, Write(q) PROVE RowInductive'
    <3>1. RequestAt(q, "write") /\ Advance(q, "written") /\ UNCHANGED before
      BY <2>5 DEF Write
    <3>2. CASE request[q].op = "update" /\ Put(q, Updated(q))
      BY <3>1, <3>2, PutKeeps
    <3>3. CASE request[q].op = "activate" /\ Put(q, ActivatedWithCert(q))
      BY <3>1, <3>3, PutKeeps
    <3>4. CASE agentRow' = [agentRow EXCEPT !.there = FALSE] /\ UNCHANGED undone
      BY <3>1, <3>4, DeleteKeeps
    <3> QED
      BY <2>5, <3>2, <3>3, <3>4 DEF Write
  <2>6. ASSUME NEW q \in RowRequests, Answer(q) PROVE RowInductive'
    BY <2>6, GotoKeeps DEF Answer, RequestAt
  <2>7. ASSUME NEW q \in RowRequests, FailRequest(q) PROVE RowInductive'
    BY <2>7, GotoKeeps DEF FailRequest, RequestAt
  <2>8. CASE UNCHANGED rowVars
    BY <2>8 DEF rowVars, RowInductive, RowTypeOK, Received, BeforeAnswered, ReadRecently,
                NothingTold, PairKept, Disturbed, Answered, RequestAt
  <2> QED
    BY <2>1, <2>2, <2>3, <2>4, <2>5, <2>6, <2>7, <2>8 DEF RowNext
<1> QED
  BY <1>1, <1>2, PTL DEF RowSpec

(* No request undoes what a client was told before it began, except where  *)
(* it overlapped with another that did, and the certificate in the row is  *)
(* that of the serial number.                                              *)
THEOREM AnsweredTheorem == RowSpec => []AnsweredChangesKept
<1>1. RowInductive => AnsweredChangesKept
  BY DEF RowInductive, NothingTold, Disturbed, PairKept, AnsweredChangesKept
<1> QED
  BY <1>1, RowInductiveHolds, PTL

-----------------------------------------------------------------------------
(* Abuse reports.                                                          *)

AbuseTypeOK ==
    /\ report \in [Reports -> {"none", "open"} \cup Outcomes]
    /\ filing \in [Filings -> {"idle", "insert"}]
    /\ IsFiniteSet(OpenReports)

Inserting == {f \in Filings : filing[f] = "insert"}

AbuseInductive == AbuseTypeOK /\ ReportsBounded

LEMMA InsertingFinite ==
    /\ IsFiniteSet(Inserting)
    /\ Cardinality(Inserting) \in Nat
    /\ Cardinality(Filings) \in Nat
    /\ Cardinality(Inserting) =< Cardinality(Filings)
BY AbuseAssumption, FS_Subset, FS_CardinalityType DEF Inserting

LEMMA InitAbuseInductive == AbuseInit => AbuseInductive
<1> SUFFICES ASSUME AbuseInit PROVE AbuseInductive
  OBVIOUS
<1>1. OpenReports = {} /\ Inserting = {}
  BY DEF AbuseInit, OpenReports, Inserting
<1>2. AbuseTypeOK
  BY <1>1, FS_EmptySet DEF AbuseInit, AbuseTypeOK
<1>3. ReportsBounded
  BY <1>1, FS_EmptySet, InsertingFinite, AbuseAssumption DEF ReportsBounded, Inserting
<1> QED
  BY <1>2, <1>3 DEF AbuseInductive

(* The request that counts is not among those about to insert.             *)
LEMMA CountKeeps ==
    ASSUME AbuseInductive, NEW f \in Filings, CountByAgentAndReporter(f)
    PROVE  AbuseInductive'
<1> USE DEF CountByAgentAndReporter, AbuseInductive
<1>1. AbuseTypeOK'
  BY DEF AbuseTypeOK, OpenReports
<1>2. OpenReports' = OpenReports /\ Cardinality(OpenReports) \in Nat
  BY FS_CardinalityType DEF OpenReports, AbuseTypeOK
<1>3. Inserting' = Inserting \cup {f} /\ f \notin Inserting
  BY DEF Inserting, AbuseTypeOK
<1>4. Cardinality(Inserting') = Cardinality(Inserting) + 1
  BY <1>3, InsertingFinite, FS_AddElement
<1>5. Cardinality(Inserting') =< Cardinality(Filings)
  BY AbuseAssumption, FS_Subset DEF Inserting
<1>6. Cardinality(OpenReports) =< OpenLimit - 1
  BY <1>2, AbuseAssumption DEF BelowLimit
<1>7. ReportsBounded'
  BY <1>2, <1>4, <1>5, <1>6, InsertingFinite, AbuseAssumption DEF ReportsBounded, Inserting
<1> QED
  BY <1>1, <1>7

(* What a request inserts it is no longer about to insert.                 *)
LEMMA ReportKeeps ==
    ASSUME AbuseInductive, NEW f \in Filings, ReportAbuse(f)
    PROVE  AbuseInductive'
<1> USE DEF ReportAbuse, AbuseInductive
<1>1. Inserting' = Inserting \ {f} /\ f \in Inserting
  BY DEF Inserting, AbuseTypeOK
<1>2. Cardinality(Inserting') = Cardinality(Inserting) - 1
  BY <1>1, InsertingFinite, FS_RemoveElement
<1>3. /\ IsFiniteSet(OpenReports')
      /\ Cardinality(OpenReports') \in Nat
      /\ Cardinality(OpenReports) \in Nat
      /\ Cardinality(OpenReports') =< Cardinality(OpenReports) + 1
  <2>1. IsFiniteSet(OpenReports) /\ Cardinality(OpenReports) \in Nat
    BY FS_CardinalityType DEF AbuseTypeOK
  <2>2. CASE UNCHANGED report
    BY <2>1, <2>2 DEF OpenReports
  <2>3. ASSUME NEW r \in Reports, CreateReport(r)
        PROVE  /\ IsFiniteSet(OpenReports')
               /\ Cardinality(OpenReports') = Cardinality(OpenReports) + 1
    <3>1. OpenReports' = OpenReports \cup {r} /\ r \notin OpenReports
      BY <2>3 DEF CreateReport, OpenReports, AbuseTypeOK
    <3> QED
      BY <2>1, <3>1, FS_AddElement
  <2> QED
    BY <2>1, <2>2, <2>3
<1>4. AbuseTypeOK'
  BY <1>3 DEF AbuseTypeOK, CreateReport
<1>5. ReportsBounded'
  BY <1>2, <1>3, InsertingFinite, AbuseAssumption DEF ReportsBounded, Inserting
<1> QED
  BY <1>4, <1>5

(* No outcome opens a report.                                              *)
LEMMA ResolveKeeps ==
    ASSUME AbuseInductive, NEW r \in Reports, NEW status \in Outcomes,
           ResolveAbuseReport(r, status)
    PROVE  AbuseInductive'
<1> USE DEF ResolveAbuseReport, ResolveReport, AbuseInductive
<1>1. OpenReports' \subseteq OpenReports
  BY DEF OpenReports, AbuseTypeOK, Outcomes
<1>2. /\ IsFiniteSet(OpenReports')
      /\ Cardinality(OpenReports') =< Cardinality(OpenReports)
      /\ Cardinality(OpenReports') \in Nat
      /\ Cardinality(OpenReports) \in Nat
  BY <1>1, FS_Subset, FS_CardinalityType DEF AbuseTypeOK
<1>3. AbuseTypeOK'
  BY <1>2 DEF AbuseTypeOK
<1>4. Inserting' = Inserting
  BY DEF Inserting
<1>5. ReportsBounded'
  BY <1>2, <1>4, InsertingFinite, AbuseAssumption DEF ReportsBounded, Inserting
<1> QED
  BY <1>3, <1>5

(* Each request that counts before others insert may go over the limit:    *)
(* those about to insert and the open reports are never more, together,    *)
(* than the limit and the other requests.                                  *)
THEOREM ReportsTheorem == AbuseSpec => []ReportsBounded
<1>1. AbuseInductive /\ [AbuseNext]_abuseVars => AbuseInductive'
  <2> SUFFICES ASSUME AbuseInductive, [AbuseNext]_abuseVars PROVE AbuseInductive'
    OBVIOUS
  <2>1. ASSUME NEW f \in Filings, CountByAgentAndReporter(f) PROVE AbuseInductive'
    BY <2>1, CountKeeps
  <2>2. ASSUME NEW f \in Filings, ReportAbuse(f) PROVE AbuseInductive'
    BY <2>2, ReportKeeps
  <2>3. ASSUME NEW r \in Reports, NEW status \in Outcomes, ResolveAbuseReport(r, status)
        PROVE  AbuseInductive'
    BY <2>3, ResolveKeeps
  <2>4. CASE UNCHANGED abuseVars
    BY <2>4 DEF abuseVars, AbuseInductive, AbuseTypeOK, ReportsBounded, OpenReports
  <2> QED
    BY <2>1, <2>2, <2>3, <2>4 DEF AbuseNext
<1>2. AbuseInductive => ReportsBounded
  BY DEF AbuseInductive
<1> QED
  BY InitAbuseInductive, <1>1, <1>2, PTL DEF AbuseSpec

-----------------------------------------------------------------------------
(* Webhooks.                                                               *)

\* Whether a post was answered as it should be.
Answered2xx == BOOLEAN

SubRow == [state : {"none", "active", "deleted"}, owner : Owners \cup {"nobody"}]
JobState == [pc : {"idle", "post", "record", "delivered", "failed", "lost"},
             attempt : Nat, ok : Answered2xx]
Delivery == [event : Events, sub : Subs, attempt : Nat, ok : Answered2xx]

WebhooksTypeOK ==
    /\ sub \in [Subs -> SubRow]
    /\ event \in [Events -> {"none", "queued", "fanned", "lost"}]
    /\ live \in SUBSET Events
    /\ job \in [Events \X Subs -> JobState]
    /\ log \in SUBSET Delivery
    /\ posted \in SUBSET (Events \X Subs \X Nat)
    /\ early \in [Events -> SUBSET Subs]

\* An event that has not been fanned out has no goroutines.
JobsOfFanned ==
    \A e \in Events, s \in Subs : event[e] \in {"none", "queued"} => job[<<e, s>>].pc = "idle"

\* A goroutine posts what it counts.
PostsCounted ==
    \A e \in Events, s \in Subs, a \in Nat :
        <<e, s, a>> \in posted => job[<<e, s>>].pc # "idle" /\ a =< job[<<e, s>>].attempt

\* A goroutine ends with the success it records.
SuccessIsLast ==
    \A d \in log :
        /\ sub[d.sub].state = "active"
        /\ d.ok => /\ job[<<d.event, d.sub>>].pc = "delivered"
                   /\ job[<<d.event, d.sub>>].attempt = d.attempt

\* What is gone stays gone, and no goroutine was started for it.
EarlyStaysGone ==
    \A e \in Events, s \in Subs :
        s \in early[e] => sub[s].state = "deleted" /\ job[<<e, s>>].pc = "idle"

WebhooksInductive ==
    /\ WebhooksTypeOK
    /\ JobsOfFanned /\ PostsCounted /\ SuccessIsLast /\ EarlyStaysGone

-----------------------------------------------------------------------------
LEMMA InitWebhooksInductive == WebhooksInit => WebhooksInductive
<1> SUFFICES ASSUME WebhooksInit PROVE WebhooksInductive
  OBVIOUS
<1>1. IdleJob \in JobState /\ IdleJob.pc = "idle" /\ NoSub \in SubRow
  <2>1. FALSE \in Answered2xx
    BY DEF Answered2xx
  <2> QED
    BY <2>1 DEF IdleJob, JobState, NoSub, SubRow
<1>2. \A e \in Events, s \in Subs : job[<<e, s>>] = IdleJob
  BY DEF WebhooksInit
<1>3. WebhooksTypeOK
  BY <1>1 DEF WebhooksInit, WebhooksTypeOK
<1> QED
  BY <1>1, <1>2, <1>3
     DEF WebhooksInit, WebhooksInductive, JobsOfFanned, PostsCounted, SuccessIsLast,
         EarlyStaysGone

(* Steps of the table of subscriptions and of the contexts: what is there  *)
(* stays while its deliveries are recorded, and what is gone stays gone.   *)
LEMMA TableStepKeeps ==
    ASSUME WebhooksInductive,
           sub' \in [Subs -> SubRow],
           \A s \in Subs : sub[s].state = "deleted" => sub'[s].state = "deleted",
           log' \subseteq log,
           \A d \in log' : sub'[d.sub].state = "active",
           live' \in SUBSET Events,
           UNCHANGED <<event, job, posted, early>>
    PROVE  WebhooksInductive'
<1>1. WebhooksTypeOK'
  BY DEF WebhooksInductive, WebhooksTypeOK
<1>2. JobsOfFanned' /\ PostsCounted'
  BY DEF WebhooksInductive, JobsOfFanned, PostsCounted
<1>3. SuccessIsLast'
  BY DEF WebhooksInductive, SuccessIsLast
<1>4. EarlyStaysGone'
  BY DEF WebhooksInductive, EarlyStaysGone
<1> QED
  BY <1>1, <1>2, <1>3, <1>4 DEF WebhooksInductive

LEMMA CreateSubscriptionKeeps ==
    ASSUME WebhooksInductive, NEW s \in Subs, NEW u \in Owners, CreateSubscription(s, u)
    PROVE  WebhooksInductive'
<1> DEFINE new == [state |-> "active", owner |-> u]
<1>1. /\ new \in SubRow /\ new.state = "active"
  BY DEF SubRow
<1> HIDE DEF new
<1>2. /\ sub[s].state = "none" /\ sub' = [sub EXCEPT ![s] = new]
      /\ UNCHANGED <<event, live, job, log, posted, early>>
  BY DEF CreateSubscription, InsertSub, new
<1>3. /\ sub' \in [Subs -> SubRow]
      /\ \A t \in Subs : sub'[t] = IF t = s THEN new ELSE sub[t]
  BY <1>1, <1>2 DEF WebhooksInductive, WebhooksTypeOK
<1>4. \A d \in log : d.sub \in Subs /\ sub[d.sub].state = "active"
  BY DEF WebhooksInductive, WebhooksTypeOK, SuccessIsLast, Delivery
<1> QED
  BY <1>1, <1>2, <1>3, <1>4, TableStepKeeps DEF WebhooksInductive, WebhooksTypeOK

LEMMA DeleteSubscriptionKeeps ==
    ASSUME WebhooksInductive, NEW s \in Subs, NEW u \in Owners, DeleteSubscription(s, u)
    PROVE  WebhooksInductive'
<1> DEFINE new == [sub[s] EXCEPT !.state = "deleted"]
<1>1. new \in SubRow /\ new.state = "deleted"
  BY DEF SubRow, WebhooksInductive, WebhooksTypeOK
<1>2. /\ sub' = [sub EXCEPT ![s] = new]
      /\ log' = {d \in log : d.sub # s}
      /\ UNCHANGED <<event, live, job, posted, early>>
  BY DEF DeleteSubscription, Unsubscribe, RemoveSub
<1> HIDE DEF new
<1>3. /\ sub' \in [Subs -> SubRow]
      /\ \A t \in Subs : sub'[t] = IF t = s THEN new ELSE sub[t]
  BY <1>1, <1>2 DEF WebhooksInductive, WebhooksTypeOK
<1>4. \A d \in log : d.sub \in Subs /\ sub[d.sub].state = "active"
  BY DEF WebhooksInductive, WebhooksTypeOK, SuccessIsLast, Delivery
<1>5. log' \subseteq log /\ \A d \in log' : sub'[d.sub].state = "active"
  BY <1>2, <1>3, <1>4
<1> QED
  BY <1>1, <1>2, <1>3, <1>5, TableStepKeeps DEF WebhooksInductive, WebhooksTypeOK

LEMMA EndRequestKeeps ==
    ASSUME WebhooksInductive, NEW e \in Events, EndRequest(e)
    PROVE  WebhooksInductive'
BY TableStepKeeps DEF EndRequest, WebhooksInductive, WebhooksTypeOK, SuccessIsLast

LEMMA DispatchWebhookKeeps ==
    ASSUME WebhooksInductive, NEW e \in Events, DispatchWebhook(e)
    PROVE  WebhooksInductive'
<1> DEFINE gone == {s \in Subs : sub[s].state = "deleted"}
<1>1. /\ event[e] = "none" /\ event' = [event EXCEPT ![e] = "queued"]
      /\ live' = live \cup {e}
      /\ early' = [early EXCEPT ![e] = gone]
      /\ UNCHANGED <<sub, job, log, posted>>
  BY DEF DispatchWebhook
<1>2. /\ \A f \in Events : event'[f] = IF f = e THEN "queued" ELSE event[f]
      /\ \A f \in Events : early'[f] = IF f = e THEN gone ELSE early[f]
  BY <1>1 DEF WebhooksInductive, WebhooksTypeOK
<1>3. WebhooksTypeOK'
  BY <1>1 DEF WebhooksInductive, WebhooksTypeOK
<1>4. JobsOfFanned' /\ PostsCounted' /\ SuccessIsLast'
  BY <1>1, <1>2 DEF WebhooksInductive, JobsOfFanned, PostsCounted, SuccessIsLast
<1>5. EarlyStaysGone'
  BY <1>1, <1>2 DEF WebhooksInductive, JobsOfFanned, EarlyStaysGone
<1> QED
  BY <1>3, <1>4, <1>5 DEF WebhooksInductive

(* A step of the goroutines alone: those that have ended, and those of     *)
(* subscriptions that were gone, do not move; none counts backwards.       *)
LEMMA JobsStepKeeps ==
    ASSUME WebhooksInductive,
           job' \in [Events \X Subs -> JobState],
           \A e \in Events, s \in Subs :
               /\ job[<<e, s>>].pc \in {"delivered", "failed", "lost"} => job'[<<e, s>>] = job[<<e, s>>]
               /\ job[<<e, s>>].pc # "idle" =>
                      job'[<<e, s>>].pc # "idle" /\ job[<<e, s>>].attempt =< job'[<<e, s>>].attempt
               /\ s \in early[e] => job'[<<e, s>>].pc = "idle"
               /\ event'[e] \in {"none", "queued"} => job'[<<e, s>>].pc = "idle",
           event' \in [Events -> {"none", "queued", "fanned", "lost"}],
           live' \in SUBSET Events,
           UNCHANGED <<sub, log, posted, early>>
    PROVE  WebhooksInductive'
<1>1. WebhooksTypeOK'
  BY DEF WebhooksInductive, WebhooksTypeOK
<1>2. JobsOfFanned'
  BY DEF JobsOfFanned
<1>3. \A e \in Events, s \in Subs : job[<<e, s>>].attempt \in Nat /\ job'[<<e, s>>].attempt \in Nat
  BY DEF WebhooksInductive, WebhooksTypeOK, JobState
<1>4. PostsCounted'
  BY <1>3 DEF WebhooksInductive, PostsCounted
<1>5. \A d \in log : d.event \in Events /\ d.sub \in Subs
  BY DEF WebhooksInductive, WebhooksTypeOK, Delivery
<1>6. SuccessIsLast'
  <2> SUFFICES ASSUME NEW d \in log
               PROVE  /\ sub[d.sub].state = "active"
                      /\ d.ok => /\ job'[<<d.event, d.sub>>].pc = "delivered"
                                 /\ job'[<<d.event, d.sub>>].attempt = d.attempt
    BY DEF SuccessIsLast
  <2>1. /\ sub[d.sub].state = "active"
        /\ d.ok => /\ job[<<d.event, d.sub>>].pc = "delivered"
                   /\ job[<<d.event, d.sub>>].attempt = d.attempt
    BY DEF WebhooksInductive, SuccessIsLast
  <2> QED
    BY <1>5, <2>1
<1>7. EarlyStaysGone'
  BY DEF WebhooksInductive, EarlyStaysGone
<1> QED
  BY <1>1, <1>2, <1>4, <1>6, <1>7 DEF WebhooksInductive

(* Only the subscriptions that are active get a goroutine.                 *)
LEMMA DispatchKeeps ==
    ASSUME WebhooksInductive, NEW e \in Events, Dispatch(e)
    PROVE  WebhooksInductive'
<1>1. /\ event[e] = "queued" /\ UNCHANGED <<sub, live, log, posted, early>>
      /\ \A s \in Subs : job[<<e, s>>].pc = "idle"
      /\ live \in SUBSET Events
  BY DEF Dispatch, WebhooksInductive, JobsOfFanned, WebhooksTypeOK
<1>2. \A f \in Events, s \in Subs :
          /\ job[<<f, s>>] \in JobState /\ job[<<f, s>>].attempt \in Nat
          /\ event[f] \in {"none", "queued"} => job[<<f, s>>].pc = "idle"
          /\ s \in early[f] => sub[s].state = "deleted" /\ job[<<f, s>>].pc = "idle"
  BY DEF WebhooksInductive, WebhooksTypeOK, JobState, JobsOfFanned, EarlyStaysGone
<1>3. CASE event' = [event EXCEPT ![e] = "lost"] /\ UNCHANGED job
  <2>1. /\ event' \in [Events -> {"none", "queued", "fanned", "lost"}]
        /\ \A f \in Events : event'[f] \in {"none", "queued"} => event'[f] = event[f]
    BY <1>3 DEF WebhooksInductive, WebhooksTypeOK
  <2> QED
    BY <1>1, <1>2, <1>3, <2>1, JobsStepKeeps DEF WebhooksInductive, WebhooksTypeOK
<1>4. CASE /\ event' = [event EXCEPT ![e] = "fanned"]
           /\ job' = [x \in Events \X Subs |->
                         IF x[1] = e /\ x[2] \in ListByEvent(e)
                         THEN [IdleJob EXCEPT !.pc = "post"] ELSE job[x]]
  <2> DEFINE first == [IdleJob EXCEPT !.pc = "post"]
  <2>1. first \in JobState /\ first.pc = "post"
    <3>1. FALSE \in Answered2xx
      BY DEF Answered2xx
    <3> QED
      BY <3>1 DEF IdleJob, JobState
  <2> HIDE DEF first
  <2>2. \A f \in Events, s \in Subs :
            job'[<<f, s>>] = IF f = e /\ s \in ListByEvent(e) THEN first ELSE job[<<f, s>>]
    BY <1>4 DEF first
  <2>3. job' \in [Events \X Subs -> JobState]
    BY <1>4, <2>1 DEF WebhooksInductive, WebhooksTypeOK, first
  <2>4. /\ event' \in [Events -> {"none", "queued", "fanned", "lost"}]
        /\ \A f \in Events : event'[f] = IF f = e THEN "fanned" ELSE event[f]
    BY <1>4 DEF WebhooksInductive, WebhooksTypeOK
  <2>5. \A s \in ListByEvent(e) : sub[s].state = "active"
    BY DEF ListByEvent
  <2>6. ASSUME NEW f \in Events, NEW s \in Subs
        PROVE  /\ job[<<f, s>>].pc \in {"delivered", "failed", "lost"} => job'[<<f, s>>] = job[<<f, s>>]
               /\ job[<<f, s>>].pc # "idle" =>
                      job'[<<f, s>>].pc # "idle" /\ job[<<f, s>>].attempt =< job'[<<f, s>>].attempt
               /\ s \in early[f] => job'[<<f, s>>].pc = "idle"
               /\ event'[f] \in {"none", "queued"} => job'[<<f, s>>].pc = "idle"
    <3>1. CASE f = e
      BY <1>1, <1>2, <2>2, <2>4, <2>5, <3>1
    <3>2. CASE f # e
      BY <1>2, <2>2, <2>4, <3>2
    <3> QED
      BY <3>1, <3>2
  <2> QED
    BY <1>1, <2>3, <2>4, <2>6, JobsStepKeeps
<1> QED
  BY <1>3, <1>4 DEF Dispatch

(* The process stops.                                                      *)
LEMMA DeliveriesLostKeeps ==
    ASSUME WebhooksInductive, DeliveriesLost
    PROVE  WebhooksInductive'
<1>1. \A f \in Events, s \in Subs :
          /\ job[<<f, s>>] \in JobState /\ job[<<f, s>>].attempt \in Nat
          /\ event[f] \in {"none", "queued"} => job[<<f, s>>].pc = "idle"
          /\ s \in early[f] => job[<<f, s>>].pc = "idle"
  BY DEF WebhooksInductive, WebhooksTypeOK, JobState, JobsOfFanned, EarlyStaysGone
<1>2. \A j \in JobState : /\ [j EXCEPT !.pc = "lost"] \in JobState
                          /\ [j EXCEPT !.pc = "lost"].pc = "lost"
                          /\ [j EXCEPT !.pc = "lost"].attempt = j.attempt
  BY DEF JobState
<1>3. /\ job' \in [Events \X Subs -> JobState]
      /\ \A f \in Events, s \in Subs :
            job'[<<f, s>>] = IF job[<<f, s>>].pc \in {"post", "record"}
                         THEN [job[<<f, s>>] EXCEPT !.pc = "lost"] ELSE job[<<f, s>>]
  BY <1>2 DEF DeliveriesLost, WebhooksInductive, WebhooksTypeOK
<1>4. /\ event' \in [Events -> {"none", "queued", "fanned", "lost"}]
      /\ \A f \in Events : event'[f] \in {"none", "queued"} => event'[f] = event[f]
      /\ live' \in SUBSET Events
      /\ UNCHANGED <<sub, log, posted, early>>
  BY DEF DeliveriesLost, WebhooksInductive, WebhooksTypeOK
<1>5. ASSUME NEW f \in Events, NEW s \in Subs
      PROVE  /\ job[<<f, s>>].pc \in {"delivered", "failed", "lost"} => job'[<<f, s>>] = job[<<f, s>>]
             /\ job[<<f, s>>].pc # "idle" =>
                    job'[<<f, s>>].pc # "idle" /\ job[<<f, s>>].attempt =< job'[<<f, s>>].attempt
             /\ s \in early[f] => job'[<<f, s>>].pc = "idle"
             /\ event'[f] \in {"none", "queued"} => job'[<<f, s>>].pc = "idle"
  <2> DEFINE lost == [job[<<f, s>>] EXCEPT !.pc = "lost"]
  <2>1. lost.pc = "lost" /\ lost.attempt = job[<<f, s>>].attempt
    BY <1>1, <1>2
  <2>2. job'[<<f, s>>] = IF job[<<f, s>>].pc \in {"post", "record"} THEN lost ELSE job[<<f, s>>]
    BY <1>3
  <2> HIDE DEF lost
  <2> QED
    BY <1>1, <1>4, <2>1, <2>2
<1> QED
  BY <1>3, <1>4, <1>5, JobsStepKeeps

-----------------------------------------------------------------------------
(* A step of one goroutine that is at work.                                *)
LEMMA OneJob ==
    ASSUME WebhooksInductive, NEW e \in Events, NEW s \in Subs, NEW n \in JobState,
           job' = [job EXCEPT ![<<e, s>>] = n]
    PROVE  /\ job' \in [Events \X Subs -> JobState]
           /\ job'[<<e, s>>] = n
           /\ \A f \in Events, t \in Subs : <<f, t>> # <<e, s>> => job'[<<f, t>>] = job[<<f, t>>]
BY DEF WebhooksInductive, WebhooksTypeOK

LEMMA DoDeliveryKeeps ==
    ASSUME WebhooksInductive, NEW e \in Events, NEW s \in Subs, DoDelivery(e, s)
    PROVE  WebhooksInductive'
<1> DEFINE a == job[<<e, s>>].attempt
<1>1. PICK ok \in Answered2xx :
          job' = [job EXCEPT ![<<e, s>>] = [job[<<e, s>>] EXCEPT !.pc = "record", !.ok = ok]]
  <2>1. PICK ok \in {FALSE, (e \in live)} :
            job' = [job EXCEPT ![<<e, s>>].pc = "record", ![<<e, s>>].ok = ok]
    BY DEF DoDelivery
  <2>2. FALSE \in Answered2xx /\ (e \in live) \in Answered2xx
    BY DEF Answered2xx
  <2>3. ok \in Answered2xx
    BY <2>2
  <2> QED
    BY <2>1, <2>3 DEF WebhooksInductive, WebhooksTypeOK, JobState
<1> DEFINE n == [job[<<e, s>>] EXCEPT !.pc = "record", !.ok = ok]
<1>2. /\ job[<<e, s>>].pc = "post" /\ a \in Nat
      /\ n \in JobState /\ n.pc = "record" /\ n.attempt = a
  <2>1. job[<<e, s>>] \in JobState /\ job[<<e, s>>].pc = "post"
    BY DEF DoDelivery, WebhooksInductive, WebhooksTypeOK
  <2> QED
    BY <2>1 DEF JobState
<1>3. job' = [job EXCEPT ![<<e, s>>] = n]
  BY <1>1
<1> HIDE DEF n
<1>4. /\ job' \in [Events \X Subs -> JobState]
      /\ job'[<<e, s>>] = n
      /\ \A f \in Events, t \in Subs : <<f, t>> # <<e, s>> => job'[<<f, t>>] = job[<<f, t>>]
  BY <1>2, <1>3, OneJob
<1>5. /\ posted \subseteq posted' /\ posted' \subseteq posted \cup {<<e, s, a>>}
      /\ UNCHANGED <<sub, event, live, log, early>>
  BY DEF DoDelivery
<1>6. WebhooksTypeOK'
  <2>1. posted' \in SUBSET (Events \X Subs \X Nat)
    BY <1>2, <1>5 DEF WebhooksInductive, WebhooksTypeOK
  <2> QED
    BY <1>4, <1>5, <2>1 DEF WebhooksInductive, WebhooksTypeOK
<1>7. JobsOfFanned' /\ EarlyStaysGone'
  BY <1>2, <1>4, <1>5 DEF WebhooksInductive, JobsOfFanned, EarlyStaysGone
<1>8. PostsCounted'
  <2> SUFFICES ASSUME NEW f \in Events, NEW t \in Subs, NEW b \in Nat, <<f, t, b>> \in posted'
               PROVE  job'[<<f, t>>].pc # "idle" /\ b =< job'[<<f, t>>].attempt
    BY DEF PostsCounted
  <2>1. CASE <<f, t, b>> \in posted
    BY <1>2, <1>4, <2>1 DEF WebhooksInductive, PostsCounted
  <2>2. CASE f = e /\ t = s /\ b = a
    BY <1>2, <1>4, <2>2
  <2> QED
    BY <1>5, <2>1, <2>2
<1>9. SuccessIsLast'
  <2> SUFFICES ASSUME NEW d \in log
               PROVE  /\ sub[d.sub].state = "active"
                      /\ d.ok => /\ job'[<<d.event, d.sub>>].pc = "delivered"
                                 /\ job'[<<d.event, d.sub>>].attempt = d.attempt
    BY <1>5 DEF SuccessIsLast
  <2>1. /\ d.event \in Events /\ d.sub \in Subs
        /\ sub[d.sub].state = "active"
        /\ d.ok => /\ job[<<d.event, d.sub>>].pc = "delivered"
                   /\ job[<<d.event, d.sub>>].attempt = d.attempt
    BY DEF WebhooksInductive, WebhooksTypeOK, Delivery, SuccessIsLast
  <2> QED
    BY <1>2, <1>4, <2>1
<1> QED
  BY <1>6, <1>7, <1>8, <1>9 DEF WebhooksInductive

(* What becomes of a goroutine that has its answer: it ends with a success, *)
(* and does not count backwards otherwise.                                 *)
LEMMA ContinueCounts ==
    ASSUME NEW j \in JobState
    PROVE  /\ Continue(j) \in JobState
           /\ Continue(j).pc # "idle"
           /\ j.attempt =< Continue(j).attempt
           /\ j.ok => Continue(j).pc = "delivered" /\ Continue(j).attempt = j.attempt
<1>1. j.attempt \in Nat
  BY DEF JobState
<1>2. CASE j.ok
  BY <1>1, <1>2 DEF Continue, JobState
<1>3. CASE ~j.ok /\ j.attempt = Attempts
  BY <1>1, <1>3 DEF Continue, JobState
<1>4. CASE ~j.ok /\ j.attempt # Attempts
  <2> DEFINE n == [j EXCEPT !.pc = "post", !.attempt = j.attempt + 1]
  <2>1. n.pc = "post" /\ n.attempt = j.attempt + 1 /\ n.ok = j.ok
    BY DEF JobState
  <2>2. n \in JobState
    <3>1. j.attempt + 1 \in Nat
      BY <1>1
    <3> QED
      BY <3>1 DEF JobState
  <2>3. Continue(j) = n
    BY <1>4 DEF Continue
  <2> HIDE DEF n
  <2> QED
    BY <1>1, <1>4, <2>1, <2>2, <2>3
<1> QED
  BY <1>2, <1>3, <1>4

LEMMA RecordDeliveryKeeps ==
    ASSUME WebhooksInductive, NEW e \in Events, NEW s \in Subs, RecordDelivery(e, s)
    PROVE  WebhooksInductive'
<1> DEFINE j == job[<<e, s>>]
<1> DEFINE n == Continue(j)
<1> DEFINE d == [event |-> e, sub |-> s, attempt |-> j.attempt, ok |-> j.ok]
<1>1. /\ j \in JobState /\ j.pc = "record" /\ job' = [job EXCEPT ![<<e, s>>] = n]
      /\ UNCHANGED <<sub, event, live, posted, early>>
      /\ \/ log' = log
         \/ (log' = log \cup {d} /\ sub[s].state = "active")
  BY DEF RecordDelivery, WebhooksInductive, WebhooksTypeOK
<1>2. /\ n \in JobState /\ n.pc # "idle" /\ j.attempt =< n.attempt
      /\ j.ok => n.pc = "delivered" /\ n.attempt = j.attempt
      /\ j.attempt \in Nat /\ n.attempt \in Nat
  BY <1>1, ContinueCounts DEF JobState
<1>3. d \in Delivery /\ d.event = e /\ d.sub = s /\ d.attempt = j.attempt /\ d.ok = j.ok
  BY <1>1 DEF Delivery, JobState
<1> HIDE DEF n, d
<1>4. /\ job' \in [Events \X Subs -> JobState]
      /\ job'[<<e, s>>] = n
      /\ \A f \in Events, t \in Subs : <<f, t>> # <<e, s>> => job'[<<f, t>>] = job[<<f, t>>]
  BY <1>1, <1>2, OneJob
<1>5. WebhooksTypeOK'
  BY <1>1, <1>3, <1>4 DEF WebhooksInductive, WebhooksTypeOK
<1>6. JobsOfFanned' /\ EarlyStaysGone'
  BY <1>1, <1>4 DEF WebhooksInductive, JobsOfFanned, EarlyStaysGone
<1>7. PostsCounted'
  BY <1>1, <1>2, <1>4 DEF WebhooksInductive, PostsCounted
<1>8. SuccessIsLast'
  <2> SUFFICES ASSUME NEW x \in log'
               PROVE  /\ sub[x.sub].state = "active"
                      /\ x.ok => /\ job'[<<x.event, x.sub>>].pc = "delivered"
                                 /\ job'[<<x.event, x.sub>>].attempt = x.attempt
    BY <1>1 DEF SuccessIsLast
  <2>1. CASE x \in log
    <3>1. /\ x.event \in Events /\ x.sub \in Subs
          /\ sub[x.sub].state = "active"
          /\ x.ok => /\ job[<<x.event, x.sub>>].pc = "delivered"
                     /\ job[<<x.event, x.sub>>].attempt = x.attempt
      BY <2>1 DEF WebhooksInductive, WebhooksTypeOK, Delivery, SuccessIsLast
    <3> QED
      BY <1>1, <1>4, <3>1
  <2>2. CASE x = d /\ sub[s].state = "active"
    BY <1>2, <1>3, <1>4, <2>2
  <2> QED
    BY <1>1, <2>1, <2>2
<1> QED
  BY <1>5, <1>6, <1>7, <1>8 DEF WebhooksInductive

LEMMA WebhooksNextKeeps == WebhooksInductive /\ [WebhooksNext]_webhooksVars => WebhooksInductive'
<1> SUFFICES ASSUME WebhooksInductive, [WebhooksNext]_webhooksVars PROVE WebhooksInductive'
  OBVIOUS
<1>1. CASE UNCHANGED webhooksVars
  BY <1>1, TableStepKeeps
     DEF webhooksVars, WebhooksInductive, WebhooksTypeOK, SuccessIsLast
<1> QED
  BY <1>1, CreateSubscriptionKeeps, DeleteSubscriptionKeeps, DispatchWebhookKeeps,
     EndRequestKeeps, DispatchKeeps, DoDeliveryKeeps, RecordDeliveryKeeps,
     DeliveriesLostKeeps DEF WebhooksNext, Deliver

(* What the goroutines, their posts and the recorded deliveries have to do *)
(* with each other holds in every reachable state.                         *)
THEOREM WebhooksInductiveHolds == WebhooksSpec => []WebhooksInductive
<1>1. WebhooksInductive /\ [WebhooksNext]_webhooksVars => WebhooksInductive'
  BY WebhooksNextKeeps
<1> QED
  BY InitWebhooksInductive, <1>1, PTL DEF WebhooksSpec

(* A recorded success is the last post, no row is left of a subscription   *)
(* that is gone, and one gone before an event was not sent it.             *)
THEOREM LogTheorem == WebhooksSpec => []LogTells
<1>1. WebhooksInductive => LogTells
  <2> SUFFICES ASSUME WebhooksInductive PROVE LogTells
    OBVIOUS
  <2>1. ASSUME NEW p \in posted
        PROVE  /\ p[1] \in Events /\ p[2] \in Subs /\ p[3] \in Nat
               /\ job[<<p[1], p[2]>>].pc # "idle" /\ p[3] =< job[<<p[1], p[2]>>].attempt
    <3>1. PICK e \in Events, s \in Subs, a \in Nat : p = <<e, s, a>>
      BY DEF WebhooksInductive, WebhooksTypeOK
    <3> QED
      BY <3>1 DEF WebhooksInductive, PostsCounted
  <2>2. ASSUME NEW d \in log
        PROVE  /\ sub[d.sub].state = "active"
               /\ d.ok => \A p \in posted : p[1] = d.event /\ p[2] = d.sub => p[3] =< d.attempt
    BY <2>1 DEF WebhooksInductive, SuccessIsLast
  <2>3. ASSUME NEW p \in posted PROVE p[2] \notin early[p[1]]
    BY <2>1 DEF WebhooksInductive, EarlyStaysGone
  <2> QED
    BY <2>2, <2>3 DEF LogTells
<1> QED
  BY <1>1, WebhooksInductiveHolds, PTL

-----------------------------------------------------------------------------
(* Migrations.                                                             *)

Migrator == [pc : {"idle", "check", "mark", "apply", "clean"}, file : Nat \ {0}]

MigrationsTypeOK ==
    /\ schema \in SUBSET Files
    /\ version \in [Files -> {"none", "dirty", "clean"}]
    /\ ledger \in {"empty", "entries", "erased"}
    /\ migrator \in [Runs -> Migrator]
    /\ overlapped \in BOOLEAN

Here(f) == f \in schema \/ MayBeUndone(f)

\* A run has every earlier file below the one it is at, has recorded the file
\* that it applies, and applied the one that it marks as done.
RunsInOrder ==
    \A r \in Runs :
        LET f == migrator[r].file IN
        /\ ~RunAt(r, "idle") => \A g \in Files : g < f => Here(g)
        /\ migrator[r].pc \in {"mark", "apply", "clean"} => f \in Files
        /\ migrator[r].pc \in {"apply", "clean"} => version[f] # "none"
        /\ RunAt(r, "clean") => Here(f)

\* As long as no two runs have overlapped, files are recorded in their order, the
\* one at work has none of the later ones recorded, and the ledger is used when
\* all but the last are done.
RunsApart ==
    ~overlapped =>
        /\ \A r \in Runs :
             /\ ~RunAt(r, "idle") =>
                  /\ \A p \in Runs \ {r} : RunAt(p, "idle")
                  /\ \A g \in Files : g < migrator[r].file => version[g] = "clean"
             /\ migrator[r].pc \in {"mark", "apply", "clean"} =>
                  version[migrator[r].file] # "clean"
        /\ \A f, g \in Files : f < g /\ version[g] # "none" => version[f] = "clean"
        /\ ledger # "empty" => \A f \in Files : f < Count => version[f] = "clean"

MigrationsInductive == MigrationsTypeOK /\ RunsInOrder /\ RunsApart /\ SchemaTracked

LEMMA InitMigrationsInductive == MigrationsInit => MigrationsInductive
<1> SUFFICES ASSUME MigrationsInit PROVE MigrationsInductive
  OBVIOUS
<1>1. MigrationsTypeOK
  <2>1. overlapped \in BOOLEAN
    BY DEF MigrationsInit
  <2>2. /\ schema \in SUBSET Files
        /\ version \in [Files -> {"none", "dirty", "clean"}]
        /\ ledger \in {"empty", "entries", "erased"}
        /\ migrator \in [Runs -> Migrator]
    BY DEF MigrationsInit, Migrator
  <2> QED
    BY <2>1, <2>2 DEF MigrationsTypeOK
<1>2. \A r \in Runs : RunAt(r, "idle") /\ migrator[r].pc = "idle"
  BY DEF MigrationsInit, RunAt
<1>3. RunsInOrder
  BY <1>2 DEF RunsInOrder, RunAt
<1>4. RunsApart
  BY <1>2 DEF MigrationsInit, RunsApart
<1>5. SchemaTracked
  BY DEF MigrationsInit, SchemaTracked
<1> QED
  BY <1>1, <1>3, <1>4, <1>5 DEF MigrationsInductive

(* A run that goes on, with the tables as they are; where no two runs have *)
(* overlapped, the others are at rest.                                     *)
LEMMA GoOnKeeps ==
    ASSUME MigrationsInductive, NEW r \in Runs, NEW m \in Migrator,
           migrator' = [migrator EXCEPT ![r] = m], UNCHANGED tables,
           overlapped' \in BOOLEAN, overlapped => overlapped',
           m.pc # "idle" => \A g \in Files : g < m.file => Here(g),
           m.pc \in {"mark", "apply", "clean"} => m.file \in Files,
           m.pc \in {"apply", "clean"} => version[m.file] # "none",
           m.pc = "clean" => Here(m.file),
           ~overlapped' /\ m.pc # "idle" =>
                /\ \A p \in Runs \ {r} : RunAt(p, "idle")
                /\ \A g \in Files : g < m.file => version[g] = "clean",
           ~overlapped' /\ m.pc \in {"mark", "apply", "clean"} =>
                version[m.file] # "clean"
    PROVE  MigrationsInductive'
<1> USE DEF MigrationsInductive, tables
<1>1. MigrationsTypeOK'
  BY DEF MigrationsTypeOK
<1>2. /\ migrator'[r] = m
      /\ \A p \in Runs \ {r} : migrator'[p] = migrator[p]
  BY DEF MigrationsTypeOK
<1>3. \A g : Here(g) => Here(g)'
  BY DEF Here, MayBeUndone
<1>4. RunsInOrder'
  BY <1>2, <1>3 DEF RunsInOrder, RunAt
<1>5. RunsApart'
  BY <1>2 DEF RunsApart, RunAt
<1>6. SchemaTracked'
  BY DEF SchemaTracked, MayBeUndone
<1> QED
  BY <1>1, <1>4, <1>5, <1>6

LEMMA RunTypes ==
    ASSUME MigrationsInductive, NEW r \in Runs
    PROVE  /\ migrator[r] \in Migrator
           /\ migrator[r].file \in Nat \ {0}
           /\ \A pc \in {"idle", "check", "mark", "apply", "clean"} :
                 [migrator[r] EXCEPT !.pc = pc] \in Migrator
           /\ [pc |-> "check", file |-> migrator[r].file + 1] \in Migrator
BY DEF MigrationsInductive, MigrationsTypeOK, Migrator

LEMMA StartKeeps ==
    ASSUME MigrationsInductive, NEW r \in Runs, StartRun(r)
    PROVE  MigrationsInductive'
<1> DEFINE m == [pc |-> "check", file |-> 1]
<1>1. m \in Migrator
  BY DEF Migrator
<1>2. \A g \in Files : ~(g < m.file)
  BY MigrationsAssumption DEF Files
<1>3. /\ overlapped' \in BOOLEAN /\ (overlapped => overlapped')
      /\ ~overlapped' => \A p \in Runs \ {r} : RunAt(p, "idle")
  BY DEF StartRun, MigrationsInductive, MigrationsTypeOK
<1> QED
  BY <1>1, <1>2, <1>3, GoOnKeeps DEF StartRun

(* A file is skipped that is recorded as clean, and so was applied.        *)
LEMMA CheckKeeps ==
    ASSUME MigrationsInductive, NEW r \in Runs, CheckFile(r)
    PROVE  MigrationsInductive'
<1> DEFINE f == migrator[r].file
<1>1. /\ f \in Nat \ {0}
      /\ \A g \in Files : g < f => Here(g)
      /\ UNCHANGED tables
      /\ overlapped' = overlapped /\ overlapped \in BOOLEAN
      /\ ~overlapped => /\ \A p \in Runs \ {r} : RunAt(p, "idle")
                        /\ \A g \in Files : g < f => version[g] = "clean"
  BY RunTypes DEF CheckFile, MigrationsInductive, RunsInOrder, RunsApart, RunAt,
                  MigrationsTypeOK
<1>2. CASE f \notin Files /\ Proceed(r, "idle")
  <2> DEFINE m == [migrator[r] EXCEPT !.pc = "idle"]
  <2>1. /\ m \in Migrator /\ m.pc = "idle"
        /\ migrator' = [migrator EXCEPT ![r] = m]
    BY <1>2, RunTypes DEF Migrator, Proceed
  <2> HIDE DEF m
  <2> QED
    BY <1>1, <1>2, <2>1, GoOnKeeps
<1>3. CASE f \in Files /\ version[f] = "clean" /\ NextFile(r)
  <2> DEFINE m == [pc |-> "check", file |-> f + 1]
  <2>1. m \in Migrator /\ m.pc = "check" /\ m.file = f + 1
    BY RunTypes
  <2>2. Here(f)
    BY <1>3 DEF MigrationsInductive, SchemaTracked, Here
  <2>3. \A g \in Files : g < f + 1 => g < f \/ g = f
    BY <1>1, MigrationsAssumption DEF Files
  <2>4. migrator' = [migrator EXCEPT ![r] = m]
    BY <1>3 DEF NextFile, MigrationsInductive, MigrationsTypeOK
  <2>5. /\ \A g \in Files : g < m.file => Here(g)
        /\ ~overlapped => \A g \in Files : g < m.file => version[g] = "clean"
    BY <1>1, <1>3, <2>1, <2>2, <2>3
  <2> HIDE DEF m
  <2> QED
    BY <1>1, <2>1, <2>4, <2>5, GoOnKeeps
<1>4. CASE f \in Files /\ version[f] # "clean" /\ Proceed(r, "mark")
  <2> DEFINE m == [migrator[r] EXCEPT !.pc = "mark"]
  <2>1. /\ m \in Migrator /\ m.pc = "mark" /\ m.file = f
        /\ migrator' = [migrator EXCEPT ![r] = m]
    BY <1>4, RunTypes DEF Migrator, Proceed
  <2> HIDE DEF m
  <2> QED
    BY <1>1, <1>4, <2>1, GoOnKeeps
<1> QED
  BY <1>2, <1>3, <1>4 DEF CheckFile

(* The mark never takes away that a file is recorded; a run that has no    *)
(* other beside it sets it on a file that is not done.                     *)
LEMMA MarkDirtyKeeps ==
    ASSUME MigrationsInductive, NEW r \in Runs, MarkDirty(r)
    PROVE  MigrationsInductive'
<1> DEFINE f == migrator[r].file
<1> USE DEF MigrationsInductive
<1>1. /\ f \in Files
      /\ version' = [version EXCEPT ![f] = "dirty"]
      /\ migrator' = [migrator EXCEPT ![r].pc = "apply"]
      /\ UNCHANGED <<schema, ledger, overlapped>>
      /\ RunAt(r, "mark")
  BY DEF MarkDirty, SetDirty, Proceed, RunsInOrder, RunAt
<1>2. MigrationsTypeOK'
  BY <1>1 DEF MigrationsTypeOK, Migrator
<1>3. /\ \A g \in Files : version'[g] = IF g = f THEN "dirty" ELSE version[g]
      /\ migrator'[r].pc = "apply" /\ migrator'[r].file = f
      /\ \A p \in Runs \ {r} : migrator'[p] = migrator[p]
  BY <1>1 DEF MigrationsTypeOK, Migrator
<1>4. \A g : Here(g)' <=> Here(g)
  BY <1>1 DEF Here, MayBeUndone
<1>5. RunsInOrder'
  BY <1>1, <1>3, <1>4 DEF RunsInOrder, RunAt
<1>6. RunsApart'
  <2> SUFFICES ASSUME ~overlapped PROVE RunsApart'
    BY <1>1 DEF RunsApart
  <2>1. /\ version[f] # "clean"
        /\ \A g \in Files : g < f => version[g] = "clean"
        /\ \A p \in Runs \ {r} : RunAt(p, "idle")
    BY <1>1 DEF RunsApart, RunAt
  <2>2. \A g, h \in Files : g < h => g # h
    BY MigrationsAssumption DEF Files
  <2>3. \A g \in Files : g # f => (version'[g] = version[g])
    BY <1>3
  <2>4. \A g \in Files : f < g => version[g] = "none"
    BY <1>1, <2>1 DEF RunsApart, MigrationsTypeOK
  <2>5. \A g, h \in Files : g < h /\ version'[h] # "none" => version'[g] = "clean"
    BY <1>1, <1>3, <2>1, <2>2, <2>3, <2>4 DEF RunsApart
  <2>6. ledger # "empty" => \A g \in Files : g < Count => version'[g] = "clean"
    BY <1>1, <1>3, <2>1 DEF RunsApart
  <2>7. \A g \in Files : g < f => version'[g] = "clean"
    BY <1>1, <1>3, <2>1, <2>2
  <2> QED
    BY <1>1, <1>3, <2>1, <2>5, <2>6, <2>7 DEF RunsApart, RunAt
<1>7. SchemaTracked'
  BY <1>1, <1>3 DEF SchemaTracked, MayBeUndone
<1> QED
  BY <1>2, <1>5, <1>6, <1>7

(* The applied file has every earlier one below it.  It undoes a later one *)
(* only behind the back of another run: by itself it is applied when none  *)
(* of them is recorded.                                                    *)
LEMMA ApplyKeeps ==
    ASSUME MigrationsInductive, NEW r \in Runs, ApplyFile(r)
    PROVE  MigrationsInductive'
<1> DEFINE f == migrator[r].file
<1> USE DEF MigrationsInductive
<1>1. /\ f \in Files
      /\ version[f] # "none"
      /\ \A g \in Files : g < f => Here(g)
      /\ schema' = (schema \ Undoes[f]) \cup {f}
      /\ migrator' = [migrator EXCEPT ![r].pc = "clean"]
      /\ UNCHANGED <<version, overlapped>>
      /\ ~overlapped => version[f] # "clean"
  BY DEF ApplyFile, Proceed, RunsInOrder, RunsApart, RunAt
<1>2. ledger' = ledger \/ (f \in Emptying /\ ledger = "entries" /\ ledger' = "erased")
  BY DEF ApplyFile
<1>3. Undoes[f] \subseteq Files /\ \A g \in Undoes[f] : f < g
  BY <1>1, MigrationsAssumption
<1>4. MigrationsTypeOK'
  BY <1>1, <1>2 DEF MigrationsTypeOK, Migrator
<1>5. /\ migrator'[r].pc = "clean" /\ migrator'[r].file = f
      /\ \A p \in Runs \ {r} : migrator'[p] = migrator[p]
  BY <1>1 DEF MigrationsTypeOK, Migrator
<1>6. \A g \in schema \cap Undoes[f] : overlapped
  BY <1>1, <1>3 DEF SchemaTracked, RunsApart
<1>7. \A g : Here(g) => Here(g)'
  BY <1>1, <1>6 DEF Here, MayBeUndone
<1>8. Here(f)'
  BY <1>1 DEF Here
<1>9. f \in Emptying /\ ledger = "entries" => overlapped
  BY <1>1, MigrationsAssumption DEF RunsApart
<1>10. RunsInOrder'
  BY <1>1, <1>5, <1>7, <1>8 DEF RunsInOrder, RunAt
<1>11. RunsApart'
  BY <1>1, <1>2, <1>5, <1>9 DEF RunsApart, RunAt, ApplyFile
<1>12. SchemaTracked'
  <2>1. ASSUME NEW g \in Files, version'[g] = "clean" PROVE Here(g)'
    BY <1>1, <1>7, <2>1 DEF SchemaTracked, Here
  <2>2. ASSUME NEW g \in Files, g \in schema'
        PROVE  version'[g] # "none" /\ \A h \in 1 .. g : Here(h)'
    <3>1. CASE g = f
      <4>1. \A h \in 1 .. f : h = f \/ (h \in Files /\ h < f)
        BY <1>1, MigrationsAssumption DEF Files
      <4> QED
        BY <1>1, <1>7, <1>8, <3>1, <4>1
    <3>2. CASE g # f
      BY <1>1, <1>7, <2>2, <3>2 DEF SchemaTracked, Here
    <3> QED
      BY <3>1, <3>2
  <2>3. ledger' = "erased" => overlapped'
    BY <1>1, <1>2, <1>9 DEF SchemaTracked
  <2> QED
    BY <2>1, <2>2, <2>3 DEF SchemaTracked, Here
<1> QED
  BY <1>4, <1>10, <1>11, <1>12

LEMMA MarkCleanKeeps ==
    ASSUME MigrationsInductive, NEW r \in Runs, MarkClean(r)
    PROVE  MigrationsInductive'
<1> DEFINE f == migrator[r].file
<1> DEFINE m == [pc |-> "check", file |-> f + 1]
<1> USE DEF MigrationsInductive
<1>1. /\ f \in Files /\ Here(f)
      /\ \A g \in Files : g < f => Here(g)
      /\ version' = [version EXCEPT ![f] = "clean"]
      /\ migrator' = [migrator EXCEPT ![r] = m]
      /\ UNCHANGED <<schema, ledger, overlapped>>
      /\ RunAt(r, "clean")
  BY DEF MarkClean, NextFile, RunsInOrder, RunAt, MigrationsTypeOK
<1>2. m \in Migrator /\ m.pc = "check" /\ m.file = f + 1
  BY RunTypes
<1>3. MigrationsTypeOK'
  BY <1>1, <1>2 DEF MigrationsTypeOK
<1>4. \A g \in Files : version'[g] = IF g = f THEN "clean" ELSE version[g]
  BY <1>1 DEF MigrationsTypeOK
<1>5. \A g \in Files : g < f + 1 => g < f \/ g = f
  BY <1>1, MigrationsAssumption DEF Files
<1>6. migrator'[r] = m /\ \A p \in Runs \ {r} : migrator'[p] = migrator[p]
  BY <1>1 DEF MigrationsTypeOK
<1> HIDE DEF m
<1>7. \A g : Here(g)' <=> Here(g)
  BY <1>1 DEF Here, MayBeUndone
<1>8. RunsInOrder'
  BY <1>1, <1>2, <1>4, <1>5, <1>6, <1>7 DEF RunsInOrder, RunAt
<1>9. RunsApart'
  <2> SUFFICES ASSUME ~overlapped PROVE RunsApart'
    BY <1>1 DEF RunsApart
  <2>1. /\ \A g \in Files : g < f => version[g] = "clean"
        /\ \A p \in Runs \ {r} : RunAt(p, "idle")
    BY <1>1 DEF RunsApart, RunAt
  <2>2. \A g \in Files : g < m.file => version'[g] = "clean"
    BY <1>2, <1>4, <1>5, <2>1
  <2>3. \A g, h \in Files : g < h /\ version'[h] # "none" => version'[g] = "clean"
    BY <1>1, <1>4, <2>1 DEF RunsApart
  <2>4. ledger # "empty" => \A g \in Files : g < Count => version'[g] = "clean"
    BY <1>4 DEF RunsApart
  <2> QED
    BY <1>1, <1>2, <1>6, <2>1, <2>2, <2>3, <2>4 DEF RunsApart, RunAt
<1>10. SchemaTracked'
  BY <1>1, <1>4 DEF SchemaTracked, MayBeUndone, Here
<1> QED
  BY <1>3, <1>8, <1>9, <1>10

LEMMA AbortKeeps ==
    ASSUME MigrationsInductive, NEW r \in Runs, AbortRun(r)
    PROVE  MigrationsInductive'
<1> DEFINE m == [migrator[r] EXCEPT !.pc = "idle"]
<1>1. /\ m \in Migrator /\ m.pc = "idle"
      /\ migrator' = [migrator EXCEPT ![r] = m]
  BY RunTypes DEF Migrator, AbortRun, Proceed
<1>2. /\ UNCHANGED tables
      /\ overlapped' = overlapped /\ overlapped \in BOOLEAN
  BY DEF AbortRun, MigrationsInductive, MigrationsTypeOK
<1> HIDE DEF m
<1> QED
  BY <1>1, <1>2, GoOnKeeps

(* The ledger is used when the last file is applied, and so recorded.      *)
LEMMA UseLedgerKeeps ==
    ASSUME MigrationsInductive, UseLedger
    PROVE  MigrationsInductive'
<1> USE DEF MigrationsInductive
<1>1. /\ Count \in schema /\ ledger' = "entries"
      /\ UNCHANGED <<schema, version, migrator, overlapped>>
  BY DEF UseLedger
<1>2. MigrationsTypeOK' /\ RunsInOrder' /\ SchemaTracked'
  BY <1>1 DEF MigrationsTypeOK, RunsInOrder, RunAt, SchemaTracked, Here, MayBeUndone
<1>3. Count \in Files /\ version[Count] # "none"
  BY <1>1 DEF SchemaTracked, MigrationsTypeOK
<1>4. RunsApart'
  BY <1>1, <1>3 DEF RunsApart, RunAt
<1> QED
  BY <1>2, <1>4

(* However runs of the migration command overlap and wherever they stop, a *)
(* file recorded as clean is applied, an applied one is recorded and has   *)
(* every earlier file below it, and the ledger in use is not deleted; only *)
(* runs that have overlapped take back a later file that an older one      *)
(* undoes, or delete the ledger.                                           *)
THEOREM SchemaTheorem == MigrationsSpec => []SchemaTracked
<1>1. MigrationsInductive /\ [MigrationsNext]_migrationVars => MigrationsInductive'
  <2> SUFFICES ASSUME MigrationsInductive, [MigrationsNext]_migrationVars
               PROVE  MigrationsInductive'
    OBVIOUS
  <2>1. ASSUME NEW r \in Runs, StartRun(r) PROVE MigrationsInductive'
    BY <2>1, StartKeeps
  <2>2. ASSUME NEW r \in Runs, CheckFile(r) PROVE MigrationsInductive'
    BY <2>2, CheckKeeps
  <2>3. ASSUME NEW r \in Runs, MarkDirty(r) PROVE MigrationsInductive'
    BY <2>3, MarkDirtyKeeps
  <2>4. ASSUME NEW r \in Runs, ApplyFile(r) PROVE MigrationsInductive'
    BY <2>4, ApplyKeeps
  <2>5. ASSUME NEW r \in Runs, MarkClean(r) PROVE MigrationsInductive'
    BY <2>5, MarkCleanKeeps
  <2>6. ASSUME NEW r \in Runs, AbortRun(r) PROVE MigrationsInductive'
    BY <2>6, AbortKeeps
  <2>7. ASSUME UseLedger PROVE MigrationsInductive'
    BY <2>7, UseLedgerKeeps
  <2>8. CASE UNCHANGED migrationVars
    BY <2>8 DEF migrationVars, tables, MigrationsInductive, MigrationsTypeOK, RunsInOrder,
                RunsApart, RunAt, SchemaTracked, Here, MayBeUndone
  <2> QED
    BY <2>1, <2>2, <2>3, <2>4, <2>5, <2>6, <2>7, <2>8 DEF MigrationsNext
<1>2. MigrationsInductive => SchemaTracked
  BY DEF MigrationsInductive
<1> QED
  BY InitMigrationsInductive, <1>1, <1>2, PTL DEF MigrationsSpec
=============================================================================
