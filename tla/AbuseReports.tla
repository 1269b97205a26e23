---------------------------- MODULE AbuseReports ----------------------------
(***************************************************************************)
(* Abuse reports that one user files on one agent: the handler counts the  *)
(* open ones and inserts another in two statements, and a moderator moves  *)
(* a report on.                                                            *)
(***************************************************************************)
EXTENDS Naturals, FiniteSets

CONSTANTS
    Reports,     \* the reports that are ever filed
    Filings,     \* the requests that may be under way at a time
    OpenLimit    \* open reports that a user may have on an agent

ASSUME AbuseAssumption == IsFiniteSet(Filings) /\ OpenLimit \in Nat \ {0}

VARIABLES
    report,      \* abuse_reports: the status of each
    filing       \* the requests under way

abuseVars == <<report, filing>>

Outcomes == {"investigating", "resolved", "dismissed"}

AbuseInit ==
    /\ report = [r \in Reports |-> "none"]
    /\ filing = [f \in Filings |-> "idle"]

OpenReports == {r \in Reports : report[r] = "open"}

\* Slip: as many as the limit already, and one more.
AtMostLimit == Cardinality(OpenReports) =< OpenLimit

BelowLimit == Cardinality(OpenReports) < OpenLimit

\* The open reports are counted: the request is refused, or goes on.
CountByAgentAndReporter(f) ==
    /\ filing[f] = "idle"
    /\ BelowLimit
    /\ filing' = [filing EXCEPT ![f] = "insert"]
    /\ UNCHANGED report

\* The insert does not count again.
CreateReport(r) == report[r] = "none" /\ report' = [report EXCEPT ![r] = "open"]

ReportAbuse(f) ==
    /\ filing[f] = "insert"
    /\ filing' = [filing EXCEPT ![f] = "idle"]
    /\ UNCHANGED report \/ \E r \in Reports : CreateReport(r)

\* Whatever status the report has.
ResolveReport(r, status) ==
    /\ report[r] # "none"
    /\ report' = [report EXCEPT ![r] = status]

\* Open is no outcome a report can be given.
ResolveAbuseReport(r, status) == ResolveReport(r, status) /\ UNCHANGED filing

AbuseNext ==
    \/ \E f \in Filings : CountByAgentAndReporter(f) \/ ReportAbuse(f)
    \/ \E r \in Reports, status \in Outcomes : ResolveAbuseReport(r, status)

AbuseSpec == AbuseInit /\ [][AbuseNext]_abuseVars

-----------------------------------------------------------------------------
(* Properties *)

\* Requests that count before the others insert go over the limit, by no more
\* than their number less one, however reports are resolved in between.
ReportsBounded ==
    Cardinality(OpenReports) + Cardinality({f \in Filings : filing[f] = "insert"})
        =< OpenLimit + Cardinality(Filings) - 1
=============================================================================
