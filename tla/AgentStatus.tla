---------------------------- MODULE AgentStatus ----------------------------
(***************************************************************************)
(* What the registry promises about the status column of the agents table, *)
(* seen by a reader who only looks at committed rows: which status may     *)
(* follow which, and that nobody is active before the subject named in the *)
(* agent's URI (a domain, or the account behind a hosted agent) has been   *)
(* proven.  Every change is one atomic step; the concurrent requests that  *)
(* make the changes are in AgentLifecycle, which implements this module.   *)
(***************************************************************************)

CONSTANTS
    Agents,      \* identities an agent row can have, each used once
    Subjects,    \* domains and user accounts that can be proven
    SubjectOf    \* the subject each agent is registered under

VARIABLES
    status,      \* status[a]: the status column, or that there is no row
    proven       \* subjects with a verified DNS challenge or e-mail address

vars == <<status, proven>>

\* Rows that exist, by status.  "expired" is in the schema and never written.
Stored == {"pending", "active", "suspended", "deprecated", "revoked"}

\* Statuses that only an activation opens the way to.
Activated == {"active", "suspended", "deprecated"}

Move(a, from, to) ==
    /\ status[a] \in from
    /\ status' = [status EXCEPT ![a] = to]
    /\ UNCHANGED proven

Register(a)  == Move(a, {"absent"}, "pending")
Suspend(a)   == Move(a, {"active"}, "suspended")
Restore(a)   == Move(a, {"suspended"}, "active")
Deprecate(a) == Move(a, {"active"}, "deprecated")
Revoke(a)    == Move(a, Stored, "revoked")
Delete(a)    == Move(a, Stored, "deleted")

\* Activation starts from any stored row: the service does not look at the
\* status the row already has.
Activate(a) ==
    /\ SubjectOf[a] \in proven
    /\ Move(a, Stored, "active")

\* A subject is proven for good: neither a verified challenge nor a verified
\* e-mail address is ever taken back.
Prove(s) ==
    /\ proven' = proven \cup {s}
    /\ UNCHANGED status

Init ==
    /\ status \in [Agents -> Stored \cup {"absent", "deleted"}]
    /\ proven \in SUBSET Subjects
    /\ \A a \in Agents : status[a] \in Activated => SubjectOf[a] \in proven

Next ==
    \/ \E a \in Agents :
          \/ Register(a) \/ Activate(a) \/ Suspend(a) \/ Restore(a)
          \/ Deprecate(a) \/ Revoke(a) \/ Delete(a)
    \/ \E s \in Subjects : Prove(s)

Spec == Init /\ [][Next]_vars
=============================================================================
