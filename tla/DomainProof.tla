----------------------------- MODULE DomainProof -----------------------------
(***************************************************************************)
(* What activation relies on: the set of domains the registry takes as     *)
(* proven only grows, and holds only domains whose owner published what    *)
(* the registry asked for.  AgentLifecycle's "proven" is this set;         *)
(* DNSChallenge, with its expiring and swept challenges, implements it.    *)
(***************************************************************************)

CONSTANT Domains

VARIABLES
    shown,       \* domains whose DNS has shown a TXT record asked for
    proven       \* domains IsDomainVerified says yes to

vars == <<shown, proven>>

Init == shown = {} /\ proven = {}

Show(d) == shown' = shown \cup {d} /\ UNCHANGED proven

Prove(d) ==
    /\ d \in shown
    /\ proven' = proven \cup {d}
    /\ UNCHANGED shown

Next == \E d \in Domains : Show(d) \/ Prove(d)

Spec == Init /\ [][Next]_vars
==============================================================================
