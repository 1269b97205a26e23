----------------------------- MODULE MCServices -----------------------------
(***************************************************************************)
(* Instances of the smaller services for model checking, side by side: a   *)
(* behaviour is one of the parts named in Parts, and the others stay as    *)
(* they are initially.  "issue" and "resolve" are the two halves of the    *)
(* federation, each with the registries and values its questions need.     *)
(* The second federation and the process are instantiated, for their names *)
(* are those of the first; every other module is extended.                 *)
(***************************************************************************)
EXTENDS Federation, Identity, AgentRow, Webhooks, ClientResolve, AbuseReports,
        Migrations, AgentClient, Claim, TLC

CONSTANTS Parts, root, r1, r2, q1, u1, u2, c1, sweep, checker

VARIABLES part, quit, worker, main, timely, served, pool, received

\* Who applies at whom, where certificates are issued.
MCMemberOf == (root :> {r1}) @@ (r1 :> {r2}) @@ (r2 :> {r1})

\* The agent of the identity part belongs to its one user.
MCOwnedBy == [a \in Agents |-> People]

\* The files of migrations/: 001 inserts the genesis row without an index, which
\* fails once 002 has dropped the default of that column; 003, 008 and 013 add
\* what may not be there yet; 005 adds the column that 006 drops and 009 sets the
\* constraint on agents.status that 010 replaces.
MCRefusers ==
    [f \in 1 .. 14 |-> IF f = 1 THEN {2} ELSE IF f \in {3, 8, 13} THEN {f} ELSE {}]
MCUndoes == [f \in 1 .. 14 |-> IF f = 5 THEN {6} ELSE IF f = 9 THEN {10} ELSE {}]

FedResolve == INSTANCE Federation WITH
    Root <- root, Registries <- {r1, r2}, MaxAllowedPathLen <- 2,
    MemberOf <- (root :> {r1}) @@ (r1 :> {}) @@ (r2 :> {}),
    PathLens <- {}, Urls <- {u1, u2}, RootUrl <- u1, ThisCode <- {u1},
    Operations <- {"resolve"}, Requests <- {q1}, MaxIssued <- 0

Process == INSTANCE RegistryProcess WITH
    Workers <- {sweep, checker}, Clients <- {c1}, MaxSignals <- 3

ASSUME ResolveFits == FedResolve!FederationAssumption

-----------------------------------------------------------------------------
resolverAndClient == <<resolverVars, clientVars>>
processVars == <<quit, worker, main, timely, served, pool, received>>

servicesVars ==
    <<part, vars, webhooksVars, resolverAndClient, abuseVars, processVars,
      migrationVars, tokenVars, identityVars, rowVars, claimVars>>

ServicesInit ==
    /\ part \in Parts
    /\ Init /\ WebhooksInit /\ ClientInit /\ AbuseInit
    /\ Process!Init /\ MigrationsInit /\ TokenInit
    /\ IdentityInit /\ RowInit /\ ClaimInit
    /\ part # "client" => token = NoToken
    /\ part # "row" => hosted

ServicesNext ==
    /\ part' = part
    /\ \/ /\ part = "issue" /\ Next
          /\ UNCHANGED <<webhooksVars, resolverAndClient, abuseVars,
                         processVars, migrationVars, tokenVars, identityVars,
                         rowVars, claimVars>>
       \/ /\ part = "resolve" /\ FedResolve!Next
          /\ UNCHANGED <<webhooksVars, resolverAndClient, abuseVars,
                         processVars, migrationVars, tokenVars, identityVars,
                         rowVars, claimVars>>
       \/ /\ part = "webhooks" /\ WebhooksNext
          /\ UNCHANGED <<vars, resolverAndClient, abuseVars, processVars,
                         migrationVars, tokenVars, identityVars, rowVars,
                         claimVars>>
       \/ /\ part = "resolver" /\ ClientNext
          /\ UNCHANGED <<vars, webhooksVars, abuseVars, processVars,
                         migrationVars, tokenVars, identityVars, rowVars,
                         claimVars>>
       \/ /\ part = "abuse" /\ AbuseNext
          /\ UNCHANGED <<vars, webhooksVars, resolverAndClient, processVars,
                         migrationVars, tokenVars, identityVars, rowVars,
                         claimVars>>
       \/ /\ part = "process" /\ Process!Next
          /\ UNCHANGED <<vars, webhooksVars, resolverAndClient, abuseVars,
                         migrationVars, tokenVars, identityVars, rowVars,
                         claimVars>>
       \/ /\ part = "migrations" /\ MigrationsNext
          /\ UNCHANGED <<vars, webhooksVars, resolverAndClient, abuseVars,
                         processVars, tokenVars, identityVars, rowVars,
                         claimVars>>
       \/ /\ part = "client" /\ TokenNext
          /\ UNCHANGED <<vars, webhooksVars, resolverAndClient, abuseVars,
                         processVars, migrationVars, identityVars, rowVars,
                         claimVars>>
       \/ /\ part = "identity" /\ IdentityNext
          /\ UNCHANGED <<vars, webhooksVars, resolverAndClient, abuseVars,
                         processVars, migrationVars, tokenVars, rowVars,
                         claimVars>>
       \/ /\ part = "row" /\ RowNext
          /\ UNCHANGED <<vars, webhooksVars, resolverAndClient, abuseVars,
                         processVars, migrationVars, tokenVars, identityVars,
                         claimVars>>
       \/ /\ part = "claim" /\ ClaimNext
          /\ UNCHANGED <<vars, webhooksVars, resolverAndClient, abuseVars,
                         processVars, migrationVars, tokenVars, identityVars,
                         rowVars>>

ServicesSpec == ServicesInit /\ [][ServicesNext]_servicesVars

ServicesFairSpec ==
    /\ ServicesSpec
    /\ part = "webhooks" => WebhooksFairness
    /\ part = "process" => Process!Fairness

-----------------------------------------------------------------------------
(* The properties that are checked of one part only *)

\* Webhooks: every event and every delivery is dealt with at last.
DeliveriesEnd == part = "webhooks" => DeliveryEnds

\* Registry process: it ends, but when workers have taken the signals or somebody
\* keeps a connection.
ProcessEnds == part = "process" => Process!ProcessEnds
=============================================================================
