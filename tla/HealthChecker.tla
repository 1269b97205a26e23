---------------------------- MODULE HealthChecker ----------------------------
(***************************************************************************)
(* The health checkers of the registry instances that share one database:  *)
(* each runs rounds of probes over the active agents' endpoints, counts    *)
(* failures in its memory, and writes the health_status column.            *)
(*                                                                         *)
(* A round has a deadline, an update may fail, an instance may be killed   *)
(* and started again with no counts, agents come and go, and endpoints     *)
(* break and recover, all at any point of a round.                         *)
(***************************************************************************)
EXTENDS Integers, FiniteSets

CONSTANTS
    Agents,
    Checkers,       \* registry instances with a health checker
    FailThreshold,  \* failures in a row that make an agent degraded
    MaxParallel,    \* probes of one round under way at a time: 10
    MaxFaults       \* bound on missed deadlines, failed updates and crashes

ASSUME ThresholdAssumption == FailThreshold \in Nat \ {0}
ASSUME BoundAssumption == MaxParallel \in Nat \ {0} /\ MaxFaults \in Nat

VARIABLES
    agent,   \* listed: active with an endpoint; up: the endpoint answers with
             \* a 2xx; health: the health_status column
    loop,    \* the checkers' loops; "late" is a round past its deadline
    probe,   \* the goroutines of a round: what each is about to do
    fails,   \* failCounts
    misses,  \* ghost: probes in a row that had no answer
    called,  \* ghost: announcements since a checker started or had an answer
    faults   \* how many faults there have been

vars == <<agent, loop, probe, fails, misses, called, faults>>

-----------------------------------------------------------------------------
\* Counts are compared with the threshold only: all above it are one.
Count(n) == IF n > FailThreshold THEN n ELSE n + 1

\* Slip: successes leave the count alone.
NextFailsUncleared(ok, n) == IF ok THEN n ELSE Count(n)

\* failCounts after a probe
NextFails(ok, n) == IF ok THEN 0 ELSE Count(n)

\* Slip: a recovery is written when the count is exactly the threshold.
VerdictAtThreshold(ok, prev, count) ==
    CASE ok /\ prev = FailThreshold      -> "healthy"
      [] ~ok /\ count = FailThreshold    -> "degraded"
      [] OTHER                           -> "none"

\* Slip: only transitions are written, as the self-hosting guide has it.
VerdictOnTransitions(ok, prev, count) ==
    CASE ok /\ prev >= FailThreshold     -> "healthy"
      [] ~ok /\ count = FailThreshold    -> "degraded"
      [] OTHER                           -> "none"

\* Slip: every failure from the threshold on counts as the transition.
VerdictEachFailure(ok, prev, count) ==
    CASE ok                              -> "healthy"
      [] ~ok /\ count >= FailThreshold   -> "degraded"
      [] OTHER                           -> "none"

\* What a probe has its goroutine write: both branches of a success write the
\* same, whatever the count was.
Verdict(ok, prev, count) ==
    CASE ok                              -> "healthy"
      [] ~ok /\ count = FailThreshold    -> "degraded"
      [] OTHER                           -> "none"

AtWork(c) == {a \in Agents : probe[c][a] \notin {"none", "queued"}}

Init ==
    /\ agent \in [Agents -> [listed : BOOLEAN, up : BOOLEAN,
                             health : {"unknown"}]]
    /\ loop = [c \in Checkers |-> "idle"]
    /\ probe = [c \in Checkers |-> [a \in Agents |-> "none"]]
    /\ fails = [c \in Checkers |-> [a \in Agents |-> 0]]
    /\ misses = [c \in Checkers |-> [a \in Agents |-> 0]]
    /\ called = [c \in Checkers |-> [a \in Agents |-> 0]]
    /\ faults = 0

Fault == faults < MaxFaults /\ faults' = faults + 1

-----------------------------------------------------------------------------
(* Start and CheckAll.  A failed query for the endpoints ends a round before *)
(* it began and changes nothing.                                           *)

Running(c) == loop[c] \in {"round", "late"}

Tick(c) ==
    /\ loop[c] = "idle"
    /\ loop' = [loop EXCEPT ![c] = "round"]
    /\ probe' = [probe EXCEPT ![c] =
                    [a \in Agents |-> IF agent[a].listed THEN "queued"
                                      ELSE "none"]]
    /\ UNCHANGED <<agent, fails, misses, called, faults>>

\* The context of the round is cancelled a second before the next is due.
Overrun(c) ==
    /\ loop[c] = "round"
    /\ Fault
    /\ loop' = [loop EXCEPT ![c] = "late"]
    /\ UNCHANGED <<agent, probe, fails, misses, called>>

\* HEAD, then GET if that fails: a success if the endpoint answers and the
\* context lives.  Nobody else has the count of this agent, so the critical
\* section that follows is part of the step.
Probe(c, a) ==
    /\ Running(c)
    /\ probe[c][a] = "queued"
    /\ Cardinality(AtWork(c)) < MaxParallel
    /\ LET ok    == agent[a].up /\ loop[c] = "round"
           count == NextFails(ok, fails[c][a]) IN
       /\ fails' = [fails EXCEPT ![c][a] = count]
       /\ misses' = [misses EXCEPT ![c][a] = IF ok THEN 0 ELSE Count(@)]
       /\ called' = [called EXCEPT ![c][a] = IF ok THEN 0 ELSE @]
       /\ probe' = [probe EXCEPT ![c][a] = Verdict(ok, fails[c][a], count)]
    /\ UNCHANGED <<agent, loop, faults>>

\* An agent that is announced is announced whatever came of the update.
AfterUpdate(c, a) ==
    probe' = [probe EXCEPT ![c][a] = IF @ = "degraded" THEN "announce"
                                     ELSE "none"]

\* The statement looks at the id only: the row may be of an agent that is no
\* longer active, and another instance may have written it since the probe.
UpdateHealthStatus(c, a) ==
    /\ probe[c][a] \in {"healthy", "degraded"}
    /\ agent' = [agent EXCEPT ![a].health = probe[c][a]]
    /\ AfterUpdate(c, a)
    /\ UNCHANGED <<loop, fails, misses, called, faults>>

\* The update fails after the deadline, and may fail before it: the error is
\* logged.
UpdateLate(c, a) ==
    /\ loop[c] = "late"
    /\ probe[c][a] \in {"healthy", "degraded"}
    /\ AfterUpdate(c, a)
    /\ UNCHANGED <<agent, loop, fails, misses, called, faults>>

UpdateFails(c, a) ==
    /\ loop[c] = "round"
    /\ probe[c][a] \in {"healthy", "degraded"}
    /\ Fault
    /\ AfterUpdate(c, a)
    /\ UNCHANGED <<agent, loop, fails, misses, called>>

\* agent.health_degraded is handed to the webhook dispatcher.
Announce(c, a) ==
    /\ probe[c][a] = "announce"
    /\ probe' = [probe EXCEPT ![c][a] = "none"]
    /\ called' = [called EXCEPT ![c][a] = @ + 1]
    /\ UNCHANGED <<agent, loop, fails, misses, faults>>

EndRound(c) ==
    /\ Running(c)
    /\ \A a \in Agents : probe[c][a] = "none"
    /\ loop' = [loop EXCEPT ![c] = "idle"]
    /\ UNCHANGED <<agent, probe, fails, misses, called, faults>>

\* The loop is the one to receive from quit.
Stop(c) ==
    /\ loop[c] = "idle"
    /\ loop' = [loop EXCEPT ![c] = "stopped"]
    /\ UNCHANGED <<agent, probe, fails, misses, called, faults>>

\* The process of an instance dies and is started again.
Restart(c) ==
    /\ Fault
    /\ loop' = [loop EXCEPT ![c] = "idle"]
    /\ probe' = [probe EXCEPT ![c] = [a \in Agents |-> "none"]]
    /\ fails' = [fails EXCEPT ![c] = [a \in Agents |-> 0]]
    /\ called' = [called EXCEPT ![c] = [a \in Agents |-> 0]]
    /\ UNCHANGED <<agent, misses>>

-----------------------------------------------------------------------------
\* The endpoint breaks or recovers; the agent becomes active or no longer is.
Turn(a) ==
    /\ \/ agent' = [agent EXCEPT ![a].up = ~@]
       \/ agent' = [agent EXCEPT ![a].listed = ~@]
    /\ UNCHANGED <<loop, probe, fails, misses, called, faults>>

\* A step of one goroutine.
Goroutine(c, a) ==
    \/ Probe(c, a)
    \/ UpdateHealthStatus(c, a)
    \/ UpdateLate(c, a)
    \/ Announce(c, a)

\* What a checker does when it is scheduled.
Advance(c) ==
    \/ Tick(c)
    \/ EndRound(c)
    \/ \E a \in Agents : Goroutine(c, a)

Next ==
    \/ \E c \in Checkers :
          \/ Advance(c) \/ Overrun(c) \/ Stop(c) \/ Restart(c)
          \/ \E a \in Agents : UpdateFails(c, a)
    \/ \E a \in Agents : Turn(a)

\* The ticker ticks, probes time out and statements return.  Endpoints need
\* not recover, and nothing has to fail, stop or restart.
Fairness == \A c \in Checkers : WF_vars(Advance(c))

Spec == Init /\ [][Next]_vars /\ Fairness

-----------------------------------------------------------------------------
(* Properties *)

\* Every variable has its type.
TypeOK ==
    /\ agent \in [Agents -> [listed : BOOLEAN, up : BOOLEAN,
                             health : {"unknown", "healthy", "degraded"}]]
    /\ loop \in [Checkers -> {"idle", "round", "late", "stopped"}]
    /\ probe \in [Checkers -> [Agents -> {"none", "queued", "healthy",
                                          "degraded", "announce"}]]
    /\ fails \in [Checkers -> [Agents -> Nat]]
    /\ misses \in [Checkers -> [Agents -> Nat]]
    /\ called \in [Checkers -> [Agents -> Nat]]
    /\ faults \in Nat

\* While nothing has failed, a row that says degraded has a checker whose
\* last FailThreshold probes all went unanswered, or one that is about to
\* write otherwise: no interleaving of several checkers' reads and writes
\* leaves a flag that nobody stands for.
FlagExplained ==
    faults = 0 => \A a \in Agents : agent[a].health = "degraded" =>
        \E c \in Checkers :
            misses[c][a] >= FailThreshold \/ probe[c][a] = "healthy"

\* However long an outage lasts, one life of a checker announces it once.
AnnouncedOnce == \A c \in Checkers, a \in Agents : called[c][a] =< 1

\* Nobody is flagged or announced by a checker that the endpoint answered
\* within its last FailThreshold probes of it, crashes or not.
AlarmsEarned ==
    [][\A c \in Checkers, a \in Agents :
          \/ called'[c][a] > called[c][a]
          \/ probe[c][a] = "degraded" /\ probe'[c][a] = "announce"
       => misses[c][a] >= FailThreshold]_vars

\* An agent that stays active and answers is in the end healthy for good, as
\* long as some checker's loop goes on: every stale verdict and every failed
\* update is made up for by a later round.
RecoveryShows ==
    \A a \in Agents :
        /\ <>[](agent[a].listed /\ agent[a].up)
        /\ <>[](\E c \in Checkers : loop[c] # "stopped")
        => <>[](agent[a].health = "healthy")

\* The protocol document: after so many consecutive failures the agent's
\* health status is set to degraded.
OutageShows ==
    \A a \in Agents :
        /\ <>[](agent[a].listed /\ ~agent[a].up)
        /\ <>[](\E c \in Checkers : loop[c] # "stopped")
        => <>(agent[a].health = "degraded")

-----------------------------------------------------------------------------
(* The inductive invariant. *)

\* The count never runs ahead of the endpoint's real misses.
FailsInv ==
    \A c \in Checkers, a \in Agents :
        /\ fails[c][a] =< misses[c][a]
        /\ probe[c][a] \in {"degraded", "announce"} =>
              fails[c][a] >= FailThreshold

\* Who is about to announce has not announced, and nobody announces below
\* the threshold.
CalledInv ==
    \A c \in Checkers, a \in Agents :
        fails[c][a] < FailThreshold \/ probe[c][a] \in {"degraded", "announce"}
            => called[c][a] = 0

\* Between rounds no goroutine is left.
IdleInv ==
    \A c \in Checkers : ~Running(c) =>
        \A a \in Agents : probe[c][a] = "none"

\* Only a fault makes a round late.
LateInv == \A c \in Checkers : loop[c] = "late" => faults > 0

\* All of it, with the properties that are conjuncts themselves.
Inductive ==
    /\ TypeOK
    /\ FailsInv
    /\ CalledInv
    /\ IdleInv
    /\ LateInv
    /\ FlagExplained
    /\ AnnouncedOnce
=============================================================================
