------------------------- MODULE HealthCheckerProofs -------------------------
(***************************************************************************)
(* Proofs about HealthChecker, for any number of agents and checkers, any  *)
(* threshold and any number of faults.                                     *)
(***************************************************************************)
EXTENDS HealthChecker, TLAPS

-----------------------------------------------------------------------------
(* Lemmas about counts and verdicts. *)

(* A count grows, and reaches the threshold from below only.               *)
LEMMA CountGrows ==
    ASSUME NEW n \in Nat
    PROVE  /\ Count(n) \in Nat
           /\ n =< Count(n)
           /\ Count(n) =< FailThreshold => n < FailThreshold
           /\ \A m \in Nat : n =< m => Count(n) =< Count(m)
BY ThresholdAssumption DEF Count

LEMMA NextFailsGrows ==
    ASSUME NEW ok \in BOOLEAN, NEW n \in Nat
    PROVE  /\ NextFails(ok, n) \in Nat
           /\ ok => NextFails(ok, n) = 0
           /\ ~ok => NextFails(ok, n) = Count(n)
BY CountGrows DEF NextFails

LEMMA VerdictCases ==
    ASSUME NEW ok \in BOOLEAN, NEW prev, NEW count
    PROVE  /\ Verdict(ok, prev, count) \in {"healthy", "degraded", "none"}
           /\ ok <=> Verdict(ok, prev, count) = "healthy"
           /\ Verdict(ok, prev, count) = "degraded" => count = FailThreshold
BY DEF Verdict

-----------------------------------------------------------------------------
(* The inductive invariant. *)

LEMMA InitInductive == Init => Inductive
<1> SUFFICES ASSUME Init PROVE Inductive
  OBVIOUS
<1>1. TypeOK
  BY DEF Init, TypeOK
<1>2. FailsInv /\ CalledInv /\ IdleInv /\ LateInv /\ AnnouncedOnce
  BY DEF Init, FailsInv, CalledInv, IdleInv, LateInv, AnnouncedOnce
<1>3. FlagExplained
  BY DEF Init, FlagExplained
<1> QED
  BY <1>1, <1>2, <1>3 DEF Inductive

(* A probe, with the counting that follows it. *)
LEMMA ProbeKeeps ==
    ASSUME Inductive, NEW c \in Checkers, NEW a \in Agents, Probe(c, a)
    PROVE  Inductive'
<1> DEFINE ok == agent[a].up /\ loop[c] = "round"
           count == NextFails(ok, fails[c][a])
           verdict == Verdict(ok, fails[c][a], count)
           missed == IF ok THEN 0 ELSE Count(misses[c][a])
           calls == IF ok THEN 0 ELSE called[c][a]
<1>1. TypeOK /\ FailsInv /\ CalledInv /\ AnnouncedOnce
  BY DEF Inductive
<1>2. /\ ok \in BOOLEAN
      /\ fails[c][a] \in Nat /\ misses[c][a] \in Nat /\ called[c][a] \in Nat
      /\ fails[c][a] =< misses[c][a]
      /\ called[c][a] =< 1
      /\ fails[c][a] < FailThreshold => called[c][a] = 0
  BY <1>1 DEF TypeOK, FailsInv, CalledInv, AnnouncedOnce
<1>3. /\ Running(c) /\ probe[c][a] = "queued"
      /\ fails' = [fails EXCEPT ![c][a] = count]
      /\ misses' = [misses EXCEPT ![c][a] = missed]
      /\ called' = [called EXCEPT ![c][a] = calls]
      /\ probe' = [probe EXCEPT ![c][a] = verdict]
      /\ UNCHANGED <<agent, loop, faults>>
  BY DEF Probe
<1>4. /\ count \in Nat /\ missed \in Nat /\ calls \in Nat
      /\ verdict \in {"healthy", "degraded", "none"}
      /\ verdict = "degraded" => count = FailThreshold
      /\ ok => verdict = "healthy"
      /\ ~ok => misses[c][a] =< missed
  BY <1>2, CountGrows, NextFailsGrows, VerdictCases
<1>5. count =< missed
  <2>1. CASE ok
    <3>1. count = 0
      BY <1>2, <2>1, NextFailsGrows
    <3>2. missed = 0
      BY <2>1
    <3> QED
      BY <3>1, <3>2
  <2>2. CASE ~ok
    <3>1. count = Count(fails[c][a]) /\ missed = Count(misses[c][a])
      BY <1>2, <2>2, NextFailsGrows
    <3> QED
      BY <1>2, <3>1, CountGrows
  <2> QED
    BY <2>1, <2>2
<1>6. calls =< 1 /\ (count < FailThreshold \/ verdict = "degraded" => calls = 0)
  <2>1. CASE ok
    BY <2>1
  <2>2. CASE ~ok
    <3>1. count = Count(fails[c][a]) /\ calls = called[c][a]
      BY <1>2, <2>2, NextFailsGrows
    <3>2. count =< FailThreshold => calls = 0
      BY <1>2, <3>1, CountGrows
    <3> QED
      BY <1>2, <1>4, <3>1, <3>2, ThresholdAssumption
  <2> QED
    BY <2>1, <2>2
<1> HIDE DEF ok, count, verdict, missed, calls
<1>7. TypeOK'
  BY <1>1, <1>3, <1>4 DEF TypeOK
<1>8. /\ fails'[c][a] = count /\ misses'[c][a] = missed
      /\ called'[c][a] = calls /\ probe'[c][a] = verdict
      /\ \A d \in Checkers, b \in Agents : d # c \/ b # a =>
            /\ fails'[d][b] = fails[d][b] /\ misses'[d][b] = misses[d][b]
            /\ called'[d][b] = called[d][b] /\ probe'[d][b] = probe[d][b]
  BY <1>1, <1>3 DEF TypeOK
<1>9. FailsInv'
  BY <1>1, <1>4, <1>5, <1>8, ThresholdAssumption DEF FailsInv
<1>10. CalledInv' /\ AnnouncedOnce'
  BY <1>1, <1>4, <1>6, <1>8 DEF CalledInv, AnnouncedOnce
<1>11. IdleInv' /\ LateInv'
  BY <1>3, <1>8 DEF Inductive, IdleInv, LateInv, Running
<1>12. FlagExplained'
  <2> SUFFICES ASSUME faults' = 0, NEW b \in Agents,
                      agent'[b].health = "degraded"
               PROVE  \E d \in Checkers :
                         misses'[d][b] >= FailThreshold \/ probe'[d][b] = "healthy"
    BY DEF FlagExplained
  <2>1. PICK d \in Checkers :
           misses[d][b] >= FailThreshold \/ probe[d][b] = "healthy"
    BY <1>3 DEF Inductive, FlagExplained
  <2>2. CASE d = c /\ b = a
    BY <1>2, <1>3, <1>4, <1>8, <2>1, <2>2, ThresholdAssumption
  <2>3. CASE ~(d = c /\ b = a)
    BY <1>8, <2>1, <2>3
  <2> QED
    BY <2>2, <2>3
<1> QED
  BY <1>7, <1>9, <1>10, <1>11, <1>12 DEF Inductive

(* What follows a verdict: the update, done or not, and the announcement.   *)
LEMMA UpdateKeeps ==
    ASSUME Inductive, NEW c \in Checkers, NEW a \in Agents,
           \/ UpdateHealthStatus(c, a)
           \/ UpdateLate(c, a)
           \/ UpdateFails(c, a)
    PROVE  Inductive'
<1> DEFINE next == IF probe[c][a] = "degraded" THEN "announce" ELSE "none"
<1>1. TypeOK /\ FailsInv /\ CalledInv /\ AnnouncedOnce
  BY DEF Inductive
<1>2. /\ probe[c][a] \in {"healthy", "degraded"}
      /\ probe' = [probe EXCEPT ![c][a] = next]
      /\ UNCHANGED <<loop, fails, misses, called>>
      /\ faults' = faults \/ faults' = faults + 1
      /\ \/ agent' = agent
         \/ agent' = [agent EXCEPT ![a].health = probe[c][a]]
  BY DEF UpdateHealthStatus, UpdateLate, UpdateFails, AfterUpdate, Fault
<1>3. Running(c)
  BY <1>2 DEF Inductive, IdleInv
<1>4. next \in {"none", "announce"} /\ (next = "announce" <=> probe[c][a] = "degraded")
  OBVIOUS
<1> HIDE DEF next
<1>5. TypeOK'
  <2>1. agent' \in [Agents -> [listed : BOOLEAN, up : BOOLEAN,
                               health : {"unknown", "healthy", "degraded"}]]
    <3>1. CASE agent' = agent
      BY <1>1, <3>1 DEF TypeOK
    <3>2. CASE agent' = [agent EXCEPT ![a].health = probe[c][a]]
      <4>1. agent[a] \in [listed : BOOLEAN, up : BOOLEAN,
                          health : {"unknown", "healthy", "degraded"}]
        BY <1>1 DEF TypeOK
      <4>2. [agent[a] EXCEPT !.health = probe[c][a]] \in
              [listed : BOOLEAN, up : BOOLEAN,
               health : {"unknown", "healthy", "degraded"}]
        BY <1>2, <4>1
      <4> QED
        BY <1>1, <3>2, <4>2 DEF TypeOK
    <3> QED
      BY <1>2, <3>1, <3>2
  <2>2. probe' \in [Checkers -> [Agents -> {"none", "queued", "healthy",
                                            "degraded", "announce"}]]
    BY <1>1, <1>2, <1>4 DEF TypeOK
  <2>3. faults' \in Nat
    BY <1>1, <1>2 DEF TypeOK
  <2> QED
    BY <1>1, <1>2, <2>1, <2>2, <2>3 DEF TypeOK
<1>6. /\ probe'[c][a] = next
      /\ \A d \in Checkers, b \in Agents :
            d # c \/ b # a => probe'[d][b] = probe[d][b]
  BY <1>1, <1>2 DEF TypeOK
<1>7. FailsInv' /\ CalledInv' /\ AnnouncedOnce'
  BY <1>1, <1>2, <1>4, <1>6 DEF FailsInv, CalledInv, AnnouncedOnce
<1>8. IdleInv' /\ LateInv'
  BY <1>1, <1>2, <1>3, <1>6 DEF Inductive, IdleInv, LateInv, Running, TypeOK
<1>9. FlagExplained'
  <2> SUFFICES ASSUME faults' = 0, NEW b \in Agents,
                      agent'[b].health = "degraded"
               PROVE  \E d \in Checkers :
                         misses'[d][b] >= FailThreshold \/ probe'[d][b] = "healthy"
    BY DEF FlagExplained
  <2>1. faults = 0 /\ UpdateHealthStatus(c, a)
    BY <1>1, <1>2 DEF Inductive, LateInv, TypeOK, UpdateLate, UpdateFails, Fault
  <2>2. agent'[a].health = probe[c][a] /\ \A e \in Agents : e # a => agent'[e] = agent[e]
    BY <1>1, <2>1 DEF UpdateHealthStatus, TypeOK
  <2>3. CASE b = a
    <3>1. probe[c][a] = "degraded"
      BY <2>2, <2>3
    <3>2. /\ fails[c][a] \in Nat /\ misses[c][a] \in Nat
          /\ fails[c][a] =< misses[c][a] /\ fails[c][a] >= FailThreshold
      BY <1>1, <3>1 DEF FailsInv, TypeOK
    <3> QED
      BY <1>2, <2>3, <3>2, ThresholdAssumption
  <2>4. CASE b # a
    BY <1>2, <1>6, <2>1, <2>2, <2>4 DEF Inductive, FlagExplained
  <2> QED
    BY <2>3, <2>4
<1> QED
  BY <1>5, <1>7, <1>8, <1>9 DEF Inductive

LEMMA AnnounceKeeps ==
    ASSUME Inductive, NEW c \in Checkers, NEW a \in Agents, Announce(c, a)
    PROVE  Inductive'
<1>1. TypeOK /\ FailsInv /\ CalledInv /\ AnnouncedOnce
  BY DEF Inductive
<1>2. /\ probe[c][a] = "announce"
      /\ probe' = [probe EXCEPT ![c][a] = "none"]
      /\ called' = [called EXCEPT ![c][a] = called[c][a] + 1]
      /\ UNCHANGED <<agent, loop, fails, misses, faults>>
  BY DEF Announce
<1>3. /\ called[c][a] = 0 /\ fails[c][a] \in Nat
      /\ fails[c][a] >= FailThreshold
  BY <1>1, <1>2 DEF FailsInv, CalledInv, TypeOK
<1>4. TypeOK'
  BY <1>1, <1>2, <1>3 DEF TypeOK
<1>5. /\ probe'[c][a] = "none" /\ called'[c][a] = 1
      /\ \A d \in Checkers, b \in Agents : d # c \/ b # a =>
            probe'[d][b] = probe[d][b] /\ called'[d][b] = called[d][b]
  BY <1>1, <1>2, <1>3 DEF TypeOK
<1>6. FailsInv' /\ AnnouncedOnce'
  BY <1>1, <1>2, <1>5 DEF FailsInv, AnnouncedOnce
<1>7. CalledInv'
  BY <1>1, <1>2, <1>3, <1>5, ThresholdAssumption DEF CalledInv
<1>8. IdleInv' /\ LateInv'
  BY <1>2, <1>5 DEF Inductive, IdleInv, LateInv, Running
<1>9. FlagExplained'
  BY <1>2, <1>5 DEF Inductive, FlagExplained
<1> QED
  BY <1>4, <1>6, <1>7, <1>8, <1>9 DEF Inductive

(* The loop: a round begins, overruns or ends, and the loop stops. *)
LEMMA LoopKeeps ==
    ASSUME Inductive, NEW c \in Checkers,
           Tick(c) \/ Overrun(c) \/ EndRound(c) \/ Stop(c)
    PROVE  Inductive'
<1>1. TypeOK /\ FailsInv /\ CalledInv /\ IdleInv
  BY DEF Inductive
<1>2. CASE Tick(c)
  <2>1. \A a \in Agents : probe[c][a] = "none"
    BY <1>1, <1>2 DEF Tick, IdleInv, Running
  <2>2. /\ loop' = [loop EXCEPT ![c] = "round"]
        /\ UNCHANGED <<agent, fails, misses, called, faults>>
        /\ DOMAIN probe' = Checkers
        /\ \A d \in Checkers : d # c => probe'[d] = probe[d]
        /\ probe'[c] = [a \in Agents |-> IF agent[a].listed THEN "queued" ELSE "none"]
    BY <1>1, <1>2 DEF Tick, TypeOK
  <2>3. probe' \in [Checkers -> [Agents -> {"none", "queued", "healthy",
                                            "degraded", "announce"}]]
    BY <1>1, <1>2 DEF Tick, TypeOK
  <2>4. TypeOK'
    BY <1>1, <2>2, <2>3 DEF TypeOK
  <2>5. FailsInv' /\ CalledInv' /\ AnnouncedOnce'
    BY <1>1, <2>2 DEF Inductive, FailsInv, CalledInv, AnnouncedOnce
  <2>6. IdleInv' /\ LateInv'
    BY <1>1, <2>2 DEF Inductive, IdleInv, LateInv, Running, TypeOK
  <2>7. FlagExplained'
    BY <2>1, <2>2 DEF Inductive, FlagExplained
  <2> QED
    BY <2>4, <2>5, <2>6, <2>7 DEF Inductive
<1>3. CASE Overrun(c)
  <2>1. /\ loop[c] = "round" /\ loop' = [loop EXCEPT ![c] = "late"]
        /\ faults' = faults + 1
        /\ UNCHANGED <<agent, probe, fails, misses, called>>
    BY <1>3 DEF Overrun, Fault
  <2>2. TypeOK' /\ faults' # 0 /\ faults' > 0
    BY <1>1, <2>1 DEF TypeOK
  <2>3. FailsInv' /\ CalledInv' /\ AnnouncedOnce' /\ FlagExplained'
    BY <1>1, <2>1, <2>2
    DEF Inductive, FailsInv, CalledInv, AnnouncedOnce, FlagExplained
  <2>4. IdleInv' /\ LateInv'
    BY <1>1, <2>1, <2>2 DEF Inductive, IdleInv, LateInv, Running, TypeOK
  <2> QED
    BY <2>2, <2>3, <2>4 DEF Inductive
<1>4. CASE EndRound(c) \/ Stop(c)
  <2>1. /\ \A a \in Agents : probe[c][a] = "none"
        /\ \/ loop' = [loop EXCEPT ![c] = "idle"]
           \/ loop' = [loop EXCEPT ![c] = "stopped"]
        /\ UNCHANGED <<agent, probe, fails, misses, called, faults>>
    BY <1>1, <1>4 DEF EndRound, Stop, IdleInv, Running
  <2>2. TypeOK'
    BY <1>1, <2>1 DEF TypeOK
  <2>3. FailsInv' /\ CalledInv' /\ AnnouncedOnce' /\ FlagExplained'
    BY <1>1, <2>1
    DEF Inductive, FailsInv, CalledInv, AnnouncedOnce, FlagExplained
  <2>4. IdleInv' /\ LateInv'
    BY <1>1, <2>1 DEF Inductive, IdleInv, LateInv, Running, TypeOK
  <2> QED
    BY <2>2, <2>3, <2>4 DEF Inductive
<1> QED
  BY <1>2, <1>3, <1>4

LEMMA RestartKeeps ==
    ASSUME Inductive, NEW c \in Checkers, Restart(c)
    PROVE  Inductive'
<1>1. TypeOK /\ FailsInv /\ CalledInv /\ IdleInv
  BY DEF Inductive
<1>2. TypeOK' /\ faults' # 0 /\ faults' > 0
  BY <1>1 DEF Restart, Fault, TypeOK
<1>3. /\ \A a \in Agents : /\ probe'[c][a] = "none" /\ fails'[c][a] = 0
                           /\ called'[c][a] = 0
      /\ \A d \in Checkers : d # c =>
            /\ probe'[d] = probe[d] /\ fails'[d] = fails[d]
            /\ called'[d] = called[d] /\ loop'[d] = loop[d]
      /\ loop'[c] = "idle"
      /\ misses' = misses
  BY <1>1 DEF Restart, TypeOK
<1>4. FailsInv'
  <2> SUFFICES ASSUME NEW d \in Checkers, NEW a \in Agents
               PROVE  /\ fails'[d][a] =< misses'[d][a]
                      /\ probe'[d][a] \in {"degraded", "announce"} =>
                            fails'[d][a] >= FailThreshold
    BY DEF FailsInv
  <2>1. CASE d = c
    <3>1. misses[c][a] \in Nat
      BY <1>1 DEF TypeOK
    <3> QED
      BY <1>3, <2>1, <3>1
  <2>2. CASE d # c
    BY <1>1, <1>3, <2>2 DEF FailsInv
  <2> QED
    BY <2>1, <2>2
<1>5. CalledInv' /\ AnnouncedOnce'
  BY <1>1, <1>3 DEF Inductive, CalledInv, AnnouncedOnce
<1>6. IdleInv' /\ LateInv' /\ FlagExplained'
  BY <1>1, <1>2, <1>3 DEF IdleInv, LateInv, FlagExplained, Running
<1> QED
  BY <1>2, <1>4, <1>5, <1>6 DEF Inductive

LEMMA TurnKeeps ==
    ASSUME Inductive, NEW a \in Agents, Turn(a)
    PROVE  Inductive'
<1>1. TypeOK
  BY DEF Inductive
<1> DEFINE Rows == [listed : BOOLEAN, up : BOOLEAN,
                    health : {"unknown", "healthy", "degraded"}]
<1>2. PICK row \in Rows : /\ agent' = [agent EXCEPT ![a] = row]
                         /\ row.health = agent[a].health
  <2>1. agent[a] \in Rows
    BY <1>1 DEF TypeOK
  <2>2. (~agent[a].up) \in BOOLEAN /\ (~agent[a].listed) \in BOOLEAN
    OBVIOUS
  <2> DEFINE up == ~agent[a].up
             listed == ~agent[a].listed
  <2>3. CASE agent' = [agent EXCEPT ![a].up = up]
    <3> HIDE DEF up
    <3>1. [agent[a] EXCEPT !.up = up] \in Rows
      BY <2>1, <2>2 DEF up
    <3>2. [agent[a] EXCEPT !.up = up].health = agent[a].health
      BY <2>1
    <3> QED
      BY <2>3, <3>1, <3>2
  <2>4. CASE agent' = [agent EXCEPT ![a].listed = listed]
    <3> HIDE DEF listed
    <3>1. [agent[a] EXCEPT !.listed = listed] \in Rows
      BY <2>1, <2>2 DEF listed
    <3>2. [agent[a] EXCEPT !.listed = listed].health = agent[a].health
      BY <2>1
    <3> QED
      BY <2>4, <3>1, <3>2
  <2> QED
    BY <2>3, <2>4 DEF Turn
<1>3. /\ \A b \in Agents : agent'[b].health = agent[b].health
      /\ agent' \in [Agents -> Rows]
  BY <1>1, <1>2 DEF TypeOK
<1>4. UNCHANGED <<loop, probe, fails, misses, called, faults>>
  BY DEF Turn
<1>5. TypeOK'
  BY <1>1, <1>3, <1>4 DEF TypeOK
<1> QED
  BY <1>3, <1>4, <1>5 DEF Inductive, FailsInv, CalledInv, IdleInv, LateInv,
                          Running, FlagExplained, AnnouncedOnce

LEMMA NextInductive ==
    ASSUME Inductive, [Next]_vars
    PROVE  Inductive'
<1>1. ASSUME NEW c \in Checkers, Advance(c)
      PROVE  Inductive'
  BY <1>1, LoopKeeps, ProbeKeeps, UpdateKeeps, AnnounceKeeps
  DEF Advance, Goroutine
<1>2. ASSUME NEW c \in Checkers, Overrun(c) \/ Stop(c) \/ Restart(c)
      PROVE  Inductive'
  BY <1>2, LoopKeeps, RestartKeeps
<1>3. ASSUME NEW c \in Checkers, NEW a \in Agents, UpdateFails(c, a)
      PROVE  Inductive'
  BY <1>3, UpdateKeeps
<1>4. ASSUME NEW a \in Agents, Turn(a)
      PROVE  Inductive'
  BY <1>4, TurnKeeps
<1>5. CASE UNCHANGED vars
  BY <1>5 DEF vars, Inductive, TypeOK, FailsInv, CalledInv, IdleInv, LateInv,
              Running, FlagExplained, AnnouncedOnce
<1> QED
  BY <1>1, <1>2, <1>3, <1>4, <1>5 DEF Next

(* The inductive invariant holds in every reachable state. *)
THEOREM InductiveHolds == Spec => []Inductive
<1>1. Init => Inductive
  BY InitInductive
<1>2. Inductive /\ [Next]_vars => Inductive'
  BY NextInductive
<1> QED
  BY <1>1, <1>2, PTL DEF Spec

-----------------------------------------------------------------------------
(* What follows from it. *)

(* A degraded row always has a checker that stands for it. *)
THEOREM FlagTheorem == Spec => []FlagExplained
<1>1. Inductive => FlagExplained
  BY DEF Inductive
<1> QED
  BY <1>1, InductiveHolds, PTL

(* An outage is announced once. *)
THEOREM OnceTheorem == Spec => []AnnouncedOnce
<1>1. Inductive => AnnouncedOnce
  BY DEF Inductive
<1> QED
  BY <1>1, InductiveHolds, PTL

(* Nobody is announced without FailThreshold unanswered probes in a row. *)
LEMMA AnnounceEarned ==
    ASSUME Inductive, Next, NEW c \in Checkers, NEW a \in Agents,
           called'[c][a] > called[c][a]
    PROVE  probe[c][a] = "announce"
<1>1. TypeOK
  BY DEF Inductive
<1>2. called[c][a] \in Nat
  BY <1>1 DEF TypeOK
<1>3. called' # called
  BY <1>2
<1>4. ASSUME NEW d \in Checkers, NEW b \in Agents, Announce(d, b)
      PROVE  probe[c][a] = "announce"
  BY <1>1, <1>2, <1>4 DEF Announce, TypeOK
<1>5. ASSUME NEW d \in Checkers, NEW b \in Agents, Probe(d, b)
      PROVE  FALSE
  <2>1. called'[c][a] = called[c][a] \/ called'[c][a] = 0
    BY <1>1, <1>5 DEF Probe, TypeOK
  <2> QED
    BY <1>2, <2>1
<1>6. ASSUME NEW d \in Checkers, Restart(d)
      PROVE  FALSE
  <2>1. called'[c][a] = called[c][a] \/ called'[c][a] = 0
    BY <1>1, <1>6 DEF Restart, TypeOK
  <2> QED
    BY <1>2, <2>1
<1> QED
  BY <1>3, <1>4, <1>5, <1>6
  DEF Next, Advance, Goroutine, Tick, EndRound, UpdateHealthStatus, UpdateLate,
      UpdateFails, Overrun, Stop, Turn

(* Flags and announcements are earned. *)
THEOREM EarnedTheorem == Spec => AlarmsEarned
<1> DEFINE Earned ==
      \A c \in Checkers, a \in Agents :
         \/ called'[c][a] > called[c][a]
         \/ probe[c][a] = "degraded" /\ probe'[c][a] = "announce"
         => misses[c][a] >= FailThreshold
<1>1. ASSUME Inductive, [Next]_vars
      PROVE  [Earned]_vars
  <2>1. ASSUME NEW c \in Checkers, NEW a \in Agents,
               probe[c][a] \in {"degraded", "announce"}
        PROVE  misses[c][a] >= FailThreshold
    <3>1. /\ fails[c][a] \in Nat /\ misses[c][a] \in Nat
          /\ fails[c][a] =< misses[c][a] /\ fails[c][a] >= FailThreshold
      BY <1>1, <2>1 DEF Inductive, FailsInv, TypeOK
    <3> QED
      BY <3>1, ThresholdAssumption
  <2>2. CASE Next
    BY <1>1, <2>1, <2>2, AnnounceEarned
  <2>3. CASE UNCHANGED vars
    BY <2>3
  <2> QED
    BY <1>1, <2>2, <2>3
<1> QED
  BY <1>1, InductiveHolds, PTL DEF Spec, AlarmsEarned
=============================================================================
