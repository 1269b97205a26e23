--------------------------- MODULE RegistryProcess ---------------------------
(***************************************************************************)
(* The registry process from its start to its end: the sweep of expired    *)
(* challenges, the health checker and run itself all receive from one      *)
(* channel of signals, which holds one; run then shuts its servers down    *)
(* one after the other, both within the same time, and closes the pool of  *)
(* database connections on its way out, which waits for those that are     *)
(* held.                                                                   *)
(***************************************************************************)
EXTENDS Naturals, FiniteSets

CONSTANTS
    Workers,     \* the goroutines started with the quit channel
    Clients,     \* the requests that may be under way at a time
    MaxSignals   \* bound: signals that reach the channel

VARIABLES
    quit,        \* the signals in the channel, at most one
    worker,      \* each background goroutine: "waits", "works" or "ended"
    main,        \* run: "serves", "stops_http", "stops_tls", "closes" or "ended"
    timely,      \* the 15 seconds of the shutdown are not up
    served,      \* the requests under way, with the server each came in by
    pool,        \* who holds a connection to the database
    received     \* ghost: the signals that have reached the channel

vars == <<quit, worker, main, timely, served, pool, received>>

-----------------------------------------------------------------------------
Ports == {"http", "tls"}

Init ==
    /\ quit = 0
    /\ worker = [w \in Workers |-> "waits"]
    /\ main = "serves"
    /\ timely = TRUE
    /\ served = [c \in Clients |-> "none"]
    /\ pool = {}
    /\ received = 0

\* A signal comes; it is dropped when one is in the channel already.
Signal ==
    /\ main # "ended"
    /\ quit = 0
    /\ received < MaxSignals
    /\ quit' = 1
    /\ received' = received + 1
    /\ UNCHANGED <<worker, main, timely, served, pool>>

\* Slip: a worker that receives the signal goes on to the next turn.
KeepsOn(w) == worker' = worker

Ends(w) == worker' = [worker EXCEPT ![w] = "ended"]

\* The ticker fires: a sweep or a round of checks, within a time of its own.
Turn(w) ==
    /\ main # "ended"
    /\ worker[w] = "waits"
    /\ worker' = [worker EXCEPT ![w] = "works"]
    /\ UNCHANGED <<quit, main, timely, served, pool, received>>

EndTurn(w) ==
    /\ main # "ended"
    /\ worker[w] = "works"
    /\ w \notin pool
    /\ worker' = [worker EXCEPT ![w] = "waits"]
    /\ UNCHANGED <<quit, main, timely, served, pool, received>>

\* A worker that waits takes the signal as well as run does, and run has to
\* wait for another one.
WorkerQuits(w) ==
    /\ main # "ended"
    /\ worker[w] = "waits"
    /\ quit = 1
    /\ quit' = 0
    /\ Ends(w)
    /\ UNCHANGED <<main, timely, served, pool, received>>

RunQuits ==
    /\ main = "serves"
    /\ quit = 1
    /\ quit' = 0
    /\ main' = "stops_http"
    /\ UNCHANGED <<worker, timely, served, pool, received>>

-----------------------------------------------------------------------------
Accepts(port) ==
    \/ main = "serves"
    \/ port = "tls" /\ main = "stops_http"

Request(c, port) ==
    /\ served[c] = "none"
    /\ Accepts(port)
    /\ served' = [served EXCEPT ![c] = port]
    /\ UNCHANGED <<quit, worker, main, timely, pool, received>>

Answer(c) ==
    /\ served[c] # "none"
    /\ main # "ended"
    /\ served' = [served EXCEPT ![c] = "none"]
    /\ UNCHANGED <<quit, worker, main, timely, pool, received>>

TimeUp ==
    /\ main \in {"stops_http", "stops_tls"}
    /\ timely
    /\ timely' = FALSE
    /\ UNCHANGED <<quit, worker, main, served, pool, received>>

\* Shutdown returns when the requests of its server have ended, or in error
\* when the time is up: the next step is taken either way.
Drained(port) == ~timely \/ \A c \in Clients : served[c] # port

ShutdownHTTP ==
    /\ main = "stops_http"
    /\ Drained("http")
    /\ main' = "stops_tls"
    /\ UNCHANGED <<quit, worker, timely, served, pool, received>>

ShutdownTLS ==
    /\ main = "stops_tls"
    /\ Drained("tls")
    /\ main' = "closes"
    /\ UNCHANGED <<quit, worker, timely, served, pool, received>>

\* run returns.  The pool hands out no connection any more and waits, without a
\* limit, for those that are held; then the process ends.
Close ==
    /\ main = "closes"
    /\ pool = {}
    /\ main' = "ended"
    /\ UNCHANGED <<quit, worker, timely, served, pool, received>>

-----------------------------------------------------------------------------
\* A worker at its turn, a request, or a delivery to a webhook that a request has
\* started, which may outlive it, has the database at work.
Acquire(h) ==
    /\ main \notin {"closes", "ended"}
    /\ h \notin pool
    /\ h \in Workers => worker[h] = "works"
    /\ pool' = pool \cup {h}
    /\ UNCHANGED <<quit, worker, main, timely, served, received>>

Release(h) ==
    /\ h \in pool
    /\ main # "ended"
    /\ pool' = pool \ {h}
    /\ UNCHANGED <<quit, worker, main, timely, served, received>>

-----------------------------------------------------------------------------
Shutdown == ShutdownHTTP \/ ShutdownTLS \/ Close

Next ==
    \/ Signal \/ RunQuits \/ TimeUp \/ Shutdown
    \/ \E w \in Workers : Turn(w) \/ EndTurn(w) \/ WorkerQuits(w)
    \/ \E c \in Clients : Answer(c) \/ \E port \in Ports : Request(c, port)
    \/ \E h \in Workers \cup Clients : Acquire(h) \/ Release(h)

Spec == Init /\ [][Next]_vars

\* run waits for a signal all the time, and goes on with the shutdown; the 15
\* seconds have an end.  No signal need come, a request, a statement or a worker's
\* turn need not end, and a worker need not look.
Fairness == WF_vars(RunQuits) /\ WF_vars(TimeUp) /\ WF_vars(Shutdown)

FairSpec == Spec /\ Fairness

-----------------------------------------------------------------------------
(* Properties *)

Ended == {w \in Workers : worker[w] = "ended"}

\* The process ends, although requests may never do, but in two cases: run gets
\* no signal, for each that came was taken by a worker, and a worker takes one at
\* most; or somebody keeps a connection to the database for ever.
ProcessEnds ==
    \/ <>(main = "ended")
    \/ <>[](main = "serves" /\ received = Cardinality(Ended))
    \/ \E h \in Workers \cup Clients : <>[](h \in pool)
=============================================================================
