----------------------------- MODULE AgentClient -----------------------------
(***************************************************************************)
(* The token that the Go client sends with its calls to agents: the calls  *)
(* fetch and renew it under a mutex, FetchToken renews it at any time and  *)
(* takes the mutex only to store it.  A token is the time its registry     *)
(* stops to accept it.                                                     *)
(***************************************************************************)
EXTENDS Integers

CONSTANTS
    Callers,       \* goroutines that share the client
    Life,          \* lifetime of a token
    RefreshBuffer, \* how early the client renews it
    HttpTimeout,   \* time a request may take
    MaxClock       \* bound on the clock

\* A token lives longer than the client's buffer, or it would be renewed for
\* each call and be sent with less than the buffer left.
ASSUME TokenAssumption ==
    /\ Life \in Nat /\ RefreshBuffer \in Nat /\ HttpTimeout \in Nat
    /\ RefreshBuffer < Life

VARIABLES
    token,         \* bearerToken
    tokenExpiry,   \* when the client renews it, 0 for never
    mu,            \* who holds the mutex
    op,            \* the goroutines
    clock

tokenVars == <<token, tokenExpiry, mu, op, clock>>

NoToken == -1
Manual == -2       \* a token of the user's own, of unknown life
Free == "free"

\* A fetch has the time it was started at, then the time of its renewal.
IdleOp == [pc |-> "idle", token |-> NoToken, started |-> 0]

\* The client is made with a token of the user's or with none.
TokenInit ==
    /\ token \in {NoToken, Manual}
    /\ tokenExpiry = 0
    /\ mu = Free
    /\ op = [c \in Callers |-> IdleOp]
    /\ clock = 1

-----------------------------------------------------------------------------
OpAt(c, pc) == op[c].pc = pc
SetOp(c, new) == op' = [op EXCEPT ![c] = new]
OpGoto(c, pc) == SetOp(c, [op[c] EXCEPT !.pc = pc])

\* The agent is resolved first, which may fail or take its time.
CallAgent(c) ==
    /\ OpAt(c, "idle")
    /\ OpGoto(c, "lock")
    /\ UNCHANGED <<token, tokenExpiry, mu, clock>>

Valid == token # NoToken /\ (tokenExpiry = 0 \/ clock < tokenExpiry)

\* With the mutex, the cached token is used, or another one is asked for.
EnsureToken(c) ==
    /\ OpAt(c, "lock")
    /\ mu = Free
    /\ IF Valid
       THEN /\ SetOp(c, [op[c] EXCEPT !.pc = "call", !.token = token])
            /\ UNCHANGED mu
       ELSE /\ SetOp(c, [op[c] EXCEPT !.pc = "ask_held", !.started = clock])
            /\ mu' = c
    /\ UNCHANGED <<token, tokenExpiry, clock>>

FetchToken(c) ==
    /\ OpAt(c, "idle")
    /\ SetOp(c, [op[c] EXCEPT !.pc = "ask", !.started = clock])
    /\ UNCHANGED <<token, tokenExpiry, mu, clock>>

\* The registry signs a token.
TokenIssued(c) ==
    /\ op[c].pc \in {"ask_held", "ask"}
    /\ SetOp(c, [op[c] EXCEPT !.pc = IF OpAt(c, "ask") THEN "got" ELSE "got_held",
                              !.token = clock + Life])
    /\ UNCHANGED <<token, tokenExpiry, mu, clock>>

\* The client counts the lifetime from the arrival of the answer.
Renewal == clock + Life - RefreshBuffer

\* The one that holds the mutex stores what it got, and lets go.
TokenArrives(c) ==
    /\ OpAt(c, "got_held")
    /\ token' = op[c].token
    /\ tokenExpiry' = Renewal
    /\ mu' = Free
    /\ OpGoto(c, "call")
    /\ UNCHANGED clock

\* FetchToken has counted when the answer came, and may wait for the mutex.
FetchArrives(c) ==
    /\ OpAt(c, "got")
    /\ SetOp(c, [op[c] EXCEPT !.pc = "store", !.started = Renewal])
    /\ UNCHANGED <<token, tokenExpiry, mu, clock>>

\* Slip: of the two times of renewal the later one is kept.
StoreLater(c) ==
    /\ token' = op[c].token
    /\ tokenExpiry' = IF op[c].started > tokenExpiry THEN op[c].started ELSE tokenExpiry

StoreToken(c) ==
    /\ token' = op[c].token
    /\ tokenExpiry' = op[c].started

FetchStores(c) ==
    /\ OpAt(c, "store")
    /\ mu = Free
    /\ StoreToken(c)
    /\ SetOp(c, IdleOp)
    /\ UNCHANGED <<mu, clock>>

FailFetch(c) ==
    /\ op[c].pc \in {"ask", "ask_held", "got", "got_held"}
    /\ mu' = IF mu = c THEN Free ELSE mu
    /\ SetOp(c, IdleOp)
    /\ UNCHANGED <<token, tokenExpiry, clock>>

\* The token goes out with the call to the agent, or the call is given up.
SendCall(c) ==
    /\ OpAt(c, "call")
    /\ SetOp(c, IdleOp)
    /\ UNCHANGED <<token, tokenExpiry, mu, clock>>

\* A request takes no longer than its time out, a call goes out at once.
TokenTick ==
    /\ clock < MaxClock
    /\ \A c \in Callers :
          /\ ~OpAt(c, "call")
          /\ op[c].pc \in {"ask", "ask_held", "got", "got_held"} =>
                 clock < op[c].started + HttpTimeout
    /\ clock' = clock + 1
    /\ UNCHANGED <<token, tokenExpiry, mu, op>>

-----------------------------------------------------------------------------
CallerStep(c) ==
    \/ CallAgent(c) \/ EnsureToken(c) \/ FetchToken(c) \/ TokenIssued(c)
    \/ TokenArrives(c) \/ FetchArrives(c) \/ FetchStores(c) \/ FailFetch(c)
    \/ SendCall(c)

TokenNext == TokenTick \/ \E c \in Callers : CallerStep(c)

TokenSpec == TokenInit /\ [][TokenNext]_tokenVars

-----------------------------------------------------------------------------
(* Properties *)

\* The token that goes out with a call is good for a while yet: the buffer less
\* the time an answer takes, whatever fetches overlap and in whatever order
\* their answers are stored.
TokenFresh ==
    \A c \in Callers : OpAt(c, "call") /\ op[c].token # Manual =>
        op[c].token > clock + RefreshBuffer - HttpTimeout
=============================================================================
