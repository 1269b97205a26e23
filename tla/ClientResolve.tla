--------------------------- MODULE ClientResolve ---------------------------
(***************************************************************************)
(* The Go client in front of the resolver service: goroutines that share a *)
(* client resolve through the service or ask the registry, and the client  *)
(* keeps the endpoints in a cache of its own.  The lifetimes add up.       *)
(***************************************************************************)
EXTENDS ResolverCache

CONSTANTS
    Goroutines,     \* the calls that are those of the client's goroutines
    ClientTTL,      \* WithCacheTTL
    ClientTimeout   \* time a request of the client may take

ASSUME ClientAssumption ==
    /\ Goroutines \subseteq Calls
    /\ ClientTTL \in Nat /\ ClientTimeout \in Nat

VARIABLES
    clientCache,
    user            \* the goroutines; each one's request is the call of its name

clientVars == <<clientCache, user>>

-----------------------------------------------------------------------------
ClientInit ==
    /\ ResolverInit
    /\ clientCache = [k \in Keys |-> NoEntry]
    /\ user = [c \in Goroutines |-> IdleCall]

UserAt(c, pc) == user[c].pc = pc
SetUser(c, new) == user' = [user EXCEPT ![c] = new]

ClientCacheSet(k, v) ==
    [clientCache EXCEPT ![k] = [endpoint |-> v, expiresAt |-> now + ClientTTL]]

\* Slip: an entry that is used lives on.
UserResolveSliding(c, k) ==
    /\ UserAt(c, "idle")
    /\ IF Expired(clientCache[k])
       THEN /\ SetUser(c, [IdleCall EXCEPT !.pc = "ask", !.key = k, !.started = now])
            /\ UNCHANGED clientCache
       ELSE /\ SetUser(c, [IdleCall EXCEPT !.pc = "answered", !.key = k,
                                          !.answer = clientCache[k].endpoint])
            /\ clientCache' = ClientCacheSet(k, clientCache[k].endpoint)
    /\ UNCHANGED resolverVars

\* Resolve and ResolveViaService look into the cache first.
UserResolve(c, k) ==
    /\ UserAt(c, "idle")
    /\ SetUser(c, IF Expired(clientCache[k])
                  THEN [IdleCall EXCEPT !.pc = "ask", !.key = k, !.started = now]
                  ELSE [IdleCall EXCEPT !.pc = "answered", !.key = k,
                                        !.answer = clientCache[k].endpoint])
    /\ UNCHANGED <<resolverVars, clientCache>>

\* Resolve asks the registry, which answers.
AskRegistry(c) ==
    /\ UserAt(c, "ask")
    /\ SetUser(c, [user[c] EXCEPT !.pc = "receive", !.answer = listed[user[c].key]])
    /\ UNCHANGED <<resolverVars, clientCache>>

\* ResolveViaService asks the service.
AskService(c) ==
    /\ UserAt(c, "ask")
    /\ Lookup(c, user[c].key)
    /\ SetUser(c, [user[c] EXCEPT !.pc = "wait"])
    /\ UNCHANGED clientCache

\* The answer of the service goes to the goroutine, if it still waits for it.
ServiceAnswers(c) ==
    /\ Return(c)
    /\ SetUser(c, IF UserAt(c, "wait")
                  THEN [user[c] EXCEPT !.pc = "receive", !.answer = call[c].answer]
                  ELSE user[c])
    /\ UNCHANGED clientCache

\* An endpoint is cached and answered, a refusal is an error.
UserReceives(c) ==
    LET u == user[c] IN
    /\ UserAt(c, "receive")
    /\ SetUser(c, [u EXCEPT !.pc = "answered"])
    /\ clientCache' = IF u.answer = Missing THEN clientCache
                      ELSE ClientCacheSet(u.key, u.answer)
    /\ UNCHANGED resolverVars

UserFails(c) ==
    /\ user[c].pc \in {"ask", "wait", "receive"}
    /\ SetUser(c, IdleCall)
    /\ UNCHANGED <<resolverVars, clientCache>>

UserReturns(c) ==
    /\ UserAt(c, "answered")
    /\ SetUser(c, IdleCall)
    /\ UNCHANGED <<resolverVars, clientCache>>

\* The http.Client of the client lets no request take longer than its time.
ClientTick ==
    /\ \A c \in Goroutines :
          /\ ~UserAt(c, "answered")
          /\ ~UserAt(c, "idle") => now < user[c].started + ClientTimeout
    /\ ResolverTick
    /\ UNCHANGED clientVars

-----------------------------------------------------------------------------
\* What the registry and the service do on their own, and for other callers.
ServiceNext ==
    /\ \/ \E k \in Keys : Invalidate(k) \/ \E v \in Answers : ChangeAgent(k, v)
       \/ \E c \in Calls : QueryRegistry(c) \/ ReceiveAnswer(c) \/ FailCall(c)
       \/ \E c \in Calls \ Goroutines : ResolveCall(c)
       \/ Evict
    /\ UNCHANGED clientVars

UserNext(c) ==
    \/ \E k \in Keys : UserResolve(c, k)
    \/ AskRegistry(c) \/ AskService(c) \/ ServiceAnswers(c)
    \/ UserReceives(c) \/ UserFails(c) \/ UserReturns(c)

ClientNext == ServiceNext \/ ClientTick \/ \E c \in Goroutines : UserNext(c)

ClientSpec == ClientInit /\ [][ClientNext]_<<resolverVars, clientVars>>

-----------------------------------------------------------------------------
(* Properties *)

\* An endpoint the client hands to its caller was the registry's answer no
\* longer ago than the two lifetimes and the time of the two requests, in
\* whatever order answers are cached: this bounds how long a revoked agent is
\* still called.  The service's own answers are as recent as its own part.
EndpointsRecent ==
    /\ AnswersRecent
    /\ \A c \in Goroutines : UserAt(c, "answered") =>
           LET u == user[c]
               seen == held[u.key][u.answer] IN
           /\ seen > 0
           /\ u.answer # Missing => now =< seen + Timeout + TTL + ClientTimeout + ClientTTL
=============================================================================
