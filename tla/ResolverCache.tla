---------------------------- MODULE ResolverCache ----------------------------
(***************************************************************************)
(* The resolver service: calls, single or batched, that answer from a      *)
(* cache or ask the registry over HTTP and cache what it says, and the     *)
(* eviction of what has expired.  A value is an endpoint, Missing stands   *)
(* for the registry's refusal (the agent is unknown or not active).        *)
(***************************************************************************)
EXTENDS Naturals

CONSTANTS
    Keys,        \* agent URIs
    Endpoints,
    Missing,
    Calls,       \* the calls that may be under way at a time
    TTL,         \* resolver.cache_ttl_seconds
    Timeout,     \* resolver.http_timeout_seconds
    MaxTime      \* bound on the clock

ASSUME ResolverAssumption == TTL \in Nat /\ Timeout \in Nat

VARIABLES
    listed,      \* what the registry answers for each key
    held,        \* ghost: when it last had each answer for each key, 0 for never
    cache,       \* the resolver's entries
    call,        \* the calls of Resolve
    now

resolverVars == <<listed, held, cache, call, now>>

-----------------------------------------------------------------------------
Answers == Endpoints \cup {Missing}

NoEntry == [endpoint |-> Missing, expiresAt |-> 0]
IdleCall == [pc |-> "idle", key |-> Missing, answer |-> Missing, started |-> 0]

ResolverInit ==
    /\ listed = [k \in Keys |-> Missing]
    /\ held = [k \in Keys |-> [v \in Answers |-> IF v = Missing THEN 1 ELSE 0]]
    /\ cache = [k \in Keys |-> NoEntry]
    /\ call = [c \in Calls |-> IdleCall]
    /\ now = 1

Expired(e) == now > e.expiresAt

\* The agent is activated, moved, suspended or revoked in the registry.
ChangeAgent(k, v) ==
    /\ listed[k] # v
    /\ listed' = [listed EXCEPT ![k] = v]
    /\ held' = [held EXCEPT ![k][v] = now]
    /\ UNCHANGED <<cache, call, now>>

-----------------------------------------------------------------------------
CallAt(c, pc) == call[c].pc = pc
SetCall(c, new) == call' = [call EXCEPT ![c] = new]

\* The cached endpoint is the answer when it has not expired.
Lookup(c, k) ==
    /\ CallAt(c, "idle")
    /\ SetCall(c, IF Expired(cache[k])
                  THEN [IdleCall EXCEPT !.pc = "ask", !.key = k, !.started = now]
                  ELSE [IdleCall EXCEPT !.pc = "answered", !.key = k,
                                        !.answer = cache[k].endpoint])
    /\ UNCHANGED <<listed, held, cache, now>>

\* The registry reads the agent and writes its answer.
QueryRegistry(c) ==
    /\ CallAt(c, "ask")
    /\ SetCall(c, [call[c] EXCEPT !.pc = "receive", !.answer = listed[call[c].key]])
    /\ UNCHANGED <<listed, held, cache, now>>

\* Slip: a lifetime counted from the expiry of the entry there is.
Extended(k, v) ==
    [cache EXCEPT ![k] = [endpoint |-> v,
        expiresAt |-> (IF @.expiresAt > now THEN @.expiresAt ELSE now) + TTL]]

CacheSet(k, v) == [cache EXCEPT ![k] = [endpoint |-> v, expiresAt |-> now + TTL]]

\* A refusal is answered and not cached.  An endpoint is, also when a call that
\* asked later has stored a newer one.
ReceiveAnswer(c) ==
    LET m == call[c] IN
    /\ CallAt(c, "receive")
    /\ SetCall(c, [m EXCEPT !.pc = "answered"])
    /\ cache' = IF m.answer = Missing THEN cache ELSE CacheSet(m.key, m.answer)
    /\ UNCHANGED <<listed, held, now>>

\* The registry is unreachable, the HTTP client's time is up, or the caller of
\* the batch has gone.
FailCall(c) ==
    /\ call[c].pc \in {"ask", "receive"}
    /\ SetCall(c, IdleCall)
    /\ UNCHANGED <<listed, held, cache, now>>

Return(c) ==
    /\ CallAt(c, "answered")
    /\ SetCall(c, IdleCall)
    /\ UNCHANGED <<listed, held, cache, now>>

\* No command calls it; the tests do.
Invalidate(k) ==
    /\ cache[k] # NoEntry
    /\ cache' = [cache EXCEPT ![k] = NoEntry]
    /\ UNCHANGED <<listed, held, call, now>>

Evicted == [k \in Keys |-> IF Expired(cache[k]) THEN NoEntry ELSE cache[k]]

\* A goroutine evicts in its interval.
Evict ==
    /\ cache # Evicted
    /\ cache' = Evicted
    /\ UNCHANGED <<listed, held, call, now>>

\* The HTTP client lets no call take longer than Timeout, and a call that has
\* its answer returns at once.
ResolverTick ==
    /\ now < MaxTime
    /\ \A c \in Calls :
          /\ ~CallAt(c, "answered")
          /\ ~CallAt(c, "idle") => now < call[c].started + Timeout
    /\ now' = now + 1
    /\ held' = [k \in Keys |-> [held[k] EXCEPT ![listed[k]] = now + 1]]
    /\ UNCHANGED <<listed, cache, call>>

-----------------------------------------------------------------------------
ResolveCall(c) ==
    \/ \E k \in Keys : Lookup(c, k)
    \/ QueryRegistry(c) \/ ReceiveAnswer(c) \/ FailCall(c) \/ Return(c)

ResolverNext ==
    \/ \E k \in Keys : Invalidate(k) \/ \E v \in Answers : ChangeAgent(k, v)
    \/ \E c \in Calls : ResolveCall(c)
    \/ Evict \/ ResolverTick

ResolverSpec == ResolverInit /\ [][ResolverNext]_resolverVars

-----------------------------------------------------------------------------
(* Properties *)

\* An endpoint that is answered was the registry's answer a lifetime of the
\* cache and one look-up ago, or since: this bounds how long a revoked agent is
\* still resolved, whatever calls overlap.  A refusal is as fresh as a look-up.
AnswersRecent ==
    \A c \in Calls : CallAt(c, "answered") =>
        LET m == call[c]
            seen == held[m.key][m.answer] IN
        /\ seen > 0
        /\ now =< seen + Timeout + (IF m.answer = Missing THEN 0 ELSE TTL)
=============================================================================
