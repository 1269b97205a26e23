# A TLA+ model of the NAP registry

This directory holds TLA+ specifications of the Nexus Agent Protocol registry,
the TLC configurations that check them on small instances, and TLAPS proofs of
their main properties for every size. Paths are relative to the repository.

## 1. The system

The registry is a Go HTTP service over PostgreSQL. Every request is a
goroutine of its own; handlers call services, services call repositories, and a
repository method is in general one SQL statement. Nothing spans the statements
of a request: there is no transaction around a whole operation, and several
registry instances may share the database. What makes the program hard is
therefore interleaving between the statements of concurrent requests, errors
that leave it open whether a statement committed, and crashes between steps.

| Component | State | Operations | Hard behaviour | What makes it correct |
|---|---|---|---|---|
| Agent lifecycle (`internal/registry/{handler,service,repository}/agent.go`) | the `agents` table: status, certificate serial, public key | register, activate, revoke, suspend, restore, deprecate, update, delete, the revocation list | decisions on a row read earlier; status change, ledger append and webhook are separate steps; quota counted before the insert | nobody active unproven; the ledger tells what happened, in order; the list has the certificates that were revoked |
| Trust ledger (`internal/trustledger`, `handler/ledger.go`) | the `trust_ledger` table, an advisory lock | append, verify, length, root, overview | concurrent transactions, rollback, lost commit replies; timestamps lose digits and zone | one unforked hash chain; an append is atomic; nobody waits for ever |
| DNS-01 challenges (`service/dns_challenge.go`, `repository/dns_challenge.go`, `internal/dns`) | the `dns_challenges` table | start, verify, the activation gate's query, sweep | a slow lookup between read and update; expiry; sweep by another clock | only in-time lookups verify; an answer stays true |
| Health checker (`internal/health`) | fail counts in memory, `health_status` in the table | rounds of probes every 5 minutes | failing updates, stale list of endpoints, restart | a dead endpoint is flagged, a live one is not |
| Registry process (`cmd/registry/main.go`) | the `quit` channel, two servers, the pool of database connections | signal, sweep loop, health loop, shutdown | three receivers of one signal; a request that does not end; a connection that is not given back | a signal that reaches `run` stops the process, whatever requests do |
| Accounts (`internal/users`, `handler/auth.go`, `identity/usertoken.go`) | `users`, `user_oauth`, `email_verifications` | sign-up, log-in, verify, resend, reset, sign-in through a provider | tokens read and marked without a lock; two-step reset; a sign-in of four statements; an address that cannot be fetched | a session is for the account it should be; a spent token is refused; a proven address stays so |
| Webhooks (`internal/webhooks`) | subscriptions, deliveries | subscribe, unsubscribe, dispatch, retry | the request's context ends, retries, deleted subscriptions, crashes | the recorded deliveries can be relied on; every delivery ends |
| Resolver service (`internal/resolver`) | a TTL cache | resolve, invalidate, evict | look-ups that overlap, with answers cached in any order | nothing is staler than the lifetimes allow |
| Federation (`internal/federation`, `handler/federation.go`) | `registered_registries`, the CA each registry runs with | register, approve, suspend, delegate, issue and install an intermediate CA, remote resolve | the row is read before the certificate is signed; the table is read twice around a DNS look-up | every chain verifies; only approved registries are used |
| Abuse reports (`handler/abuse.go`) | `abuse_reports` | report, resolve | limit counted before the insert | the excess over the limit is bounded |
| Identity (`internal/identity`) | the CA's two files, the loaded CA | load or create, issue a certificate, exchange it for a token, issue other tokens, verify | crashes between the files, files that cannot be read, a token endpoint with another issuer; one key and issuer for every kind of token | certificates survive restarts; who may revoke by token had a certificate or a session for it |
| Client (`pkg/client`) | a cached token and its renewal, a cache of endpoints | resolve, call an agent, fetch a token | goroutines that share it; answers out of order | the token sent is good for a while; endpoints are recent |
| Command line (`cmd/nap`) | files of certificates and keys | claim a domain, revoke an agent | many calls, each of which may fail after it took effect; files shared by agents | a key is lost at a failure or to a later agent only; nobody is revoked with another's key |
| Migrations (`cmd/migrate`) | `schema_migrations`, the schema, the ledger's entries | apply the files in order | no lock, crashes between statements, files applied a second time | no file is skipped, a crash is visible; one run at a time undoes nothing |
| Threat scorer, rate limiter, MCP bridge, web front end | | | pure, local or I/O | see section 8 |

How they interact: the activation gate of the lifecycle asks the DNS-01
challenges (domain agents) or the accounts (hosted agents); every lifecycle
operation but a deletion appends to the trust ledger and most hand an event to
the webhooks; the health checker reads the active agents and writes their
health; the resolver service and federation peers read active agents over HTTP;
the client keeps a cache in front of the resolver service; the command line
drives challenges, registration and activation from outside; the token endpoint
checks certificates that activations had the CA sign.

The hazards of the code, each at its line, are listed in `PROJECT.json` with
the properties that watch them.

## 2. Modules

| Module | What it is |
|---|---|
| `AgentStatus` | abstract: which status may follow which, as atomic steps |
| `AgentLifecycle` | the requests on the `agents` table, step by step; implements `AgentStatus` |
| `AgentLifecycleProofs` | proofs about it |
| `MemoryLedger` | the in-memory ledger, which is also the abstract ledger: one atomic append |
| `TrustLedger` | `PostgresLedger`: appends as transactions; implements `MemoryLedger` |
| `TrustLedgerProofs` | proofs about it |
| `DomainProof` | abstract: a growing set of proven domains |
| `DNSChallenge` | challenges, lookups, the sweep, two clocks; implements `DomainProof` |
| `DNSChallengeProofs` | proofs about it |
| `HealthChecker` | rounds of probes by the checkers of several instances |
| `HealthCheckerProofs` | proofs about it |
| `Accounts` | the account tables, statement by statement; implements `DomainProof` for addresses |
| `AccountsProofs` | proofs about it |
| `AgentRow` | the columns of one agent that a PATCH writes back and an activation writes too |
| `Federation` | members, intermediate CAs and remote resolution of a tree of registries |
| `Identity` | the CA over starts and crashes, certificates and tokens |
| `Webhooks` | subscriptions, events, deliveries with their retries |
| `ResolverCache` | the resolver service |
| `ClientResolve` | the client in front of it; extends it |
| `AgentClient` | the token the client sends with its calls |
| `Claim` | the commands `nap claim` and `nap revoke` |
| `AbuseReports` | reports of one user on one agent |
| `RegistryProcess` | signals, workers, servers and the shutdown |
| `Migrations` | overlapping runs of the migration command |
| `CredentialProofs` | proofs about `Identity`, `AgentClient` and `Claim` |
| `ResolutionProofs` | proofs about `Federation`, `ResolverCache` and `ClientResolve` |
| `RegistryTablesProofs` | proofs about `AgentRow`, `AbuseReports`, `Webhooks` and `Migrations` |
| `MCAgentLifecycle`, `MCTrustLedger`, `MCDNSChallenge`, `MCHealthChecker`, `MCAccounts` | values for TLC |
| `MCServices` | the last ten components, side by side |

The first components meet at their abstractions: `AgentLifecycle` appends to
the ledger in one step, because `TrustLedger` is shown to implement
`MemoryLedger`; its variable `proven` only grows, because `DNSChallenge` (for
domains) and `Accounts` (for addresses) are shown to implement `DomainProof`.
`ClientResolve` composes the client with the resolver service and the registry:
a request of the client is a call of the service.

### AgentLifecycle

One request `r` is one HTTP call; `req[r].pc` says where its goroutine is:

| `pc` | The goroutine is about to | Actions that leave it |
|---|---|---|
| `read` | read the row in the service and check what the operation requires | `CheckRegister` ... `CheckUpdate`, `Fail` |
| `write` | run its one SQL statement | `CreateRow`, `ActivateWithCert`, `RevokeRow`, ... `DeleteRow`, `Fail` |
| `append` | append to the ledger | `AppendLedger` |
| `answer` | hand the event to the webhook dispatcher and answer | `Answer` |

`Receive` and `ReceiveRegister` are the handler's own read and authorisation
(any caller may or may not be authorised). `Statement` is what all SQL
statements share: its WHERE clause, the number of affected rows, and a reply
that may get lost after the commit, which the caller sees as an error. `Crash`
ends every request in flight; the table and the ledger survive. Where the
service reads the row and then the gate in two queries (`Activate`), one step
stands for both: proofs are never taken back, a row's subject never changes,
and whether the row still exists is looked at again by the statement.

Left out: text columns, the key column (see `AgentRow`), pagination and search. A certificate
serial is named after the request that had it issued. The model is of a
registry with a certificate issuer and both gates configured, as
`cmd/registry/main.go` sets it up. `expired` is a status in the schema that no
code writes.

Ghost variables: `history` lists the committed table writes in commit order
and `lost` the requests whose append failed; `req[r].after` is the set of
requests answered before `r` was received. Nothing reads them but properties.

### TrustLedger

A writer is a call of `Append`, with a payload of its own. `Begin`, `Lock`,
`ReadTail`, `Insert` and `Commit` are its statements. Isolation is READ
COMMITTED (pgx's default, whatever the comment on `Append` says): `ReadTail`
sees the rows committed when it runs. `Insert` waits for an uncommitted row of
the same `idx` and is rejected by a committed one, which is what a primary key
does. `Rollback` is possible at every point of a transaction and stands for
errors, cancelled requests and crashes; a commit may be done although its
caller gets an error. A hash is modelled by the tuple of the values hashed
(SHA-256 without collisions), so hashes nest like the chain does. A clock
reading is a number of nanoseconds and `StoredTime` drops what the column drops.
The text that is hashed shows an instant in a zone (`Format`): `Append` turns its
reading to UTC, `Verify` hashes what the driver gives it, an instant in the zone
of the process. A zone is the offset it has at each instant.

### DNSChallenge

A call of `VerifyChallenge` reads the row (`Receive`), checks the expiry again
and starts the lookup (`BeginLookup`), gets the resolver's answer
(`EndLookup`), and updates the row (`MarkVerified`); between any two of them
time passes, other calls run, and the sweep deletes. Expiry is judged by the
registry's clock, the sweep by the database's; `Skew` is the difference, of
either sign. `witness` is a ghost: when the lookup that last saw a challenge's
record was begun.

### HealthChecker

A checker is the health loop of one registry instance; several write the same
`health_status` column. `Tick` lists the active agents and starts a goroutine
for each, `Probe` is a goroutine's probe with the counting that follows, and
what it is about to do then is in `probe`: an update (`UpdateHealthStatus`, or
`UpdateLate` and `UpdateFails` when it fails), then, for a degraded agent,
`Announce`. `EndRound` is the end of `wg.Wait`, so the rounds of one checker do
not overlap, but those of two do. `HEAD` and the fallback `GET` are one step at
the moment the deciding request is answered. `Overrun` is the deadline of a
round's context, after which every probe and update fails. `Restart` clears
the counts, which are in memory; `Stop` is the loop receiving from `quit`.
Counts above the threshold are one, because nothing distinguishes them. An
agent's endpoint is whatever it has registered: `Turn` makes it answer or not.
`misses` and `called` are ghosts. Not modelled: `last_seen_at`, metrics, and a
statement that commits after its caller was told it failed.

### Accounts

A request goes from one statement to the next (`req[r].pc`): `insert` and
`send` for a sign-up, `select`, `mark` and `store` for a token, `away`,
`lookup`, `byMail`, `insert`, `link` and `prove` for a sign-in through a
provider. `Create` is the insert with its two unique constraints; `SelectToken`
reads a token without a lock and `CommitToken` marks it whatever happened to it
since; a reset stores the password in a later statement (`SetPasswordHash`).
`UserInfo` is what a provider says of an identity: an address that may change,
which it vouches for, or none, as when GitHub's second query fails. A token is its row; `Expire` is time passing. `reported` and `shown`
are ghosts: what providers said, and whose mailbox was reached. Left out: the
public profile (three text columns), the admin token, log-out (which changes
nothing on the server), and a token whose mail was lost, which nobody can use.

### AgentRow

Here a column holds the request that wrote it. A PATCH (`Receive`, `Authorize`,
`Read`, `Write`, `Answer`) reads the row twice and writes both of its mutable
columns back, with what it read where the caller named nothing (`Updated`). An
activation writes the certificate and its serial number (`ActivatedWithCert`).
`before` and `undone` are ghosts: who had been answered when a request came in,
and whose value a write took away without being asked to.

### Federation

Every registry runs this program; `MemberOf` says who applies where. A
certificate is its chain of path lengths. `GetMember`, `IssueIntermediateCert`
and `AnswerCA` are the steps of one request to the issuing registry; the row may
change in between, and the status and the length that were read are used.
`Install` is the operator who gives a registry a certificate and restarts it,
which may make it an issuer (`SubDelegated`). `Resolve` ends in the registry's
own table or goes on: the root looks in its members' table, then in DNS, then
again in the table (`Recheck`); another registry goes by DNS, or to the root.
`RemoteResolve` is the HTTP call and the peer's answer.

### Identity

`file` is what the two files hold, `loaded` what was loaded, `registry` how far
the process is. `LoadOrCreate` takes
every error for a first run; `WriteCert` and `WriteKey` are the two writes of
`Create`, and `Crash` may come at any step. A signature needs a key that fits
the certificate (`Signing`). In the federated role the token endpoint is given
an issuer with the intermediate CA, or one without any CA when the root's
certificate cannot be fetched; `front` is which. `tokens` is everything the
key signs as a token, for one issuer: task tokens (`IssueToken`), sessions of users
(`IssueSession`), and what names neither an agent nor a user who owns one
(`IssueOther`: endorsements, the administrator's sessions, states of a sign-in).
`Verify` takes each of them; `MayRevoke` is what the handler of the revocation
looks at besides. `misread` and `login` are ghosts.

### Webhooks

`DispatchWebhook` hands an event to a goroutine, `Dispatch` lists the
subscriptions and starts a goroutine for each, `DoDelivery` posts and
`RecordDelivery` records and decides on the next attempt. `live` are the events
whose context has not ended: after `EndRequest` a listing fails, a post is not
made and a record not written. `DeliveriesLost` is the process stopping. The
pauses between attempts are not modelled; what may happen in them is.

### ResolverCache, ClientResolve, AgentClient

Time is a clock that no request may hold up for longer than its timeout
(`ResolverTick`, `ClientTick`, `TokenTick`). A cache entry is stored when the answer arrives and lives for the TTL
from then, whatever was stored in between. `held` is a ghost: when the registry
last had each answer (`listed` is what it has now). In `AgentClient` a token is the time it ends at;
`EnsureToken` and `TokenArrives` hold the mutex over the fetch, `FetchToken`
takes it for the store only.

### Claim, AbuseReports, RegistryProcess, Migrations

In `Claim` every call may fail before or after the registry did what it was
asked, the files are written one by one over those of the agent before, and
`Interrupt` ends the command anywhere; the registry is modelled by what its answers
promise. The CA's file is the same for all agents and left out. The other three
are small: counting and inserting as two statements; one channel with three
receivers, two servers that are drained one after the other within 15 seconds, and
`Close`, the deferred `db.Close()`, which waits for who holds a connection; a file
marked, applied and marked again by runs that hold no lock. `ApplyFile` carries a
file out as it stands: it may fail because of what is there (`Refusers`), replace
what a later file had set (`Undoes`), and delete the ledger (`Emptying`).
`overlapped` is a ghost.

### MCServices

The ten smaller components share no state with each other, so checking them
together would only multiply their states. In `MCServices` a behaviour picks one
of `Parts` and keeps to it; the others stay as they are initially. It extends
the modules, so that what a run checks is the definition the proofs are about;
only `RegistryProcess` is an instance, and the federation is there a second time
as one, for its two questions (`issue`, `resolve`), each with the registries and
values it needs. `DeliveriesEnd` and `ProcessEnds` state the two liveness
properties of the parts they are about. Two initial choices that only their own part
looks at are pinned elsewhere (`token`, `hosted`).

## 3. Runs

| Run | Instance | What it shows |
|---|---|---|
| `lifecycle` | 1 agent, 1 owner, 3 requests, limit 1; every initial row | all of the lifecycle's invariants and the refinement of `AgentStatus` |
| `trust_ledger` | 3 writers, 1 overview, readings that fit and do not fit the column, 2 zones | chain, atomicity, no conflict, progress, and what Verify complains of |
| `dns_challenge` | 2 challenges of one domain, 2 calls, lifetime 1, skew 1, clock to 3 | in-time verification, stable answers, with the sweep at work |
| `health` | 1 agent, 2 checkers, threshold 2, 2 faults | alarms are earned and given once, recovery shows in the end |
| `accounts` | 1 address and the empty one, 2 providers, 2 requests, 1 token, 2 passwords | sessions, tokens, passwords and proven addresses |
| `services` | see below | the ten components of `MCServices` |
| `webhook_retries` | 2 subscriptions, 1 event | retries stop with the request (section 7) |
| `health_outage` | 1 agent, 1 checker, threshold 2, 2 faults | one failed update hides an outage (section 7) |
| `revoked_terminal` | 1 agent, 2 requests | an activation un-revokes (section 7) |
| `quota` | 2 agents, 1 owner, 2 requests, limit 1 | the limit is passed (section 7) |
| `ledger_verify` | 2 writers | Verify rejects an intact chain (section 7) |
| `unvouched` | 1 address and the empty one, 1 request | an account is verified that nobody vouched for (section 7) |

Why the bounds are enough. *Lifecycle*: operations on different agents touch
different rows and share only the ledger and the quota, so one agent with three
requests has every race of two statements with a third in between (revoke
between the check and the write of a restore while an activation runs); Init
ranges over all rows an earlier history can leave, so two requests after any
past are covered. Two agents are needed for the quota only. Requests are
interchangeable, and symmetric. *Ledger*: three writers give a holder, one that
waits, and one that fails; with a precision of 2 the readings 2 and 3 are one
that survives the column and one that does not, and of the two zones one is UTC
and the other is so in winter only. *Challenges*: a lifetime and a
skew of 1 on a clock up to 3 lets a challenge be good for both clocks, for the
registry only, and for none; two challenges of one domain are needed for a
domain that stays proven by another challenge. *Health*: agents meet only in
the wait for a slot of the semaphore (with one agent a slot is always free), so
one agent with two checkers has every overlap of two verdicts on one row; a
threshold of 2 has a count below, at and above it; two faults allow a failed
update and a restart in one outage. `MaxTime` and `MaxFaults` are the bounds in
guards; nothing else is cut. That faults are finitely many is also what
"recovery shows in the end" needs. *Accounts*: all usernames come from one slug,
two identities with one id at two providers tell a confused look-up, and the
empty address is the account that several identities share; two requests
interleave statement by statement and are then forgotten, so that histories are
unbounded but for the one token. *Services*: in `issue`, the root, its member
and a member of that one, which may apply at each other, path lengths 1 and 2
and up to three certificates (`MaxIssued`) have a chain of three and a length
that is lowered after it was used; in `resolve`, one URL that this program
serves and one it does not. Webhooks: two subscriptions of one user, one event,
three attempts as in the code. Resolver: two calls, one of them the client's,
lifetimes and timeouts of 1 and a clock to 6 (`MaxTime`), one more than the
lifetimes and timeouts together need. Abuse: the limit is 3 as in the code, two
requests, five reports. Process: two workers, one request, and up to three signals
(`MaxSignals`), one for each receiver. Migrations: the fourteen files, with what
each does when it is applied again (`MCRefusers`, `MCUndoes`), and two runs. Client: a token of 4 that
is renewed 2 before its end, answers within 1 and a clock to 7 (`MaxClock`) have
a renewal and an old answer that overtakes a new one. Identity: two CAs
(`MaxCA`), one agent and the user who owns it, lifetimes of 1, of 2 for a session,
and four days (`MaxDay`) have a certificate and a token that end before the bound;
one token (`MaxTokens`) is enough, for no step depends on two. Row: two requests. Claim: two claims of cards with two
agents and one revocation.

Deadlock is not checked: every request, transaction and call is made once, so
each instance ends. That nobody is stuck before the end is what the liveness
properties say.

Each property was also run against a slip: a definition of the same module,
marked "Slip", that changes one mapped definition the way a plausible bug would
(a dropped gate, an unconditional UPDATE, a session-level lock). TLC finds the
property violated under each (`PROJECT.json`, "mutants").

## 4. Properties

Every safety property of a passing run, whether of states or of steps, is also a
theorem (section 6). The type invariant of each module is the first conjunct of
the inductive invariant in its proofs (`TypeOK`, or the same with the name of the
module before it). TLC checked each inductive invariant while its proof was made;
now that it is proved for every instance, only that of `Accounts` is left in a
run, where its part on unique usernames is a property of its own. Beyond that:

- `GateHolds`, `OnlyActivateUnrevokes`, `LatestCertListed`, `ImplementsStatus`:
  the table, under interleaved requests that decided on older rows.
- `NoPhantomEntries`, `AnsweredMeansLogged`, `RealTimeOrder`: the ledger
  against the table. The converse of the first is false and not claimed: a
  commit whose caller got an error, a failed append, a crash or a deletion
  leaves a change the ledger does not tell of.
- `ChainIntact`, `NoConflict`, `ImplementsMemoryLedger`, `OverviewNotBehind`,
  `VerifyBlamesTimestamps`, `AppendsSettle`: the ledger itself. What Verify
  complains of is the text of a timestamp, never the chain.
- `VerifiedInTime`, `AnswerHolds`, `ImplementsDomainProof`: challenges. That
  expired ones go is not claimed: the sweep may have ended (section 7).
- `SessionMatchesIdentity`, `SpentTokenRefused`, `PasswordOnlyByReset`,
  `ImplementsMailProof`: accounts. The first does not say that two identities
  have two accounts: all identities without an address share one. The last is of
  addresses: the account without one counts as verified too, and nobody vouched for
  it (`VerifiedByProvider`, section 7). The second is
  about a token that was spent before the request came in; two requests that
  overlap may both use one, and the code's comment that this is atomic is only
  true of the last statement.
- `AnsweredChangesKept`: two PATCHes, or a PATCH and an activation, that overlap
  do lose changes; this says that nothing else does. The proof showed that a
  first version was too strong: with four requests, a PATCH that came later can
  take away a value that another write-back had put there again.
- `ChainVerifies`, `ApprovalRespected`: federation. A suspension does not stop a
  request that has read the row, and takes no certificate back.
- `CertsSurviveRestarts`, `TokensBounded`: identity. `misread` is the exception
  the code has: files that could not be read are replaced. The second is about all
  tokens of the key, because the gate of the agents' routes takes them all: which
  of them revokes an agent depends on what the handler asks of the claims, and each
  that does goes back to a certificate or to a login of the owner.
- `LogTells`, `DeliveriesEnd`: webhooks. `EndpointsRecent`, `TokenFresh`: caches.
  `ReportsBounded`, `ProcessEnds`, `SchemaTracked`: the rest. The last two state
  their exceptions: a process does not end when workers took every signal, or while
  somebody keeps a connection; files are undone, and a ledger deleted, by runs that
  overlap.
- `KeysAccountedFor`: `nap claim`. A key is in hand, or was lost where the claim
  failed, or was written and can have been lost to a later agent only, of the same
  claim or another: of a card with several agents only the last one's key remains.
- `RevokedWithItsOwn`: `nap revoke`, which may find files of two bundles. That
  the agents whose certificates are read had been active came out of the proof
  and is stated with it: it is why a revocation takes away no agent that a claim
  is about to register.
- `FlagExplained`, `AnnouncedOnce`, `AlarmsEarned`, `RecoveryShows`: health.
  The self-hosting guide says that only transitions are written. The code
  writes every success, and it has to: with writes on transitions only, TLC
  shows a restart after which a recovered agent stays degraded for ever (the
  slip `VerdictOnTransitions`).

## 5. Fairness

Safety properties use none. `TrustLedger` assumes weak fairness of the
statements after `Begin` of each writer: a statement that was sent is executed
or its transaction is rolled back, which the database and the driver see to
(rollback disables the statement). Weak is enough for the lock although others
may take it again and again, because each call is one transaction and there
are finitely many; with unboundedly many calls PostgreSQL's queue for the lock
would have to be part of the model. Nothing makes a request arrive or fail.
`DNSChallenge` assumes none: the loop of its sweep may take the signal that was
meant for the server and end. `HealthChecker` assumes weak fairness of each
checker's own steps: the ticker ticks, probes time out after ten seconds
each, statements and contexts end. Faults, stops, restarts and the endpoints
are not fair. `RecoveryShows` assumes of the environment what it needs: the
agent stays active and answers from some time on, and not all loops stop.
`Webhooks` assumes weak fairness of the dispatching goroutine and of each
delivery: none waits for another, posts time out. `RegistryProcess` assumes that
`run` takes a signal that stays in the channel, that the 15 seconds pass and that
the shutdown goes on when it can. No signal need come or be sent again, no worker
need look at the channel, and no request, turn of a worker or statement need end:
that is why `ProcessEnds` has its two exceptions.

## 6. Proofs

All theorems are for arbitrary constants under the assumptions named in the
modules: requests, agents, writers, challenges and calls are arbitrary sets,
`MaxAgents`, `Lifetime` and `Precision` arbitrary numbers and `Skew` any
integer. Lifetimes, timeouts and the number of migration files are natural
numbers; a card lists, and a delivery makes, at least one (`ClaimAssumption`,
`WebhooksAssumption`: `nap claim` passes over an empty card for its flags, which
name one agent, and the dispatcher makes three posts); a token lives longer than
the client's refresh buffer (`TokenAssumption`: by default 3600 seconds against
60; in the model an expiry of 0 stands for a token that is never renewed, as the
zero time does in the client, and a shorter life would reach it); the abuse
reports under way are finitely many (`AbuseAssumption`), which counting them
needs. The bounds of the runs on clocks and days are constants like the others:
the theorems hold for each.

- `AgentLifecycleProofs`. The state properties are not inductive: what a
  request may do depends on what it has done. `Inductive` adds it: a request
  before its write has left no trace (`FreshInv`, `UnloggedInv`), one about to
  append has its write in the history (`PendingInv`), an activation past its
  check has seen the gate open (`AdmittedInv`, which needs that proofs are
  never withdrawn), the row has the serial of the last activation
  (`SerialInv`), and an answered write is logged or lost (`LoggedInv`). One
  lemma per kind of step (receive, check, statement, append, answer, crash)
  shows that it is kept. From it follow `GateTheorem`, `NoPhantomTheorem`,
  `RealTimeTheorem`, `AnsweredTheorem`, `LatestCertTheorem`,
  `UnrevokeTheorem` and the refinement `StatusTheorem`.
- `TrustLedgerProofs`. The heart of `Inductive` is that whoever has read the
  tail holds the lock (`LockInv`) and that what it read is still the last row
  (`TailInv`); the chain, the absence of conflicts and the count of rows rest
  on that. `LedgerTheorem` is the refinement: a commit is the atomic append and
  every other statement stutters.
- `DNSChallengeProofs`. `Inductive` says what each stage of a call knows of its
  challenge; the row a call has read keeps its expiry, which is why a lookup
  begun in time is in time for whatever row the update finds.
- `HealthCheckerProofs`. A checker's count never runs ahead of the probes that
  really had no answer (`FailsInv`) and an announcement is due only where none
  was made (`CalledInv`); with these, every degraded row has a checker that
  stands for it. One lemma per kind of step.

- `AccountsProofs`. `Inductive` says what each request knows at each of its
  statements: that the address it is about to link was reported for the identity,
  that the token it marks was read unspent. `MailTheorem` is the refinement.
- `CredentialProofs`. *Identity*: the key is written after its certificate and
  loaded only as a pair (`FilesInOrder`), no certificate is of a CA whose key was
  not yet written (`CertsOfKeys`), and while nothing was misread there is one CA
  (`OneCA`). So a certificate that the loaded one verifies is of the loaded key
  as well, also when the files of two CAs are mixed after a crash.
  *AgentClient*: `TokenFresh` speaks of the moment of a call; that a token which
  arrives late cannot be worse than the one it replaces needs that every token
  under way was issued after its caller asked (`OpInTime`) and that the renewal
  time stored with a token fits it (`RenewedInTime`, `StoredInTime`).
  `TokensBounded` ties each token that names an agent, a scope or a user to the
  certificate or the login it was issued for, when it is signed; the fact above
  makes that a certificate of the key the token is signed with.
  *Claim*: `KeysAccountedFor` looks back over a whole run. `ClaimInOrder` says what
  it needs: the keys of the agents before the one a claim is at were written, and
  what is in the file since is of a later agent (`SavedStays`); those after it are
  not registered. That needs in turn that a revocation, which writes the same table,
  meets active agents only: `FilesOfAgents` (whatever is
  in the files, or was read from them, is the certificate of an agent that was
  activated) and `RevokesWithPair` (a call goes out with a pair that matches).
- `ResolutionProofs`. *Federation*: `ChainVerifies` is not inductive: a
  certificate is issued under a chain with a length below that of its last link
  only, so every link has to leave room for the lengths below it (`Descending`).
  A request knows whether its member was active since it began (`Noticed`).
  *ClientResolve*: every stage of a request has its own share of the bound. A
  call that has its answer asked before it got it (`CallInTime`), an entry
  expires a look-up and a lifetime after what it says was so (`EntryRecent`);
  the client adds its own request and lifetime on top (`RequestInTime`,
  `ClientEntryRecent`), and needs that a call which outlived the request it was
  made for ends before the next one is made. `AnswersTheorem` is the bound for
  any callers of the service, and `ServiceTheorem` says that the client is one of
  them: the composition implements the service's specification.
- `RegistryTablesProofs`. *AgentRow*: what a PATCH is about to write back is there
  still, or has gone since it came in (`ReadRecently`); requests that were
  answered stay so. *AbuseReports*: the bound counts the requests about to insert
  with the open reports, which makes it inductive (a request that has counted
  below the limit moves from one side to the other).
  *Webhooks*: `LogTells` relates posts and rows, which only meet in the goroutine
  that made both: it posts what it counts (`PostsCounted`), ends with the success
  it records (`SuccessIsLast`), and there is none for an event that was not fanned
  out (`JobsOfFanned`) or a subscription that was gone (`EarlyStaysGone`).
  *Migrations*: a run has everything below the file it is at (`RunsInOrder`),
  whatever other runs do to the version table, but for what can be undone; and
  while no two runs have overlapped, a run that is about to apply a file finds none
  above it (`RunsApart`), so that it undoes nothing and meets no ledger in use.

Only model-checked: the liveness properties (`AppendsSettle`,
`RecoveryShows`, `DeliveriesEnd`, `ProcessEnds`), which need ENABLED, out of the prover's reach; and the runs that end in a counterexample,
which are about one instance. No recursive operator is used.

## 7. Where the code and its documentation disagree

1. `docs/NAP-protocol.md` calls `revoked` terminal and not reversible. Activate
   has no check of the status: run `revoked_terminal`.
2. `FreeTierConfig.MaxAgents` is the "maximum agents per free-tier user". It is
   counted before the insert, and revoked agents, which are not counted, can be
   activated again: run `quota`.
3. `Ledger.Verify` "returns nil if the chain is intact". `Append` hashes
   nanoseconds and UTC, the column keeps microseconds and no zone, and `Verify`
   hashes what the driver gives it, in the zone of the process: run
   `ledger_verify`. On a host that is not on UTC it rejects every row.
   `VerifyBlamesTimestamps` shows that these two are the only reasons it ever
   complains of a chain that `Append` wrote.
4. A comment says of the account that a provider's sign-in makes: "OAuth login =
   email verified by provider" (`internal/users/service.go:241`). When GitHub shows
   no address and the query for the primary one fails, its error is dropped
   (`handler/auth.go:485`) and the account of the empty address is made, verified:
   run `unvouched`. Whoever signs in without an address after that gets the same
   account.
5. "After 3 consecutive failures, your agent's health status is set to
   `degraded`" (`docs/NAP-protocol.md`). It is written by the one probe that
   reaches the threshold; if that update fails nothing repeats it: run
   `health_outage`.

6. `docs` and comments promise retries with exponential backoff. A delivery keeps
   the context of the request that caused it, which ends when the handler
   returns: run `webhook_retries`.

Also, without a run:

- `FindVerifiedByDomain` "returns the most recent verified (and non-expired)
  challenge" (`repository/dns_challenge.go:74`). Its query does not look at the
  expiry: a domain stays proven, which is what `DomainProof` specifies and
  `GateHolds` rests on.
- `handler/abuse.go:73` limits a user to "max 3 open reports" of an agent. The count
  and the insert are two statements; `ReportsBounded` says by how much requests
  that overlap pass the limit.
- `RequireToken` and `TokenIssuer.Verify` look at the method, the issuer and the
  expiry: sessions, states of a sign-in and endorsements pass for task tokens. The
  routes of the agents need it of the sessions of users (`handler/agent.go:113`).
  `TokensBounded` says what a revocation is owed to all the same.
- One SIGTERM may be taken by the sweep or the health checker, which then end while
  the server goes on (`main.go:421`, `health/checker.go:100`); it takes another one
  to stop it, which `ProcessEnds` does not assume.
- Two runs of the migration command that overlap may leave the schema without a
  file that is recorded as applied: 009, applied again by a run that is behind, sets
  a constraint on the status without `deprecated`, 005 adds the column that 006
  dropped, and 002 deletes the ledger. A crash between a file and its clean mark is
  put right by the next run but for 003, 008 and 013 (and 001 after 002), which fail
  when they are applied a second time: then an operator has to mark them.
- `docs/self-hosting.md` says that the health checker only writes on transitions
  (it writes each success) and records them in the trust ledger (it does not).
- `internal/federation/client.go:50` sends `cap_node`; a registry asks for
  `capability_node` (`internal/registry/handler/agent.go:560`) and answers 400.
  `RemoteResolve` has it: a peer that runs this program rejects every request.
- `cmd/registry/main.go:167` gives the agent service the issuer with the local CA;
  in the federated role `main.go:256` makes another one for the token endpoint.
  Certificates of agents are then signed by the local CA, and the token endpoint
  refuses them. When the root's certificate could not be fetched the verification
  of a certificate dereferences a CA that is not there. The last case is `front`
  in `Identity`.
- The comment on `Invalidate` in the resolver says it is called when an agent is
  revoked or updated. Nothing calls it; `EndpointsRecent` says how long a revoked
  agent is resolved.
- An administrator's id is "admin", which is no UUID: an abuse report that is
  resolved with the administrator's token fails in the database.
- `nap claim` saves all agents of a card to the same three files, so only the
  last one's key is kept, and each key is handed out once.
- `pkg/client` reads the cached token in `do` without the mutex that protects it,
  a data race; `AgentClient` models the calls that take it.

## 8. What is not modelled

- Of the agents: read-only queries, search, pagination, endorsements, agent cards
  and the text columns. Of the accounts: the public profile and the admin token.
- Of the identity: the cryptography itself (a signature is good when the key is
  the right one), the end of the CA's own certificate after ten years, the OIDC
  documents. Of the federation: the copy of the last certificate in the row, which
  nothing reads.
- Of the command line: the commands that are one request, and of the client the
  calls that keep no state, with the data race above: what a racing read returns
  depends on the machine, and the properties say nothing about it.
- The threat scorer, URI parsing and the capability taxonomy are pure functions
  over text. The rate limiter keeps a bucket per address under one mutex, and what
  it drops has been idle until it was full again. The MCP bridge, e-mail, the seed
  command and the web front end keep no shared state; `api/proto` is generated.
- Several instances of the registry are in `TrustLedger`, `DNSChallenge` and
  `HealthChecker`, where they share more than rows. A composition of all modules
  in one state space is out of TLC's reach; the refinements stand for it.
