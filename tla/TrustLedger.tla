----------------------------- MODULE TrustLedger -----------------------------
(***************************************************************************)
(* PostgresLedger: the append-only hash chain in the trust_ledger table.   *)
(*                                                                         *)
(* An append is a transaction of four statements that any number of        *)
(* requests, in any number of registry instances, run at the same time: a  *)
(* transaction-scoped advisory lock, a read of the tail, an insert, and    *)
(* the commit.  The database runs at READ COMMITTED, so the read sees what *)
(* is committed when it is made, and the primary key on idx is the last    *)
(* line of defence.  A transaction may be rolled back at any point (an     *)
(* error, a cancelled request, a crash of its instance) and the reply to a *)
(* commit may be lost.  The overview endpoint reads the length and the     *)
(* root in two queries.  Verify runs in a process of any time zone.        *)
(***************************************************************************)
EXTENDS Integers, FiniteSets

CONSTANTS
    Writers,      \* calls of Append, each with a payload of its own
    Readers,      \* calls of the overview endpoint
    Readings,     \* what time.Now() can return, in nanoseconds
    Precision,    \* nanoseconds per unit of the timestamp column
    Zones,        \* the zones processes may be in: for each instant, the
                  \* offset of the zone from UTC
    NoWriter      \* nobody holds the advisory lock

ASSUME ReadingAssumption == Readings \subseteq Nat
ASSUME PrecisionAssumption == Precision \in Nat \ {0}
ASSUME WriterAssumption == NoWriter \notin Writers /\ "genesis" \notin Writers

VARIABLES
    table,      \* the committed rows of trust_ledger
    lock,       \* the writer whose transaction holds the advisory lock
    tx,         \* the transactions
    view        \* the overview requests

vars == <<table, lock, tx, view>>

-----------------------------------------------------------------------------
(* Rows.  A row keeps the time as it is stored and, as a ghost, "taken":   *)
(* the reading that was hashed.                                            *)

M == INSTANCE MemoryLedger WITH entries <- <<>>

\* A timestamptz column keeps microseconds, time.Now() gives nanoseconds.
StoredTime(t) == (t \div Precision) * Precision

GenesisRow == [idx |-> 0, time |-> 0, taken |-> 0, data |-> "genesis",
               prev |-> M!GenesisHash, hash |-> M!GenesisHash]

\* Slip: the hash is computed before the previous hash is filled in.
NewRowHashedEarly(last, t, data) ==
    [idx   |-> last.idx + 1,
     time  |-> StoredTime(t),
     taken |-> t,
     data  |-> data,
     prev  |-> last.hash,
     hash  |-> M!Hash(last.idx + 1, M!Format(t, M!UTC), data,
                       M!GenesisHash)]

\* The row that a call of Append chains to the row it read as the tail.  The
\* reading is turned to UTC before it is hashed.
NewRow(last, t, data) ==
    [idx   |-> last.idx + 1,
     time  |-> StoredTime(t),
     taken |-> t,
     data  |-> data,
     prev  |-> last.hash,
     hash  |-> M!Hash(last.idx + 1, M!Format(t, M!UTC), data, last.hash)]

\* Slip: the tail is taken to be the row with the latest timestamp.
LastRowByTime ==
    CHOOSE e \in table : \A f \in table : f.time =< e.time

\* SELECT ... ORDER BY idx DESC LIMIT 1
LastRow == CHOOSE e \in table : \A f \in table : f.idx =< e.idx

\* Verify walks the rows in the order of idx.
Before(e) ==
    CHOOSE f \in table :
        /\ f.idx < e.idx
        /\ \A g \in table : g.idx < e.idx => g.idx =< f.idx

IsFirst(e) == \A f \in table : e.idx =< f.idx

\* Slip: the links are followed, the hashes are not computed again.
AcceptedUnhashed(e, zone) ==
    IF IsFirst(e) THEN e.hash = M!GenesisHash ELSE e.prev = Before(e).hash

\* A row that Verify accepts.  The driver gives an instant in the zone of the
\* process, and it is hashed as it comes.
Accepted(e, zone) ==
    IF IsFirst(e)
    THEN e.hash = M!GenesisHash
    ELSE /\ e.prev = Before(e).hash
         /\ e.hash = M!Hash(e.idx, M!Format(e.time, zone[e.time]), e.data,
                             e.prev)

Verify(zone) == \A e \in table : Accepted(e, zone)

-----------------------------------------------------------------------------
\* The state after migration 002: the genesis row alone.
Init ==
    /\ table = {GenesisRow}
    /\ lock = NoWriter
    /\ tx = [w \in Writers |->
                [pc |-> "idle", tail |-> GenesisRow, new |-> GenesisRow]]
    /\ view = [r \in Readers |->
                [pc |-> "idle", count |-> 0, root |-> M!GenesisHash]]

-----------------------------------------------------------------------------
(* Append *)

Begin(w) ==
    /\ tx[w].pc = "idle"
    /\ tx' = [tx EXCEPT ![w].pc = "begun"]
    /\ UNCHANGED <<table, lock, view>>

\* Slip: every instance has a lock key of its own.
LockUnshared(w) ==
    /\ tx[w].pc = "begun"
    /\ lock' = w
    /\ tx' = [tx EXCEPT ![w].pc = "locked"]
    /\ UNCHANGED <<table, view>>

\* pg_advisory_xact_lock: waits until no other transaction holds the lock.
Lock(w) ==
    /\ tx[w].pc = "begun"
    /\ lock = NoWriter
    /\ lock' = w
    /\ tx' = [tx EXCEPT ![w].pc = "locked"]
    /\ UNCHANGED <<table, view>>

ReadTail(w) ==
    /\ tx[w].pc = "locked"
    /\ tx' = [tx EXCEPT ![w].pc = "read", ![w].tail = LastRow]
    /\ UNCHANGED <<table, lock, view>>

\* Every end of a transaction gives its lock back.
Release(w) == lock' = IF lock = w THEN NoWriter ELSE lock

\* The insert waits while another transaction has inserted the same idx and
\* not ended, and is rejected when the idx is already in the table.
Insert(w) ==
    /\ tx[w].pc = "read"
    /\ \E now \in Readings :
          LET e == NewRow(tx[w].tail, now, w) IN
          /\ \A v \in Writers : tx[v].pc = "inserted" => tx[v].new.idx # e.idx
          /\ IF \E f \in table : f.idx = e.idx
             THEN /\ tx' = [tx EXCEPT ![w].pc = "conflict"]
                  /\ Release(w)
             ELSE /\ tx' = [tx EXCEPT ![w].pc = "inserted", ![w].new = e]
                  /\ UNCHANGED lock
    /\ UNCHANGED <<table, view>>

\* Slip: an append whose commit was not answered is tried again.
CommitRetried(w) ==
    /\ tx[w].pc = "inserted"
    /\ table' = table \cup {tx[w].new}
    /\ Release(w)
    /\ \E pc \in {"done", "begun"} : tx' = [tx EXCEPT ![w].pc = pc]
    /\ UNCHANGED view

\* The row becomes visible and the lock is released; the reply may be lost.
Commit(w) ==
    /\ tx[w].pc = "inserted"
    /\ table' = table \cup {tx[w].new}
    /\ Release(w)
    /\ \E pc \in {"done", "failed"} : tx' = [tx EXCEPT ![w].pc = pc]
    /\ UNCHANGED view

InTransaction == {"begun", "locked", "read", "inserted"}

\* Slip: a session-level lock, which a rollback does not release.
RollbackKeepingLock(w) ==
    /\ tx[w].pc \in InTransaction
    /\ tx' = [tx EXCEPT ![w].pc = "failed"]
    /\ UNCHANGED <<table, lock, view>>

\* The deferred rollback, or the one the database makes when it loses the
\* connection.
Rollback(w) ==
    /\ tx[w].pc \in InTransaction
    /\ tx' = [tx EXCEPT ![w].pc = "failed"]
    /\ Release(w)
    /\ UNCHANGED <<table, view>>

-----------------------------------------------------------------------------
(* Overview *)

ReadLen(r) ==
    /\ view[r].pc = "idle"
    /\ view' = [view EXCEPT ![r].pc = "counted",
                            ![r].count = Cardinality(table)]
    /\ UNCHANGED <<table, lock, tx>>

ReadRoot(r) ==
    /\ view[r].pc = "counted"
    /\ view' = [view EXCEPT ![r].pc = "answered", ![r].root = LastRow.hash]
    /\ UNCHANGED <<table, lock, tx>>

-----------------------------------------------------------------------------
Advance(w) == Lock(w) \/ ReadTail(w) \/ Insert(w) \/ Commit(w)

Next ==
    \/ \E w \in Writers : Begin(w) \/ Advance(w) \/ Rollback(w)
    \/ \E r \in Readers : ReadLen(r) \/ ReadRoot(r)

\* A statement that was sent is carried out or its transaction is rolled
\* back.  Nothing makes a request arrive, so Begin is not fair, and nothing
\* has to fail, so Rollback is not.
Fairness == \A w \in Writers : WF_vars(Advance(w))

Spec == Init /\ [][Next]_vars /\ Fairness

-----------------------------------------------------------------------------
(* Properties *)

IsRow(e) ==
    /\ DOMAIN e = {"idx", "time", "taken", "data", "prev", "hash"}
    /\ e.idx \in Nat
    /\ e.time \in Nat
    /\ e.taken \in Nat
    /\ e.data \in Writers \cup {"genesis"}

\* Every variable has its type.
TypeOK ==
    /\ \A e \in table : IsRow(e)
    /\ lock \in Writers \cup {NoWriter}
    /\ DOMAIN tx = Writers
    /\ \A w \in Writers :
          /\ DOMAIN tx[w] = {"pc", "tail", "new"}
          /\ tx[w].pc \in InTransaction \cup {"idle", "done", "failed",
                                              "conflict"}
          /\ IsRow(tx[w].tail)
          /\ IsRow(tx[w].new)
    /\ DOMAIN view = Readers
    /\ \A r \in Readers : /\ DOMAIN view[r] = {"pc", "count", "root"}
                          /\ view[r].pc \in {"idle", "counted", "answered"}
                          /\ view[r].count \in Nat

\* Row e is chained to row f, by a hash of what e held when it was made.
Follows(e, f) ==
    /\ e.idx = f.idx + 1
    /\ e.time = StoredTime(e.taken)
    /\ e.prev = f.hash
    /\ e.hash = M!Hash(e.idx, M!Format(e.taken, M!UTC), e.data, f.hash)

\* The committed rows are one unforked chain from the genesis row: no idx is
\* used twice or skipped, and each row holds the hash of the row before it
\* and a hash of its own fields as they were when it was made.
ChainIntact ==
    /\ GenesisRow \in table
    /\ \A e, f \in table : e.idx = f.idx => e = f
    /\ \A e \in table :
          e = GenesisRow \/ \E f \in table : Follows(e, f)

\* No append is ever rejected by the primary key: the advisory lock lets
\* nobody read the tail before the row that follows it can be seen.
NoConflict == \A w \in Writers : tx[w].pc # "conflict"

\* Verify complains of a table that only Append has written exactly when the
\* text of a timestamp is not the one that was hashed: the reading lost digits
\* in the column, or the zone of the process was not at UTC then.  It never
\* complains of the chain.
VerifyBlamesTimestamps ==
    \A zone \in Zones :
        Verify(zone) <=> \A e \in table \ {GenesisRow} :
                            /\ StoredTime(e.taken) = e.taken
                            /\ zone[e.taken] = M!UTC

\* An overview never shows a root older than the length beside it: the root
\* is the hash of the last counted row or of a later one.
OverviewNotBehind ==
    \A r \in Readers : view[r].pc = "answered" =>
        \E e \in table : /\ e.hash = view[r].root
                         /\ e.idx >= view[r].count - 1

\* Apart from the digits the column drops, the table is the list of the
\* in-memory ledger: rows are only added, at the end, once per call, and each
\* visible from one moment on, whatever fails and whoever is told so.
Log == INSTANCE MemoryLedger WITH entries <-
    [i \in 1..Cardinality(table) |->
        LET e == CHOOSE f \in table : f.idx = i - 1 IN
        [idx |-> e.idx, time |-> e.taken, data |-> e.data,
         prev |-> e.prev, hash |-> e.hash]]
ImplementsMemoryLedger == Log!Spec

\* Every append that was begun is answered or fails, even if the holder of
\* the lock dies.
AppendsSettle ==
    \A w \in Writers : tx[w].pc = "begun" ~> tx[w].pc \in {"done", "failed"}

\* The Ledger interface: Verify returns nil if the chain is intact.
VerifyAcceptsChain == \A zone \in Zones : Verify(zone)

-----------------------------------------------------------------------------
(* The inductive invariant.  Who has read the tail holds the lock, so the   *)
(* tail it read is still the last row when its own row becomes visible.    *)

Holding == {"locked", "read", "inserted"}

IsLast(e) == e \in table /\ \A f \in table : f.idx =< e.idx

LockInv == \A w \in Writers : tx[w].pc \in Holding => lock = w

TailInv ==
    \A w \in Writers : tx[w].pc \in {"read", "inserted"} => IsLast(tx[w].tail)

NewInv ==
    \A w \in Writers : tx[w].pc = "inserted" =>
        /\ tx[w].new = NewRow(tx[w].tail, tx[w].new.taken, w)
        /\ tx[w].new.taken \in Readings

\* An append that has not ended has no row.
DataInv ==
    \A w \in Writers : tx[w].pc \in InTransaction \cup {"idle"} =>
        \A e \in table : e.data # w

\* There are as many rows as the last idx says.
LengthInv ==
    /\ IsFiniteSet(table)
    /\ \E e \in table :
          /\ IsLast(e)
          /\ Cardinality(table) = e.idx + 1
          /\ \A i \in 0..e.idx : \E f \in table : f.idx = i

CountInv ==
    \A r \in Readers :
        view[r].pc = "counted" => view[r].count =< Cardinality(table)

\* All of it, with the properties that are conjuncts themselves: what every
\* statement of every transaction keeps.
Inductive ==
    /\ TypeOK
    /\ LockInv
    /\ TailInv
    /\ NewInv
    /\ DataInv
    /\ LengthInv
    /\ CountInv
    /\ ChainIntact
    /\ NoConflict
    /\ OverviewNotBehind
=============================================================================
