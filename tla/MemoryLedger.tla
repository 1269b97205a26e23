---------------------------- MODULE MemoryLedger ----------------------------
(***************************************************************************)
(* The in-memory ledger of the trustledger package: every operation runs   *)
(* under one mutex, so an append is one step.  It is also what the Ledger  *)
(* interface promises of any ledger, and PostgresLedger, which appends     *)
(* with a transaction of several statements, is shown to implement it.     *)
(***************************************************************************)
EXTENDS Integers, Sequences

CONSTANTS
    Writers,     \* calls of Append, each with a payload of its own
    Readings     \* what time.Now() can return

VARIABLE entries

\* RFC 3339 shows an instant as the wall clock of a zone with the zone's
\* offset from UTC.
UTC == 0
Format(time, offset) == <<time + offset, offset>>

\* SHA-256 is taken to be free of collisions, so a hash is modelled by the
\* tuple of what was hashed.  The genesis hash is a constant, not a hash.
GenesisHash == <<>>
Hash(idx, text, data, prev) == <<idx, text, data, prev>>

Genesis == [idx |-> 0, time |-> 0, data |-> "genesis",
            prev |-> GenesisHash, hash |-> GenesisHash]

\* The entry that a call chains to the entry "last".
Successor(last, time, data) ==
    [idx  |-> last.idx + 1,
     time |-> time,
     data |-> data,
     prev |-> last.hash,
     hash |-> Hash(last.idx + 1, Format(time, UTC), data, last.hash)]

\* Verify: the first entry has the genesis hash, and each later one holds its
\* predecessor's hash and the hash of its own fields.
Verifies(chain) ==
    \A i \in DOMAIN chain :
        IF i = 1
        THEN chain[i].hash = GenesisHash
        ELSE /\ chain[i].prev = chain[i - 1].hash
             /\ chain[i].hash = Hash(chain[i].idx,
                                     Format(chain[i].time, UTC),
                                     chain[i].data, chain[i].prev)

Init == entries = <<Genesis>>

\* A call that fails appends nothing and is no step; one that succeeds
\* appends its payload once.
AppendEntry(w) ==
    /\ \A i \in DOMAIN entries : entries[i].data # w
    /\ \E now \in Readings :
          entries' = Append(entries, Successor(entries[Len(entries)], now, w))

Next == \E w \in Writers : AppendEntry(w)

Spec == Init /\ [][Next]_entries
=============================================================================
