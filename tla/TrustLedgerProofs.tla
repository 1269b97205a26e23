-------------------------- MODULE TrustLedgerProofs --------------------------
(***************************************************************************)
(* Proofs about TrustLedger, for any number of writers and readers, any     *)
(* clock, any zones and any precision of the timestamp column.             *)
(***************************************************************************)
EXTENDS TrustLedger, Sequences, FiniteSetTheorems, TLAPS

-----------------------------------------------------------------------------
(* Lemmas about rows. *)

LEMMA StoredTimeType ==
    ASSUME NEW t \in Nat
    PROVE  StoredTime(t) \in Nat
<1>1. Precision \in Nat /\ Precision > 0
  BY PrecisionAssumption
<1>2. t \div Precision \in Nat
  BY <1>1
<1> QED
  BY <1>1, <1>2 DEF StoredTime

LEMMA GenesisIsRow == IsRow(GenesisRow)
BY DEF IsRow, GenesisRow

LEMMA NewRowIsRow ==
    ASSUME NEW e, IsRow(e), NEW t \in Nat, NEW w \in Writers
    PROVE  /\ IsRow(NewRow(e, t, w))
           /\ NewRow(e, t, w).idx = e.idx + 1
           /\ NewRow(e, t, w).prev = e.hash
           /\ NewRow(e, t, w).taken = t
           /\ NewRow(e, t, w).time = StoredTime(t)
           /\ NewRow(e, t, w).data = w
           /\ NewRow(e, t, w).hash = M!Hash(e.idx + 1, M!Format(t, M!UTC), w, e.hash)
BY StoredTimeType DEF IsRow, NewRow

(* The tail query finds the last row. *)
LEMMA TailIsLast ==
    ASSUME LengthInv
    PROVE  IsLast(LastRow) /\ LastRow \in table
BY DEF LengthInv, IsLast, LastRow

-----------------------------------------------------------------------------
(* The inductive invariant. *)

LEMMA InitInductive == Init => Inductive
<1> SUFFICES ASSUME Init PROVE Inductive
  OBVIOUS
<1>1. TypeOK
  BY GenesisIsRow DEF Init, TypeOK, InTransaction
<1>2. LockInv /\ TailInv /\ NewInv /\ DataInv /\ CountInv /\ NoConflict /\ OverviewNotBehind
  BY WriterAssumption
  DEF Init, LockInv, TailInv, NewInv, DataInv, CountInv, NoConflict,
      OverviewNotBehind, Holding, GenesisRow
<1>3. LengthInv
  <2>1. IsFiniteSet({GenesisRow}) /\ Cardinality({GenesisRow}) = 1
    BY FS_Singleton
  <2>2. GenesisRow.idx = 0
    BY DEF GenesisRow
  <2> QED
    BY <2>1, <2>2 DEF Init, LengthInv, IsLast
<1>4. ChainIntact
  BY DEF Init, ChainIntact
<1> QED
  BY <1>1, <1>2, <1>3, <1>4 DEF Inductive

(* A step of one transaction that adds no row. *)
LEMMA QuietStep ==
    ASSUME Inductive, NEW w \in Writers, NEW t,
           tx' = [tx EXCEPT ![w] = t],
           DOMAIN t = {"pc", "tail", "new"},
           UNCHANGED <<table, view>>,
           lock' \in Writers \cup {NoWriter},
           t.pc \in InTransaction \cup {"done", "failed"},
           IsRow(t.tail), IsRow(t.new),
           t.pc \in Holding => lock' = w,
           lock' # lock => lock = NoWriter \/ lock = w,
           t.pc \in {"read", "inserted"} => IsLast(t.tail),
           t.pc = "inserted" => /\ t.new = NewRow(t.tail, t.new.taken, w)
                                /\ t.new.taken \in Readings,
           tx[w].pc \in InTransaction \cup {"idle"}
    PROVE  Inductive'
<1>1. /\ tx'[w] = t
      /\ \A v \in Writers : v # w => tx'[v] = tx[v]
      /\ DOMAIN tx' = Writers
  BY DEF Inductive, TypeOK
<1>2. TypeOK'
  BY <1>1 DEF Inductive, TypeOK
<1>3. LockInv'
  BY <1>1, WriterAssumption DEF Inductive, LockInv
<1>4. TailInv' /\ NewInv' /\ DataInv'
  BY <1>1 DEF Inductive, TailInv, NewInv, DataInv, IsLast
<1>5. NoConflict'
  BY <1>1 DEF Inductive, NoConflict, InTransaction
<1>6. LengthInv' /\ CountInv' /\ ChainIntact' /\ OverviewNotBehind'
  BY DEF Inductive, LengthInv, IsLast, CountInv, ChainIntact, OverviewNotBehind
<1> QED
  BY <1>2, <1>3, <1>4, <1>5, <1>6 DEF Inductive

LEMMA TransactionKeeps ==
    ASSUME Inductive, NEW w \in Writers,
           Begin(w) \/ Lock(w) \/ ReadTail(w) \/ Insert(w) \/ Rollback(w)
    PROVE  Inductive'
<1> DEFINE With(pc) == [tx[w] EXCEPT !.pc = pc]
<1>1. /\ DOMAIN tx[w] = {"pc", "tail", "new"}
      /\ IsRow(tx[w].tail) /\ IsRow(tx[w].new)
      /\ lock \in Writers \cup {NoWriter}
      /\ tx[w].pc \in InTransaction \cup {"idle"}
  BY DEF Inductive, TypeOK, Begin, Lock, ReadTail, Insert, Rollback,
         InTransaction
<1>2. ASSUME NEW pc
      PROVE  /\ DOMAIN With(pc) = {"pc", "tail", "new"}
             /\ With(pc).pc = pc
             /\ With(pc).tail = tx[w].tail /\ With(pc).new = tx[w].new
  BY <1>1
<1>3. CASE Begin(w)
  <2> DEFINE t == With("begun")
  <2>1. tx' = [tx EXCEPT ![w] = t]
    BY <1>3 DEF Begin
  <2>2. UNCHANGED <<table, view, lock>>
    BY <1>3 DEF Begin
  <2>3. /\ DOMAIN t = {"pc", "tail", "new"}
        /\ t.pc = "begun" /\ t.tail = tx[w].tail /\ t.new = tx[w].new
    BY <1>2
  <2> HIDE DEF t
  <2> QED
    BY <1>1, <2>1, <2>2, <2>3, QuietStep DEF InTransaction, Holding
<1>4. CASE Lock(w)
  <2> DEFINE t == With("locked")
  <2>1. tx' = [tx EXCEPT ![w] = t]
    BY <1>4 DEF Lock
  <2>2. UNCHANGED <<table, view>> /\ lock' = w /\ lock = NoWriter
    BY <1>4 DEF Lock
  <2>3. /\ DOMAIN t = {"pc", "tail", "new"}
        /\ t.pc = "locked" /\ t.tail = tx[w].tail /\ t.new = tx[w].new
    BY <1>2
  <2> HIDE DEF t
  <2> QED
    BY <1>1, <2>1, <2>2, <2>3, QuietStep DEF InTransaction, Holding
<1>5. CASE ReadTail(w)
  <2> DEFINE t == [With("read") EXCEPT !.tail = LastRow]
  <2>1. tx' = [tx EXCEPT ![w] = t]
    BY <1>5 DEF ReadTail
  <2>2. UNCHANGED <<table, view, lock>>
    BY <1>5 DEF ReadTail
  <2>3. lock = w
    BY <1>5 DEF ReadTail, Inductive, LockInv, Holding
  <2>4. IsLast(LastRow) /\ IsRow(LastRow)
    BY TailIsLast DEF Inductive, TypeOK
  <2>5. /\ DOMAIN t = {"pc", "tail", "new"}
        /\ t.pc = "read" /\ t.tail = LastRow /\ t.new = tx[w].new
    BY <1>1
  <2> HIDE DEF t
  <2> QED
    BY <1>1, <2>1, <2>2, <2>3, <2>4, <2>5, QuietStep DEF InTransaction, Holding
<1>6. CASE Insert(w)
  <2>1. PICK now \in Readings :
          LET e == NewRow(tx[w].tail, now, w) IN
          IF \E f \in table : f.idx = e.idx
          THEN /\ tx' = [tx EXCEPT ![w].pc = "conflict"]
               /\ Release(w)
          ELSE /\ tx' = [tx EXCEPT ![w].pc = "inserted", ![w].new = e]
               /\ UNCHANGED lock
    BY <1>6 DEF Insert
  <2> DEFINE e == NewRow(tx[w].tail, now, w)
             t == [With("inserted") EXCEPT !.new = e]
  <2>2. /\ lock = w /\ IsLast(tx[w].tail)
        /\ UNCHANGED <<table, view>>
    BY <1>6 DEF Insert, Inductive, LockInv, TailInv, Holding
  <2>3. now \in Nat
    BY ReadingAssumption
  <2>4. IsRow(e) /\ e.idx = tx[w].tail.idx + 1 /\ e.taken = now
    BY <1>1, <2>3, NewRowIsRow
  <2>5. ~ \E f \in table : f.idx = e.idx
    <3>1. \A f \in table : f.idx \in Nat /\ f.idx =< tx[w].tail.idx
      BY <2>2 DEF IsLast, Inductive, TypeOK, IsRow
    <3>2. tx[w].tail.idx \in Nat
      BY <1>1 DEF IsRow
    <3> QED
      BY <2>4, <3>1, <3>2
  <2>6. tx' = [tx EXCEPT ![w] = t] /\ UNCHANGED lock
    BY <2>1, <2>5
  <2>7. /\ DOMAIN t = {"pc", "tail", "new"}
        /\ t.pc = "inserted" /\ t.tail = tx[w].tail /\ t.new = e
    BY <1>1
  <2>8. t.new = NewRow(t.tail, t.new.taken, w) /\ t.new.taken \in Readings
    BY <2>4, <2>7
  <2> HIDE DEF t, e
  <2> QED
    BY <1>1, <2>2, <2>4, <2>6, <2>7, <2>8, QuietStep DEF InTransaction, Holding
<1>7. CASE Rollback(w)
  <2> DEFINE t == With("failed")
  <2>1. tx' = [tx EXCEPT ![w] = t]
    BY <1>7 DEF Rollback
  <2>2. UNCHANGED <<table, view>>
    BY <1>7 DEF Rollback
  <2>3. /\ lock' \in Writers \cup {NoWriter}
        /\ lock' # lock => lock = w
    BY <1>1, <1>7 DEF Rollback, Release
  <2>4. /\ DOMAIN t = {"pc", "tail", "new"}
        /\ t.pc = "failed" /\ t.tail = tx[w].tail /\ t.new = tx[w].new
    BY <1>2
  <2> HIDE DEF t
  <2> QED
    BY <1>1, <2>1, <2>2, <2>3, <2>4, QuietStep DEF InTransaction, Holding
<1> QED
  BY <1>3, <1>4, <1>5, <1>6, <1>7

(* The commit: the new row follows the last one, and nobody else is at work *)
(* on a tail.                                                              *)
LEMMA CommitKeeps ==
    ASSUME Inductive, NEW w \in Writers, Commit(w)
    PROVE  Inductive'
<1> DEFINE e == tx[w].new
           last == tx[w].tail
<1>1. /\ tx[w].pc = "inserted"
      /\ table' = table \cup {e}
      /\ lock' = NoWriter
      /\ view' = view
  BY DEF Commit, Release, Inductive, LockInv, Holding
<1>2. PICK pc \in {"done", "failed"} : tx' = [tx EXCEPT ![w].pc = pc]
  BY DEF Commit
<1>3. /\ tx'[w] = [tx[w] EXCEPT !.pc = pc]
      /\ \A v \in Writers : v # w => tx'[v] = tx[v]
      /\ DOMAIN tx' = Writers
  BY <1>2 DEF Inductive, TypeOK
<1>4. /\ DOMAIN tx'[w] = {"pc", "tail", "new"}
      /\ tx'[w].pc = pc /\ tx'[w].tail = last /\ tx'[w].new = e
  BY <1>3 DEF Inductive, TypeOK
<1>5. IsRow(last) /\ IsRow(e) /\ IsLast(last) /\ e = NewRow(last, e.taken, w)
  BY <1>1 DEF Inductive, TypeOK, TailInv, NewInv
<1>6. e.idx = last.idx + 1 /\ last.idx \in Nat /\ e.taken \in Nat /\ e.data = w
  <2>1. IsRow(last) /\ last.idx \in Nat /\ e.taken \in Nat
    BY <1>5 DEF IsRow
  <2> HIDE DEF e, last
  <2>2. /\ NewRow(last, e.taken, w).idx = last.idx + 1
        /\ NewRow(last, e.taken, w).data = w
    BY <2>1, NewRowIsRow
  <2> QED
    BY <1>5, <2>1, <2>2
<1>7. \A f \in table : f.idx \in Nat /\ f.idx < e.idx
  BY <1>5, <1>6 DEF Inductive, TypeOK, IsRow, IsLast
<1>8. \A v \in Writers : tx'[v].pc \notin Holding
  <2>1. \A v \in Writers : v # w => tx[v].pc \notin Holding
    BY <1>1 DEF Inductive, LockInv, Holding
  <2> QED
    BY <1>2, <1>3, <1>4, <2>1 DEF Holding
<1>9. TypeOK'
  <2>1. \A f \in table' : IsRow(f)
    BY <1>1, <1>5 DEF Inductive, TypeOK
  <2>2. \A v \in Writers :
          /\ DOMAIN tx'[v] = {"pc", "tail", "new"}
          /\ tx'[v].pc \in InTransaction \cup {"idle", "done", "failed",
                                               "conflict"}
          /\ IsRow(tx'[v].tail)
          /\ IsRow(tx'[v].new)
    BY <1>2, <1>3, <1>4, <1>5 DEF Inductive, TypeOK
  <2> QED
    BY <1>1, <1>3, <2>1, <2>2 DEF Inductive, TypeOK
<1>10. LockInv' /\ TailInv' /\ NewInv'
  BY <1>8 DEF LockInv, TailInv, NewInv, Holding
<1>11. DataInv'
  <2>1. ASSUME NEW v \in Writers, tx'[v].pc \in InTransaction \cup {"idle"}
        PROVE  v # w /\ \A f \in table : f.data # v
    BY <1>2, <1>3, <1>4, <2>1 DEF Inductive, DataInv, InTransaction
  <2> QED
    BY <1>1, <1>6, <2>1 DEF DataInv
<1>12. /\ IsFiniteSet(table) /\ IsFiniteSet(table')
       /\ Cardinality(table') = Cardinality(table) + 1
       /\ Cardinality(table) = last.idx + 1
  <2>1. PICK f \in table : IsLast(f) /\ Cardinality(table) = f.idx + 1
    BY DEF Inductive, LengthInv
  <2>2. f.idx = last.idx
    BY <1>5, <1>6, <1>7, <2>1 DEF IsLast
  <2>3. e \notin table
    BY <1>6, <1>7
  <2>4. IsFiniteSet(table)
    BY DEF Inductive, LengthInv
  <2> QED
    BY <1>1, <2>1, <2>2, <2>3, <2>4, FS_AddElement
<1>13. LengthInv'
  <2>1. e \in table' /\ \A f \in table' : f.idx =< e.idx
    BY <1>1, <1>6, <1>7
  <2>2. ASSUME NEW i \in 0..e.idx
        PROVE  \E f \in table' : f.idx = i
    <3>1. PICK f \in table : /\ IsLast(f)
                             /\ \A j \in 0..f.idx : \E g \in table : g.idx = j
      BY DEF Inductive, LengthInv
    <3>2. f.idx = last.idx
      BY <1>5, <1>6, <1>7, <3>1 DEF IsLast
    <3>3. i = e.idx \/ i \in 0..f.idx
      BY <1>6, <3>2
    <3> QED
      BY <1>1, <3>1, <3>3
  <2> QED
    BY <1>6, <1>12, <2>1, <2>2 DEF LengthInv, IsLast
<1>14. CountInv'
  BY <1>1, <1>6, <1>12 DEF Inductive, CountInv, TypeOK
<1>15. ChainIntact'
  <2>1. GenesisRow \in table'
    BY <1>1 DEF Inductive, ChainIntact
  <2>2. \A f, g \in table' : f.idx = g.idx => f = g
    BY <1>1, <1>6, <1>7 DEF Inductive, ChainIntact
  <2>3. \A f \in table' :
          f = GenesisRow \/ \E g \in table' : Follows(f, g)
    <3>1. \A f \in table : f = GenesisRow \/ \E g \in table : Follows(f, g)
      BY DEF Inductive, ChainIntact
    <3>2. last \in table'
      BY <1>1, <1>5 DEF IsLast
    <3>3. Follows(e, last)
      <4> HIDE DEF e, last
      <4>1. /\ NewRow(last, e.taken, w).prev = last.hash
            /\ NewRow(last, e.taken, w).time = StoredTime(e.taken)
            /\ NewRow(last, e.taken, w).hash =
                  M!Hash(last.idx + 1, M!Format(e.taken, M!UTC), w, last.hash)
        <5>1. IsRow(last) /\ e.taken \in Nat
          BY <1>5, <1>6
        <5> QED
          BY <5>1, NewRowIsRow
      <4> QED
        BY <1>5, <1>6, <4>1 DEF Follows
    <3> QED
      BY <1>1, <3>1, <3>2, <3>3
  <2> QED
    BY <2>1, <2>2, <2>3 DEF ChainIntact
<1>16. NoConflict'
  BY <1>2, <1>3, <1>4 DEF Inductive, NoConflict
<1>17. OverviewNotBehind'
  BY <1>1 DEF Inductive, OverviewNotBehind
<1> QED
  BY <1>9, <1>10, <1>11, <1>13, <1>14, <1>15, <1>16, <1>17
  DEF Inductive

(* The overview requests. *)
LEMMA OverviewKeeps ==
    ASSUME Inductive, NEW r \in Readers, ReadLen(r) \/ ReadRoot(r)
    PROVE  Inductive'
<1>1. UNCHANGED <<table, lock, tx>> /\ TypeOK
  BY DEF ReadLen, ReadRoot, Inductive
<1>2. LockInv' /\ TailInv' /\ NewInv' /\ DataInv' /\ LengthInv' /\ ChainIntact'
        /\ NoConflict'
  BY <1>1 DEF Inductive, LockInv, TailInv, NewInv, DataInv, LengthInv, IsLast,
              ChainIntact, NoConflict
<1>3. PICK last \in table : IsLast(last) /\ Cardinality(table) = last.idx + 1
  BY DEF Inductive, LengthInv
<1>4. Cardinality(table) \in Nat /\ last.idx \in Nat
  BY <1>1, <1>3 DEF TypeOK, IsRow
<1>5. LastRow \in table /\ LastRow.idx = last.idx
  BY <1>1, <1>3, <1>4, TailIsLast DEF Inductive, IsLast, TypeOK, IsRow
<1>6. CASE ReadLen(r)
  <2>1. /\ view'[r].pc = "counted" /\ view'[r].count = Cardinality(table)
        /\ DOMAIN view'[r] = {"pc", "count", "root"}
        /\ \A q \in Readers : q # r => view'[q] = view[q]
        /\ DOMAIN view' = Readers
    BY <1>1, <1>6 DEF ReadLen, TypeOK
  <2>2. TypeOK'
    BY <1>1, <1>4, <2>1 DEF TypeOK
  <2>3. CountInv' /\ OverviewNotBehind'
    BY <1>1, <1>4, <2>1 DEF Inductive, CountInv, OverviewNotBehind
  <2> QED
    BY <1>2, <2>2, <2>3 DEF Inductive
<1>7. CASE ReadRoot(r)
  <2>1. /\ view'[r].pc = "answered" /\ view'[r].count = view[r].count
        /\ view'[r].root = LastRow.hash
        /\ DOMAIN view'[r] = {"pc", "count", "root"}
        /\ \A q \in Readers : q # r => view'[q] = view[q]
        /\ DOMAIN view' = Readers
    BY <1>1, <1>7 DEF ReadRoot, TypeOK
  <2>2. TypeOK'
    BY <1>1, <2>1 DEF TypeOK
  <2>3. CountInv'
    BY <1>1, <2>1 DEF Inductive, CountInv
  <2>4. LastRow.idx >= view[r].count - 1
    BY <1>1, <1>3, <1>4, <1>5, <1>7 DEF Inductive, CountInv, ReadRoot, TypeOK
  <2>5. OverviewNotBehind'
    BY <1>1, <1>5, <2>1, <2>4 DEF Inductive, OverviewNotBehind
  <2> QED
    BY <1>2, <2>2, <2>3, <2>5 DEF Inductive
<1> QED
  BY <1>6, <1>7

LEMMA NextInductive ==
    ASSUME Inductive, [Next]_vars
    PROVE  Inductive'
<1>1. ASSUME NEW w \in Writers, Begin(w) \/ Advance(w) \/ Rollback(w)
      PROVE  Inductive'
  BY <1>1, TransactionKeeps, CommitKeeps DEF Advance
<1>2. ASSUME NEW r \in Readers, ReadLen(r) \/ ReadRoot(r)
      PROVE  Inductive'
  BY <1>2, OverviewKeeps
<1>3. CASE UNCHANGED vars
  BY <1>3 DEF vars, Inductive, TypeOK, LockInv, TailInv, NewInv, DataInv,
              LengthInv, IsLast, CountInv, ChainIntact, NoConflict,
              OverviewNotBehind
<1> QED
  BY <1>1, <1>2, <1>3 DEF Next

(* The inductive invariant holds of every reachable state. *)
THEOREM InductiveHolds == Spec => []Inductive
<1>1. Init => Inductive
  BY InitInductive
<1>2. Inductive /\ [Next]_vars => Inductive'
  BY NextInductive
<1> QED
  BY <1>1, <1>2, PTL DEF Spec

-----------------------------------------------------------------------------
(* What follows from it. *)

(* The rows are one unforked, gapless chain from the genesis row. *)
THEOREM ChainTheorem == Spec => []ChainIntact
<1>1. Inductive => ChainIntact
  BY DEF Inductive
<1> QED
  BY <1>1, InductiveHolds, PTL

(* The advisory lock leaves the primary key nothing to reject. *)
THEOREM NoConflictTheorem == Spec => []NoConflict
<1>1. Inductive => NoConflict
  BY DEF Inductive
<1> QED
  BY <1>1, InductiveHolds, PTL

(* An overview's root is never older than its length. *)
THEOREM OverviewTheorem == Spec => []OverviewNotBehind
<1>1. Inductive => OverviewNotBehind
  BY DEF Inductive
<1> QED
  BY <1>1, InductiveHolds, PTL

(* Two instants in two zones have one text only when they are one instant   *)
(* and the zones have one offset.                                          *)
LEMMA FormatTells ==
    ASSUME NEW t \in Nat, NEW s \in Nat, NEW offset
    PROVE  M!Format(t, M!UTC) = M!Format(s, offset) <=> s = t /\ offset = M!UTC
<1>1. CASE offset = M!UTC
  BY <1>1 DEF M!Format, M!UTC
<1>2. CASE offset # M!UTC
  BY <1>2 DEF M!Format
<1> QED
  BY <1>1, <1>2

\* The text of a row's timestamp in a zone is the one that was hashed.
Legible(e, zone) == StoredTime(e.taken) = e.taken /\ zone[e.taken] = M!UTC

(* A row that Append wrote is accepted by Verify exactly when the column    *)
(* kept its reading whole and the process has it in UTC.                   *)
LEMMA AcceptedRow ==
    ASSUME Inductive, NEW e \in table, NEW zone
    PROVE  Accepted(e, zone) <=> e = GenesisRow \/ Legible(e, zone)
<1>1. \A f \in table : f.idx \in Nat
  BY DEF Inductive, TypeOK, IsRow
<1>2. GenesisRow \in table /\ GenesisRow.idx = 0
  BY DEF Inductive, ChainIntact, GenesisRow
<1>3. CASE e = GenesisRow
  <2>1. IsFirst(e)
    BY <1>1, <1>2, <1>3 DEF IsFirst
  <2>2. e.hash = M!GenesisHash
    BY <1>3 DEF GenesisRow
  <2> QED
    BY <1>3, <2>1, <2>2 DEF Accepted
<1>4. ASSUME NEW f \in table, Follows(e, f)
      PROVE  Accepted(e, zone) <=> e = GenesisRow \/ Legible(e, zone)
  <2>1. /\ e.idx = f.idx + 1
        /\ e.prev = f.hash
        /\ e.time = StoredTime(e.taken)
        /\ e.hash = M!Hash(e.idx, M!Format(e.taken, M!UTC), e.data, f.hash)
    BY <1>4 DEF Follows
  <2>2. ~IsFirst(e) /\ e # GenesisRow
    BY <1>1, <1>2, <2>1 DEF IsFirst
  <2>3. Before(e) = f
    <3>1. f.idx < e.idx /\ \A g \in table : g.idx < e.idx => g.idx =< f.idx
      BY <1>1, <2>1
    <3>2. \A g \in table :
             g.idx < e.idx /\ (\A h \in table : h.idx < e.idx => h.idx =< g.idx)
               => g = f
      BY <1>1, <3>1 DEF Inductive, ChainIntact
    <3> QED
      BY <3>1, <3>2 DEF Before
  <2>4. Accepted(e, zone) <=>
           e.hash = M!Hash(e.idx, M!Format(e.time, zone[e.time]), e.data, e.prev)
    BY <2>1, <2>2, <2>3 DEF Accepted
  <2>5. Accepted(e, zone) <=>
           M!Format(e.taken, M!UTC) = M!Format(e.time, zone[e.time])
    BY <2>1, <2>4 DEF M!Hash
  <2>6. e.taken \in Nat /\ e.time \in Nat
    BY DEF Inductive, TypeOK, IsRow
  <2>7. Accepted(e, zone) <=> e.time = e.taken /\ zone[e.time] = M!UTC
    BY <2>5, <2>6, FormatTells
  <2> QED
    BY <2>1, <2>2, <2>7 DEF Legible
<1> QED
  BY <1>3, <1>4 DEF Inductive, ChainIntact

(* Verify never blames an unforked chain: it fails if and only if some       *)
(* reading of the clock did not fit the timestamp column, or was made when  *)
(* the zone of the verifying process was off UTC.                          *)
THEOREM VerifyTheorem == Spec => []VerifyBlamesTimestamps
<1>1. Inductive => VerifyBlamesTimestamps
  BY AcceptedRow DEF VerifyBlamesTimestamps, Verify, Legible
<1> QED
  BY <1>1, InductiveHolds, PTL

-----------------------------------------------------------------------------
(* The refinement. *)

RowAt(i) == CHOOSE f \in table : f.idx = i - 1

EntryOf(e) == [idx |-> e.idx, time |-> e.taken, data |-> e.data,
               prev |-> e.prev, hash |-> e.hash]

Entries == [i \in 1..Cardinality(table) |-> EntryOf(RowAt(i))]

LEMMA RowAtFinds ==
    ASSUME Inductive, NEW e \in table
    PROVE  /\ e.idx + 1 \in 1..Cardinality(table)
           /\ RowAt(e.idx + 1) = e
<1>1. \A f \in table : f.idx \in Nat
  BY DEF Inductive, TypeOK, IsRow
<1>2. PICK last \in table : IsLast(last) /\ Cardinality(table) = last.idx + 1
  BY DEF Inductive, LengthInv
<1>3. e.idx =< last.idx
  BY <1>2 DEF IsLast
<1>4. \A f \in table : f.idx = (e.idx + 1) - 1 => f = e
  BY <1>1 DEF Inductive, ChainIntact
<1>5. RowAt(e.idx + 1) = e
  BY <1>1, <1>4 DEF RowAt
<1> QED
  BY <1>1, <1>2, <1>3, <1>5

LEMMA RowAtInTable ==
    ASSUME Inductive, NEW i \in 1..Cardinality(table)
    PROVE  RowAt(i) \in table /\ RowAt(i).idx = i - 1
<1>1. PICK last \in table : /\ Cardinality(table) = last.idx + 1
                            /\ \A j \in 0..last.idx : \E f \in table : f.idx = j
  BY DEF Inductive, LengthInv
<1>2. last.idx \in Nat
  BY DEF Inductive, TypeOK, IsRow
<1>3. i - 1 \in 0..last.idx
  BY <1>1, <1>2
<1>4. \E f \in table : f.idx = i - 1
  BY <1>1, <1>3
<1> QED
  BY <1>4 DEF RowAt

LEMMA InitRefines == Init => Log!Init
<1> SUFFICES ASSUME Init PROVE Log!Init
  OBVIOUS
<1>1. Cardinality(table) = 1
  BY FS_Singleton DEF Init
<1>2. RowAt(1) = GenesisRow
  BY DEF Init, RowAt, GenesisRow
<1>3. Entries = <<EntryOf(GenesisRow)>>
  BY <1>1, <1>2 DEF Entries
<1>4. EntryOf(GenesisRow) = Log!Genesis
  BY DEF EntryOf, GenesisRow, Log!Genesis, M!GenesisHash, Log!GenesisHash
<1> QED
  BY <1>3, <1>4 DEF Log!Init, Entries, EntryOf, RowAt

(* A commit is the append of the in-memory ledger. *)
LEMMA CommitRefines ==
    ASSUME Inductive, NEW w \in Writers, Commit(w)
    PROVE  Log!AppendEntry(w)
<1> DEFINE e == tx[w].new
           last == tx[w].tail
<1>1. /\ tx[w].pc = "inserted"
      /\ table' = table \cup {e}
  BY DEF Commit
<1>2. /\ IsRow(e) /\ IsLast(last)
      /\ e = NewRow(last, e.taken, w) /\ e.taken \in Readings
  BY <1>1 DEF Inductive, TypeOK, TailInv, NewInv
<1>3. /\ e.idx = last.idx + 1 /\ e.taken \in Nat /\ e.data = w
      /\ e.prev = last.hash
      /\ e.hash = M!Hash(last.idx + 1, M!Format(e.taken, M!UTC), w, last.hash)
  <2>1. IsRow(last) /\ e.taken \in Nat
    BY <1>1, <1>2 DEF Inductive, TypeOK, IsRow
  <2>2. /\ NewRow(last, e.taken, w).idx = last.idx + 1
        /\ NewRow(last, e.taken, w).prev = last.hash
        /\ NewRow(last, e.taken, w).data = w
        /\ NewRow(last, e.taken, w).hash =
              M!Hash(last.idx + 1, M!Format(e.taken, M!UTC), w, last.hash)
    BY <2>1, NewRowIsRow
  <2> QED
    BY <1>2, <2>1, <2>2
<1>4. \A f \in table : f.idx \in Nat /\ f.idx =< last.idx
  BY <1>2 DEF Inductive, TypeOK, IsRow, IsLast
<1>5. PICK n \in Nat \ {0} :
        n = Cardinality(table) /\ n = last.idx + 1 /\ last \in table
  <2>1. Cardinality(table) = last.idx + 1 /\ last \in table
    BY <1>2, <1>4 DEF Inductive, LengthInv, IsLast
  <2>2. last.idx \in Nat
    BY <1>4, <2>1
  <2>3. last.idx + 1 \in Nat \ {0}
    BY <2>2
  <2> HIDE DEF last
  <2> QED
    BY <2>1, <2>3
<1>6. last.idx \in Nat
  BY <1>4, <1>5
<1>7. Cardinality(table') = n + 1
  <2>1. e \notin table
    BY <1>3, <1>4, <1>6
  <2>2. IsFiniteSet(table)
    BY DEF Inductive, LengthInv
  <2> QED
    BY <1>1, <1>5, <2>1, <2>2, FS_AddElement
<1>8. \A i \in 1..n : RowAt(i)' = RowAt(i)
  <2> SUFFICES ASSUME NEW i \in 1..n PROVE RowAt(i)' = RowAt(i)
    OBVIOUS
  <2>1. RowAt(i) \in table /\ RowAt(i).idx = i - 1
    BY <1>5, RowAtInTable
  <2>2. \A f \in table' : f.idx = i - 1 => f = RowAt(i)
    <3>1. e.idx # i - 1
      BY <1>3, <1>5, <1>6
    <3>2. \A f \in table : f.idx = i - 1 => f = RowAt(i)
      BY <2>1 DEF Inductive, ChainIntact
    <3> QED
      BY <1>1, <3>1, <3>2
  <2>3. RowAt(i) \in table'
    BY <1>1, <2>1
  <2>4. (CHOOSE f \in table' : f.idx = i - 1) = RowAt(i)
    BY <2>1, <2>2, <2>3
  <2> QED
    BY <2>4 DEF RowAt
<1>9. RowAt(n + 1)' = e
  <2>1. e \in table' /\ e.idx = (n + 1) - 1
    BY <1>1, <1>3, <1>5, <1>6
  <2>2. \A f \in table' : f.idx = (n + 1) - 1 => f = e
    BY <1>1, <1>3, <1>4, <1>5, <1>6
  <2>3. (CHOOSE f \in table' : f.idx = (n + 1) - 1) = e
    BY <2>1, <2>2
  <2> QED
    BY <2>3 DEF RowAt
<1>10. RowAt(n) = last
  BY <1>5, <1>6, RowAtFinds
<1> DEFINE new == Log!Successor(EntryOf(last), e.taken, w)
<1>11. EntryOf(e) = new
  BY <1>3 DEF EntryOf, Log!Successor, Log!Hash, M!Hash, Log!Format, M!Format, Log!UTC, M!UTC
<1>12. /\ Entries = [i \in 1..n |-> EntryOf(RowAt(i))]
       /\ Entries' = [i \in 1..(n + 1) |->
                        IF i = n + 1 THEN new ELSE EntryOf(RowAt(i))]
  <2>1. Entries' = [i \in 1..(n + 1) |-> EntryOf(RowAt(i)')]
    BY <1>7 DEF Entries, EntryOf
  <2>2. \A i \in 1..(n + 1) :
           EntryOf(RowAt(i)') = IF i = n + 1 THEN new ELSE EntryOf(RowAt(i))
    BY <1>8, <1>9, <1>11
  <2> QED
    BY <1>5, <2>1, <2>2 DEF Entries
<1>13. Len(Entries) = n /\ Entries[n] = EntryOf(last)
  BY <1>5, <1>10, <1>12
<1>14. Entries' = Append(Entries, new)
  <2> HIDE DEF new
  <2>1. Entries \in Seq({EntryOf(RowAt(i)) : i \in 1..n})
    BY <1>5, <1>12
  <2> QED
    BY <1>5, <1>12, <1>13, <2>1
<1>15. \A i \in DOMAIN Entries : Entries[i].data # w
  <2>1. \A f \in table : f.data # w
    BY <1>1 DEF Inductive, DataInv, InTransaction
  <2> QED
    BY <1>5, <1>12, <2>1, RowAtInTable DEF EntryOf
<1>16. /\ Entries' = Append(Entries, Log!Successor(Entries[Len(Entries)], e.taken, w))
  BY <1>13, <1>14
<1> QED
  BY <1>2, <1>15, <1>16 DEF Log!AppendEntry, Entries, EntryOf, RowAt

LEMMA NextRefines ==
    ASSUME Inductive, [Next]_vars
    PROVE  Log!Next \/ Entries' = Entries
<1>1. ASSUME table' = table
      PROVE  Entries' = Entries
  BY <1>1 DEF Entries, EntryOf, RowAt
<1>2. ASSUME NEW w \in Writers, Commit(w)
      PROVE  Log!Next
  BY <1>2, CommitRefines DEF Log!Next
<1>3. ASSUME NEW w \in Writers,
             Begin(w) \/ Lock(w) \/ ReadTail(w) \/ Insert(w) \/ Rollback(w)
      PROVE  table' = table
  BY <1>3 DEF Begin, Lock, ReadTail, Insert, Rollback
<1>4. ASSUME NEW r \in Readers, ReadLen(r) \/ ReadRoot(r)
      PROVE  table' = table
  BY <1>4 DEF ReadLen, ReadRoot
<1>5. CASE UNCHANGED vars
  BY <1>1, <1>5 DEF vars
<1> QED
  BY <1>1, <1>2, <1>3, <1>4, <1>5 DEF Next, Advance

(* The transactions of PostgresLedger implement the one-step append of the   *)
(* in-memory ledger, apart from the digits that the timestamp column drops. *)
THEOREM LedgerTheorem == Spec => ImplementsMemoryLedger
<1>1. Init => Log!Init
  BY InitRefines
<1>2. Inductive /\ [Next]_vars => (Log!Next \/ Entries' = Entries)
  BY NextRefines
<1>3. Inductive /\ [Next]_vars =>
        [Log!Next]_([i \in 1..Cardinality(table) |->
            LET e == CHOOSE f \in table : f.idx = i - 1 IN
            [idx |-> e.idx, time |-> e.taken, data |-> e.data,
             prev |-> e.prev, hash |-> e.hash]])
  BY <1>2 DEF Entries, EntryOf, RowAt
<1> QED
  BY <1>1, <1>3, InductiveHolds, PTL
  DEF Spec, ImplementsMemoryLedger, Log!Spec
=============================================================================
