------------------------- MODULE DNSChallengeProofs -------------------------
(***************************************************************************)
(* Proofs about DNSChallenge, for any number of challenges, domains and     *)
(* calls, any lifetime and any skew between the clocks.                    *)
(***************************************************************************)
EXTENDS DNSChallenge, TLAPS

CallType ==
    [pc    : {"idle", "checked", "looking", "seen", "verified", "refused"},
     id    : Challenges \cup {NoChallenge},
     begun : Nat]

RowType == [state : Stored \cup {"none", "gone"}, expires : Nat]

LEMMA Types ==
    TypeOK <=> /\ now \in Nat
               /\ row \in [Challenges -> RowType]
               /\ published \in SUBSET Challenges
               /\ call \in [Calls -> CallType]
               /\ \A k \in Calls : call[k].pc # "idle" =>
                                      call[k].id \in Challenges
               /\ witness \in [Challenges -> Nat \cup {Never}]
BY DEF TypeOK, CallType, RowType

LEMMA InitInductive == Init => Inductive
<1> SUFFICES ASSUME Init PROVE Inductive
  OBVIOUS
<1>1. TypeOK
  BY Types DEF Init, RowType, CallType
<1>2. PublishedInv /\ LookingInv /\ WitnessInv /\ SeenInv /\ VerifiedInv
  BY DEF Init, PublishedInv, LookingInv, WitnessInv, SeenInv, VerifiedInv
<1> QED
  BY <1>1, <1>2 DEF Inductive

(* A challenge is issued, or its record published. *)
LEMMA StartKeeps ==
    ASSUME Inductive, NEW c \in Challenges, StartChallenge(c)
    PROVE  Inductive'
<1>1. /\ row[c].state = "none"
      /\ UNCHANGED <<now, published, call, witness>>
      /\ TypeOK
  BY DEF StartChallenge, Inductive
<1>2. now + Lifetime \in Nat
  BY <1>1, TimeAssumption DEF TypeOK
<1>3. /\ row' \in [Challenges -> RowType]
      /\ row'[c].state = "open"
      /\ \A d \in Challenges : d # c => row'[d] = row[d]
  BY <1>1, <1>2, Types DEF StartChallenge, RowType, Stored
<1>4. TypeOK'
  BY <1>1, <1>3 DEF TypeOK, RowType
<1>5. c \notin published /\ witness[c] = Never
  BY <1>1 DEF Inductive, PublishedInv, WitnessInv
<1>6. \A k \in Calls : /\ call[k].pc \in {"checked", "looking", "seen", "verified"}
                            => call[k].id \in Challenges \ {c}
  BY <1>1 DEF Inductive, LookingInv, VerifiedInv, TypeOK
<1>7. PublishedInv' /\ WitnessInv'
  BY <1>1, <1>3, <1>5
  DEF Inductive, PublishedInv, WitnessInv, TypeOK
<1>8. LookingInv'
  BY <1>1, <1>3, <1>6 DEF Inductive, LookingInv
<1>9. SeenInv' /\ VerifiedInv'
  BY <1>1, <1>3, <1>6 DEF Inductive, SeenInv, VerifiedInv
<1> QED
  BY <1>4, <1>7, <1>8, <1>9 DEF Inductive

LEMMA PublishKeeps ==
    ASSUME Inductive, NEW c \in Challenges, Publish(c)
    PROVE  Inductive'
<1>1. TypeOK'
  BY DEF Publish, Inductive, TypeOK
<1>2. PublishedInv' /\ LookingInv' /\ WitnessInv' /\ SeenInv' /\ VerifiedInv'
  BY DEF Publish, Inductive, PublishedInv, LookingInv, WitnessInv, SeenInv,
         VerifiedInv
<1> QED
  BY <1>1, <1>2 DEF Inductive

(* A verification call moves on without touching the table. *)
LEMMA CallKeeps ==
    ASSUME Inductive, NEW k \in Calls, NEW new \in CallType,
           call' = [call EXCEPT ![k] = new],
           new.id \in Challenges,
           new.pc # "idle",
           new.pc \in {"checked", "looking", "seen"} =>
               row[new.id].state # "none",
           new.pc = "looking" => new.begun =< row[new.id].expires,
           new.pc = "seen" => witness[new.id] # Never,
           new.pc = "verified" => row[new.id].state = "verified",
           UNCHANGED <<now, row, published, witness>>
    PROVE  Inductive'
<1>1. /\ call' \in [Calls -> CallType]
      /\ call'[k] = new
      /\ \A j \in Calls : j # k => call'[j] = call[j]
  BY Types DEF Inductive
<1>2. TypeOK'
  BY <1>1 DEF Inductive, TypeOK, CallType
<1>3. PublishedInv' /\ LookingInv' /\ WitnessInv' /\ SeenInv' /\ VerifiedInv'
  BY <1>1 DEF Inductive, PublishedInv, LookingInv, WitnessInv, SeenInv,
              VerifiedInv
<1> QED
  BY <1>2, <1>3 DEF Inductive

LEMMA CallFacts ==
    ASSUME TypeOK, NEW k \in Calls
    PROVE  /\ call[k] \in CallType
           /\ call[k].begun \in Nat
           /\ call[k].pc # "idle" => call[k].id \in Challenges
BY Types DEF CallType

(* The steps of a verification. *)
LEMMA VerifyKeeps ==
    ASSUME Inductive, NEW k \in Calls, Verify(k)
    PROVE  Inductive'
<1> DEFINE With(pc) == [call[k] EXCEPT !.pc = pc]
<1>1. TypeOK /\ call[k] \in CallType /\ call[k].begun \in Nat
  BY CallFacts DEF Inductive
<1>2. ASSUME NEW pc \in {"checked", "looking", "seen", "verified", "refused"}
      PROVE  /\ With(pc) \in CallType
             /\ With(pc).pc = pc
             /\ With(pc).id = call[k].id /\ With(pc).begun = call[k].begun
  BY <1>1 DEF CallType
<1>3. ASSUME NEW c \in Challenges, Receive(k, c)
      PROVE  Inductive'
  <2>1. PICK pc \in {"verified", "checked", "refused"} :
          /\ call' = [call EXCEPT ![k].id = c, ![k].pc = pc]
          /\ pc = "verified" => row[c].state = "verified"
          /\ pc = "checked" => row[c].state = "open"
    BY <1>3 DEF Receive
  <2> DEFINE new == [With(pc) EXCEPT !.id = c]
  <2>2. /\ new \in CallType /\ new.pc = pc /\ new.id = c
        /\ call' = [call EXCEPT ![k] = new]
    BY <1>1, <2>1 DEF CallType
  <2>3. UNCHANGED <<now, row, published, witness>>
    BY <1>3 DEF Receive
  <2> HIDE DEF new
  <2> QED
    BY <2>1, <2>2, <2>3, CallKeeps
<1>4. CASE BeginLookup(k)
  <2>1. call[k].pc = "checked" /\ call[k].id \in Challenges
    BY <1>1, <1>4, CallFacts DEF BeginLookup
  <2>2. PICK pc \in {"refused", "looking"} :
          /\ call' = [call EXCEPT ![k].pc = pc, ![k].begun = now]
          /\ pc = "looking" => ~Expired(call[k].id)
    BY <1>4 DEF BeginLookup
  <2> DEFINE new == [With(pc) EXCEPT !.begun = now]
  <2>3. /\ new \in CallType /\ new.pc = pc /\ new.id = call[k].id
        /\ new.begun = now
        /\ call' = [call EXCEPT ![k] = new]
    BY <1>1, <2>2 DEF CallType, TypeOK
  <2>4. row[call[k].id].state # "none" /\ row[call[k].id].expires \in Nat
    BY <1>1, <2>1 DEF Inductive, LookingInv, TypeOK
  <2>5. pc = "looking" => now =< row[call[k].id].expires
    BY <1>1, <2>2, <2>4 DEF Expired, TypeOK
  <2>6. UNCHANGED <<now, row, published, witness>>
    BY <1>4 DEF BeginLookup
  <2> HIDE DEF new
  <2> QED
    BY <2>1, <2>2, <2>3, <2>4, <2>5, <2>6, CallKeeps
<1>5. CASE EndLookup(k)
  <2> DEFINE c == call[k].id
  <2>1. /\ call[k].pc = "looking" /\ c \in published /\ c \in Challenges
        /\ witness' = [witness EXCEPT ![c] = call[k].begun]
        /\ call' = [call EXCEPT ![k] = With("seen")]
        /\ UNCHANGED <<now, row, published>>
    BY <1>1, <1>5, CallFacts DEF EndLookup, Goto
  <2>2. /\ call' \in [Calls -> CallType]
        /\ call'[k] = With("seen")
        /\ \A j \in Calls : j # k => call'[j] = call[j]
    BY <1>1, <1>2, <2>1, Types
  <2>3. /\ witness' \in [Challenges -> Nat \cup {Never}]
        /\ witness'[c] = call[k].begun
        /\ \A d \in Challenges : d # c => witness'[d] = witness[d]
    BY <1>1, <2>1 DEF TypeOK
  <2>4. call[k].begun =< row[c].expires /\ call[k].begun # Never
    BY <1>1, <2>1 DEF Inductive, LookingInv, Never
  <2>5. \A j \in Calls : call'[j].id = call[j].id
    <3>1. With("seen").id = call[k].id
      BY <1>2
    <3> HIDE DEF With
    <3> QED
      BY <2>2, <3>1
  <2>6. TypeOK'
    <3>1. \A j \in Calls : call'[j].pc # "idle" => call'[j].id \in Challenges
      <4>1. call[k].pc # "idle"
        BY <2>1
      <4> QED
        BY <1>1, <2>2, <2>5, <4>1 DEF TypeOK
    <3> QED
      BY <1>1, <2>1, <2>2, <2>3, <3>1 DEF TypeOK, CallType
  <2>7. PublishedInv' /\ LookingInv' /\ WitnessInv'
    BY <1>2, <2>1, <2>2, <2>3, <2>4
    DEF Inductive, PublishedInv, LookingInv, WitnessInv
  <2>8. SeenInv' /\ VerifiedInv'
    <3>1. \A d \in Challenges : witness[d] # Never => witness'[d] # Never
      BY <2>3, <2>4
    <3>2. \A j \in Calls : call'[j].pc # "idle" => call'[j].id \in Challenges
      BY <2>6 DEF TypeOK
    <3> QED
      BY <1>2, <2>1, <2>2, <2>3, <2>4, <3>1, <3>2
      DEF Inductive, SeenInv, VerifiedInv
  <2> QED
    BY <2>6, <2>7, <2>8 DEF Inductive
<1>6. CASE MarkVerified(k)
  <2> DEFINE c == call[k].id
  <2>1. /\ call[k].pc = "seen" /\ c \in Challenges
        /\ UNCHANGED <<now, published, witness>>
    BY <1>1, <1>6, CallFacts DEF MarkVerified
  <2>2. CASE row[c].state \notin Stored
    <3>1. UNCHANGED row /\ call' = [call EXCEPT ![k] = With("refused")]
      BY <1>6, <2>2 DEF MarkVerified, Goto
    <3> QED
      BY <1>2, <2>1, <3>1, CallKeeps
  <2>3. CASE row[c].state \in Stored
    <3>1. PICK pc \in {"verified", "refused"} :
            call' = [call EXCEPT ![k] = With(pc)]
      BY <1>6, <2>3 DEF MarkVerified, Goto
    <3>2. row' = [row EXCEPT ![c].state = "verified"]
      BY <1>6, <2>3 DEF MarkVerified
    <3>3. /\ row' \in [Challenges -> RowType]
          /\ row'[c].state = "verified"
          /\ \A d \in Challenges : /\ d # c => row'[d] = row[d]
                                   /\ row'[d].expires = row[d].expires
      BY <1>1, <2>1, <3>2, Types DEF RowType, Stored
    <3>4. /\ call' \in [Calls -> CallType]
          /\ call'[k] = With(pc)
          /\ \A j \in Calls : j # k => call'[j] = call[j]
      BY <1>1, <1>2, <3>1, Types
    <3>5. TypeOK'
      <4>1. \A j \in Calls : call'[j].pc # "idle" => call'[j].id \in Challenges
        BY <1>1, <1>2, <2>1, <3>4 DEF TypeOK
      <4> QED
        BY <1>1, <2>1, <3>3, <3>4, <4>1 DEF TypeOK, CallType, RowType
    <3>6. /\ \A d \in Challenges : /\ row[d].state # "none" => row'[d].state # "none"
                                   /\ row'[d].state = "verified" =>
                                         d = c \/ row[d].state = "verified"
                                   /\ row[d].state = "verified" =>
                                         row'[d].state = "verified"
          /\ \A j \in Calls : call'[j].pc # "idle" => call'[j].id \in Challenges
      BY <3>3, <3>5 DEF TypeOK
    <3>7. PublishedInv' /\ WitnessInv'
      <4>1. published \subseteq Challenges
        BY <1>1 DEF TypeOK
      <4> QED
        BY <2>1, <3>3, <3>6, <4>1 DEF Inductive, PublishedInv, WitnessInv
    <3>8. /\ \A j \in Calls : call'[j].id = call[j].id /\ call'[j].begun = call[j].begun
          /\ call'[k].pc = pc
      BY <1>2, <3>4
    <3>9. SeenInv'
      BY <2>1, <3>4, <3>8 DEF Inductive, SeenInv
    <3>10. LookingInv'
      <4>1. ASSUME NEW j \in Calls, j # k
            PROVE  /\ call'[j].pc \in {"checked", "looking", "seen"} =>
                        row'[call'[j].id].state # "none"
                   /\ call'[j].pc = "looking" =>
                        call'[j].begun =< row'[call'[j].id].expires
        BY <3>3, <3>4, <3>6, <4>1 DEF Inductive, LookingInv
      <4> QED
        BY <3>8, <4>1 DEF LookingInv
    <3>11. VerifiedInv'
      <4>1. witness[c] # Never
        BY <2>1 DEF Inductive, SeenInv
      <4>2. \A d \in Challenges : row'[d].state = "verified" => witness'[d] # Never
        BY <2>1, <3>6, <4>1 DEF Inductive, VerifiedInv
      <4>3. ASSUME NEW j \in Calls, call'[j].pc = "verified"
            PROVE  row'[call'[j].id].state = "verified"
        BY <3>3, <3>4, <3>6, <3>8, <4>3 DEF Inductive, VerifiedInv
      <4> QED
        BY <4>2, <4>3 DEF VerifiedInv
    <3> QED
      BY <3>5, <3>7, <3>9, <3>10, <3>11 DEF Inductive
  <2> QED
    BY <2>2, <2>3
<1>7. CASE Fail(k)
  <2>1. /\ call' = [call EXCEPT ![k] = With("refused")]
        /\ call[k].id \in Challenges
        /\ UNCHANGED <<now, row, published, witness>>
    BY <1>1, <1>7, CallFacts DEF Fail, Goto
  <2> QED
    BY <1>2, <2>1, CallKeeps
<1> QED
  BY <1>3, <1>4, <1>5, <1>6, <1>7 DEF Verify

(* The sweep removes open rows only. *)
LEMMA SweepKeeps ==
    ASSUME Inductive, DeleteExpired
    PROVE  Inductive'
<1>1. TypeOK /\ UNCHANGED <<now, published, call, witness>>
  BY DEF DeleteExpired, Inductive
<1>2. /\ row' \in [Challenges -> RowType]
      /\ \A c \in Challenges :
            /\ row'[c].expires = row[c].expires
            /\ row[c].state # "open" => row'[c] = row[c]
            /\ row[c].state # "none" => row'[c].state # "none"
            /\ row'[c].state = "verified" => row[c].state = "verified"
  <2>1. row' = [c \in Challenges |-> IF Stale(c)
                                     THEN [row[c] EXCEPT !.state = "gone"]
                                     ELSE row[c]]
    BY DEF DeleteExpired
  <2>2. \A c \in Challenges : Stale(c) => row[c].state = "open"
    BY DEF Stale
  <2>3. \A c \in Challenges : /\ row[c] \in RowType
                              /\ [row[c] EXCEPT !.state = "gone"] \in RowType
    BY <1>1, Types DEF RowType
  <2> QED
    BY <2>1, <2>2, <2>3 DEF RowType
<1>3. TypeOK'
  BY <1>1, <1>2 DEF TypeOK, RowType
<1>4. PublishedInv' /\ LookingInv' /\ WitnessInv' /\ SeenInv' /\ VerifiedInv'
  BY <1>1, <1>2
  DEF Inductive, PublishedInv, LookingInv, WitnessInv, SeenInv, VerifiedInv,
      TypeOK
<1> QED
  BY <1>3, <1>4 DEF Inductive

LEMMA NextInductive ==
    ASSUME Inductive, [Next]_vars
    PROVE  Inductive'
<1>1. ASSUME NEW c \in Challenges, StartChallenge(c) \/ Publish(c)
      PROVE  Inductive'
  BY <1>1, StartKeeps, PublishKeeps
<1>2. ASSUME NEW k \in Calls, Verify(k)
      PROVE  Inductive'
  BY <1>2, VerifyKeeps
<1>3. CASE DeleteExpired
  BY <1>3, SweepKeeps
<1>4. CASE Tick \/ UNCHANGED vars
  <2>1. UNCHANGED <<row, published, call, witness>> /\ now' \in Nat
    BY <1>4 DEF Tick, vars, Inductive, TypeOK
  <2> QED
    BY <2>1 DEF Inductive, TypeOK, PublishedInv, LookingInv, WitnessInv,
                SeenInv, VerifiedInv
<1> QED
  BY <1>1, <1>2, <1>3, <1>4 DEF Next

(* The inductive invariant holds of every reachable state. *)
THEOREM InductiveHolds == Spec => []Inductive
<1>1. Init => Inductive
  BY InitInductive
<1>2. Inductive /\ [Next]_vars => Inductive'
  BY NextInductive
<1> QED
  BY <1>1, <1>2, PTL DEF Spec

(* A challenge is verified only by a lookup that saw its record and was      *)
(* begun in time.                                                          *)
THEOREM InTimeTheorem == Spec => []VerifiedInTime
<1>1. Inductive => VerifiedInTime
  BY DEF Inductive, VerifiedInv, WitnessInv, VerifiedInTime
<1> QED
  BY <1>1, InductiveHolds, PTL

(* What a caller was told of its domain goes on holding. *)
THEOREM AnswerTheorem == Spec => []AnswerHolds
<1>1. Inductive => AnswerHolds
  BY DEF Inductive, TypeOK, VerifiedInv, AnswerHolds, IsDomainVerified,
         FindVerifiedByDomain
<1> QED
  BY <1>1, InductiveHolds, PTL

-----------------------------------------------------------------------------
(* The refinement. *)

LEMMA NextRefines ==
    ASSUME Inductive, [Next]_vars
    PROVE  [Proof!Next]_(Proof!vars)
<1> DEFINE Shown == {DomainOf[c] : c \in published}
           Proven == {d \in Domains : IsDomainVerified(d)}
<1>1. ASSUME UNCHANGED published,
             \A c \in Challenges :
                 row'[c].state = "verified" <=> row[c].state = "verified"
      PROVE  UNCHANGED Proof!vars
  BY <1>1 DEF Proof!vars, IsDomainVerified, FindVerifiedByDomain
<1>2. ASSUME NEW c \in Challenges, StartChallenge(c)
      PROVE  UNCHANGED Proof!vars
  BY <1>1, <1>2 DEF StartChallenge, Inductive, TypeOK
<1>3. ASSUME NEW c \in Challenges, Publish(c)
      PROVE  Proof!Next
  <2>1. Shown' = Shown \cup {DomainOf[c]} /\ Proven' = Proven
    BY <1>3 DEF Publish, IsDomainVerified, FindVerifiedByDomain
  <2>2. DomainOf[c] \in Domains
    BY DomainAssumption
  <2> QED
    BY <2>1, <2>2 DEF Proof!Next, Proof!Show
<1>4. ASSUME NEW k \in Calls, MarkVerified(k),
             row[call[k].id].state \in Stored
      PROVE  Proof!Next
  <2> DEFINE c == call[k].id
  <2>1. c \in Challenges /\ published' = published
    BY <1>4, CallFacts DEF MarkVerified, Inductive
  <2>2. row' = [row EXCEPT ![c].state = "verified"]
    BY <1>4 DEF MarkVerified
  <2>3. \A d \in Challenges : row'[d].state = "verified" <=>
                                  d = c \/ row[d].state = "verified"
    BY <2>1, <2>2 DEF Inductive, TypeOK
  <2>4. Proven' = Proven \cup {DomainOf[c]}
    BY <2>1, <2>3, DomainAssumption DEF IsDomainVerified, FindVerifiedByDomain
  <2>5. c \in published
    BY <1>4, <2>1 DEF MarkVerified, Inductive, SeenInv, WitnessInv
  <2>6. DomainOf[c] \in Domains
    BY <2>1, DomainAssumption
  <2> QED
    BY <2>1, <2>4, <2>5, <2>6 DEF Proof!Next, Proof!Prove
<1>5. ASSUME NEW k \in Calls, Verify(k),
             ~(MarkVerified(k) /\ row[call[k].id].state \in Stored)
      PROVE  UNCHANGED <<row, published>>
  BY <1>5 DEF Verify, Receive, BeginLookup, EndLookup, MarkVerified, Fail
<1>6. CASE DeleteExpired
  BY <1>1, <1>6 DEF DeleteExpired, Stale, Inductive, TypeOK
<1>7. CASE Tick \/ UNCHANGED vars
  BY <1>1, <1>7 DEF Tick, vars
<1> QED
  BY <1>1, <1>2, <1>3, <1>4, <1>5, <1>6, <1>7 DEF Next

(* For activation, challenges are the growing set of proven domains that    *)
(* DomainProof describes, whatever expires, is swept or races.             *)
THEOREM DomainTheorem == Spec => ImplementsDomainProof
<1>1. Init => Proof!Init
  BY DEF Init, Proof!Init, IsDomainVerified, FindVerifiedByDomain
<1>2. Inductive /\ [Next]_vars => [Proof!Next]_(Proof!vars)
  BY NextRefines
<1> QED
  BY <1>1, <1>2, InductiveHolds, PTL
  DEF Spec, ImplementsDomainProof, Proof!Spec
=============================================================================
