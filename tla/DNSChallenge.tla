---------------------------- MODULE DNSChallenge ----------------------------
(***************************************************************************)
(* DNS-01 domain verification: challenges are started, their owners        *)
(* publish TXT records, concurrent calls verify them with a slow DNS       *)
(* lookup between the read of a row and its update, and a background       *)
(* sweep deletes what expired unverified.  Expiry is set and checked with  *)
(* the clock of the registry, the sweep uses the clock of the database.    *)
(***************************************************************************)
EXTENDS Integers

CONSTANTS
    Challenges,  \* challenge identities
    Domains,
    DomainOf,    \* the domain each challenge is for
    Calls,       \* calls of VerifyChallenge
    Lifetime,    \* how long a challenge may be verified: 15 minutes
    Skew,        \* the database clock minus the registry clock
    MaxTime,     \* bound on the registry clock
    NoChallenge

ASSUME DomainAssumption == DomainOf \in [Challenges -> Domains]
ASSUME TimeAssumption == Lifetime \in Nat /\ Skew \in Int /\ MaxTime \in Nat
ASSUME NoChallengeAssumption == NoChallenge \notin Challenges

VARIABLES
    now,         \* the registry clock
    row,         \* the dns_challenges table
    published,   \* challenges whose TXT record was put in DNS
    call,        \* the verification calls
    witness      \* ghost: for each challenge, the begin of the last lookup
                 \* that saw its record

vars == <<now, row, published, call, witness>>

-----------------------------------------------------------------------------
(* The table.  A row that was swept keeps its expiry here: a call that read *)
(* the row before has a copy of it.                                        *)

Stored == {"open", "verified"}

Expired(c) == now > row[c].expires

\* The query has no other condition than the domain and the verified flag.
FindVerifiedByDomain(d) ==
    {c \in Challenges : DomainOf[c] = d /\ row[c].state = "verified"}

IsDomainVerified(d) == FindVerifiedByDomain(d) # {}

Never == -1

Init ==
    /\ now = 0
    /\ row = [c \in Challenges |-> [state |-> "none", expires |-> 0]]
    /\ published = {}
    /\ call = [k \in Calls |-> [pc |-> "idle", id |-> NoChallenge,
                                begun |-> 0]]
    /\ witness = [c \in Challenges |-> Never]

-----------------------------------------------------------------------------
StartChallenge(c) ==
    /\ row[c].state = "none"
    /\ row' = [row EXCEPT ![c] = [state   |-> "open",
                                  expires |-> now + Lifetime]]
    /\ UNCHANGED <<now, published, call, witness>>

\* The owner of the domain puts the TXT record of an issued challenge in
\* DNS.  A resolver may go on seeing a record that was taken back, so that is
\* no step of its own.
Publish(c) ==
    /\ row[c].state # "none"
    /\ c \notin published
    /\ published' = published \cup {c}
    /\ UNCHANGED <<now, row, call, witness>>

-----------------------------------------------------------------------------
(* VerifyChallenge *)

Goto(k, pc) == call' = [call EXCEPT ![k].pc = pc]

\* The row is read: a missing or expired one is refused, a verified one is
\* answered at once.
Receive(k, c) ==
    /\ call[k].pc = "idle"
    /\ call' = [call EXCEPT ![k].id = c,
                            ![k].pc = CASE row[c].state = "verified" -> "verified"
                                        [] row[c].state = "open" /\ ~Expired(c)
                                             -> "checked"
                                        [] OTHER -> "refused"]
    /\ UNCHANGED <<now, row, published, witness>>

\* Slip: Challenge.Verify leaves the expiry check to its caller.
BeginLookupUnchecked(k) ==
    /\ call[k].pc = "checked"
    /\ call' = [call EXCEPT ![k].pc = "looking", ![k].begun = now]
    /\ UNCHANGED <<now, row, published, witness>>

\* Challenge.Verify checks the expiry again before it asks the resolver.
BeginLookup(k) ==
    /\ call[k].pc = "checked"
    /\ call' = [call EXCEPT ![k].pc = IF Expired(call[k].id) THEN "refused"
                                      ELSE "looking",
                            ![k].begun = now]
    /\ UNCHANGED <<now, row, published, witness>>

\* Slip: any TXT record at the host will do.
EndLookupAnyRecord(k) ==
    /\ call[k].pc = "looking"
    /\ witness' = [witness EXCEPT ![call[k].id] = call[k].begun]
    /\ Goto(k, "seen")
    /\ UNCHANGED <<now, row, published>>

\* The resolver answers.
EndLookup(k) ==
    /\ call[k].pc = "looking"
    /\ call[k].id \in published
    /\ witness' = [witness EXCEPT ![call[k].id] = call[k].begun]
    /\ Goto(k, "seen")
    /\ UNCHANGED <<now, row, published>>

\* Slip: the number of updated rows is not looked at.
MarkVerifiedUnchecked(k) ==
    LET c == call[k].id IN
    /\ call[k].pc = "seen"
    /\ row' = IF row[c].state \in Stored
              THEN [row EXCEPT ![c].state = "verified"] ELSE row
    /\ Goto(k, "verified")
    /\ UNCHANGED <<now, published, witness>>

\* The update may commit while its caller sees an error; when the row is gone
\* the caller always does.
MarkVerified(k) ==
    LET c == call[k].id IN
    /\ call[k].pc = "seen"
    /\ IF row[c].state \in Stored
       THEN /\ row' = [row EXCEPT ![c].state = "verified"]
            /\ \E pc \in {"verified", "refused"} : Goto(k, pc)
       ELSE /\ Goto(k, "refused")
            /\ UNCHANGED row
    /\ UNCHANGED <<now, published, witness>>

\* The record is not found, or a query, the lookup or the process fails.
Fail(k) ==
    /\ call[k].pc \in {"checked", "looking", "seen"}
    /\ Goto(k, "refused")
    /\ UNCHANGED <<now, row, published, witness>>

-----------------------------------------------------------------------------
(* The sweep and the clock *)

Stale(c) == row[c].state = "open" /\ now + Skew > row[c].expires

\* Slip: the sweep deletes whatever is past its expiry.
DeleteExpiredVerified ==
    LET gone == {c \in Challenges : /\ row[c].state \in Stored
                                    /\ now + Skew > row[c].expires} IN
    /\ gone # {}
    /\ row' = [c \in Challenges |-> IF c \in gone
                                    THEN [row[c] EXCEPT !.state = "gone"]
                                    ELSE row[c]]
    /\ UNCHANGED <<now, published, call, witness>>

\* One DELETE removes every open row that expired by the database's clock.
DeleteExpired ==
    /\ \E c \in Challenges : Stale(c)
    /\ row' = [c \in Challenges |-> IF Stale(c)
                                    THEN [row[c] EXCEPT !.state = "gone"]
                                    ELSE row[c]]
    /\ UNCHANGED <<now, published, call, witness>>

Tick ==
    /\ now < MaxTime
    /\ now' = now + 1
    /\ UNCHANGED <<row, published, call, witness>>

-----------------------------------------------------------------------------
Verify(k) ==
    \/ \E c \in Challenges : Receive(k, c)
    \/ BeginLookup(k) \/ EndLookup(k) \/ MarkVerified(k) \/ Fail(k)

Next ==
    \/ \E c \in Challenges : StartChallenge(c) \/ Publish(c)
    \/ \E k \in Calls : Verify(k)
    \/ DeleteExpired
    \/ Tick

\* Nothing is fair: the sweep's loop may take the signal that was meant for
\* the server (RegistryProcess), and then expired rows stay.
Spec == Init /\ [][Next]_vars

-----------------------------------------------------------------------------
(* Properties *)

\* Every variable has its type.
TypeOK ==
    /\ now \in Nat
    /\ row \in [Challenges -> [state   : Stored \cup {"none", "gone"},
                               expires : Nat]]
    /\ published \in SUBSET Challenges
    /\ call \in [Calls -> [pc    : {"idle", "checked", "looking", "seen",
                                    "verified", "refused"},
                           id    : Challenges \cup {NoChallenge},
                           begun : Nat]]
    /\ \A k \in Calls : call[k].pc # "idle" => call[k].id \in Challenges
    /\ witness \in [Challenges -> Nat \cup {Never}]

\* A challenge is verified only by a lookup that saw its record and was begun
\* before the challenge expired, however long the lookup and the update took
\* and whatever the sweep did meanwhile.
VerifiedInTime ==
    \A c \in Challenges : row[c].state = "verified" =>
        /\ c \in published
        /\ witness[c] # Never
        /\ witness[c] =< row[c].expires

\* A caller told "you may now activate agents" can: the gate of activation
\* says yes to the domain from then on, even if the sweep ran between the
\* lookup and the update.
AnswerHolds ==
    \A k \in Calls : call[k].pc = "verified" =>
        IsDomainVerified(DomainOf[call[k].id])

\* For activation it is DomainProof: a domain that was proven stays proven,
\* and one is proven only after its owner published a record.
Proof == INSTANCE DomainProof
            WITH shown  <- {DomainOf[c] : c \in published},
                 proven <- {d \in Domains : IsDomainVerified(d)}
ImplementsDomainProof == Proof!Spec

-----------------------------------------------------------------------------
(* The inductive invariant: what each stage of a verification knows.        *)

\* A record is published for an issued challenge only.
PublishedInv == \A c \in published : row[c].state # "none"

\* A call at work has read a row, and looks only if that is in time.
LookingInv ==
    \A k \in Calls :
        /\ call[k].pc \in {"checked", "looking", "seen"} =>
              row[call[k].id].state # "none"
        /\ call[k].pc = "looking" => call[k].begun =< row[call[k].id].expires

\* A lookup that saw the record was begun in time.
WitnessInv ==
    \A c \in Challenges : witness[c] # Never =>
        c \in published /\ witness[c] =< row[c].expires

SeenInv ==
    \A k \in Calls : call[k].pc = "seen" => witness[call[k].id] # Never

VerifiedInv ==
    /\ \A c \in Challenges : row[c].state = "verified" => witness[c] # Never
    /\ \A k \in Calls : call[k].pc = "verified" =>
          row[call[k].id].state = "verified"

Inductive ==
    /\ TypeOK
    /\ PublishedInv
    /\ LookingInv
    /\ WitnessInv
    /\ SeenInv
    /\ VerifiedInv
=============================================================================
