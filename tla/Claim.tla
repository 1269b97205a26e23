-------------------------------- MODULE Claim --------------------------------
(***************************************************************************)
(* The commands of the CLI that take several calls to the registry: nap    *)
(* claim proves a domain, registers and activates the agents of its card   *)
(* and saves what activation hands out once only; nap revoke authenticates *)
(* with what it finds saved for the domain.  The registry is modelled by   *)
(* what its answers promise.  An agent is named by the claim that          *)
(* registered it and its place in the card; a bundle by its agent.         *)
(***************************************************************************)
EXTENDS Naturals

CONSTANTS
    Claims,      \* runs of nap claim for one domain
    Revokes,     \* runs of nap revoke
    Card         \* how many agents the card lists, or the flags name

ASSUME ClaimAssumption == Card \in Nat \ {0}

VARIABLES
    claim,       \* the runs of nap claim: step, agent of the card, and whether
                 \* the deadline for the verification has passed
    challenge,   \* the registry's challenge of each run
    published,   \* the runs whose TXT record is in the DNS
    agent,       \* the registry's agents of the domain
    dir,         \* ~/.nap/certs/<domain>: cert.pem and key.pem
    revoke,      \* the runs of nap revoke: step, target, and what they loaded
    revokedBy    \* ghost: the bundle that authorised each revocation

claimVars == <<claim, challenge, published, agent, dir, revoke, revokedBy>>

-----------------------------------------------------------------------------
Places == 1 .. Card
Ids == Claims \X Places
NoId == <<"none", 0>>
Bundles == Ids \cup {NoId}

NewClaim == [pc |-> "start", place |-> 1, late |-> FALSE]
NewRevoke == [pc |-> "idle", target |-> NoId, cert |-> NoId, key |-> NoId]

ClaimInit ==
    /\ claim = [r \in Claims |-> NewClaim]
    /\ challenge = [r \in Claims |-> "none"]
    /\ published = {}
    /\ agent = [a \in Ids |-> "none"]
    /\ dir = [cert |-> NoId, key |-> NoId]
    /\ revoke = [v \in Revokes |-> NewRevoke]
    /\ revokedBy = [a \in Ids |-> NoId]

ClaimAt(r, pc) == claim[r].pc = pc
ClaimStep(r, pc) == claim' = [claim EXCEPT ![r].pc = pc]
Current(r) == <<r, claim[r].place>>

\* A call that fails, or whose answer is lost, ends the command.
StartDNSChallenge(r) ==
    /\ ClaimAt(r, "start")
    /\ \E pc \in {"publish", "failed"} : ClaimStep(r, pc)
    /\ challenge' = [challenge EXCEPT ![r] = "pending"]
    /\ UNCHANGED <<published, agent, dir, revoke, revokedBy>>

\* The user publishes the record, in time or later.
PublishRecord(r) ==
    /\ challenge[r] # "none"
    /\ r \notin published
    /\ published' = published \cup {r}
    /\ UNCHANGED <<claim, challenge, agent, dir, revoke, revokedBy>>

PressEnter(r) ==
    /\ ClaimAt(r, "publish")
    /\ ClaimStep(r, "poll")
    /\ UNCHANGED <<challenge, published, agent, dir, revoke, revokedBy>>

\* The challenge lives for fifteen minutes.
Expire(r) ==
    /\ challenge[r] = "pending"
    /\ challenge' = [challenge EXCEPT ![r] = "expired"]
    /\ UNCHANGED <<claim, published, agent, dir, revoke, revokedBy>>

TimeUp(r) ==
    /\ ClaimAt(r, "poll")
    /\ ~claim[r].late
    /\ claim' = [claim EXCEPT ![r].late = TRUE]
    /\ UNCHANGED <<challenge, published, agent, dir, revoke, revokedBy>>

\* The registry looks up the record of a challenge that has not expired.
VerifyDNSChallenge(r) ==
    challenge' = [challenge EXCEPT ![r] =
        IF @ = "pending" /\ r \in published THEN "verified" ELSE @]

AfterAnswer(r) ==
    CASE challenge'[r] = "verified" -> "register"
      [] challenge'[r] = "pending" -> "poll"
      [] challenge'[r] = "expired" -> "failed"

\* Until the deadline the command asks again while the record is not visible.
\* Any other error ends it, also when the registry has verified the domain.
Poll(r) ==
    /\ ClaimAt(r, "poll")
    /\ ~claim[r].late
    /\ \/ /\ VerifyDNSChallenge(r)
          /\ ClaimStep(r, AfterAnswer(r)) \/ ClaimStep(r, "failed")
       \/ /\ UNCHANGED challenge
          /\ ClaimStep(r, "failed")
    /\ UNCHANGED <<published, agent, dir, revoke, revokedBy>>

GiveUp(r) ==
    /\ ClaimAt(r, "poll")
    /\ claim[r].late
    /\ ClaimStep(r, "failed")
    /\ UNCHANGED <<challenge, published, agent, dir, revoke, revokedBy>>

-----------------------------------------------------------------------------
NextAgent(r) ==
    LET m == claim[r] IN
    claim' = [claim EXCEPT ![r] =
        IF m.place = Card THEN [m EXCEPT !.pc = "done"]
        ELSE [m EXCEPT !.pc = "register", !.place = m.place + 1]]

\* Slip: an agent that fails is passed over.
PassOver(r) == NextAgent(r)

\* The first error ends the command.
Stop(r) == ClaimStep(r, "failed")

\* The registry may have done what was asked although its answer is lost.
RegisterAgent(r) ==
    /\ ClaimAt(r, "register")
    /\ \/ /\ agent' = [agent EXCEPT ![Current(r)] = "pending"]
          /\ ClaimStep(r, "activate") \/ Stop(r)
       \/ /\ UNCHANGED agent
          /\ Stop(r)
    /\ UNCHANGED <<challenge, published, dir, revoke, revokedBy>>

\* Any verified challenge of the domain opens the gate.  The private key is in
\* the answer and nowhere else.
DomainVerified == \E r \in Claims : challenge[r] = "verified"

ActivateAgent(r) ==
    /\ ClaimAt(r, "activate")
    /\ \/ /\ DomainVerified
          /\ agent' = [agent EXCEPT ![Current(r)] = "active"]
          /\ ClaimStep(r, "save_cert") \/ Stop(r)
       \/ /\ UNCHANGED agent
          /\ Stop(r)
    /\ UNCHANGED <<challenge, published, dir, revoke, revokedBy>>

\* Every agent of the domain is saved to the same files, over what is there.
SaveCert(r) ==
    /\ ClaimAt(r, "save_cert")
    /\ \/ /\ dir' = [dir EXCEPT !.cert = Current(r)]
          /\ ClaimStep(r, "save_key")
       \/ /\ UNCHANGED dir
          /\ Stop(r)
    /\ UNCHANGED <<challenge, published, agent, revoke, revokedBy>>

SaveKey(r) ==
    /\ ClaimAt(r, "save_key")
    /\ \/ /\ dir' = [dir EXCEPT !.key = Current(r)]
          /\ ClaimStep(r, "save_ca")
       \/ /\ UNCHANGED dir
          /\ Stop(r)
    /\ UNCHANGED <<challenge, published, agent, revoke, revokedBy>>

\* The CA's certificate is the same in all bundles; its file is left out.
SaveCA(r) ==
    /\ ClaimAt(r, "save_ca")
    /\ NextAgent(r) \/ Stop(r)
    /\ UNCHANGED <<challenge, published, agent, dir, revoke, revokedBy>>

\* The user interrupts the command, or it crashes.
Interrupt(r) ==
    /\ claim[r].pc \notin {"start", "done", "failed"}
    /\ Stop(r)
    /\ UNCHANGED <<challenge, published, agent, dir, revoke, revokedBy>>

-----------------------------------------------------------------------------
RevokeAt(v, pc) == revoke[v].pc = pc
SetRevoke(v, new) == revoke' = [revoke EXCEPT ![v] = new]

GetAgent(a) == agent[a] # "none"

\* The agent is looked up and shown.
ResolveAgentArg(v, a) ==
    /\ RevokeAt(v, "idle")
    /\ GetAgent(a)
    /\ SetRevoke(v, [NewRevoke EXCEPT !.pc = "confirm", !.target = a])
    /\ UNCHANGED <<claim, challenge, published, agent, dir, revokedBy>>

\* The user confirms, or the command ends.
Confirm(v) ==
    /\ RevokeAt(v, "confirm")
    /\ \E pc \in {"read_cert", "done"} : SetRevoke(v, [revoke[v] EXCEPT !.pc = pc])
    /\ UNCHANGED <<claim, challenge, published, agent, dir, revokedBy>>

\* The files of the directory are read one after the other.
LoadCert(v) ==
    /\ RevokeAt(v, "read_cert")
    /\ SetRevoke(v, [revoke[v] EXCEPT !.cert = dir.cert,
                         !.pc = IF dir.cert = NoId THEN "failed" ELSE "read_key"])
    /\ UNCHANGED <<claim, challenge, published, agent, dir, revokedBy>>

LoadKey(v) ==
    /\ RevokeAt(v, "read_key")
    /\ SetRevoke(v, [revoke[v] EXCEPT !.key = dir.key,
                         !.pc = IF dir.key = NoId THEN "failed" ELSE "pair"])
    /\ UNCHANGED <<claim, challenge, published, agent, dir, revokedBy>>

\* Slip: that the files belong together is left to the registry.
AnyPair(v) == TRUE

\* tls.X509KeyPair refuses a key that is not that of the certificate.
PairMatches(v) == revoke[v].cert = revoke[v].key

\* A client that can be made fetches a token for the agent of the certificate.
FetchOwnToken(v) ==
    /\ RevokeAt(v, "pair")
    /\ \E pc \in {"call", "failed"} :
          /\ pc = "call" => PairMatches(v)
          /\ SetRevoke(v, [revoke[v] EXCEPT !.pc = pc])
    /\ UNCHANGED <<claim, challenge, published, agent, dir, revokedBy>>

\* The registry revokes the agent the token is for, and no other.
OwnToken(v) == revoke[v].cert = revoke[v].target

RevokeAgent(v) ==
    LET m == revoke[v] IN
    /\ RevokeAt(v, "call")
    /\ IF OwnToken(v)
       THEN /\ agent' = [agent EXCEPT ![m.target] = "revoked"]
            /\ revokedBy' = [revokedBy EXCEPT ![m.target] = m.key]
            /\ \E pc \in {"done", "failed"} : SetRevoke(v, [m EXCEPT !.pc = pc])
       ELSE /\ SetRevoke(v, [m EXCEPT !.pc = "failed"])
            /\ UNCHANGED <<agent, revokedBy>>
    /\ UNCHANGED <<claim, challenge, published, dir>>

-----------------------------------------------------------------------------
Claimed(r) ==
    \/ Poll(r) \/ GiveUp(r)
    \/ RegisterAgent(r) \/ ActivateAgent(r) \/ SaveCert(r) \/ SaveKey(r) \/ SaveCA(r)

Revoked(v) ==
    Confirm(v) \/ LoadCert(v) \/ LoadKey(v) \/ FetchOwnToken(v) \/ RevokeAgent(v)

ClaimNext ==
    \/ \E r \in Claims :
          \/ StartDNSChallenge(r) \/ PublishRecord(r) \/ PressEnter(r) \/ Expire(r)
          \/ TimeUp(r) \/ Claimed(r) \/ Interrupt(r)
    \/ \E v \in Revokes : (\E a \in Ids : ResolveAgentArg(v, a)) \/ Revoked(v)

ClaimSpec == ClaimInit /\ [][ClaimNext]_claimVars

-----------------------------------------------------------------------------
(* Properties *)

\* A file has what the run saved for its agent i, or what was saved over it: by
\* the same run for a later agent, or by another.
SavedSince(b, r, i) ==
    \E q \in Claims, j \in Places : b = <<q, j>> /\ (q = r => j >= i)

InHand(r, i) == claim[r].place = i /\ claim[r].pc \in {"save_cert", "save_key"}
FailedAt(r, i) == claim[r].place = i /\ ClaimAt(r, "failed")

\* The private key of an agent is handed out only once, and every agent of the
\* domain is saved over the one before.  However claims fail and overlap, each
\* key is accounted for: the claim has it in hand, or failed at just that agent,
\* or it was written and can have been lost to a later agent's only.  A claim
\* that is done leaves its last agent's bundle, or that of another claim; one
\* that fails leaves no agent pending but the one it was at.
KeysAccountedFor ==
    \A r \in Claims :
        /\ \A i \in Places :
             /\ agent[<<r, i>>] = "pending" => claim[r].place = i
             /\ agent[<<r, i>>] \in {"active", "revoked"} =>
                  InHand(r, i) \/ FailedAt(r, i) \/ SavedSince(dir.key, r, i)
        /\ ClaimAt(r, "done") =>
             SavedSince(dir.cert, r, Card) /\ SavedSince(dir.key, r, Card)

\* An agent is revoked with its own certificate and key, of an agent that had
\* been active, although claims that overlap or were interrupted may leave the
\* files of two bundles in the directory, or write them while they are read.
RevokedWithItsOwn ==
    /\ \A a \in Ids : agent[a] = "revoked" => revokedBy[a] = a
    /\ \A v \in Revokes : revoke[v].cert # NoId =>
           agent[revoke[v].cert] \in {"active", "revoked"}
=============================================================================
