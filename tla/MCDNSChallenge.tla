--------------------------- MODULE MCDNSChallenge ---------------------------
(* DNSChallenge for TLC: the challenges are all for one domain.             *)
EXTENDS DNSChallenge

CONSTANT domain

MCDomainOf == [c \in Challenges |-> domain]
=============================================================================
