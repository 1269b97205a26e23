----------------------------- MODULE MCAccounts -----------------------------
(* Accounts for TLC: all usernames start from one slug, and two identities  *)
(* have the same id at different providers, of which only GitHub may report *)
(* no address.                                                             *)
EXTENDS Accounts, TLC

CONSTANTS slug, github, google

MCBaseOf == [e \in Mails |-> slug]

MCIdentities == [provider : {github, google}, id : {1}]

MCMailsOf == [i \in Identities |-> IF i.provider = github THEN Mails
                                   ELSE Addresses]

AccountSymmetry == Permutations(Requests) \cup Permutations(Tokens)
                      \cup Permutations(Passwords)
=============================================================================
