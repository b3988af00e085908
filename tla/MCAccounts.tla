----------------------------- MODULE MCAccounts -----------------------------
(* A small instance of Accounts for TLC.                                   *)
EXTENDS Accounts

CONSTANTS ann, bob,     \* clients
          amy, ben,     \* usernames
          ax, bx,       \* addresses
          acme,         \* an organization with an identity provider
          sub           \* a subject of that provider

(* One username and address are registered; the subject has the username   *)
(* or the address in some of the provider's answers, in one of them        *)
(* neither and no address at all.                                          *)
MCForms    == {<<amy, ax>>}
MCProfiles == [i \in Identities |-> {<<amy, bx>>, <<ben, ax>>, <<ben, NoEmail>>}]
=============================================================================
