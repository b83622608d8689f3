----------------------------- MODULE MCConsole -----------------------------
(* Module Console on small instances, checked with TLC. *)
EXTENDS Console, TLC

CONSTANTS c1, c2

MCClients  == {c1, c2}
Symmetry   == Permutations(MCClients)

\* Two people who have an account, and one text, also for the passwords.
MCWords    == {"ann", "bob"}
MCTexts    == {"hi"}
MCAccounts == {<<name, "hi">> : name \in MCWords}
=============================================================================
