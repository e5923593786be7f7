--------------------------- MODULE MCAccountLife ---------------------------
(* Symmetry for the runs of AccountLife that check safety alone.            *)
EXTENDS AccountLife, TLC

\* Accounts are interchangeable, and so are logins.
Symmetry == Permutations(Account) \cup Permutations(Login)
============================================================================
