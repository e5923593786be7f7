--------------------------- MODULE MCCredentials ---------------------------
\* The instance of Credentials that TLC checks: requests take any part, and
\* passwords are only compared with one another.
EXTENDS Credentials, TLC

Symmetry == Permutations(Request) \cup Permutations(Password)
=============================================================================
