--------------------------- MODULE MCUserSession ---------------------------
(* Model values and symmetry for the runs of UserSession.                  *)
EXTENDS UserSession, TLC

\* Session ids, requests and instances are interchangeable.
Symmetry ==
    Permutations(Session) \cup Permutations(Request) \cup Permutations(Instance)
============================================================================
