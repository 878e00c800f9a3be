---------------------------- MODULE MCAuthSession ----------------------------
(* Instances of AuthSession for TLC: model values for sessions and calls.  *)
EXTENDS AuthSession, TLC

\* Calls are interchangeable, and so are sessions: no definition names one.
Symmetry == Permutations(Requests) \cup Permutations(Sessions)
=============================================================================
