--------------------------- MODULE MCAuthSessions ---------------------------
(***************************************************************************)
(* Instances of AuthSessions for TLC.                                      *)
(***************************************************************************)
EXTENDS AuthSessions, TLC

\* Requests, users and tokens are interchangeable.
Symmetry == Permutations(Request) \cup Permutations(User) \cup Permutations(Token)
=============================================================================
