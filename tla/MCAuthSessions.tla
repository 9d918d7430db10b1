--------------------------- MODULE MCAuthSessions ---------------------------
(***************************************************************************)
(* AuthSessions for TLC: two requests at a time on an account with at most *)
(* two sessions.                                                           *)
(***************************************************************************)
EXTENDS AuthSessions, TLC

CONSTANTS q1, q2, s1, s2, l1, l2, l3, k1

TwoReqs == {q1, q2}
TwoSessions == {s1, s2}
ThreeLinks == {l1, l2, l3}
OneReset == {k1}

\* Nothing tells two requests, two sessions or two tokens apart.
RowSymmetry ==
  Permutations(Reqs) \union Permutations(Sessions) \union Permutations(Links)
=============================================================================
