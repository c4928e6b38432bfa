---------------------------- MODULE MCTokenCache ----------------------------
(* Small instances of TokenCache for TLC.                                 *)
EXTENDS TokenCache, TLC

TaskSymmetry == Permutations(Tasks)

\* the device is right, or behind Apple by a unit
RightOrBehind == {-1, 0}

\* the device is right, or ahead of Apple by a unit
RightOrAhead == {0, 1}
=============================================================================
