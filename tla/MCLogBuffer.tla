----------------------------- MODULE MCLogBuffer -----------------------------
(* Small instances of LogBuffer for TLC.                                    *)
EXTENDS LogBuffer, TLC

CallSymmetry == Permutations(Calls)
=============================================================================
