------------------------ MODULE MCReviewSubmissions ------------------------
(* Small instances of ReviewSubmissions for TLC.                           *)
EXTENDS ReviewSubmissions, TLC

CONSTANTS p1, p2

\* p1 submits while p2 does everything else
OneSubmitter ==
  (p1 :> {"submit"}) @@ (p2 :> {"cancelReview", "cancelSubmission", "discard", "resubmit"})

\* two devices submit; nobody removes items
TwoSubmitters ==
  (p1 :> {"submit"}) @@ (p2 :> {"submit", "cancelReview", "resubmit"})

\* one host that calls everything, one call after the other
Alone == p1 :> OpNames

SubmitterOnly == p1 :> {"submit"}

VersionSymmetry == Permutations(Versions)
SubSymmetry == Permutations(Subs)
DataSymmetry == SubSymmetry \cup VersionSymmetry
=============================================================================
