---------------------------- MODULE ReviewPromise ----------------------------
(***************************************************************************)
(* What a host may rely on when a single caller submits versions for       *)
(* review: each submission is sent to review once, in one step, and what   *)
(* submit_for_review sends holds the version that is being asked for and   *)
(* nothing else.  Ok is only told in that step; any other answer leaves    *)
(* open whether the version was sent, and nothing is sent after an answer. *)
(* A resubmission sends a draft as it finds it, nothing else sends any.    *)
(***************************************************************************)
CONSTANTS Procs, Subs, Versions, NoVersion

VARIABLES
  asked, \* asked[p]: the version p is waiting to see submitted, or NoVersion
  told,  \* told[p]: the answer to p's last call, "none" while it waits
  sent   \* the submissions sent to review, and what they held

Answers == {"none", "Ok", "Err", "NotRemovable", "Dropped"}
Sent(s) == \E r \in sent : r.sub = s

Init ==
  /\ asked = [p \in Procs |-> NoVersion]
  /\ told = [p \in Procs |-> "none"]
  /\ sent \subseteq [sub : Subs, versions : SUBSET Versions]
  /\ \A q, r \in sent : q.sub = r.sub => q = r

Ask(p) ==
  /\ asked[p] = NoVersion
  /\ \E v \in Versions : asked' = [asked EXCEPT ![p] = v]
  /\ told' = [told EXCEPT ![p] = "none"]
  /\ sent' = sent

Answer(p, answers) ==
  /\ asked' = [asked EXCEPT ![p] = NoVersion]
  /\ \E a \in answers : told' = [told EXCEPT ![p] = a]

SendOf(s, versions) ==
  /\ ~Sent(s)
  /\ sent' = sent \cup {[sub |-> s, versions |-> versions]}

\* with or without the answer coming back
Submit(p) ==
  /\ asked[p] # NoVersion
  /\ \E s \in Subs : SendOf(s, {asked[p]})
  /\ UNCHANGED <<asked, told>> \/ Answer(p, {"Ok", "Err"})

Fail(p) ==
  /\ asked[p] # NoVersion
  /\ Answer(p, {"Err", "Dropped"})
  /\ sent' = sent

\* p sends a draft as it finds it, and is answered in the same step
Resubmit(p) ==
  /\ asked[p] = NoVersion /\ told[p] = "none"
  /\ \E s \in Subs, vs \in (SUBSET Versions) \ {{}} : SendOf(s, vs)
  /\ Answer(p, {"Ok", "Err"})

\* p cancels or discards, or starts to
Otherwise(p) ==
  /\ asked[p] = NoVersion
  /\ Answer(p, Answers)
  /\ sent' = sent

Next == \E p \in Procs : Ask(p) \/ Submit(p) \/ Fail(p) \/ Resubmit(p) \/ Otherwise(p)

Spec == Init /\ [][Next]_<<asked, told, sent>>
=============================================================================
