-------------------------- MODULE ReviewSubmissions --------------------------
(***************************************************************************)
(* The review-submission workflow of the App Store provider                *)
(* (providers/appstore/client.rs): submit_for_review, cancel_review,       *)
(* cancel_submission, discard_review_submission and                        *)
(* submit_review_submission, called by several hosts (devices, or tasks of *)
(* one host) against one app of App Store Connect.                         *)
(*                                                                         *)
(* One HTTP exchange is one step.  Between two exchanges of a call every   *)
(* other call, Apple's reviewers and the App Store Connect website may act.*)
(* The service is external; the rules assumed of it are those the          *)
(* comments of client.rs and its tests state:                              *)
(*  - a draft (READY_FOR_REVIEW) accepts items and, when it has one, can   *)
(*    be marked submitted; it cannot be canceled, only emptied;            *)
(*  - a submission sent to review can be canceled, not edited;             *)
(*  - creating a submission fails at the concurrent-submission limit;      *)
(*  - a draft whose last item is removed vanishes (404), lingers, or moves *)
(*    to another state; the website may remove a draft.                    *)
(* Nothing there says that a version belongs to one submission only, so    *)
(* the service does not enforce it.                                        *)
(*                                                                         *)
(* A definition named D_Mistake, before D, is D with a plausible mistake:  *)
(* the properties are shown to notice it.                                  *)
(***************************************************************************)
EXTENDS Naturals, FiniteSets, FiniteSetsExt

CONSTANTS
  Procs,        \* the callers
  OpsOf,        \* [Procs -> SUBSET OpNames]: what each caller may call
  Subs,         \* submission identifiers the service can hand out
  Versions,     \* App Store versions of the app
  NoSub, NoVersion,
  MaxCalls,     \* bound on the number of calls started
  SlotLimit,    \* Apple's concurrent-submission limit
  PageSize,     \* submissions on one page of a listing
  ItemPageSize, \* items on one page of a submission's items
  Faults        \* what may befall a call besides the service's own refusals:
                \*   "refused"  the request has no effect, the call sees an error
                \*   "lost"     it takes effect, yet the call sees an error
                \*   "dropped"  the host drops the call (cancel, crash)

OpNames == {"submit", "cancelReview", "cancelSubmission", "discard", "resubmit"}

ASSUME OpsAssumption == OpsOf \in [Procs -> SUBSET OpNames]
ASSUME NullAssumption == NoSub \notin Subs /\ NoVersion \notin Versions
ASSUME BoundAssumption == MaxCalls \in Nat /\ ItemPageSize \in Nat \ {0}

VARIABLES
  state,  \* state[s]: the submission's state at the service
  items,  \* items[s]: the versions attached to it
  call,   \* call[p]: where caller p is in its call, and the call's locals
  calls   \* how many calls were started
vars == <<state, items, call, calls>>
service == <<state, items>>

-----------------------------------------------------------------------------
(* The service's data and the locals of a call.                            *)

Draft == "READY_FOR_REVIEW"
InFlight == {"WAITING_FOR_REVIEW", "IN_REVIEW", "UNRESOLVED_ISSUES"}
Active == {Draft} \cup InFlight
States == Active \cup {"Unborn", "CANCELING", "COMPLETE", "Gone"}

Snapshots == [sub : Subs, st : Active]

PCs == {"idle", "list", "probe", "create", "attach", "mark",
        "cancel", "read", "items", "delete", "verify"}
Results == {"none", "Ok", "Err", "NotRemovable", "Dropped"}

Calls == [pc : PCs, op : OpNames \cup {"none"},
          ver : Versions \cup {NoVersion}, sid : Subs \cup {NoSub},
          todo : SUBSET Snapshots,   \* listed submissions still to visit
          page : SUBSET Versions,    \* fetched items still to delete
          seen : SUBSET Versions,    \* cursor of the next items page
          more : BOOLEAN,            \* links.next of the fetched items page
          stuck : BOOLEAN,           \* not_removable is set
          fresh : BOOLEAN,           \* sid was created by this call
          result : Results]          \* of the last finished call

Returned(r) ==
  [pc |-> "idle", op |-> "none", ver |-> NoVersion, sid |-> NoSub,
   todo |-> {}, page |-> {}, seen |-> {}, more |-> FALSE, stuck |-> FALSE,
   fresh |-> FALSE, result |-> r]

TypeOK ==
  /\ state \in [Subs -> States]
  /\ items \in [Subs -> SUBSET Versions]
  /\ call \in [Procs -> Calls]
  /\ calls \in 0..MaxCalls

Init ==
  /\ state \in [Subs -> {"Unborn", Draft, "WAITING_FOR_REVIEW"}]
  /\ items \in [Subs -> SUBSET Versions]
  /\ \A s \in Subs :
       /\ state[s] = "Unborn" => items[s] = {}
       /\ state[s] = "WAITING_FOR_REVIEW" => items[s] # {}
  /\ call = [p \in Procs |-> Returned("none")]
  /\ calls = 0

-----------------------------------------------------------------------------
(* Requests.  A call that gets its answer moves to one of the locals in    *)
(* next; one that fails moves to one of those in failed.                   *)

Goto(p, next) == \E c \in next : call' = [call EXCEPT ![p] = c]

Failed == {Returned("Err")}

\* send_and_read of a GET: found says whether the service answers 2xx
Get(p, found, next) ==
  /\ \/ found /\ Goto(p, next)
     \/ (~found \/ Faults \cap {"refused", "lost"} # {}) /\ Goto(p, Failed)
  /\ UNCHANGED <<service, calls>>

\* send_and_read of a POST, PATCH or DELETE the service accepts when can holds
Send(p, can, effect, next, failed) ==
  /\ \/ can /\ effect /\ Goto(p, next)
     \/ can /\ "lost" \in Faults /\ effect /\ Goto(p, failed)
     \/ /\ ~can \/ "refused" \in Faults
        /\ UNCHANGED service
        /\ Goto(p, failed)
  /\ UNCHANGED calls

\* the pages a listing of S may answer with, k entries at most
Page(S, k) == IF Cardinality(S) <= k THEN {S} ELSE kSubset(k, S)

Listing(states) ==
  Page({[sub |-> s, st |-> state[s]] :
          s \in {t \in Subs : state[t] \in states}}, PageSize)

Found(s) == state[s] \notin {"Unborn", "Gone"}
Open == {s \in Subs : state[s] \in Active}
Unborn == {s \in Subs : state[s] = "Unborn"}
CanMark(s) == state[s] = Draft /\ items[s] # {}

MoveTo(s, st) == state' = [state EXCEPT ![s] = st] /\ items' = items

\* a draft may vanish, linger or move on with its last item
Detach(s, v) ==
  /\ items' = [items EXCEPT ![s] = @ \ {v}]
  /\ \E st \in {Draft} \cup (IF items[s] = {v} THEN {"Gone", "COMPLETE"} ELSE {}) :
       state' = [state EXCEPT ![s] = st]

-----------------------------------------------------------------------------
(* submit_for_review                                                       *)

Probing_Again(c) ==
  IF c.todo = {} THEN {[c EXCEPT !.pc = "create", !.sid = NoSub]}
  ELSE {[c EXCEPT !.pc = "probe", !.sid = d.sub] : d \in c.todo}

\* the loop of find_reusable_empty_draft; with no candidate left, create
Probing(c) ==
  IF c.todo = {} THEN {[c EXCEPT !.pc = "create", !.sid = NoSub]}
  ELSE {[c EXCEPT !.pc = "probe", !.sid = d.sub, !.todo = @ \ {d}] : d \in c.todo}

ListDrafts(p) ==
  /\ call[p].pc = "list" /\ call[p].op = "submit"
  /\ Get(p, TRUE, UNION {Probing([call[p] EXCEPT !.todo = pg]) : pg \in Listing({Draft})})

ProbeDraft_AnyDraft(p) ==
  /\ call[p].pc = "probe"
  /\ Get(p, Found(call[p].sid), {[call[p] EXCEPT !.pc = "attach", !.todo = {}]})

ProbeDraft_FirstOnly(p) ==
  LET c == call[p] IN
  /\ c.pc = "probe"
  /\ Get(p, Found(c.sid),
         IF items[c.sid] = {} THEN {[c EXCEPT !.pc = "attach", !.todo = {}]}
         ELSE Probing([c EXCEPT !.todo = {}]))

\* submission_is_empty
ProbeDraft(p) ==
  LET c == call[p] IN
  /\ c.pc = "probe"
  /\ Get(p, Found(c.sid),
         IF items[c.sid] = {} THEN {[c EXCEPT !.pc = "attach", !.todo = {}]}
         ELSE Probing(c))

CreateSubmission(p) ==
  LET c == call[p] IN
  /\ c.pc = "create"
  /\ \/ /\ Cardinality(Open) < SlotLimit
        /\ \E s \in Unborn :
             Send(p, TRUE, MoveTo(s, Draft),
                  {[c EXCEPT !.pc = "attach", !.sid = s, !.fresh = TRUE]},
                  Failed)
     \/ /\ Cardinality(Open) >= SlotLimit \/ Unborn = {}
        /\ Send(p, FALSE, FALSE, {}, Failed)

\* a failed reuse (of the draft sid) falls back to create-new, a failed
\* create-new is returned
GiveUp(c) ==
  IF c.fresh \/ c.op # "submit" THEN Failed ELSE {[c EXCEPT !.pc = "create"]}

AttachVersion_Swapped(p) ==
  LET c == call[p] IN
  /\ c.pc = "attach"
  /\ Send(p, state[c.sid] = Draft,
          items' = [items EXCEPT ![c.sid] = @ \cup {c.sid}] /\ state' = state,
          {[c EXCEPT !.pc = "mark"]}, GiveUp(c))

AttachVersion_Unchecked(p) ==
  LET c == call[p] IN
  /\ c.pc = "attach"
  /\ Send(p, state[c.sid] = Draft /\ c.ver \notin items[c.sid],
          items' = [items EXCEPT ![c.sid] = @ \cup {c.ver}] /\ state' = state,
          {[c EXCEPT !.pc = "mark"]}, {[c EXCEPT !.pc = "mark"]})

AttachVersion(p) ==
  LET c == call[p] IN
  /\ c.pc = "attach"
  /\ Send(p, state[c.sid] = Draft /\ c.ver \notin items[c.sid],
          items' = [items EXCEPT ![c.sid] = @ \cup {c.ver}] /\ state' = state,
          {[c EXCEPT !.pc = "mark"]}, GiveUp(c))

MarkSubmitted_Unchecked(p) ==
  LET c == call[p] IN
  /\ c.pc = "mark"
  /\ Send(p, CanMark(c.sid), MoveTo(c.sid, "WAITING_FOR_REVIEW"),
          {Returned("Ok")}, {Returned("Ok")})

\* submitted: true, of attach_and_submit and of submit_review_submission
MarkSubmitted(p) ==
  LET c == call[p] IN
  /\ c.pc = "mark"
  /\ Send(p, CanMark(c.sid), MoveTo(c.sid, "WAITING_FOR_REVIEW"),
          {Returned("Ok")}, GiveUp(c))

-----------------------------------------------------------------------------
(* cancel_review, cancel_submission and discard_review_submission          *)

ListToCancelFirst(p) ==
  /\ call[p].pc = "list" /\ call[p].op = "cancelReview"
  /\ Get(p, TRUE,
         UNION {IF pg = {} THEN {Returned("Ok")}
                ELSE {[call[p] EXCEPT !.pc = "cancel", !.sid = d.sub] : d \in pg} :
                pg \in Listing({"WAITING_FOR_REVIEW", "IN_REVIEW"})})

\* how a submission read in state st is dealt with
Dispatch(c, s, st) ==
  IF st \in InFlight THEN [c EXCEPT !.pc = "cancel", !.sid = s]
  ELSE [c EXCEPT !.pc = "items", !.sid = s, !.seen = {}]

\* the loop over the listed submissions; a discard has the one it was given
Proceed(c) ==
  IF c.todo = {} THEN {Returned(IF c.stuck THEN "NotRemovable" ELSE "Ok")}
  ELSE {Dispatch([c EXCEPT !.todo = @ \ {d}], d.sub, d.st) : d \in c.todo}

ListToCancel(p) ==
  /\ call[p].pc = "list" /\ call[p].op = "cancelSubmission"
  /\ Get(p, TRUE, UNION {Proceed([call[p] EXCEPT !.todo = pg]) : pg \in Listing(Active)})

\* the GET of discard_review_submission; 404 and final states need nothing
ReadSubmission(p) ==
  LET c == call[p] IN
  /\ c.pc = "read"
  /\ Get(p, TRUE, IF state[c.sid] \in Active THEN {Dispatch(c, c.sid, state[c.sid])}
                  ELSE {Returned("Ok")})

CancelInFlight(p) ==
  LET c == call[p] IN
  /\ c.pc = "cancel"
  /\ Send(p, state[c.sid] \in InFlight, MoveTo(c.sid, "CANCELING"), Proceed(c), Failed)

\* one page of delete_submission_items
FetchItems(p) ==
  LET c == call[p]
      rest == items[c.sid] \ c.seen IN
  /\ c.pc = "items"
  /\ Get(p, Found(c.sid),
         {[c EXCEPT !.pc = IF pg = {} THEN "verify" ELSE "delete",
                    !.page = pg, !.seen = @ \cup pg, !.more = (pg # rest)] :
            pg \in Page(rest, ItemPageSize)})

DeleteItem(p) ==
  LET c == call[p] IN
  /\ c.pc = "delete"
  /\ \E v \in c.page :
       Send(p, state[c.sid] = Draft /\ v \in items[c.sid], Detach(c.sid, v),
            {[c EXCEPT !.page = @ \ {v},
                       !.pc = IF c.page # {v} THEN "delete"
                              ELSE IF c.more THEN "items" ELSE "verify"]},
            Failed)

VerifyDiscarded_Unverified(p) ==
  /\ call[p].pc = "verify"
  /\ Get(p, TRUE, Proceed(call[p]))

\* the re-read of discard_ready_for_review_submission
VerifyDiscarded(p) ==
  LET c == call[p] IN
  /\ c.pc = "verify"
  /\ Get(p, TRUE, Proceed([c EXCEPT !.stuck = @ \/ state[c.sid] = Draft]))

-----------------------------------------------------------------------------
(* The host starts and drops calls.                                        *)

Begin(p, c) ==
  /\ call[p].pc = "idle" /\ calls < MaxCalls
  /\ c.op \in OpsOf[p]
  /\ call' = [call EXCEPT ![p] = c]
  /\ calls' = calls + 1
  /\ UNCHANGED service

Start(p) ==
  LET new == Returned("none") IN
  \/ \E v \in Versions :
       Begin(p, [new EXCEPT !.op = "submit", !.pc = "list", !.ver = v])
  \/ \E o \in {"cancelReview", "cancelSubmission"} :
       Begin(p, [new EXCEPT !.op = o, !.pc = "list"])
  \/ \E s \in Subs \ Unborn :
       \/ Begin(p, [new EXCEPT !.op = "discard", !.pc = "read", !.sid = s])
       \/ Begin(p, [new EXCEPT !.op = "resubmit", !.pc = "mark", !.sid = s])

Drop(p) ==
  /\ "dropped" \in Faults /\ call[p].pc # "idle"
  /\ Goto(p, {Returned("Dropped")})
  /\ UNCHANGED <<service, calls>>

(* Apple reviews and finishes cancelations; the website removes drafts.    *)

Review(s) ==
  /\ \/ state[s] = "WAITING_FOR_REVIEW" /\ MoveTo(s, "IN_REVIEW")
     \/ state[s] = "IN_REVIEW" /\ \E st \in {"UNRESOLVED_ISSUES", "COMPLETE"} : MoveTo(s, st)
     \/ state[s] = "CANCELING" /\ MoveTo(s, "COMPLETE")
  /\ UNCHANGED <<call, calls>>

RemoveOnWebsite(s) ==
  /\ state[s] = Draft
  /\ state' = [state EXCEPT ![s] = "Gone"]
  /\ items' = [items EXCEPT ![s] = {}]
  /\ UNCHANGED <<call, calls>>

Respond(p) ==
  \/ ListDrafts(p) \/ ProbeDraft(p) \/ CreateSubmission(p)
  \/ AttachVersion(p) \/ MarkSubmitted(p)
  \/ ListToCancelFirst(p) \/ ListToCancel(p) \/ ReadSubmission(p)
  \/ CancelInFlight(p) \/ FetchItems(p) \/ DeleteItem(p) \/ VerifyDiscarded(p)

Next ==
  \/ \E p \in Procs : Start(p) \/ Respond(p) \/ Drop(p)
  \/ \E s \in Subs : Review(s) \/ RemoveOnWebsite(s)

Spec == Init /\ [][Next]_vars

\* a request is eventually answered or fails, and the runtime polls the call
FairSpec == Spec /\ \A p \in Procs : WF_vars(Respond(p))

-----------------------------------------------------------------------------
(* Properties.                                                             *)

Submits(p, r) == call[p].op = "submit" /\ call'[p].result = r
SingleSubmitter ==
  \A p, q \in Procs : "submit" \in OpsOf[p] /\ "submit" \in OpsOf[q] => p = q
Spare == {s \in Subs : state[s] = Draft /\ items[s] = {}}
\* p's POST of a new submission took effect in this step
Creates(p) ==
  call[p].pc = "create" /\ call'[p] # call[p] /\ \E s \in Unborn : state'[s] = Draft

\* The draft a submit_for_review is about to attach to is empty, and the one it
\* is about to mark submitted holds at most its version, although it was found
\* empty several exchanges before.  One caller submits; the others may empty,
\* discard, cancel and resubmit meanwhile.
HoldsOnlyItsVersion(c) ==
  /\ c.pc = "attach" => items[c.sid] = {}
  /\ c.pc = "mark" /\ c.op = "submit" => items[c.sid] \subseteq {c.ver}
ReusedDraftIsOurs == \A p \in Procs : HoldsOnlyItsVersion(call[p])

\* Seen through what callers ask, what they are told and what was sent to review
\* with which versions, the workflow keeps ReviewPromise.  One caller submits, as
\* above.
AskedBy(c) == IF c.op = "submit" THEN c.ver ELSE NoVersion
AskedFor == [p \in Procs |-> AskedBy(call[p])]
Told == [p \in Procs |-> call[p].result]
WasSent(s) == state[s] \notin {"Unborn", Draft} /\ items[s] # {}
SentOff == {[sub |-> s, versions |-> items[s]] : s \in {t \in Subs : WasSent(t)}}
Promise == INSTANCE ReviewPromise WITH asked <- AskedFor, told <- Told, sent <- SentOff
KeepsPromise == Promise!Spec

\* When submit_for_review returns Ok, the draft it worked on goes to review in
\* that very step carrying its version and no other.  One caller submits, as
\* above.
SubmitSendsExactlyItsVersion ==
  [][\A p \in Procs : Submits(p, "Ok") =>
       LET s == call[p].sid IN
       state[s] = Draft /\ state'[s] = "WAITING_FOR_REVIEW" /\ items'[s] = {call[p].ver}]_vars

\* With several submitters, who may share a reused draft, and nobody removing
\* items, an Ok still means that the version is in a submission sent to review.
OkMeansInReview ==
  [][\A p \in Procs : Submits(p, "Ok") =>
       LET s == call[p].sid IN
       state'[s] = "WAITING_FOR_REVIEW" /\ call[p].ver \in items'[s]]_vars

\* submit_for_review prefers reuse: a caller that works alone creates a
\* submission only when there is no empty draft or reusing one has failed.
CreatesOnlyWithoutSpare ==
  [][\A p \in Procs : Creates(p) /\ call[p].sid = NoSub => Spare = {}]_vars

\* The verdict of cancel_submission and discard_review_submission, for a caller
\* that works alone: Ok means that nothing it was asked to clear is active, and
\* SubmissionNotRemovable that only empty drafts are left of it, every other
\* listed submission being cleared all the same.  (The website may have removed
\* those drafts too by the time the call returns.)
VerdictIsHonest ==
  [][\A p \in Procs :
       LET asked == IF call[p].op = "discard" THEN {call[p].sid} ELSE Subs
           left == {s \in asked : state'[s] \in Active} IN
       call[p].op \in {"discard", "cancelSubmission"} =>
         /\ call'[p].result = "Ok" => left = {}
         /\ call'[p].result = "NotRemovable" =>
              \A s \in left : state'[s] = Draft /\ items'[s] = {}]_vars

\* Every call returns, however the others, the reviewers and the website
\* interfere: the loops over candidates, submissions and item pages end.
CallReturns ==
  \A p \in Procs : call[p].pc # "idle" ~> call[p].pc = "idle"

\* "any failure here falls back to the create-new flow below" (client.rs:3015):
\* an error is returned only once create-new was tried.
ReuseFailureFallsBack ==
  [][\A p \in Procs : Submits(p, "Err") => call[p].fresh \/ call[p].pc = "create"]_vars

\* "so behaviour is never worse than the plain create-new flow"
\* (client.rs:2996): plain create-new never makes a second submission for a
\* version that the same call has just sent to review.
FallbackNeverDoubles ==
  [][\A p \in Procs : Creates(p) /\ call[p].sid # NoSub => state[call[p].sid] \notin InFlight]_vars
=============================================================================
