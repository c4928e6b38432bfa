---------------------- MODULE ReviewSubmissionsProofs ----------------------
(***************************************************************************)
(* Proofs about ReviewSubmissions, for every set of callers, submissions   *)
(* and versions, every bound and every kind of fault.                      *)
(***************************************************************************)
EXTENDS ReviewSubmissions, FiniteSetTheorems, TLAPS

\* The locals c of a call of p are those of an operation p may call, and name
\* the submission and the version its next request is about.
WellFormed(p, c) ==
  /\ c \in Calls
  /\ c.pc # "idle" => c.op \in OpsOf[p] /\ c.result = "none"
  /\ c.pc = "idle" => c.op = "none"
  /\ c.pc \in {"probe", "create", "attach"} => c.op = "submit"
  /\ c.pc \in {"cancel", "read", "items", "delete", "verify"} => c.op # "submit"
  /\ c.op = "submit" => c.ver \in Versions
  /\ c.pc \in {"probe", "attach", "mark", "cancel", "read", "items", "delete", "verify"}
       => c.sid \in Subs

CallsWellFormed ==
  /\ DOMAIN call = Procs /\ call = [p \in Procs |-> call[p]]
  /\ \A p \in Procs : WellFormed(p, call[p])

ServiceTyped == state \in [Subs -> States] /\ items \in [Subs -> SUBSET Versions]

Typed == ServiceTyped /\ CallsWellFormed /\ calls \in 0..MaxCalls

-----------------------------------------------------------------------------
(* The operators a call's next locals are built with.                      *)

\* Every page of a listing is part of what is listed.
LEMMA PagePart == ASSUME NEW S, NEW k, NEW pg \in Page(S, k) PROVE pg \subseteq S
BY DEF Page, kSubset

LEMMA ListingPart ==
  ASSUME Typed, NEW sts \in SUBSET Active, NEW pg \in Listing(sts) PROVE pg \subseteq Snapshots
<1> DEFINE listed == {[sub |-> s, st |-> state[s]] : s \in {t \in Subs : state[t] \in sts}}
<1>1. listed \subseteq Snapshots
  BY DEF Typed, ServiceTyped, Snapshots
<1>2. pg \subseteq listed
  BY PagePart DEF Listing
<1> QED
  BY <1>1, <1>2

\* A finished call is idle and its locals are reset.
LEMMA ReturnedIdle ==
  ASSUME NEW p, NEW r \in Results
  PROVE  WellFormed(p, Returned(r)) /\ Returned(r).pc = "idle" /\ Returned(r).op = "none"
BY DEF WellFormed, Returned, Calls, PCs

\* The loop over candidate drafts goes on to a listed one or to the creation.
LEMMA ProbingGoesOn ==
  ASSUME NEW p, NEW c, WellFormed(p, c), c.pc # "idle", c.op = "submit", NEW d \in Probing(c)
  PROVE  WellFormed(p, d) /\ d.pc \in {"probe", "create"}
<1>1. CASE c.todo = {}
  <2>1. d = [c EXCEPT !.pc = "create", !.sid = NoSub]
    BY <1>1 DEF Probing
  <2> QED
    BY <2>1 DEF WellFormed, Calls, PCs
<1>2. CASE c.todo # {}
  <2>1. PICK e \in c.todo : d = [c EXCEPT !.pc = "probe", !.sid = e.sub, !.todo = @ \ {e}]
    BY <1>2 DEF Probing
  <2>2. e.sub \in Subs
    BY DEF WellFormed, Calls, Snapshots
  <2> QED
    BY <2>1, <2>2 DEF WellFormed, Calls, PCs
<1> QED
  BY <1>1, <1>2

\* A failed step of attach_and_submit ends the call or falls back to creating.
LEMMA GiveUpGoesOn ==
  ASSUME NEW p, NEW c, WellFormed(p, c), c.pc # "idle", NEW d \in GiveUp(c)
  PROVE  WellFormed(p, d) /\ d.pc \in {"idle", "create"}
BY ReturnedIdle DEF GiveUp, Failed, WellFormed, Calls, PCs, Results

\* Clearing a submission starts with its cancelation or with its items.
LEMMA DispatchGoesOn ==
  ASSUME NEW p, NEW c, WellFormed(p, c), c.pc # "idle", c.op # "submit", NEW s \in Subs, NEW st
  PROVE  WellFormed(p, Dispatch(c, s, st)) /\ Dispatch(c, s, st).pc \in {"cancel", "items"}
<1>1. Dispatch(c, s, st) \in {[c EXCEPT !.pc = "cancel", !.sid = s],
                              [c EXCEPT !.pc = "items", !.sid = s, !.seen = {}]}
  BY DEF Dispatch
<1> QED
  BY <1>1 DEF WellFormed, Calls, PCs

\* The loop over the submissions to clear goes on to one of them or returns.
LEMMA ProceedGoesOn ==
  ASSUME NEW p, NEW c, WellFormed(p, c), c.pc # "idle", c.op # "submit", NEW d \in Proceed(c)
  PROVE  WellFormed(p, d) /\ d.pc \in {"idle", "cancel", "items"}
<1>1. CASE c.todo = {}
  <2>1. d = Returned("NotRemovable") \/ d = Returned("Ok")
    BY <1>1 DEF Proceed
  <2> QED
    BY <2>1, ReturnedIdle DEF Results
<1>2. CASE c.todo # {}
  <2>1. PICK e \in c.todo : d = Dispatch([c EXCEPT !.todo = @ \ {e}], e.sub, e.st)
    BY <1>2 DEF Proceed
  <2> DEFINE b == [c EXCEPT !.todo = @ \ {e}]
  <2>2. e.sub \in Subs
    BY DEF WellFormed, Calls, Snapshots
  <2>3. WellFormed(p, b) /\ b.op = c.op /\ b.pc = c.pc
    BY DEF WellFormed, Calls
  <2> HIDE DEF b
  <2>4. WellFormed(p, Dispatch(b, e.sub, e.st)) /\ Dispatch(b, e.sub, e.st).pc \in {"cancel", "items"}
    BY <2>2, <2>3, DispatchGoesOn
  <2> QED
    BY <2>1, <2>4 DEF b
<1> QED
  BY <1>1, <1>2

-----------------------------------------------------------------------------
(* Type correctness.                                                       *)

\* What a step of caller p leaves: the service typed, and p's locals replaced
\* by well-formed ones.
Moves(p, d) == WellFormed(p, d) /\ call' = [call EXCEPT ![p] = d]
StepTyped(p) == ServiceTyped' /\ calls' = calls /\ \E d : Moves(p, d)

LEMMA FailedMoves ==
  ASSUME NEW p, Goto(p, Failed)
  PROVE  \E d : Moves(p, d) /\ d.pc = "idle"
BY ReturnedIdle DEF Goto, Failed, Moves, Results

\* A GET that finds well-formed next locals.
LEMMA GetTyped ==
  ASSUME NEW p \in Procs, NEW found, NEW next, Typed, Get(p, found, next),
         \A d \in next : WellFormed(p, d)
  PROVE  StepTyped(p)
<1>1. ServiceTyped' /\ calls' = calls
  BY DEF Get, Typed, ServiceTyped, service
<1>2. Goto(p, next) \/ Goto(p, Failed)
  BY DEF Get
<1> QED
  BY <1>1, <1>2, FailedMoves DEF StepTyped, Goto, Moves

\* The requests that change the service keep it typed.
LEMMA MoveToTyped ==
  ASSUME ServiceTyped, NEW s, NEW st \in States, MoveTo(s, st)
  PROVE  ServiceTyped'
BY DEF ServiceTyped, MoveTo

LEMMA DetachTyped ==
  ASSUME ServiceTyped, NEW s, NEW v, Detach(s, v)
  PROVE  ServiceTyped'
BY DEF ServiceTyped, Detach, States, Active, Draft

LEMMA IdleServiceTyped == ASSUME ServiceTyped, UNCHANGED service PROVE ServiceTyped'
BY DEF ServiceTyped, service

LEMMA RespondTyped ==
  ASSUME NEW p \in Procs, Typed, Respond(p)
  PROVE  StepTyped(p)
<1> DEFINE c == call[p]
<1>0. WellFormed(p, c) /\ ServiceTyped
  BY DEF Typed, CallsWellFormed
<1>0a. c \in Calls
  BY <1>0 DEF WellFormed
<1>1. CASE ListDrafts(p)
  <2> DEFINE next == UNION {Probing([c EXCEPT !.todo = pg]) : pg \in Listing({Draft})}
  <2>1. ASSUME NEW d \in next PROVE WellFormed(p, d)
    <3>1. PICK pg \in Listing({Draft}) : d \in Probing([c EXCEPT !.todo = pg])
      OBVIOUS
    <3>2. pg \subseteq Snapshots
      BY ListingPart DEF Active
    <3>3. WellFormed(p, [c EXCEPT !.todo = pg])
      BY <1>0, <3>2 DEF WellFormed, Calls
    <3> QED
      BY <1>0a, <1>1, <3>1, <3>3, ProbingGoesOn DEF ListDrafts, Calls
  <2> HIDE DEF next
  <2> QED
    BY <1>1, <2>1, GetTyped DEF ListDrafts, next
<1>2. CASE ProbeDraft(p)
  <2>1. WellFormed(p, [c EXCEPT !.pc = "attach", !.todo = {}])
    BY <1>0, <1>2 DEF ProbeDraft, WellFormed, Calls, PCs
  <2>2. \A d \in Probing(c) : WellFormed(p, d)
    BY <1>0, <1>2, ProbingGoesOn DEF ProbeDraft, WellFormed
  <2> QED
    BY <1>2, <2>1, <2>2, GetTyped DEF ProbeDraft
<1>3. CASE CreateSubmission(p)
  <2>1. ASSUME NEW s \in Unborn
        PROVE  WellFormed(p, [c EXCEPT !.pc = "attach", !.sid = s, !.fresh = TRUE])
    BY <1>0, <1>3 DEF CreateSubmission, WellFormed, Calls, PCs, Unborn
  <2>2. calls' = calls /\ (UNCHANGED service \/ \E s \in Unborn : MoveTo(s, Draft))
    BY <1>3 DEF CreateSubmission, Send
  <2>3. ServiceTyped'
    BY <1>0, <2>2, MoveToTyped, IdleServiceTyped DEF States, Active, Draft
  <2>4. \/ Goto(p, Failed)
        \/ \E s \in Unborn : Goto(p, {[c EXCEPT !.pc = "attach", !.sid = s, !.fresh = TRUE]})
    BY <1>3 DEF CreateSubmission, Send
  <2> QED
    BY <2>1, <2>2, <2>3, <2>4, FailedMoves DEF StepTyped, Goto, Moves
<1>4. CASE AttachVersion(p)
  <2>1. WellFormed(p, [c EXCEPT !.pc = "mark"])
    BY <1>0, <1>4 DEF AttachVersion, WellFormed, Calls, PCs
  <2>2. \A d \in GiveUp(c) : WellFormed(p, d)
    BY <1>0, <1>4, GiveUpGoesOn DEF AttachVersion
  <2>3. c.ver \in Versions
    BY <1>0, <1>4 DEF AttachVersion, WellFormed
  <2>4. ServiceTyped' /\ calls' = calls
    BY <1>0, <1>4, <2>3, IdleServiceTyped DEF AttachVersion, Send, ServiceTyped
  <2>5. Goto(p, {[c EXCEPT !.pc = "mark"]}) \/ Goto(p, GiveUp(c))
    BY <1>4 DEF AttachVersion, Send
  <2> QED
    BY <2>1, <2>2, <2>4, <2>5 DEF StepTyped, Goto, Moves
<1>5. CASE MarkSubmitted(p)
  <2>1. WellFormed(p, Returned("Ok"))
    BY ReturnedIdle DEF Results
  <2>2. \A d \in GiveUp(c) : WellFormed(p, d)
    BY <1>0, <1>5, GiveUpGoesOn DEF MarkSubmitted
  <2>3. calls' = calls /\ (UNCHANGED service \/ MoveTo(c.sid, "WAITING_FOR_REVIEW"))
    BY <1>5 DEF MarkSubmitted, Send
  <2>4. ServiceTyped'
    BY <1>0, <2>3, MoveToTyped, IdleServiceTyped DEF States, Active, InFlight
  <2>5. Goto(p, {Returned("Ok")}) \/ Goto(p, GiveUp(c))
    BY <1>5 DEF MarkSubmitted, Send
  <2> QED
    BY <2>1, <2>2, <2>3, <2>4, <2>5 DEF StepTyped, Goto, Moves
<1>6. CASE ListToCancelFirst(p)
  <2> DEFINE listed == Listing({"WAITING_FOR_REVIEW", "IN_REVIEW"})
             first(pg) == IF pg = {} THEN {Returned("Ok")}
                          ELSE {[c EXCEPT !.pc = "cancel", !.sid = e.sub] : e \in pg}
             next == UNION {first(pg) : pg \in listed}
  <2>1. ASSUME NEW d \in next PROVE WellFormed(p, d)
    <3>1. PICK pg \in listed : d \in first(pg)
      OBVIOUS
    <3>2. pg \subseteq Snapshots
      BY ListingPart DEF Active, InFlight
    <3>3. CASE d = Returned("Ok")
      BY <3>3, ReturnedIdle DEF Results
    <3>4. ASSUME NEW e \in pg, d = [c EXCEPT !.pc = "cancel", !.sid = e.sub]
          PROVE  WellFormed(p, d)
      BY <1>0, <1>6, <3>2, <3>4 DEF ListToCancelFirst, WellFormed, Calls, PCs, Snapshots
    <3> QED
      BY <3>1, <3>3, <3>4
  <2> HIDE DEF next
  <2> QED
    BY <1>6, <2>1, GetTyped DEF ListToCancelFirst, next
<1>7. CASE ListToCancel(p)
  <2> DEFINE next == UNION {Proceed([c EXCEPT !.todo = pg]) : pg \in Listing(Active)}
  <2>1. ASSUME NEW d \in next PROVE WellFormed(p, d)
    <3>1. PICK pg \in Listing(Active) : d \in Proceed([c EXCEPT !.todo = pg])
      OBVIOUS
    <3>2. pg \subseteq Snapshots
      BY ListingPart
    <3> DEFINE b == [c EXCEPT !.todo = pg]
    <3>3. WellFormed(p, b) /\ b.op = "cancelSubmission" /\ b.pc # "idle"
      BY <1>0, <1>7, <3>2 DEF ListToCancel, WellFormed, Calls
    <3> HIDE DEF b
    <3>4. \A e \in Proceed(b) : WellFormed(p, e)
      BY <3>3, ProceedGoesOn
    <3> QED
      BY <3>1, <3>4 DEF b
  <2> HIDE DEF next
  <2> QED
    BY <1>7, <2>1, GetTyped DEF ListToCancel, next
<1>8. CASE ReadSubmission(p)
  <2>1. c.op # "submit" /\ c.pc # "idle" /\ c.sid \in Subs
    BY <1>0, <1>8 DEF ReadSubmission, WellFormed
  <2>2. WellFormed(p, Dispatch(c, c.sid, state[c.sid]))
    BY <1>0, <2>1, DispatchGoesOn
  <2>3. WellFormed(p, Returned("Ok"))
    BY ReturnedIdle DEF Results
  <2> QED
    BY <1>8, <2>2, <2>3, GetTyped DEF ReadSubmission
<1>9. CASE CancelInFlight(p)
  <2>1. c.op # "submit" /\ c.pc # "idle"
    BY <1>0, <1>9 DEF CancelInFlight, WellFormed
  <2>2. \A d \in Proceed(c) : WellFormed(p, d)
    BY <1>0, <2>1, ProceedGoesOn
  <2>3. calls' = calls /\ (UNCHANGED service \/ MoveTo(c.sid, "CANCELING"))
    BY <1>9 DEF CancelInFlight, Send
  <2>4. ServiceTyped'
    BY <1>0, <2>3, MoveToTyped, IdleServiceTyped DEF States
  <2>5. Goto(p, Proceed(c)) \/ Goto(p, Failed)
    BY <1>9 DEF CancelInFlight, Send
  <2> QED
    BY <2>2, <2>3, <2>4, <2>5, FailedMoves DEF StepTyped, Goto, Moves
<1>10. CASE FetchItems(p)
  <2> DEFINE rest == items[c.sid] \ c.seen
             after(pg) == [c EXCEPT !.pc = IF pg = {} THEN "verify" ELSE "delete",
                                    !.page = pg, !.seen = @ \cup pg, !.more = (pg # rest)]
             next == {after(pg) : pg \in Page(rest, ItemPageSize)}
  <2>1. ASSUME NEW pg \in Page(rest, ItemPageSize) PROVE WellFormed(p, after(pg))
    <3>1. c.sid \in Subs /\ c.op # "submit"
      BY <1>0, <1>10 DEF FetchItems, WellFormed
    <3>2. pg \subseteq Versions
      BY <1>0, <3>1, PagePart DEF ServiceTyped
    <3> QED
      BY <1>0, <1>10, <3>1, <3>2 DEF FetchItems, WellFormed, Calls, PCs
  <2>2. \A d \in next : WellFormed(p, d)
    <3> HIDE DEF after, rest
    <3> QED
      BY <2>1
  <2>3. Get(p, Found(c.sid), next)
    BY <1>10 DEF FetchItems
  <2> HIDE DEF next
  <2> QED
    BY <2>2, <2>3, GetTyped
<1>11. CASE DeleteItem(p)
  <2> DEFINE after(v) == [c EXCEPT !.page = @ \ {v},
                                   !.pc = IF c.page # {v} THEN "delete"
                                          ELSE IF c.more THEN "items" ELSE "verify"]
  <2>1. PICK v \in c.page :
          Send(p, state[c.sid] = Draft /\ v \in items[c.sid], Detach(c.sid, v), {after(v)}, Failed)
    BY <1>11 DEF DeleteItem
  <2>2. WellFormed(p, after(v))
    BY <1>0, <1>11 DEF DeleteItem, WellFormed, Calls, PCs
  <2>3. calls' = calls /\ (UNCHANGED service \/ Detach(c.sid, v))
    BY <2>1 DEF Send
  <2>4. ServiceTyped'
    BY <1>0, <2>3, DetachTyped, IdleServiceTyped
  <2>5. Goto(p, {after(v)}) \/ Goto(p, Failed)
    BY <2>1 DEF Send
  <2> HIDE DEF after
  <2> QED
    BY <2>2, <2>3, <2>4, <2>5, FailedMoves DEF StepTyped, Goto, Moves
<1>12. CASE VerifyDiscarded(p)
  <2> DEFINE b == [c EXCEPT !.stuck = @ \/ state[c.sid] = Draft]
  <2>1. WellFormed(p, b) /\ b.op # "submit" /\ b.pc # "idle"
    <3>1. (c.stuck \/ state[c.sid] = Draft) \in BOOLEAN
      OBVIOUS
    <3>2. PICK x \in BOOLEAN : b = [c EXCEPT !.stuck = x]
      BY <3>1, Zenon
    <3> HIDE DEF b
    <3> QED
      BY <1>0, <1>12, <3>2 DEF VerifyDiscarded, WellFormed, Calls
  <2>2. Get(p, TRUE, Proceed(b))
    BY <1>12 DEF VerifyDiscarded
  <2> HIDE DEF b
  <2>3. \A d \in Proceed(b) : WellFormed(p, d)
    BY <2>1, ProceedGoesOn
  <2> QED
    BY <2>2, <2>3, GetTyped
<1> QED
  BY <1>1, <1>2, <1>3, <1>4, <1>5, <1>6, <1>7, <1>8, <1>9, <1>10, <1>11, <1>12 DEF Respond

\* A call starts with well-formed locals, nothing listed yet, and with a lookup,
\* a read or the mark of a resubmission.
FirstRequest(d) ==
  /\ d.todo = {}
  /\ \/ d.pc = "list" /\ d.op \in {"submit", "cancelReview", "cancelSubmission"}
     \/ d.pc = "read" /\ d.op = "discard"
     \/ d.pc = "mark" /\ d.op = "resubmit"

Begins(p, d) == Begin(p, d) /\ WellFormed(p, d) /\ FirstRequest(d)

LEMMA StartsWell == ASSUME NEW p \in Procs, Start(p) PROVE \E d : Begins(p, d)
<1> DEFINE new == Returned("none")
<1>1. ASSUME NEW v \in Versions, Begin(p, [new EXCEPT !.op = "submit", !.pc = "list", !.ver = v])
      PROVE  \E d : Begins(p, d)
  <2> DEFINE d == [new EXCEPT !.op = "submit", !.pc = "list", !.ver = v]
  <2>1. d.op \in OpsOf[p]
    BY <1>1 DEF Begin
  <2>2. WellFormed(p, d) /\ FirstRequest(d)
    BY <2>1 DEF WellFormed, FirstRequest, Returned, Calls, PCs, OpNames, Results
  <2> QED
    BY <1>1, <2>2 DEF Begins
<1>2. ASSUME NEW o \in {"cancelReview", "cancelSubmission"}, Begin(p, [new EXCEPT !.op = o, !.pc = "list"])
      PROVE  \E d : Begins(p, d)
  <2> DEFINE d == [new EXCEPT !.op = o, !.pc = "list"]
  <2>1. d.op \in OpsOf[p]
    BY <1>2 DEF Begin
  <2>2. WellFormed(p, d) /\ FirstRequest(d)
    BY <2>1 DEF WellFormed, FirstRequest, Returned, Calls, PCs, OpNames, Results
  <2> QED
    BY <1>2, <2>2 DEF Begins
<1>3. ASSUME NEW s \in Subs, Begin(p, [new EXCEPT !.op = "discard", !.pc = "read", !.sid = s])
      PROVE  \E d : Begins(p, d)
  <2> DEFINE d == [new EXCEPT !.op = "discard", !.pc = "read", !.sid = s]
  <2>1. d.op \in OpsOf[p]
    BY <1>3 DEF Begin
  <2>2. WellFormed(p, d) /\ FirstRequest(d)
    BY <2>1 DEF WellFormed, FirstRequest, Returned, Calls, PCs, OpNames, Results
  <2> QED
    BY <1>3, <2>2 DEF Begins
<1>4. ASSUME NEW s \in Subs, Begin(p, [new EXCEPT !.op = "resubmit", !.pc = "mark", !.sid = s])
      PROVE  \E d : Begins(p, d)
  <2> DEFINE d == [new EXCEPT !.op = "resubmit", !.pc = "mark", !.sid = s]
  <2>1. d.op \in OpsOf[p]
    BY <1>4 DEF Begin
  <2>2. WellFormed(p, d) /\ FirstRequest(d)
    BY <2>1 DEF WellFormed, FirstRequest, Returned, Calls, PCs, OpNames, Results
  <2> QED
    BY <1>4, <2>2 DEF Begins
<1> HIDE DEF new
<1> QED
  BY <1>1, <1>2, <1>3, <1>4 DEF Start, new

\* Typed is inductive.
LEMMA TypedInvariant == Spec => []Typed
<1>1. Init => Typed
  <2> SUFFICES ASSUME Init PROVE Typed
    OBVIOUS
  <2>1. ServiceTyped
    BY DEF Init, ServiceTyped, States, Active, Draft, InFlight
  <2>2. \A p \in Procs : WellFormed(p, call[p])
    BY ReturnedIdle DEF Init, Results
  <2> QED
    BY <2>1, <2>2, BoundAssumption DEF Init, Typed, CallsWellFormed
<1>2. Typed /\ [Next]_vars => Typed'
  <2> SUFFICES ASSUME Typed, [Next]_vars PROVE Typed'
    OBVIOUS
  <2>1. ASSUME NEW p \in Procs, ServiceTyped', calls' \in 0..MaxCalls, NEW d, Moves(p, d)
        PROVE  Typed'
    BY <2>1 DEF Typed, CallsWellFormed, Moves
  <2>2. ASSUME NEW p \in Procs, Start(p) PROVE Typed'
    <3>1. PICK d : Begins(p, d)
      BY <2>2, StartsWell
    <3>2. calls' \in 0..MaxCalls
      BY <3>1, BoundAssumption DEF Begins, Begin, Typed
    <3> QED
      BY <2>1, <3>1, <3>2, IdleServiceTyped DEF Begins, Begin, Moves, Typed
  <2>3. ASSUME NEW p \in Procs, Respond(p) PROVE Typed'
    BY <2>1, <2>3, RespondTyped DEF StepTyped, Typed
  <2>4. ASSUME NEW p \in Procs, Drop(p) PROVE Typed'
    <3>1. \E d : Moves(p, d)
      BY <2>4, ReturnedIdle DEF Drop, Goto, Moves, Results
    <3> QED
      BY <2>1, <2>4, <3>1, IdleServiceTyped DEF Drop, Typed
  <2>5. ASSUME NEW s \in Subs, Review(s) PROVE Typed'
    <3>1. ServiceTyped'
      BY <2>5, MoveToTyped DEF Review, Typed, States, Active, InFlight
    <3> QED
      BY <2>5, <3>1 DEF Review, Typed, CallsWellFormed
  <2>6. ASSUME NEW s \in Subs, RemoveOnWebsite(s) PROVE Typed'
    BY <2>6 DEF RemoveOnWebsite, Typed, CallsWellFormed, ServiceTyped, States
  <2>7. CASE UNCHANGED vars
    BY <2>7, IdleServiceTyped DEF vars, service, Typed, CallsWellFormed
  <2> QED
    BY <2>2, <2>3, <2>4, <2>5, <2>6, <2>7 DEF Next
<1> QED
  BY <1>1, <1>2, PTL DEF Spec

\* Every variable keeps its type.
THEOREM TypeCorrect == Spec => []TypeOK
<1>1. Typed => TypeOK
  BY DEF Typed, ServiceTyped, CallsWellFormed, WellFormed, TypeOK
<1> QED
  BY <1>1, TypedInvariant, PTL

-----------------------------------------------------------------------------
(* What a single submitter sends to review.                                *)

\* submissions that do not exist yet are empty, so that a created one is
UnbornEmpty == \A s \in Unborn : items[s] = {}

IInv == Typed /\ UnbornEmpty /\ ReusedDraftIsOurs

LEMMA GotoLands ==
  ASSUME Typed, NEW p \in Procs, NEW next, Goto(p, next)
  PROVE  call'[p] \in next /\ \A q \in Procs \ {p} : call'[q] = call[q]
BY DEF Typed, CallsWellFormed, Goto

\* A GET after which the call is not about to attach or to mark.
LEMMA GetKeepsIInv ==
  ASSUME IInv, Typed', NEW p \in Procs, NEW found, NEW next, Get(p, found, next),
         \A d \in next : d.pc = "attach" => items[d.sid] = {},
         \A d \in next : d.pc # "mark"
  PROVE  IInv'
<1>1. UNCHANGED service
  BY DEF Get
<1>2. Goto(p, next) \/ Goto(p, Failed)
  BY DEF Get
<1>3. call'[p] \in next \cup Failed /\ \A q \in Procs \ {p} : call'[q] = call[q]
  BY <1>2, GotoLands DEF IInv
<1>4. HoldsOnlyItsVersion(call[p])'
  BY <1>1, <1>3 DEF HoldsOnlyItsVersion, Failed, Returned, service
<1>5. ASSUME NEW q \in Procs \ {p} PROVE HoldsOnlyItsVersion(call[q])'
  BY <1>1, <1>3 DEF IInv, ReusedDraftIsOurs, HoldsOnlyItsVersion, service
<1> QED
  BY <1>1, <1>4, <1>5 DEF IInv, UnbornEmpty, Unborn, ReusedDraftIsOurs, service

\* A request after which p is not about to attach or to mark, and that takes
\* items away from some submissions or from none.
LEMMA ClearingKeepsIInv ==
  ASSUME IInv, Typed', NEW p \in Procs, NEW next, Goto(p, next),
         \A d \in next : d.pc \notin {"attach", "mark"},
         \A s \in Subs : items'[s] \subseteq items[s], Unborn' \subseteq Unborn
  PROVE  IInv'
<1>1. call'[p] \in next /\ \A q \in Procs \ {p} : call'[q] = call[q]
  BY GotoLands DEF IInv
<1>2. HoldsOnlyItsVersion(call[p])'
  BY <1>1 DEF HoldsOnlyItsVersion
<1>3. ASSUME NEW q \in Procs \ {p} PROVE HoldsOnlyItsVersion(call[q])'
  <2>1. HoldsOnlyItsVersion(call[q]) /\ WellFormed(q, call[q])
    BY DEF IInv, ReusedDraftIsOurs, Typed, CallsWellFormed
  <2>2. \A c : HoldsOnlyItsVersion(c) /\ WellFormed(q, c) =>
           /\ c.pc = "attach" => items'[c.sid] = {}
           /\ c.pc = "mark" /\ c.op = "submit" => items'[c.sid] \subseteq {c.ver}
    BY DEF HoldsOnlyItsVersion, WellFormed
  <2> QED
    BY <1>1, <2>1, <2>2 DEF HoldsOnlyItsVersion
<1>4. UnbornEmpty'
  BY DEF IInv, UnbornEmpty, Unborn
<1> QED
  BY <1>2, <1>3, <1>4 DEF IInv, ReusedDraftIsOurs

\* Where the loops lead, as far as IInv is concerned.
LEMMA LoopsLead ==
  ASSUME NEW c
  PROVE  /\ \A d \in Probing(c) : d.pc \in {"probe", "create"} \/ c \notin Calls
         /\ \A d \in Proceed(c) : d.pc \in {"idle", "cancel", "items"} \/ c \notin Calls
<1>1. ASSUME NEW d \in Probing(c), c \in Calls PROVE d.pc \in {"probe", "create"}
  BY <1>1 DEF Probing, Calls
<1>2. ASSUME NEW d \in Proceed(c), c \in Calls PROVE d.pc \in {"idle", "cancel", "items"}
  <2>1. CASE c.todo = {}
    BY <2>1, <1>2 DEF Proceed, Returned
  <2>2. CASE c.todo # {}
    <3>1. PICK e \in c.todo : d = Dispatch([c EXCEPT !.todo = @ \ {e}], e.sub, e.st)
      BY <2>2, <1>2 DEF Proceed
    <3> QED
      BY <3>1, <1>2 DEF Dispatch, Calls
  <2> QED
    BY <2>1, <2>2
<1> QED
  BY <1>1, <1>2

LEMMA ListDraftsLeads ==
  ASSUME Typed, NEW p \in Procs, call[p] \in Calls, ListDrafts(p)
  PROVE  \E next : Get(p, TRUE, next) /\ \A d \in next : d.pc \in {"probe", "create"}
<1> DEFINE c == call[p]
           next == UNION {Probing([c EXCEPT !.todo = pg]) : pg \in Listing({Draft})}
<1>1. ASSUME NEW d \in next PROVE d.pc \in {"probe", "create"}
  <2>1. PICK pg \in Listing({Draft}) : d \in Probing([c EXCEPT !.todo = pg])
    OBVIOUS
  <2>2. pg \subseteq Snapshots
    BY ListingPart DEF Active
  <2>3. [c EXCEPT !.todo = pg] \in Calls
    BY <2>2 DEF Calls
  <2> QED
    BY <2>1, <2>3, LoopsLead
<1>2. Get(p, TRUE, next)
  BY DEF ListDrafts
<1> HIDE DEF next
<1> QED
  BY <1>1, <1>2

LEMMA ProbeDraftLeads ==
  ASSUME NEW p \in Procs, call[p] \in Calls, ProbeDraft(p)
  PROVE  \E next : /\ Get(p, Found(call[p].sid), next)
                   /\ \A d \in next : /\ d.pc \in {"probe", "create", "attach"}
                                      /\ d.pc = "attach" => items[d.sid] = {}
<1> DEFINE c == call[p]
           next == IF items[c.sid] = {} THEN {[c EXCEPT !.pc = "attach", !.todo = {}]}
                   ELSE Probing(c)
<1>1. ASSUME NEW d \in next
      PROVE  d.pc \in {"probe", "create", "attach"} /\ (d.pc = "attach" => items[d.sid] = {})
  <2>1. CASE items[c.sid] = {}
    BY <2>1 DEF Calls
  <2>2. CASE items[c.sid] # {}
    BY <2>2, LoopsLead
  <2> QED
    BY <2>1, <2>2
<1>2. Get(p, Found(c.sid), next)
  BY DEF ProbeDraft
<1> HIDE DEF next
<1> QED
  BY <1>1, <1>2

\* A POST or PATCH that moves one existing submission to another state.
LEMMA MovedOn ==
  ASSUME Typed, NEW s, NEW st \in States \ {"Unborn"}, UNCHANGED service \/ MoveTo(s, st)
  PROVE  Unborn' \subseteq Unborn /\ \A t \in Subs : items'[t] \subseteq items[t]
BY DEF Typed, ServiceTyped, MoveTo, Unborn, service

\* An exchange of cancel_review, cancel_submission or discard_review_submission
\* leads to another one of theirs or ends the call, and attaches nothing.
ClearingStep(p) ==
  \/ ListToCancelFirst(p) \/ ListToCancel(p) \/ ReadSubmission(p)
  \/ CancelInFlight(p) \/ FetchItems(p) \/ DeleteItem(p) \/ VerifyDiscarded(p)

ClearingPCs == {"idle", "cancel", "items", "delete", "verify"}

LEMMA GetLeads ==
  ASSUME Typed, NEW p \in Procs, NEW found, NEW next, Get(p, found, next),
         \A d \in next : d.pc \in ClearingPCs
  PROVE  /\ call'[p].pc \in ClearingPCs
         /\ Unborn' \subseteq Unborn /\ \A t \in Subs : items'[t] \subseteq items[t]
<1>1. call'[p] \in next \/ call'[p] \in Failed
  BY GotoLands DEF Get
<1>2. UNCHANGED service
  BY DEF Get
<1> QED
  BY <1>1, <1>2 DEF Failed, Returned, ClearingPCs, Unborn, service

LEMMA ClearingLeads ==
  ASSUME Typed, NEW p \in Procs, ClearingStep(p)
  PROVE  /\ call'[p].pc \in ClearingPCs
         /\ Unborn' \subseteq Unborn /\ \A t \in Subs : items'[t] \subseteq items[t]
<1> DEFINE c == call[p]
<1> USE DEF ClearingPCs
<1>0. Typed /\ c \in Calls /\ WellFormed(p, c)
  BY DEF Typed, CallsWellFormed, WellFormed
<1>1. CASE ListToCancelFirst(p)
  <2> DEFINE listed == Listing({"WAITING_FOR_REVIEW", "IN_REVIEW"})
             first(pg) == IF pg = {} THEN {Returned("Ok")}
                          ELSE {[c EXCEPT !.pc = "cancel", !.sid = e.sub] : e \in pg}
             next == UNION {first(pg) : pg \in listed}
  <2>1. ASSUME NEW d \in next PROVE d.pc \in {"idle", "cancel"}
    <3>1. PICK pg \in listed : d \in first(pg)
      OBVIOUS
    <3>2. d = Returned("Ok") \/ \E e \in pg : d = [c EXCEPT !.pc = "cancel", !.sid = e.sub]
      BY <3>1
    <3>3. Returned("Ok").pc = "idle" /\ \A e : [c EXCEPT !.pc = "cancel", !.sid = e.sub].pc = "cancel"
      BY <1>0 DEF Returned, Calls
    <3> QED
      BY <3>2, <3>3
  <2>2. Get(p, TRUE, next)
    BY <1>1 DEF ListToCancelFirst
  <2> HIDE DEF next
  <2> QED
    BY <2>1, <2>2, GetLeads
<1>2. CASE ListToCancel(p)
  <2> DEFINE next == UNION {Proceed([c EXCEPT !.todo = pg]) : pg \in Listing(Active)}
  <2>1. ASSUME NEW d \in next PROVE d.pc \in {"idle", "cancel", "items"}
    <3>1. PICK pg \in Listing(Active) : d \in Proceed([c EXCEPT !.todo = pg])
      OBVIOUS
    <3>2. pg \subseteq Snapshots
      BY <1>0, ListingPart
    <3>3. [c EXCEPT !.todo = pg] \in Calls
      BY <1>0, <3>2 DEF Calls
    <3> QED
      BY <3>1, <3>3, LoopsLead
  <2>2. Get(p, TRUE, next)
    BY <1>2 DEF ListToCancel
  <2> HIDE DEF next
  <2> QED
    BY <2>1, <2>2, GetLeads
<1>3. CASE ReadSubmission(p)
  <2> DEFINE next == IF state[c.sid] \in Active THEN {Dispatch(c, c.sid, state[c.sid])}
                     ELSE {Returned("Ok")}
  <2>1. ASSUME NEW d \in next PROVE d.pc \in {"idle", "cancel", "items"}
    <3>1. d \in {Returned("Ok"), [c EXCEPT !.pc = "cancel", !.sid = c.sid],
                 [c EXCEPT !.pc = "items", !.sid = c.sid, !.seen = {}]}
      BY DEF Dispatch
    <3>2. /\ Returned("Ok").pc = "idle"
          /\ [c EXCEPT !.pc = "cancel", !.sid = c.sid].pc = "cancel"
          /\ [c EXCEPT !.pc = "items", !.sid = c.sid, !.seen = {}].pc = "items"
      BY <1>0 DEF Returned, Calls
    <3> QED
      BY <3>1, <3>2
  <2>2. Get(p, TRUE, next)
    BY <1>3 DEF ReadSubmission
  <2> HIDE DEF next
  <2> QED
    BY <2>1, <2>2, GetLeads
<1>4. CASE CancelInFlight(p)
  <2> DEFINE next == Proceed(c) \cup Failed
  <2>1. Goto(p, next)
    BY <1>4 DEF CancelInFlight, Send, Goto
  <2>2. \A d \in next : d.pc \in {"idle", "cancel", "items"}
    BY <1>0, LoopsLead DEF Failed, Returned
  <2>3. Unborn' \subseteq Unborn /\ \A t \in Subs : items'[t] \subseteq items[t]
    BY <1>0, <1>4, MovedOn DEF CancelInFlight, Send, States
  <2> HIDE DEF next
  <2> QED
    BY <2>1, <2>2, <2>3, GotoLands
<1>5. CASE FetchItems(p)
  <2> DEFINE rest == items[c.sid] \ c.seen
             after(pg) == [c EXCEPT !.pc = IF pg = {} THEN "verify" ELSE "delete",
                                    !.page = pg, !.seen = @ \cup pg, !.more = (pg # rest)]
             next == {after(pg) : pg \in Page(rest, ItemPageSize)}
  <2>1. \A pg : after(pg).pc \in {"verify", "delete"}
    BY <1>0 DEF Calls
  <2>2. \A d \in next : d.pc \in {"verify", "delete"}
    <3> HIDE DEF after
    <3> QED
      BY <2>1
  <2>3. Get(p, Found(c.sid), next)
    BY <1>5 DEF FetchItems
  <2> HIDE DEF next
  <2> QED
    BY <2>2, <2>3, GetLeads
<1>6. CASE DeleteItem(p)
  <2> DEFINE after(v) == [c EXCEPT !.page = @ \ {v},
                                   !.pc = IF c.page # {v} THEN "delete"
                                          ELSE IF c.more THEN "items" ELSE "verify"]
  <2>1. PICK v \in c.page :
          Send(p, state[c.sid] = Draft /\ v \in items[c.sid], Detach(c.sid, v), {after(v)}, Failed)
    BY <1>6 DEF DeleteItem
  <2>2. Goto(p, {after(v)} \cup Failed)
    <3> HIDE DEF after
    <3> QED
      BY <2>1 DEF Send, Goto
  <2>3. \A d \in {after(v)} \cup Failed : d.pc \in {"idle", "delete", "items", "verify"}
    <3>1. after(v).pc \in {"delete", "items", "verify"}
      <4> DEFINE z == IF c.page # {v} THEN "delete" ELSE IF c.more THEN "items" ELSE "verify"
      <4>1. z \in {"delete", "items", "verify"}
        OBVIOUS
      <4> HIDE DEF z
      <4>2. [c EXCEPT !.page = @ \ {v}, !.pc = z].pc = z
        BY <1>0 DEF Calls
      <4> QED
        BY <4>1, <4>2 DEF z
    <3> HIDE DEF after
    <3> QED
      BY <3>1 DEF Failed, Returned
  <2>4. UNCHANGED service \/ Detach(c.sid, v)
    BY <2>1 DEF Send
  <2>5. Unborn' \subseteq Unborn /\ \A t \in Subs : items'[t] \subseteq items[t]
    BY <1>0, <2>4 DEF Detach, service, Unborn, Draft, Typed, ServiceTyped
  <2> HIDE DEF after
  <2> QED
    BY <2>2, <2>3, <2>5, GotoLands
<1>7. CASE VerifyDiscarded(p)
  <2> DEFINE b == [c EXCEPT !.stuck = @ \/ state[c.sid] = Draft]
  <2>1. b \in Calls
    <3>1. PICK x \in BOOLEAN : b = [c EXCEPT !.stuck = x]
      OBVIOUS
    <3> HIDE DEF b
    <3> QED
      BY <1>0, <3>1 DEF Calls
  <2>2. Get(p, TRUE, Proceed(b))
    BY <1>7 DEF VerifyDiscarded
  <2> HIDE DEF b
  <2>3. \A d \in Proceed(b) : d.pc \in {"idle", "cancel", "items"}
    BY <2>1, LoopsLead
  <2> QED
    BY <2>2, <2>3, GetLeads
<1> QED
  BY <1>1, <1>2, <1>3, <1>4, <1>5, <1>6, <1>7 DEF ClearingStep

\* Every exchange of a call preserves IInv.
LEMMA RespondKeepsIInv ==
  ASSUME SingleSubmitter, IInv, Typed', NEW p \in Procs, Respond(p)
  PROVE  IInv'
<1> DEFINE c == call[p]
<1>0. Typed /\ c \in Calls /\ WellFormed(p, c)
  BY DEF IInv, Typed, CallsWellFormed, WellFormed
<1>1. CASE ListDrafts(p)
  BY <1>0, <1>1, ListDraftsLeads, GetKeepsIInv
<1>2. CASE ProbeDraft(p)
  <2>1. PICK next : /\ Get(p, Found(c.sid), next)
                    /\ \A d \in next : /\ d.pc \in {"probe", "create", "attach"}
                                       /\ d.pc = "attach" => items[d.sid] = {}
    BY <1>0, <1>2, ProbeDraftLeads
  <2> QED
    BY <2>1, GetKeepsIInv
<1>3. CASE CreateSubmission(p)
  <2>1. CASE Goto(p, Failed) /\ (UNCHANGED service \/ \E s \in Unborn : MoveTo(s, Draft))
    <3>1. Unborn' \subseteq Unborn /\ \A t \in Subs : items'[t] \subseteq items[t]
      BY <1>0, <2>1, MovedOn DEF States, Active, Draft
    <3> QED
      BY <2>1, <3>1, ClearingKeepsIInv DEF Failed, Returned
  <2>2. ASSUME NEW s \in Unborn, MoveTo(s, Draft),
               Goto(p, {[c EXCEPT !.pc = "attach", !.sid = s, !.fresh = TRUE]})
        PROVE  IInv'
    <3>1. items' = items /\ Unborn' \subseteq Unborn
      BY <1>0, <2>2, MovedOn DEF MoveTo, States, Active, Draft
    <3>2. call'[p] = [c EXCEPT !.pc = "attach", !.sid = s, !.fresh = TRUE]
          /\ \A q \in Procs \ {p} : call'[q] = call[q]
      BY <1>0, <2>2, GotoLands
    <3>3. HoldsOnlyItsVersion(call[p])'
      BY <1>0, <3>1, <3>2 DEF HoldsOnlyItsVersion, Calls, IInv, UnbornEmpty
    <3> QED
      BY <3>1, <3>2, <3>3 DEF IInv, UnbornEmpty, ReusedDraftIsOurs, HoldsOnlyItsVersion
  <2> QED
    BY <1>3, <2>1, <2>2 DEF CreateSubmission, Send
<1>4. CASE AttachVersion(p)
  <2>1. c.op = "submit" /\ c.sid \in Subs /\ c.ver \in Versions /\ "submit" \in OpsOf[p]
    BY <1>0, <1>4 DEF AttachVersion, WellFormed
  <2>2. items[c.sid] = {}
    BY <1>4 DEF AttachVersion, IInv, ReusedDraftIsOurs, HoldsOnlyItsVersion
  <2>3. ASSUME NEW q \in Procs \ {p}
        PROVE  call[q].pc # "attach" /\ ~(call[q].pc = "mark" /\ call[q].op = "submit")
    BY <1>0, <2>1, <2>3 DEF SingleSubmitter, Typed, CallsWellFormed, WellFormed
  <2>4. call'[p] \in {[c EXCEPT !.pc = "mark"]} \cup GiveUp(c)
        /\ \A q \in Procs \ {p} : call'[q] = call[q]
    BY <1>0, <1>4, GotoLands DEF AttachVersion, Send
  <2>5. state' = state /\ (items' = items \/
          (state[c.sid] = Draft /\ items' = [items EXCEPT ![c.sid] = @ \cup {c.ver}]))
    BY <1>4 DEF AttachVersion, Send, service
  <2>6. HoldsOnlyItsVersion(call[p])'
    <3>1. CASE call'[p] = [c EXCEPT !.pc = "mark"]
      BY <1>0, <2>1, <2>2, <2>5, <3>1 DEF HoldsOnlyItsVersion, Calls, Typed, ServiceTyped
    <3>2. CASE call'[p] \in GiveUp(c)
      BY <1>0, <3>2 DEF GiveUp, Failed, Returned, HoldsOnlyItsVersion, Calls
    <3> QED
      BY <2>4, <3>1, <3>2
  <2>7. UnbornEmpty'
    BY <1>0, <2>1, <2>5 DEF IInv, UnbornEmpty, Unborn, Draft, Typed, ServiceTyped
  <2> QED
    BY <2>3, <2>4, <2>6, <2>7 DEF IInv, ReusedDraftIsOurs, HoldsOnlyItsVersion
<1>5. CASE MarkSubmitted(p)
  <2> DEFINE next == {Returned("Ok")} \cup GiveUp(c)
  <2>1. Goto(p, next)
    BY <1>5 DEF MarkSubmitted, Send, Goto
  <2>2. \A d \in next : d.pc \notin {"attach", "mark"}
    BY <1>0 DEF GiveUp, Failed, Returned, Calls
  <2>3. Unborn' \subseteq Unborn /\ \A t \in Subs : items'[t] \subseteq items[t]
    BY <1>0, <1>5, MovedOn DEF MarkSubmitted, Send, States, Active, InFlight
  <2> HIDE DEF next
  <2> QED
    BY <2>1, <2>2, <2>3, ClearingKeepsIInv
<1>6. CASE ClearingStep(p)
  <2>1. PICK d : call' = [call EXCEPT ![p] = d]
    BY <1>0, RespondTyped DEF StepTyped, Moves
  <2>2. d.pc \in ClearingPCs
    BY <1>0, <1>6, <2>1, ClearingLeads DEF Typed, CallsWellFormed
  <2>3. Goto(p, {d}) /\ \A e \in {d} : e.pc \notin {"attach", "mark"}
    BY <2>1, <2>2 DEF Goto, ClearingPCs
  <2>4. Unborn' \subseteq Unborn /\ \A t \in Subs : items'[t] \subseteq items[t]
    BY <1>0, <1>6, ClearingLeads
  <2> QED
    BY <2>3, <2>4, ClearingKeepsIInv
<1> QED
  BY <1>1, <1>2, <1>3, <1>4, <1>5, <1>6 DEF Respond, ClearingStep

LEMMA IInvInvariant == ASSUME SingleSubmitter PROVE Spec => []IInv
<1>1. Init => UnbornEmpty /\ ReusedDraftIsOurs
  BY DEF Init, UnbornEmpty, Unborn, ReusedDraftIsOurs, HoldsOnlyItsVersion, Returned
<1>2. IInv /\ Typed' /\ [Next]_vars => IInv'
  <2> SUFFICES ASSUME IInv, Typed', [Next]_vars PROVE IInv'
    OBVIOUS
  <2>0. Typed
    BY DEF IInv
  <2>1. ASSUME NEW p \in Procs, Start(p) PROVE IInv'
    <3>1. PICK d : Begin(p, d) /\ d.pc # "attach" /\ ~(d.pc = "mark" /\ d.op = "submit")
      BY <2>1, StartsWell DEF Begins, FirstRequest
    <3>2. call'[p] = d /\ \A q \in Procs \ {p} : call'[q] = call[q]
      BY <2>0, <3>1 DEF Begin, Typed, CallsWellFormed
    <3>3. UNCHANGED service
      BY <3>1 DEF Begin
    <3> QED
      BY <3>1, <3>2, <3>3
      DEF IInv, UnbornEmpty, Unborn, ReusedDraftIsOurs, HoldsOnlyItsVersion, service
  <2>2. ASSUME NEW p \in Procs, Respond(p) PROVE IInv'
    BY <2>2, RespondKeepsIInv
  <2>3. ASSUME NEW p \in Procs, Drop(p) PROVE IInv'
    <3>1. Goto(p, {Returned("Dropped")}) /\ UNCHANGED service
      BY <2>3 DEF Drop
    <3>2. \A s \in Subs : items'[s] \subseteq items[s]
      BY <3>1 DEF service
    <3>3. Unborn' \subseteq Unborn
      BY <3>1 DEF service, Unborn
    <3> QED
      BY <3>1, <3>2, <3>3, ClearingKeepsIInv DEF Returned
  <2>4. ASSUME NEW s \in Subs, Review(s) PROVE IInv'
    <3>1. call' = call /\ \E st \in States \ {"Unborn"} : MoveTo(s, st)
      BY <2>4 DEF Review, States, Active, InFlight
    <3>2. items' = items /\ Unborn' \subseteq Unborn
      BY <2>0, <3>1, MovedOn DEF MoveTo
    <3> QED
      BY <3>1, <3>2 DEF IInv, UnbornEmpty, ReusedDraftIsOurs, HoldsOnlyItsVersion
  <2>5. ASSUME NEW s \in Subs, RemoveOnWebsite(s) PROVE IInv'
    <3>1. call' = call /\ Unborn' \subseteq Unborn /\ \A t \in Subs : items'[t] \subseteq items[t]
      BY <2>0, <2>5 DEF RemoveOnWebsite, Unborn, Typed, ServiceTyped
    <3>2. ASSUME NEW q \in Procs PROVE HoldsOnlyItsVersion(call[q])'
      BY <2>0, <3>1 DEF HoldsOnlyItsVersion, IInv, ReusedDraftIsOurs, Typed, CallsWellFormed, WellFormed
    <3> QED
      BY <3>1, <3>2 DEF IInv, UnbornEmpty, Unborn, ReusedDraftIsOurs
  <2>6. CASE UNCHANGED vars
    BY <2>6 DEF vars, IInv, UnbornEmpty, Unborn, ReusedDraftIsOurs, HoldsOnlyItsVersion
  <2> QED
    BY <2>1, <2>2, <2>3, <2>4, <2>5, <2>6 DEF Next
<1> QED
  BY <1>1, <1>2, TypedInvariant, PTL DEF Spec, IInv

\* Between finding a draft empty and marking it submitted, a single submitter
\* can rely on nobody else's version getting into it.
THEOREM DraftStaysOurs == ASSUME SingleSubmitter PROVE Spec => []ReusedDraftIsOurs
<1>1. IInv => ReusedDraftIsOurs
  BY DEF IInv
<1> QED
  BY <1>1, IInvInvariant, PTL

-----------------------------------------------------------------------------
(* Which steps end a call with a verdict.                                  *)

\* Only an answer ends a call with a verdict.
LEMMA AnswerResponds ==
  ASSUME Typed, Typed', Next, NEW p \in Procs, call[p].pc # "idle",
         call'[p].result \in {"Ok", "NotRemovable"}
  PROVE  Respond(p)
<1>1. WellFormed(p, call[p]) /\ WellFormed(p, call'[p])
  BY DEF Typed, CallsWellFormed
<1>2. call[p].result = "none" /\ call'[p] # call[p]
  BY <1>1 DEF WellFormed
<1>3. PICK q \in Procs : Start(q) \/ Respond(q) \/ Drop(q)
  BY <1>2 DEF Next, Review, RemoveOnWebsite
<1>4. \E d : call' = [call EXCEPT ![q] = d]
  BY <1>3, RespondTyped DEF Start, Begin, Drop, Goto, StepTyped, Moves
<1>5. q = p
  BY <1>2, <1>4 DEF Typed, CallsWellFormed
<1>6. ~Start(p)
  BY StartsWell DEF Begins, Begin
<1>7. ~Drop(p)
  BY GotoLands DEF Drop, Returned
<1> QED
  BY <1>3, <1>5, <1>6, <1>7

\* A submit_for_review returns Ok in the step that marks its draft submitted.
LEMMA SubmittedByMark ==
  ASSUME Typed, Typed', Next, NEW p \in Procs, Submits(p, "Ok")
  PROVE  /\ call[p].pc = "mark" /\ WellFormed(p, call[p])
         /\ CanMark(call[p].sid) /\ MoveTo(call[p].sid, "WAITING_FOR_REVIEW")
<1> DEFINE c == call[p]
<1>1. /\ WellFormed(p, c) /\ c \in Calls
      /\ c.op = "submit" /\ c.pc # "idle" /\ c.result = "none"
  BY DEF Typed, CallsWellFormed, WellFormed, Submits
<1>2. call'[p].result = "Ok" /\ WellFormed(p, call'[p])
  BY DEF Submits, Typed, CallsWellFormed
<1>3. call'[p].pc = "idle" /\ Respond(p)
  BY <1>1, <1>2, AnswerResponds DEF WellFormed
<1>4. ASSUME NEW found, NEW next, Get(p, found, next), \A d \in next : d.pc # "idle"
      PROVE  FALSE
  BY <1>2, <1>3, <1>4, GotoLands DEF Get, Failed, Returned
<1>5. ~ListDrafts(p) /\ ~ProbeDraft(p)
  BY <1>1, <1>4, ListDraftsLeads, ProbeDraftLeads
<1>6. ~CreateSubmission(p)
  <2> SUFFICES ASSUME CreateSubmission(p) PROVE FALSE
    OBVIOUS
  <2> DEFINE after(s) == [c EXCEPT !.pc = "attach", !.sid = s, !.fresh = TRUE]
  <2>1. Goto(p, Failed) \/ \E s \in Unborn : Goto(p, {after(s)})
    BY DEF CreateSubmission, Send
  <2>2. \A s : after(s).result # "Ok"
    BY <1>1 DEF Calls
  <2>3. \A d \in Failed : d.result # "Ok"
    BY DEF Failed, Returned
  <2> HIDE DEF after
  <2>4. call'[p] \in Failed \/ \E s \in Unborn : call'[p] \in {after(s)}
    BY <2>1, GotoLands
  <2> QED
    BY <1>2, <2>2, <2>3, <2>4
<1>7. \A d \in GiveUp(c) : d.result # "Ok"
  BY <1>1 DEF GiveUp, Failed, Returned, Calls
<1>8. ~AttachVersion(p)
  <2> SUFFICES ASSUME AttachVersion(p) PROVE FALSE
    OBVIOUS
  <2> DEFINE marking == [c EXCEPT !.pc = "mark"]
  <2>1. Goto(p, {marking}) \/ Goto(p, GiveUp(c))
    BY DEF AttachVersion, Send
  <2>2. marking.result # "Ok"
    BY <1>1 DEF Calls
  <2> HIDE DEF marking
  <2> QED
    BY <1>2, <1>7, <2>1, <2>2, GotoLands
<1>9. MarkSubmitted(p)
  BY <1>1, <1>3, <1>5, <1>6, <1>8
  DEF Respond, ListToCancelFirst, ListToCancel, ReadSubmission, CancelInFlight,
      FetchItems, DeleteItem, VerifyDiscarded, WellFormed
<1>10. ~Goto(p, GiveUp(c))
  BY <1>2, <1>7, GotoLands
<1> QED
  BY <1>1, <1>9, <1>10 DEF MarkSubmitted, Send

\* What submit_for_review reports as submitted is in review with its version
\* and no other, whatever the other callers, the reviewers, the website and
\* the network do.
THEOREM SubmitIsExact == ASSUME SingleSubmitter PROVE Spec => SubmitSendsExactlyItsVersion
<1>1. ASSUME IInv, Typed', Next, NEW p \in Procs, Submits(p, "Ok")
      PROVE  /\ state[call[p].sid] = Draft
             /\ state'[call[p].sid] = "WAITING_FOR_REVIEW"
             /\ items'[call[p].sid] = {call[p].ver}
  <2> DEFINE c == call[p]
  <2>1. /\ c.op = "submit" /\ c.pc = "mark" /\ WellFormed(p, c)
        /\ CanMark(c.sid) /\ MoveTo(c.sid, "WAITING_FOR_REVIEW")
    BY <1>1, SubmittedByMark DEF IInv, Submits
  <2>2. items[c.sid] \subseteq {c.ver} /\ c.sid \in Subs
    BY <1>1, <2>1 DEF IInv, ReusedDraftIsOurs, HoldsOnlyItsVersion, WellFormed
  <2> QED
    BY <1>1, <2>1, <2>2 DEF CanMark, MoveTo, IInv, Typed, ServiceTyped
<1>2. IInv /\ Typed' /\ [Next]_vars =>
        [\A p \in Procs : Submits(p, "Ok") =>
           LET s == call[p].sid IN
           state[s] = Draft /\ state'[s] = "WAITING_FOR_REVIEW" /\ items'[s] = {call[p].ver}]_vars
  BY <1>1
<1> QED
  BY <1>2, IInvInvariant, TypedInvariant, PTL DEF Spec, SubmitSendsExactlyItsVersion

-----------------------------------------------------------------------------
(* What a call goes through, whatever the others do.                       *)

\* A call goes on with what it was asked, or is answered.
GoesOn(c, d) ==
  \/ d.op = c.op /\ d.ver = c.ver
  \/ d = Returned("Ok") \/ d = Returned("Err")
  \/ c.op # "submit" /\ d = Returned("NotRemovable")

LEMMA LoopsGoOn ==
  ASSUME NEW b \in Calls
  PROVE  /\ \A d \in Probing(b) : d.op = b.op /\ d.ver = b.ver
         /\ \A d \in GiveUp(b) : GoesOn(b, d)
         /\ \A s, st : Dispatch(b, s, st).op = b.op /\ Dispatch(b, s, st).ver = b.ver
         /\ b.op # "submit" => \A d \in Proceed(b) : GoesOn(b, d)
<1>1. \A d \in Probing(b) : d.op = b.op /\ d.ver = b.ver
  BY DEF Probing, Calls
<1>2. \A d \in GiveUp(b) : GoesOn(b, d)
  BY DEF GiveUp, Failed, GoesOn, Calls
<1>3. ASSUME NEW c \in Calls, NEW s, NEW st
      PROVE  Dispatch(c, s, st).op = c.op /\ Dispatch(c, s, st).ver = c.ver
  BY DEF Dispatch, Calls
<1>4. ASSUME b.op # "submit", NEW d \in Proceed(b) PROVE GoesOn(b, d)
  <2>1. CASE b.todo = {}
    BY <1>4, <2>1 DEF Proceed, GoesOn
  <2>2. CASE b.todo # {}
    <3>1. PICK e \in b.todo : d = Dispatch([b EXCEPT !.todo = @ \ {e}], e.sub, e.st)
      BY <1>4, <2>2 DEF Proceed
    <3> DEFINE z == [b EXCEPT !.todo = @ \ {e}]
    <3>2. z \in Calls /\ z.op = b.op /\ z.ver = b.ver
      BY DEF Calls
    <3>3. d = Dispatch(z, e.sub, e.st)
      BY <3>1
    <3> HIDE DEF z
    <3> QED
      BY <1>3, <3>2, <3>3 DEF GoesOn
  <2> QED
    BY <2>1, <2>2
<1> QED
  BY <1>1, <1>2, <1>3, <1>4

LEMMA RespondGoesOn ==
  ASSUME Typed, NEW p \in Procs, Respond(p)
  PROVE  GoesOn(call[p], call'[p])
<1> DEFINE c == call[p]
           d == call'[p]
<1>0. c \in Calls /\ WellFormed(p, c)
  BY DEF Typed, CallsWellFormed, WellFormed
<1>1. ASSUME d \in Failed PROVE GoesOn(c, d)
  BY <1>1 DEF Failed, GoesOn
<1>2. ASSUME NEW found, NEW next, Get(p, found, next), \A e \in next : GoesOn(c, e)
      PROVE  GoesOn(c, d)
  BY <1>1, <1>2, GotoLands DEF Get
<1>3. CASE ListDrafts(p)
  <2> DEFINE next == UNION {Probing([c EXCEPT !.todo = pg]) : pg \in Listing({Draft})}
  <2>1. ASSUME NEW e \in next PROVE GoesOn(c, e)
    <3>1. PICK pg \in Listing({Draft}) : e \in Probing([c EXCEPT !.todo = pg])
      OBVIOUS
    <3> DEFINE b == [c EXCEPT !.todo = pg]
    <3>2. pg \subseteq Snapshots
      BY ListingPart DEF Active
    <3>3. b \in Calls /\ b.op = c.op /\ b.ver = c.ver
      BY <1>0, <3>2 DEF Calls
    <3> HIDE DEF b
    <3>4. e.op = b.op /\ e.ver = b.ver
      BY <3>1, <3>3, LoopsGoOn DEF b
    <3> QED
      BY <3>3, <3>4 DEF GoesOn
  <2>2. Get(p, TRUE, next)
    BY <1>3 DEF ListDrafts
  <2> HIDE DEF next
  <2> QED
    BY <1>2, <2>1, <2>2
<1>4. CASE ProbeDraft(p)
  <2> DEFINE attaching == [c EXCEPT !.pc = "attach", !.todo = {}]
  <2>1. attaching.op = c.op /\ attaching.ver = c.ver
    BY <1>0 DEF Calls
  <2>2. d \in Failed \/ d = attaching \/ d \in Probing(c)
    BY <1>4, GotoLands DEF ProbeDraft, Get
  <2> HIDE DEF attaching
  <2> QED
    BY <1>0, <1>1, <2>1, <2>2, LoopsGoOn DEF GoesOn
<1>5. CASE CreateSubmission(p)
  <2> DEFINE after(s) == [c EXCEPT !.pc = "attach", !.sid = s, !.fresh = TRUE]
  <2>1. Goto(p, Failed) \/ \E s \in Unborn : Goto(p, {after(s)})
    BY <1>5 DEF CreateSubmission, Send
  <2>2. \A s : after(s).op = c.op /\ after(s).ver = c.ver
    BY <1>0 DEF Calls
  <2> HIDE DEF after
  <2>3. CASE Goto(p, Failed)
    BY <1>1, <2>3, GotoLands
  <2>4. ASSUME NEW s \in Unborn, Goto(p, {after(s)}) PROVE GoesOn(c, d)
    BY <2>2, <2>4, GotoLands DEF GoesOn
  <2> QED
    BY <2>1, <2>3, <2>4
<1>6. CASE AttachVersion(p)
  <2> DEFINE marking == [c EXCEPT !.pc = "mark"]
  <2>1. Goto(p, {marking}) \/ Goto(p, GiveUp(c))
    BY <1>6 DEF AttachVersion, Send
  <2>2. marking.op = c.op /\ marking.ver = c.ver
    BY <1>0 DEF Calls
  <2> HIDE DEF marking
  <2>3. d = marking \/ d \in GiveUp(c)
    BY <2>1, GotoLands
  <2> QED
    BY <1>0, <2>2, <2>3, LoopsGoOn DEF GoesOn
<1>7. CASE MarkSubmitted(p)
  <2>1. d = Returned("Ok") \/ d \in GiveUp(c)
    BY <1>7, GotoLands DEF MarkSubmitted, Send
  <2> QED
    BY <1>0, <2>1, LoopsGoOn DEF GoesOn
<1>8. CASE ListToCancelFirst(p)
  <2> DEFINE to(e) == [c EXCEPT !.pc = "cancel", !.sid = e.sub]
             first(pg) == IF pg = {} THEN {Returned("Ok")} ELSE {to(e) : e \in pg}
  <2>1. Goto(p, Failed) \/ Goto(p, UNION {first(pg) : pg \in Listing({"WAITING_FOR_REVIEW", "IN_REVIEW"})})
    BY <1>8 DEF ListToCancelFirst, Get
  <2>2. \A e : to(e).op = c.op /\ to(e).ver = c.ver
    BY <1>0 DEF Calls
  <2> HIDE DEF to
  <2>3. d \in Failed \/ d = Returned("Ok") \/ \E e : d = to(e)
    BY <2>1, GotoLands
  <2> QED
    BY <1>1, <2>2, <2>3 DEF GoesOn
<1>9. CASE ListToCancel(p)
  <2> DEFINE next == UNION {Proceed([c EXCEPT !.todo = pg]) : pg \in Listing(Active)}
  <2>1. ASSUME NEW e \in next PROVE GoesOn(c, e)
    <3>1. PICK pg \in Listing(Active) : e \in Proceed([c EXCEPT !.todo = pg])
      OBVIOUS
    <3> DEFINE b == [c EXCEPT !.todo = pg]
    <3>2. pg \subseteq Snapshots
      BY ListingPart
    <3>3. b \in Calls /\ b.op = c.op /\ b.ver = c.ver /\ c.op # "submit"
      BY <1>0, <1>9, <3>2 DEF ListToCancel, Calls
    <3> HIDE DEF b
    <3>4. GoesOn(b, e)
      BY <3>1, <3>3, LoopsGoOn DEF b
    <3> QED
      BY <3>3, <3>4 DEF GoesOn
  <2>2. Get(p, TRUE, next)
    BY <1>9 DEF ListToCancel
  <2> HIDE DEF next
  <2> QED
    BY <1>2, <2>1, <2>2
<1>10. CASE ReadSubmission(p)
  <2>1. d \in Failed \/ d = Returned("Ok") \/ d = Dispatch(c, c.sid, state[c.sid])
    BY <1>10, GotoLands DEF ReadSubmission, Get
  <2> QED
    BY <1>0, <1>1, <2>1, LoopsGoOn DEF GoesOn
<1>11. CASE CancelInFlight(p)
  <2>1. d \in Failed \/ d \in Proceed(c)
    BY <1>11, GotoLands DEF CancelInFlight, Send
  <2>2. c.op # "submit"
    BY <1>0, <1>11 DEF CancelInFlight, WellFormed
  <2> QED
    BY <1>0, <1>1, <2>1, <2>2, LoopsGoOn
<1>12. CASE FetchItems(p)
  <2> DEFINE rest == items[c.sid] \ c.seen
             after(pg) == [c EXCEPT !.pc = IF pg = {} THEN "verify" ELSE "delete",
                                    !.page = pg, !.seen = @ \cup pg, !.more = (pg # rest)]
             next == {after(pg) : pg \in Page(rest, ItemPageSize)}
  <2>1. \A pg : after(pg).op = c.op /\ after(pg).ver = c.ver
    BY <1>0 DEF Calls
  <2>2. Get(p, Found(c.sid), next)
    BY <1>12 DEF FetchItems
  <2> HIDE DEF after
  <2>3. \A e \in next : GoesOn(c, e)
    BY <2>1 DEF GoesOn
  <2> HIDE DEF next
  <2> QED
    BY <1>2, <2>2, <2>3
<1>13. CASE DeleteItem(p)
  <2> DEFINE pcAfter(v) == IF c.page # {v} THEN "delete" ELSE IF c.more THEN "items" ELSE "verify"
             after(v) == [c EXCEPT !.page = @ \ {v}, !.pc = pcAfter(v)]
  <2>1. PICK v \in c.page : Goto(p, Failed) \/ Goto(p, {after(v)})
    BY <1>13 DEF DeleteItem, Send
  <2>2. after(v).op = c.op /\ after(v).ver = c.ver
    <3> HIDE DEF pcAfter
    <3> QED
      BY <1>0 DEF Calls
  <2> HIDE DEF after
  <2>3. d \in Failed \/ d = after(v)
    BY <2>1, GotoLands
  <2> QED
    BY <1>1, <2>2, <2>3 DEF GoesOn
<1>14. CASE VerifyDiscarded(p)
  <2> DEFINE with(x) == [c EXCEPT !.stuck = x]
  <2>1. PICK x \in BOOLEAN : x = (c.stuck \/ state[c.sid] = Draft)
    OBVIOUS
  <2>2. d \in Failed \/ d \in Proceed(with(x))
    BY <1>14, <2>1, GotoLands DEF VerifyDiscarded, Get
  <2>3. /\ with(x) \in Calls /\ with(x).op = c.op /\ with(x).ver = c.ver
        /\ c.op # "submit"
    BY <1>0, <1>14 DEF VerifyDiscarded, WellFormed, Calls
  <2> HIDE DEF with
  <2>4. CASE d \in Proceed(with(x))
    <3>1. GoesOn(with(x), d)
      BY <2>3, <2>4, LoopsGoOn
    <3> QED
      BY <2>3, <3>1 DEF GoesOn
  <2> QED
    BY <1>1, <2>2, <2>4
<1> QED
  BY <1>3, <1>4, <1>5, <1>6, <1>7, <1>8, <1>9, <1>10, <1>11, <1>12, <1>13, <1>14 DEF Respond

ClearsOps == {"discard", "cancelSubmission"}

\* cancel_review cancels one submission and resubmission is one request; nothing
\* else but a submit_for_review sends anything.
Fits(c) ==
  /\ c.op = "cancelReview" => c.pc \in {"list", "cancel"} /\ c.todo = {}
  /\ c.op = "resubmit" => c.pc = "mark"
  /\ c.op \in ClearsOps => c.pc # "mark"

Fitting == \A p \in Procs : Fits(call[p])

LEMMA RespondFits ==
  ASSUME Typed, NEW p \in Procs, Fits(call[p]), Respond(p)
  PROVE  Fits(call'[p])
<1> DEFINE c == call[p]
           d == call'[p]
<1>0. c \in Calls /\ WellFormed(p, c) /\ GoesOn(c, d)
  BY RespondGoesOn DEF Typed, CallsWellFormed, WellFormed
<1>1. CASE d.op # c.op \/ c.op \in {"none", "submit"}
  <2>1. d.op \in {"none", "submit"}
    BY <1>0, <1>1 DEF GoesOn, Returned
  <2> QED
    BY <2>1 DEF Fits, ClearsOps
<1>2. CASE c.op = "resubmit"
  <2>1. MarkSubmitted(p)
    BY <1>2 DEF Fits, Respond, ListDrafts, ProbeDraft, CreateSubmission, AttachVersion,
                ListToCancelFirst, ListToCancel, ReadSubmission, CancelInFlight, FetchItems,
                DeleteItem, VerifyDiscarded
  <2>2. d = Returned("Ok") \/ d \in Failed
    BY <1>2, <2>1, GotoLands DEF MarkSubmitted, Send, GiveUp
  <2> QED
    BY <2>2 DEF Fits, Failed, Returned, ClearsOps
<1>3. CASE c.op = "cancelReview"
  <2> DEFINE to(e) == [c EXCEPT !.pc = "cancel", !.sid = e.sub]
             first(pg) == IF pg = {} THEN {Returned("Ok")} ELSE {to(e) : e \in pg}
  <2>1. \A e : to(e).op = "cancelReview" /\ to(e).pc = "cancel" /\ to(e).todo = {}
    BY <1>0, <1>3 DEF Calls, Fits
  <2>2. ASSUME d \in Failed \/ \E r : d = Returned(r) PROVE Fits(d)
    <3>1. \A r : Returned(r).op = "none"
      BY DEF Returned
    <3>2. d.op = "none"
      BY <2>2, <3>1 DEF Failed
    <3> QED
      BY <3>2 DEF Fits, ClearsOps
  <2>3. CASE ListToCancelFirst(p)
    <3>1. Goto(p, Failed)
            \/ Goto(p, UNION {first(pg) : pg \in Listing({"WAITING_FOR_REVIEW", "IN_REVIEW"})})
      BY <2>3 DEF ListToCancelFirst, Get
    <3> HIDE DEF to
    <3>2. d \in Failed \/ d = Returned("Ok") \/ \E e : d = to(e)
      BY <3>1, GotoLands
    <3> QED
      BY <2>1, <2>2, <3>2 DEF Fits, ClearsOps
  <2>4. CASE CancelInFlight(p)
    <3>1. d \in Failed \/ d \in Proceed(c)
      BY <2>4, GotoLands DEF CancelInFlight, Send
    <3> QED
      BY <1>3, <2>2, <3>1 DEF Fits, Proceed
  <2>5. ListToCancelFirst(p) \/ CancelInFlight(p)
    BY <1>3 DEF Fits, Respond, ListDrafts, ProbeDraft, CreateSubmission, AttachVersion,
                MarkSubmitted, ListToCancel, ReadSubmission, FetchItems, DeleteItem,
                VerifyDiscarded
  <2> QED
    BY <2>3, <2>4, <2>5
<1>4. CASE c.op \in ClearsOps /\ d.op = c.op
  <2>1. ClearingStep(p)
    BY <1>0, <1>4 DEF Fits, ClearsOps, WellFormed, Respond, ClearingStep, ListDrafts, ProbeDraft,
                      CreateSubmission, AttachVersion, MarkSubmitted
  <2>2. d.pc # "mark"
    BY <2>1, ClearingLeads DEF ClearingPCs
  <2> QED
    BY <1>4, <2>2 DEF Fits, ClearsOps
<1>5. c.op \in OpNames \cup {"none"}
  BY <1>0 DEF Calls
<1> QED
  BY <1>1, <1>2, <1>3, <1>4, <1>5 DEF OpNames, ClearsOps

LEMMA FitsInvariant == Spec => []Fitting
<1>1. Init => Fitting
  BY DEF Init, Fitting, Fits, Returned, ClearsOps
<1>2. Typed /\ Fitting /\ [Next]_vars => Fitting'
  <2> SUFFICES ASSUME Typed, Fitting, [Next]_vars PROVE Fitting'
    OBVIOUS
  <2>1. ASSUME NEW p \in Procs, NEW d, call' = [call EXCEPT ![p] = d], Fits(d) PROVE Fitting'
    BY <2>1 DEF Fitting, Typed, CallsWellFormed
  <2>2. ASSUME NEW p \in Procs, Start(p) PROVE Fitting'
    <3>1. PICK d : Begins(p, d)
      BY <2>2, StartsWell
    <3>2. call' = [call EXCEPT ![p] = d] /\ Fits(d)
      BY <3>1 DEF Begins, Begin, FirstRequest, Fits, ClearsOps
    <3> QED
      BY <2>1, <3>2
  <2>3. ASSUME NEW p \in Procs, Respond(p) PROVE Fitting'
    <3>1. PICK d : call' = [call EXCEPT ![p] = d]
      BY <2>3, RespondTyped DEF StepTyped, Moves
    <3>2. call'[p] = d
      BY <3>1 DEF Typed, CallsWellFormed
    <3> QED
      BY <2>1, <2>3, <3>1, <3>2, RespondFits DEF Fitting
  <2>4. ASSUME NEW p \in Procs, Drop(p) PROVE Fitting'
    <3>1. call' = [call EXCEPT ![p] = Returned("Dropped")] /\ Fits(Returned("Dropped"))
      BY <2>4 DEF Drop, Goto, Fits, Returned, ClearsOps
    <3> QED
      BY <2>1, <3>1
  <2>5. CASE call' = call
    BY <2>5 DEF Fitting
  <2> QED
    BY <2>2, <2>3, <2>4, <2>5 DEF Next, Review, RemoveOnWebsite, vars
<1> QED
  BY <1>1, <1>2, TypedInvariant, PTL DEF Spec

-----------------------------------------------------------------------------
(* Several submitters, who may share a reused draft.                       *)

\* nobody takes items out of a draft (cancel_submission, discard)
NobodyClears == \A p \in Procs : OpsOf[p] \cap {"cancelSubmission", "discard"} = {}

\* Where the locals c of a call stand when the service's submissions are in the
\* states st and hold the items it: the draft a submit works on exists, and as
\* long as it is one, it holds the version once that was attached.  A call that
\* is no submit cancels at most what it listed.
OnItsWay(c, st, it) ==
  /\ c.op \notin {"none", "submit"} => c.pc \in {"list", "cancel", "mark"} /\ c.todo = {}
  /\ c.op = "submit" /\ c.pc \in {"attach", "mark"} => st[c.sid] # "Unborn"
  /\ c.op = "submit" /\ c.pc = "mark" /\ st[c.sid] = Draft => c.ver \in it[c.sid]

AttachedInv == Typed /\ \A p \in Procs : OnItsWay(call[p], state, items)

\* A step that takes nothing out of a draft, makes no draft of a submission that
\* exists, and unmakes none.
Keeps ==
  \A s \in Subs : state[s] # "Unborn" =>
    /\ state'[s] # "Unborn"
    /\ state'[s] = Draft => state[s] = Draft /\ items[s] \subseteq items'[s]

LEMMA IdleKeeps == ASSUME Typed, UNCHANGED service PROVE Keeps
BY DEF Keeps, service

LEMMA MoveKeeps ==
  ASSUME Typed, NEW s, NEW st \in States \ {"Unborn"}, MoveTo(s, st),
         st = Draft => s \in Unborn
  PROVE  Keeps
BY DEF Typed, ServiceTyped, Keeps, MoveTo, Unborn

LEMMA WaitingKeepsItsWay ==
  ASSUME NEW q, NEW c, WellFormed(q, c), OnItsWay(c, state, items), Keeps
  PROVE  OnItsWay(c, state', items')
BY DEF WellFormed, OnItsWay, Keeps

\* A call that a step leaves neither attaching nor marking, and without a
\* clearing loop before it.
LEMMA ElsewhereOnItsWay ==
  ASSUME NEW c, NEW st, NEW it,
         \/ c.op = "none"
         \/ c.op = "submit" /\ c.pc \notin {"attach", "mark"}
         \/ c.op # "submit" /\ c.pc \in {"list", "cancel", "mark"} /\ c.todo = {}
  PROVE  OnItsWay(c, st, it)
BY DEF OnItsWay

\* Every exchange leaves the call on its way, and keeps the others on theirs.
LEMMA RespondOnItsWay ==
  ASSUME NobodyClears, AttachedInv, Typed', NEW p \in Procs, Respond(p)
  PROVE  Keeps /\ OnItsWay(call'[p], state', items')
<1> DEFINE c == call[p]
           d == call'[p]
<1>0. /\ Typed /\ c \in Calls /\ WellFormed(p, c) /\ OnItsWay(c, state, items)
      /\ d \in Calls /\ WellFormed(p, d)
  BY DEF AttachedInv, Typed, CallsWellFormed, WellFormed
<1>1. \A e \in Failed : e.op = "none"
  BY DEF Failed, Returned
<1>2. ASSUME d.pc \in {"idle", "probe", "create"} PROVE OnItsWay(d, state', items')
  BY <1>0, <1>2, ElsewhereOnItsWay DEF WellFormed
<1>3. ASSUME NEW e \in GiveUp(c), c.pc # "idle" PROVE e.pc \in {"idle", "create"}
  BY <1>0, <1>3, GiveUpGoesOn
<1>4. CASE ListDrafts(p)
  <2>1. PICK next : Get(p, TRUE, next) /\ \A e \in next : e.pc \in {"probe", "create"}
    BY <1>0, <1>4, ListDraftsLeads
  <2>2. d.pc \in {"idle", "probe", "create"}
    BY <1>0, <2>1, GotoLands DEF Get, Failed, Returned
  <2> QED
    BY <1>0, <1>2, <2>1, <2>2, IdleKeeps DEF Get
<1>5. CASE ProbeDraft(p)
  <2> DEFINE attaching == [c EXCEPT !.pc = "attach", !.todo = {}]
  <2>1. UNCHANGED service
    BY <1>5 DEF ProbeDraft, Get
  <2>2. \/ Goto(p, Failed) \/ Goto(p, Probing(c))
        \/ Found(c.sid) /\ Goto(p, {attaching})
    BY <1>5 DEF ProbeDraft, Get
  <2>3. CASE Goto(p, Failed)
    BY <1>0, <1>2, <2>1, <2>3, GotoLands, IdleKeeps DEF Failed, Returned
  <2>4. CASE Goto(p, Probing(c))
    <3>1. d.pc \in {"probe", "create"}
      BY <1>0, <2>4, GotoLands, LoopsLead
    <3> QED
      BY <1>0, <1>2, <2>1, <3>1, IdleKeeps
  <2>5. CASE Found(c.sid) /\ Goto(p, {attaching})
    <3>1. attaching.pc = "attach" /\ attaching.sid = c.sid /\ attaching.op = c.op
      BY <1>0 DEF Calls
    <3> HIDE DEF attaching
    <3>2. d = attaching
      BY <1>0, <2>5, GotoLands
    <3>3. c.op = "submit" /\ state'[c.sid] # "Unborn"
      BY <1>0, <1>5, <2>1, <2>5 DEF ProbeDraft, WellFormed, Found, service
    <3> QED
      BY <1>0, <2>1, <3>1, <3>2, <3>3, IdleKeeps DEF OnItsWay
  <2> QED
    BY <2>2, <2>3, <2>4, <2>5
<1>6. CASE CreateSubmission(p)
  <2> DEFINE after(s) == [c EXCEPT !.pc = "attach", !.sid = s, !.fresh = TRUE]
  <2>1. c.op = "submit"
    BY <1>0, <1>6 DEF CreateSubmission, WellFormed
  <2>2. \/ Goto(p, Failed) /\ (UNCHANGED service \/ \E s \in Unborn : MoveTo(s, Draft))
        \/ \E s \in Unborn : MoveTo(s, Draft) /\ Goto(p, {after(s)})
    BY <1>6 DEF CreateSubmission, Send
  <2>3. Keeps
    BY <1>0, <2>2, IdleKeeps, MoveKeeps DEF States, Active, Draft
  <2>4. \A s : after(s).pc = "attach" /\ after(s).sid = s /\ after(s).op = "submit"
    BY <1>0, <2>1 DEF Calls
  <2> HIDE DEF after
  <2>5. CASE Goto(p, Failed)
    BY <1>0, <1>2, <2>3, <2>5, GotoLands DEF Failed, Returned
  <2>6. ASSUME NEW s \in Unborn, MoveTo(s, Draft), Goto(p, {after(s)})
        PROVE  OnItsWay(d, state', items')
    <3>1. d = after(s)
      BY <1>0, <2>6, GotoLands
    <3>2. state'[s] # "Unborn"
      BY <1>0, <2>6 DEF MoveTo, Unborn, Typed, ServiceTyped, Draft
    <3> QED
      BY <2>4, <3>1, <3>2 DEF OnItsWay
  <2> QED
    BY <2>2, <2>3, <2>5, <2>6
<1>7. CASE AttachVersion(p)
  <2> DEFINE marking == [c EXCEPT !.pc = "mark"]
  <2>1. c.op = "submit" /\ c.pc = "attach" /\ c.sid \in Subs
    BY <1>0, <1>7 DEF AttachVersion, WellFormed
  <2>2. UNCHANGED service \/ (state' = state /\ items' = [items EXCEPT ![c.sid] = @ \cup {c.ver}])
    BY <1>7 DEF AttachVersion, Send
  <2>3. Keeps
    BY <1>0, <2>2, IdleKeeps DEF Keeps, Typed, ServiceTyped
  <2>4. \/ Goto(p, GiveUp(c))
        \/ /\ Goto(p, {marking}) /\ state' = state
           /\ items' = [items EXCEPT ![c.sid] = @ \cup {c.ver}]
    BY <1>7 DEF AttachVersion, Send
  <2>5. CASE Goto(p, GiveUp(c))
    <3>1. d.pc \in {"idle", "create"}
      BY <1>0, <1>3, <2>1, <2>5, GotoLands
    <3> QED
      BY <1>2, <2>3, <3>1
  <2>6. ASSUME Goto(p, {marking}), state' = state,
               items' = [items EXCEPT ![c.sid] = @ \cup {c.ver}]
        PROVE  OnItsWay(d, state', items')
    <3>1. marking.op = "submit" /\ marking.sid = c.sid /\ marking.ver = c.ver
      BY <1>0, <2>1 DEF Calls
    <3> HIDE DEF marking
    <3>2. d = marking
      BY <1>0, <2>6, GotoLands
    <3>3. c.ver \in items'[c.sid] /\ state'[c.sid] # "Unborn"
      BY <1>0, <2>1, <2>6 DEF Typed, ServiceTyped, OnItsWay
    <3> QED
      BY <3>1, <3>2, <3>3 DEF OnItsWay
  <2> QED
    BY <2>3, <2>4, <2>5, <2>6
<1>8. CASE MarkSubmitted(p)
  <2>1. c.pc = "mark"
    BY <1>8 DEF MarkSubmitted
  <2>2. UNCHANGED service \/ MoveTo(c.sid, "WAITING_FOR_REVIEW")
    BY <1>8 DEF MarkSubmitted, Send
  <2>3. Keeps
    BY <1>0, <2>2, IdleKeeps, MoveKeeps DEF States, Active, InFlight, Draft
  <2>4. Goto(p, {Returned("Ok")}) \/ Goto(p, GiveUp(c))
    BY <1>8 DEF MarkSubmitted, Send
  <2>5. d.pc \in {"idle", "create"}
    BY <1>0, <1>3, <2>1, <2>4, GotoLands DEF Returned
  <2> QED
    BY <1>2, <2>3, <2>5
<1>9. CASE ListToCancelFirst(p)
  <2> DEFINE to(e) == [c EXCEPT !.pc = "cancel", !.sid = e.sub]
             first(pg) == IF pg = {} THEN {Returned("Ok")} ELSE {to(e) : e \in pg}
  <2>1. c.op = "cancelReview" /\ c.todo = {}
    BY <1>0, <1>9 DEF ListToCancelFirst, OnItsWay
  <2>2. \A e : to(e).op = "cancelReview" /\ to(e).pc = "cancel" /\ to(e).todo = {}
    BY <1>0, <2>1 DEF Calls
  <2>3. UNCHANGED service
    BY <1>9 DEF ListToCancelFirst, Get
  <2>4. Goto(p, Failed) \/ Goto(p, UNION {first(pg) : pg \in Listing({"WAITING_FOR_REVIEW", "IN_REVIEW"})})
    BY <1>9 DEF ListToCancelFirst, Get
  <2> HIDE DEF to
  <2>5. d \in Failed \/ d = Returned("Ok") \/ \E e : d = to(e)
    BY <1>0, <2>4, GotoLands
  <2> QED
    BY <1>0, <2>2, <2>3, <2>5, IdleKeeps, ElsewhereOnItsWay DEF Failed, Returned
<1>10. ~ListToCancel(p)
  BY <1>0 DEF ListToCancel, WellFormed, NobodyClears
<1>11. ASSUME c.pc \in {"read", "items", "delete", "verify"} PROVE FALSE
  <2>1. c.op # "submit" /\ c.op \in OpsOf[p]
    BY <1>0, <1>11 DEF WellFormed
  <2>2. c.op # "none"
    BY <2>1, OpsAssumption DEF OpNames
  <2> QED
    BY <1>0, <1>11, <2>1, <2>2 DEF OnItsWay
<1>12. CASE CancelInFlight(p)
  <2>1. c.op \notin {"none", "submit"}
    <3>1. c.op # "submit" /\ c.op \in OpsOf[p]
      BY <1>0, <1>12 DEF CancelInFlight, WellFormed
    <3> QED
      BY <3>1, OpsAssumption DEF OpNames
  <2>2. c.todo = {}
    BY <1>0, <2>1 DEF OnItsWay
  <2>3. UNCHANGED service \/ MoveTo(c.sid, "CANCELING")
    BY <1>12 DEF CancelInFlight, Send
  <2>4. Goto(p, Proceed(c)) \/ Goto(p, Failed)
    BY <1>12 DEF CancelInFlight, Send
  <2>5. d.pc = "idle"
    BY <1>0, <2>2, <2>4, GotoLands DEF Proceed, Failed, Returned
  <2> QED
    BY <1>0, <1>2, <2>3, <2>5, IdleKeeps, MoveKeeps DEF States, Draft
<1> QED
  BY <1>4, <1>5, <1>6, <1>7, <1>8, <1>9, <1>10, <1>11, <1>12
  DEF Respond, ReadSubmission, FetchItems, DeleteItem, VerifyDiscarded

LEMMA AttachedInvariant == ASSUME NobodyClears PROVE Spec => []AttachedInv
<1>1. Init => \A p \in Procs : OnItsWay(call[p], state, items)
  BY DEF Init, OnItsWay, Returned
<1>2. AttachedInv /\ Typed' /\ [Next]_vars => AttachedInv'
  <2> SUFFICES ASSUME AttachedInv, Typed', [Next]_vars PROVE AttachedInv'
    OBVIOUS
  <2>0. Typed /\ \A q \in Procs : WellFormed(q, call[q]) /\ OnItsWay(call[q], state, items)
    BY DEF AttachedInv, Typed, CallsWellFormed
  <2>1. ASSUME NEW p \in Procs, Keeps, OnItsWay(call'[p], state', items'),
               \E d : call' = [call EXCEPT ![p] = d]
        PROVE  AttachedInv'
    <3>1. ASSUME NEW q \in Procs PROVE OnItsWay(call'[q], state', items')
      <4>1. CASE q = p
        BY <2>1, <4>1
      <4>2. CASE q # p
        <5>1. call'[q] = call[q]
          BY <2>0, <2>1, <4>2 DEF Typed, CallsWellFormed
        <5> QED
          BY <2>0, <2>1, <5>1, WaitingKeepsItsWay
      <4> QED
        BY <4>1, <4>2
    <3> QED
      BY <3>1 DEF AttachedInv
  <2>2. ASSUME NEW p \in Procs, Start(p) PROVE AttachedInv'
    <3>1. PICK d : Begins(p, d)
      BY <2>2, StartsWell
    <3>2. call' = [call EXCEPT ![p] = d] /\ call'[p] = d /\ d.op \in OpsOf[p]
      BY <2>0, <3>1 DEF Begins, Begin, Typed, CallsWellFormed
    <3>3. d.op \notin {"cancelSubmission", "discard"}
      BY <3>2 DEF NobodyClears
    <3>4. OnItsWay(call'[p], state', items')
      BY <3>1, <3>2, <3>3, ElsewhereOnItsWay DEF Begins, FirstRequest
    <3>5. Keeps
      BY <2>0, <3>1, IdleKeeps DEF Begins, Begin
    <3> QED
      BY <2>1, <3>2, <3>4, <3>5
  <2>3. ASSUME NEW p \in Procs, Respond(p) PROVE AttachedInv'
    BY <2>0, <2>1, <2>3, RespondOnItsWay, RespondTyped DEF StepTyped, Moves
  <2>4. ASSUME NEW p \in Procs, Drop(p) PROVE AttachedInv'
    <3>1. Goto(p, {Returned("Dropped")}) /\ Keeps
      BY <2>0, <2>4, IdleKeeps DEF Drop
    <3>2. OnItsWay(call'[p], state', items')
      BY <2>0, <3>1, GotoLands, ElsewhereOnItsWay DEF Returned
    <3> QED
      BY <2>1, <3>1, <3>2 DEF Goto
  <2>5. ASSUME call' = call, Keeps PROVE AttachedInv'
    BY <2>0, <2>5, WaitingKeepsItsWay DEF AttachedInv
  <2>6. ASSUME NEW s \in Subs, Review(s) PROVE Keeps /\ call' = call
    <3>1. call' = call /\ \E st \in States \ {"Unborn", Draft} : MoveTo(s, st)
      BY <2>6 DEF Review, States, Active, InFlight, Draft
    <3> QED
      BY <2>0, <3>1, MoveKeeps
  <2>7. ASSUME NEW s \in Subs, RemoveOnWebsite(s) PROVE Keeps /\ call' = call
    BY <2>0, <2>7 DEF RemoveOnWebsite, Keeps, Typed, ServiceTyped, Draft
  <2>8. CASE UNCHANGED vars
    BY <2>0, <2>5, <2>8, IdleKeeps DEF vars, service
  <2> QED
    BY <2>2, <2>3, <2>4, <2>5, <2>6, <2>7, <2>8 DEF Next
<1> QED
  BY <1>1, <1>2, TypedInvariant, PTL DEF Spec, AttachedInv

LEMMA AttachedOk == ASSUME NobodyClears PROVE Spec => OkMeansInReview
<1>1. ASSUME AttachedInv, Typed', Next, NEW p \in Procs, Submits(p, "Ok")
      PROVE  /\ state'[call[p].sid] = "WAITING_FOR_REVIEW"
             /\ call[p].ver \in items'[call[p].sid]
  <2> DEFINE c == call[p]
  <2>1. /\ c.op = "submit" /\ c.pc = "mark" /\ WellFormed(p, c)
        /\ CanMark(c.sid) /\ MoveTo(c.sid, "WAITING_FOR_REVIEW")
    BY <1>1, SubmittedByMark DEF AttachedInv, Submits
  <2>2. c.ver \in items[c.sid] /\ c.sid \in Subs
    BY <1>1, <2>1 DEF AttachedInv, OnItsWay, CanMark, WellFormed
  <2> QED
    BY <1>1, <2>1, <2>2 DEF MoveTo, AttachedInv, Typed, ServiceTyped
<1>2. AttachedInv /\ Typed' /\ [Next]_vars =>
        [\A p \in Procs : Submits(p, "Ok") =>
           LET s == call[p].sid IN
           state'[s] = "WAITING_FOR_REVIEW" /\ call[p].ver \in items'[s]]_vars
  BY <1>1
<1> QED
  BY <1>2, AttachedInvariant, TypedInvariant, PTL DEF Spec, OkMeansInReview

\* Every submitter that is told Ok has its version in a submission sent to review:
\* as long as nobody takes items out of drafts, however many submitters share a
\* draft and whichever of them marks it; and whatever the others do, if it is the
\* only one that submits.
THEOREM OkIsInReview ==
  ASSUME NobodyClears \/ SingleSubmitter PROVE Spec => OkMeansInReview
<1>1. CASE NobodyClears
  BY <1>1, AttachedOk
<1>2. CASE SingleSubmitter
  <2>1. Spec => SubmitSendsExactlyItsVersion
    BY <1>2, SubmitIsExact
  <2>2. [\A p \in Procs : Submits(p, "Ok") =>
           LET s == call[p].sid IN
           state[s] = Draft /\ state'[s] = "WAITING_FOR_REVIEW" /\ items'[s] = {call[p].ver}]_vars
        => [\A p \in Procs : Submits(p, "Ok") =>
              LET s == call[p].sid IN
              state'[s] = "WAITING_FOR_REVIEW" /\ call[p].ver \in items'[s]]_vars
    OBVIOUS
  <2> QED
    BY <2>1, <2>2, PTL DEF SubmitSendsExactlyItsVersion, OkMeansInReview
<1> QED
  BY <1>1, <1>2

-----------------------------------------------------------------------------
(* Reuse before creation, with few enough submissions for one page of a    *)
(* listing.                                                                *)

\* nobody creates or empties drafts while another submits
OthersMakeNoSpare ==
  \A p, q \in Procs :
    "submit" \in OpsOf[p] /\ OpsOf[q] \cap ({"submit"} \cup ClearsOps) # {} => p = q
OnOnePage == IsFiniteSet(Subs) /\ PageSize \in Nat /\ Cardinality(Subs) <= PageSize

\* Then a listing shows every submission in the states asked for.
LEMMA WholeListing ==
  ASSUME OnOnePage, NEW sts, NEW pg \in Listing(sts)
  PROVE  pg = {[sub |-> s, st |-> state[s]] : s \in {t \in Subs : state[t] \in sts}}
<1> DEFINE asked == {t \in Subs : state[t] \in sts}
           listed == {[sub |-> s, st |-> state[s]] : s \in asked}
           shown == [s \in asked |-> [sub |-> s, st |-> state[s]]]
<1>1. IsFiniteSet(asked) /\ Cardinality(asked) <= Cardinality(Subs)
  BY FS_Subset DEF OnOnePage
<1>2. shown \in Surjection(asked, listed)
  BY DEF Surjection
<1> HIDE DEF asked, shown
<1>3. IsFiniteSet(listed) /\ Cardinality(listed) <= Cardinality(asked)
  BY <1>1, <1>2, FS_Surjection DEF ExistsSurjection
<1>4. Cardinality(listed) \in Nat /\ Cardinality(asked) \in Nat /\ Cardinality(Subs) \in Nat
  BY <1>1, <1>3, FS_CardinalityType DEF OnOnePage
<1>5. Cardinality(listed) <= PageSize
  BY <1>1, <1>3, <1>4 DEF OnOnePage
<1>6. pg \in Page(listed, PageSize)
  BY DEF Listing, asked
<1> QED
  BY <1>5, <1>6 DEF Page, asked

\* Every empty draft is among those that a call, looking for one to reuse, has
\* still to look into; when it gives up looking there is none.
SpareListed(c, st, it) ==
  \A s \in Subs : st[s] = Draft /\ it[s] = {} =>
    /\ c.pc = "probe" => s = c.sid \/ \E d \in c.todo : d.sub = s
    /\ c.pc = "create" => c.sid # NoSub

SpareInv == Typed /\ \A p \in Procs : SpareListed(call[p], state, items)

LEMMA ProbingListed ==
  ASSUME NEW c \in Calls, NEW st, NEW it, NEW d \in Probing(c),
         \A s \in Subs : st[s] = Draft /\ it[s] = {} => \E e \in c.todo : e.sub = s
  PROVE  SpareListed(d, st, it)
<1>1. CASE c.todo = {}
  BY <1>1 DEF SpareListed
<1>2. CASE c.todo # {}
  <2>1. PICK e \in c.todo : d = [c EXCEPT !.pc = "probe", !.sid = e.sub, !.todo = @ \ {e}]
    BY <1>2 DEF Probing
  <2>2. d.pc = "probe" /\ d.sid = e.sub /\ d.todo = c.todo \ {e}
    BY <2>1 DEF Calls
  <2> QED
    BY <2>2 DEF SpareListed
<1> QED
  BY <1>1, <1>2

\* Every exchange of the call keeps them there.
LEMMA RespondListed ==
  ASSUME OnOnePage, SpareInv, Typed', NEW p \in Procs, Respond(p)
  PROVE  SpareListed(call'[p], state', items')
<1> DEFINE c == call[p]
           d == call'[p]
<1>0. Typed /\ c \in Calls /\ WellFormed(p, c) /\ SpareListed(c, state, items)
  BY DEF SpareInv, Typed, CallsWellFormed, WellFormed
<1>1. ASSUME d.pc \notin {"probe", "create"} PROVE SpareListed(d, state', items')
  BY <1>1 DEF SpareListed
<1>2. ASSUME d \in Failed PROVE SpareListed(d, state', items')
  BY <1>1, <1>2 DEF Failed, Returned
<1>3. ASSUME c.sid \in Subs, c.pc # "idle", d \in GiveUp(c)
      PROVE  SpareListed(d, state', items')
  <2>1. CASE d \in Failed
    BY <1>2, <2>1
  <2>2. CASE d = [c EXCEPT !.pc = "create"]
    <3>1. d.pc = "create" /\ d.sid # NoSub
      BY <1>0, <1>3, <2>2, NullAssumption DEF Calls
    <3> QED
      BY <3>1 DEF SpareListed
  <2> QED
    BY <1>3, <2>1, <2>2 DEF GiveUp
<1>4. CASE ListDrafts(p)
  <2> DEFINE next == UNION {Probing([c EXCEPT !.todo = pg]) : pg \in Listing({Draft})}
  <2>1. UNCHANGED service /\ (Goto(p, next) \/ Goto(p, Failed))
    BY <1>4 DEF ListDrafts, Get
  <2>2. ASSUME NEW pg \in Listing({Draft}), d \in Probing([c EXCEPT !.todo = pg])
        PROVE  SpareListed(d, state', items')
    <3> DEFINE b == [c EXCEPT !.todo = pg]
    <3>1. pg \subseteq Snapshots
      BY <1>0, ListingPart DEF Active
    <3>2. b \in Calls /\ b.todo = pg
      BY <1>0, <3>1 DEF Calls
    <3>3. pg = {[sub |-> s, st |-> state[s]] : s \in {t \in Subs : state[t] \in {Draft}}}
      BY WholeListing
    <3>4. \A s \in Subs : state[s] = Draft => \E e \in pg : e.sub = s
      <4> SUFFICES ASSUME NEW s \in Subs, state[s] = Draft PROVE \E e \in pg : e.sub = s
        OBVIOUS
      <4>1. [sub |-> s, st |-> state[s]] \in pg
        BY <3>3
      <4> QED
        BY <4>1
    <3> HIDE DEF b
    <3>5. \A s \in Subs : state'[s] = Draft /\ items'[s] = {} => \E e \in b.todo : e.sub = s
      BY <2>1, <3>2, <3>4 DEF service
    <3> QED
      BY <2>2, <3>2, <3>5, ProbingListed DEF b
  <2>3. d \in next \/ d \in Failed
    BY <1>0, <2>1, GotoLands
  <2> QED
    BY <1>2, <2>2, <2>3
<1>5. CASE ProbeDraft(p)
  <2> DEFINE attaching == [c EXCEPT !.pc = "attach", !.todo = {}]
  <2>1. UNCHANGED service
    BY <1>5 DEF ProbeDraft, Get
  <2>2. \/ Goto(p, Failed) \/ Goto(p, {attaching})
        \/ items[c.sid] # {} /\ Goto(p, Probing(c))
    BY <1>5 DEF ProbeDraft, Get
  <2>3. attaching.pc = "attach"
    BY <1>0 DEF Calls
  <2> HIDE DEF attaching
  <2>4. CASE Goto(p, Failed) \/ Goto(p, {attaching})
    BY <1>0, <1>1, <1>2, <2>3, <2>4, GotoLands
  <2>5. CASE items[c.sid] # {} /\ Goto(p, Probing(c))
    <3>1. \A s \in Subs : state'[s] = Draft /\ items'[s] = {} => \E e \in c.todo : e.sub = s
      BY <1>0, <1>5, <2>1, <2>5 DEF ProbeDraft, SpareListed, service
    <3> QED
      BY <1>0, <2>5, <3>1, ProbingListed, GotoLands
  <2> QED
    BY <2>2, <2>4, <2>5
<1>6. CASE CreateSubmission(p)
  <2> DEFINE after(s) == [c EXCEPT !.pc = "attach", !.sid = s, !.fresh = TRUE]
  <2>1. Goto(p, Failed) \/ \E s \in Unborn : Goto(p, {after(s)})
    BY <1>6 DEF CreateSubmission, Send
  <2>2. \A s : after(s).pc = "attach"
    BY <1>0 DEF Calls
  <2> HIDE DEF after
  <2>3. CASE Goto(p, Failed)
    BY <1>0, <1>2, <2>3, GotoLands
  <2>4. ASSUME NEW s \in Unborn, Goto(p, {after(s)}) PROVE SpareListed(d, state', items')
    BY <1>0, <1>1, <2>2, <2>4, GotoLands
  <2> QED
    BY <2>1, <2>3, <2>4
<1>7. CASE AttachVersion(p)
  <2> DEFINE marking == [c EXCEPT !.pc = "mark"]
  <2>1. Goto(p, {marking}) \/ Goto(p, GiveUp(c))
    BY <1>7 DEF AttachVersion, Send
  <2>2. marking.pc = "mark"
    BY <1>0 DEF Calls
  <2>3. c.sid \in Subs /\ c.pc # "idle"
    BY <1>0, <1>7 DEF AttachVersion, WellFormed
  <2> HIDE DEF marking
  <2>4. d = marking \/ d \in GiveUp(c)
    BY <1>0, <2>1, GotoLands
  <2> QED
    BY <1>1, <1>3, <2>2, <2>3, <2>4
<1>8. CASE MarkSubmitted(p)
  <2>1. Goto(p, {Returned("Ok")}) \/ Goto(p, GiveUp(c))
    BY <1>8 DEF MarkSubmitted, Send
  <2>2. c.sid \in Subs /\ c.pc # "idle"
    BY <1>0, <1>8 DEF MarkSubmitted, WellFormed
  <2>3. d.pc = "idle" \/ d \in GiveUp(c)
    BY <1>0, <2>1, GotoLands DEF Returned
  <2> QED
    BY <1>1, <1>3, <2>2, <2>3
<1>9. CASE ClearingStep(p)
  BY <1>0, <1>1, <1>9, ClearingLeads DEF ClearingPCs
<1> QED
  BY <1>4, <1>5, <1>6, <1>7, <1>8, <1>9 DEF Respond, ClearingStep

\* A step that leaves no draft empty that was not so before.
NoMoreSpare ==
  \A s \in Subs : state'[s] = Draft /\ items'[s] = {} => state[s] = Draft /\ items[s] = {}

\* An exchange of a caller that neither submits nor clears.
LEMMA OthersSpare ==
  ASSUME Typed, NEW p \in Procs, Fits(call[p]), Respond(p),
         OpsOf[p] \cap ({"submit"} \cup ClearsOps) = {}
  PROVE  NoMoreSpare
<1> DEFINE c == call[p]
<1>0. c.pc = "idle" \/ c.op \in {"cancelReview", "resubmit"}
  BY OpsAssumption DEF Typed, CallsWellFormed, WellFormed, OpNames, ClearsOps
<1>1. c.pc # "idle"
  BY DEF Respond, ListDrafts, ProbeDraft, CreateSubmission, AttachVersion, MarkSubmitted,
         ListToCancelFirst, ListToCancel, ReadSubmission, CancelInFlight, FetchItems,
         DeleteItem, VerifyDiscarded
<1>2. c.pc \in {"list", "cancel", "mark"}
  BY <1>0, <1>1 DEF Fits
<1>3. \/ UNCHANGED service
      \/ \E st \in {"CANCELING", "WAITING_FOR_REVIEW"} : MoveTo(c.sid, st)
  BY <1>2 DEF Respond, ListDrafts, ProbeDraft, CreateSubmission, AttachVersion, MarkSubmitted,
              ListToCancelFirst, ListToCancel, ReadSubmission, CancelInFlight, FetchItems,
              DeleteItem, VerifyDiscarded, Get, Send
<1> QED
  BY <1>3 DEF NoMoreSpare, service, MoveTo, Draft, Typed, ServiceTyped

LEMMA SpareInvariant == ASSUME OthersMakeNoSpare, OnOnePage PROVE Spec => []SpareInv
<1>1. Init => \A p \in Procs : SpareListed(call[p], state, items)
  BY DEF Init, SpareListed, Returned
<1>2. SpareInv /\ Fitting /\ Typed' /\ [Next]_vars => SpareInv'
  <2> SUFFICES ASSUME SpareInv, Fitting, Typed', [Next]_vars PROVE SpareInv'
    OBVIOUS
  <2>0. Typed
    BY DEF SpareInv
  <2>1. ASSUME NEW p \in Procs, NEW d, call' = [call EXCEPT ![p] = d], SpareListed(d, state', items'),
               \A q \in Procs \ {p} : call[q].pc \in {"probe", "create"} => NoMoreSpare
        PROVE  SpareInv'
    <3>1. call'[p] = d /\ \A q \in Procs \ {p} : call'[q] = call[q]
      BY <2>0, <2>1 DEF Typed, CallsWellFormed
    <3>2. ASSUME NEW q \in Procs \ {p} PROVE SpareListed(call[q], state', items')
      BY <2>1, <3>2 DEF SpareInv, SpareListed, NoMoreSpare
    <3> QED
      BY <2>1, <3>1, <3>2 DEF SpareInv
  <2>2. ASSUME NEW p \in Procs, Start(p) PROVE SpareInv'
    <3>1. PICK d : Begins(p, d)
      BY <2>2, StartsWell
    <3>2. call' = [call EXCEPT ![p] = d] /\ NoMoreSpare
      BY <3>1 DEF Begins, Begin, NoMoreSpare, service
    <3>3. SpareListed(d, state', items')
      BY <3>1 DEF Begins, FirstRequest, SpareListed
    <3> QED
      BY <2>1, <3>2, <3>3
  <2>3. ASSUME NEW p \in Procs, Respond(p) PROVE SpareInv'
    <3>1. PICK d : call' = [call EXCEPT ![p] = d]
      BY <2>0, <2>3, RespondTyped DEF StepTyped, Moves
    <3>2. SpareListed(d, state', items')
      <4>1. call'[p] = d
        BY <2>0, <3>1 DEF Typed, CallsWellFormed
      <4> QED
        BY <2>3, <4>1, RespondListed
    <3>3. ASSUME NEW q \in Procs \ {p}, call[q].pc \in {"probe", "create"} PROVE NoMoreSpare
      <4>1. "submit" \in OpsOf[q]
        BY <2>0, <3>3 DEF Typed, CallsWellFormed, WellFormed
      <4>2. OpsOf[p] \cap ({"submit"} \cup ClearsOps) = {}
        BY <4>1 DEF OthersMakeNoSpare
      <4> QED
        BY <2>0, <2>3, <4>2, OthersSpare DEF Fitting
    <3> QED
      BY <2>1, <3>1, <3>2, <3>3
  <2>4. ASSUME NEW p \in Procs, Drop(p) PROVE SpareInv'
    <3>1. call' = [call EXCEPT ![p] = Returned("Dropped")] /\ NoMoreSpare
      BY <2>4 DEF Drop, Goto, NoMoreSpare, service
    <3>2. SpareListed(Returned("Dropped"), state', items')
      BY DEF SpareListed, Returned
    <3> QED
      BY <2>1, <3>1, <3>2
  <2>5. ASSUME call' = call, NoMoreSpare PROVE SpareInv'
    BY <2>5 DEF SpareInv, SpareListed, NoMoreSpare
  <2>6. ASSUME NEW s \in Subs, Review(s) PROVE SpareInv'
    <3>1. call' = call /\ \E st \in States \ {Draft} : MoveTo(s, st)
      BY <2>6 DEF Review, States, Active, InFlight, Draft
    <3> QED
      BY <2>0, <2>5, <3>1 DEF NoMoreSpare, MoveTo, Typed, ServiceTyped
  <2>7. ASSUME NEW s \in Subs, RemoveOnWebsite(s) PROVE SpareInv'
    BY <2>0, <2>5, <2>7 DEF RemoveOnWebsite, NoMoreSpare, Typed, ServiceTyped, Draft
  <2>8. CASE UNCHANGED vars
    BY <2>5, <2>8 DEF vars, NoMoreSpare
  <2> QED
    BY <2>2, <2>3, <2>4, <2>6, <2>7, <2>8 DEF Next
<1> QED
  BY <1>1, <1>2, TypedInvariant, FitsInvariant, PTL DEF Spec, SpareInv

\* A submitter that sees all submissions on one page, while the others at most
\* cancel and resubmit, asks for a new one only when no empty draft is left or
\* reusing one has failed, whatever the reviewers, the website and the network do.
THEOREM ReuseComesFirst == ASSUME OthersMakeNoSpare, OnOnePage PROVE Spec => CreatesOnlyWithoutSpare
<1>1. ASSUME SpareInv, NEW p \in Procs, Creates(p), call[p].sid = NoSub PROVE Spare = {}
  <2> DEFINE c == call[p]
  <2>1. SpareListed(c, state, items) /\ c.pc = "create" /\ WellFormed(p, c)
    BY <1>1 DEF SpareInv, Typed, CallsWellFormed, Creates
  <2> QED
    BY <1>1, <2>1 DEF SpareListed, Spare
<1>2. SpareInv /\ [Next]_vars =>
        [\A p \in Procs : Creates(p) /\ call[p].sid = NoSub => Spare = {}]_vars
  BY <1>1
<1> QED
  BY <1>2, SpareInvariant, PTL DEF Spec, CreatesOnlyWithoutSpare

-----------------------------------------------------------------------------
(* The verdict of cancel_submission and discard_review_submission.         *)

\* what the call c was asked to clear
Asked(c) == IF c.op = "discard" THEN {c.sid} ELSE Subs

\* s is out of the way as far as the call c can get it there
Cleared(s, c, st, it) == st[s] \in Active => c.stuck /\ st[s] = Draft /\ it[s] = {}

\* what was listed as a draft was not sent to review since, and the rest did not
\* turn into drafts
StillApplies(d, st) == IF d.st = Draft THEN st[d.sub] \notin InFlight ELSE st[d.sub] # Draft

\* Whatever is not among the listed submissions still to visit is cleared,
\* except perhaps those in S.
ClearedBut(c, S, st, it) ==
  /\ \A d \in c.todo : StillApplies(d, st)
  /\ \A s \in Asked(c) \ S : (\E d \in c.todo : d.sub = s) \/ Cleared(s, c, st, it)

\* Where a call that empties a draft stands: the items it fetched and has not
\* deleted are on its page, and those it has not fetched are to come.
Emptying(c, it) ==
  /\ c.pc = "items" => it[c.sid] \cap c.seen = {}
  /\ c.pc = "delete" => /\ it[c.sid] \cap c.seen \subseteq c.page
                        /\ c.more \/ it[c.sid] \subseteq c.page
  /\ c.pc = "verify" => it[c.sid] = {}

UnderWay == {"cancel", "items", "delete", "verify"}

Clearing(c, st, it) ==
  /\ c.op = "discard" => c.todo = {}
  /\ c.pc = "read" => c.op = "discard"
  /\ c.op \in ClearsOps => c.pc \in {"list", "read"} \cup UnderWay
  /\ c.op \in ClearsOps /\ c.pc \in UnderWay =>
       /\ ClearedBut(c, {c.sid}, st, it)
       /\ IF c.pc = "cancel" THEN st[c.sid] # Draft ELSE st[c.sid] \notin InFlight
       /\ Emptying(c, it)

ClearingInv == Typed /\ \A p \in Procs : Clearing(call[p], state, items)

\* the verdict r of the call c is true
Honest(c, r, st, it) ==
  LET left == {s \in Asked(c) : st[s] \in Active} IN
  /\ r = "Ok" => left = {}
  /\ r = "NotRemovable" => \A s \in left : st[s] = Draft /\ it[s] = {}

\* A page without items means that there are none.
LEMMA EmptyPage == ASSUME NEW S, {} \in Page(S, ItemPageSize) PROVE S = {}
BY FS_EmptySet, BoundAssumption DEF Page, kSubset

\* A call that clears nothing has nothing to show.
LEMMA ClearsNothing ==
  ASSUME NEW c, NEW st, NEW it, c.op \in {"none", "submit", "cancelReview", "resubmit"}, c.pc # "read"
  PROVE  Clearing(c, st, it)
BY DEF Clearing, ClearsOps

LEMMA FailedClears ==
  ASSUME NEW c, NEW st, NEW it, NEW d \in Failed
  PROVE  Clearing(d, st, it) /\ Honest(c, d.result, st, it)
<1>1. d.op = "none" /\ d.pc = "idle" /\ d.result = "Err"
  BY DEF Failed, Returned
<1> QED
  BY <1>1, ClearsNothing DEF Honest

\* A submission is dealt with as it was read.
LEMMA DispatchClears ==
  ASSUME NEW c \in Calls, NEW s \in Subs, NEW sst \in Active, NEW st, NEW it,
         c.op = "discard" => c.todo = {},
         StillApplies([sub |-> s, st |-> sst], st),
         ClearedBut(c, {s}, st, it), c.op = "discard" => s = c.sid
  PROVE  Clearing(Dispatch(c, s, sst), st, it)
<1> DEFINE d == Dispatch(c, s, sst)
<1>1. CASE sst \in InFlight
  <2>1. d = [c EXCEPT !.pc = "cancel", !.sid = s]
    BY <1>1 DEF Dispatch
  <2> HIDE DEF d
  <2>2. /\ d.pc = "cancel" /\ d.sid = s /\ d.op = c.op /\ d.todo = c.todo /\ d.stuck = c.stuck
    BY <2>1 DEF Calls
  <2>3. st[s] # Draft
    BY <1>1 DEF StillApplies, InFlight, Draft
  <2>4. ClearedBut(d, {d.sid}, st, it)
    BY <2>2 DEF ClearedBut, Asked, Cleared
  <2> QED
    BY <2>2, <2>3, <2>4 DEF Clearing, Emptying, UnderWay, d
<1>2. CASE sst \notin InFlight
  <2>1. d = [c EXCEPT !.pc = "items", !.sid = s, !.seen = {}]
    BY <1>2 DEF Dispatch
  <2> HIDE DEF d
  <2>2. /\ d.pc = "items" /\ d.sid = s /\ d.op = c.op /\ d.todo = c.todo /\ d.stuck = c.stuck
        /\ d.seen = {}
    BY <2>1 DEF Calls
  <2>3. st[s] \notin InFlight
    BY <1>2 DEF StillApplies, Active
  <2>4. ClearedBut(d, {d.sid}, st, it)
    BY <2>2 DEF ClearedBut, Asked, Cleared
  <2> QED
    BY <2>2, <2>3, <2>4 DEF Clearing, Emptying, UnderWay, d
<1> QED
  BY <1>1, <1>2

\* The loop goes on with a listed submission, or ends with a true verdict.
LEMMA ProceedClears ==
  ASSUME NEW c \in Calls, NEW st, NEW it, NEW d \in Proceed(c), c.result = "none",
         c.op \in ClearsOps, c.op = "discard" => c.todo = {}, ClearedBut(c, {}, st, it)
  PROVE  Clearing(d, st, it) /\ Honest(c, d.result, st, it)
<1>1. CASE c.todo = {}
  <2>1. d = Returned(IF c.stuck THEN "NotRemovable" ELSE "Ok")
    BY <1>1 DEF Proceed
  <2>2. d.op = "none" /\ d.pc = "idle" /\ d.result = IF c.stuck THEN "NotRemovable" ELSE "Ok"
    BY <2>1 DEF Returned
  <2>3. \A s \in Asked(c) : Cleared(s, c, st, it)
    BY <1>1 DEF ClearedBut
  <2> QED
    BY <2>2, <2>3, ClearsNothing DEF Honest, Cleared
<1>2. CASE c.todo # {}
  <2>1. PICK e \in c.todo : d = Dispatch([c EXCEPT !.todo = @ \ {e}], e.sub, e.st)
    BY <1>2 DEF Proceed
  <2> DEFINE b == [c EXCEPT !.todo = @ \ {e}]
  <2>2. e \in Snapshots /\ e = [sub |-> e.sub, st |-> e.st] /\ e.sub \in Subs /\ e.st \in Active
    BY DEF Calls, Snapshots
  <2>3. b \in Calls /\ b.op = c.op /\ b.todo = c.todo \ {e} /\ b.stuck = c.stuck /\ b.result = "none"
    BY DEF Calls
  <2>4. c.op # "discard"
    BY <1>2
  <2> HIDE DEF b
  <2>5. ClearedBut(b, {e.sub}, st, it)
    BY <2>3, <2>4 DEF ClearedBut, Asked, Cleared
  <2>6. StillApplies(e, st)
    BY DEF ClearedBut
  <2>7. Clearing(d, st, it)
    BY <2>1, <2>2, <2>3, <2>4, <2>5, <2>6, DispatchClears DEF b
  <2>8. d.result = "none"
    BY <2>1, <2>3 DEF Dispatch, Calls, b
  <2> QED
    BY <2>7, <2>8 DEF Honest
<1> QED
  BY <1>1, <1>2

\* A step that makes no draft, sends nothing to review and attaches nothing.
Subsides ==
  \A s \in Subs :
    /\ state'[s] = Draft => state[s] = Draft
    /\ state'[s] \in InFlight => state[s] \in InFlight
    /\ items'[s] \subseteq items[s]

LEMMA ClearedStays ==
  ASSUME Subsides, NEW c \in Calls, c.op = "discard" => c.sid \in Subs, NEW S,
         ClearedBut(c, S, state, items)
  PROVE  ClearedBut(c, S, state', items')
<1>1. ASSUME NEW d \in c.todo PROVE StillApplies(d, state')
  <2>1. d.sub \in Subs /\ StillApplies(d, state)
    BY DEF Calls, Snapshots, ClearedBut
  <2> QED
    BY <2>1 DEF Subsides, StillApplies
<1>2. ASSUME NEW s \in Asked(c), Cleared(s, c, state, items) PROVE Cleared(s, c, state', items')
  <2>1. s \in Subs
    BY DEF Asked
  <2>2. Draft \notin InFlight
    BY DEF Draft, InFlight
  <2> QED
    BY <1>2, <2>1, <2>2 DEF Cleared, Subsides, Active
<1> QED
  BY <1>1, <1>2 DEF ClearedBut

LEMMA WaitingClears ==
  ASSUME Subsides, NEW q, NEW c, WellFormed(q, c), Clearing(c, state, items)
  PROVE  Clearing(c, state', items')
<1>1. c \in Calls
  BY DEF WellFormed
<1>2. ASSUME c.op \in ClearsOps, c.pc \in UnderWay
      PROVE  /\ ClearedBut(c, {c.sid}, state', items')
             /\ IF c.pc = "cancel" THEN state'[c.sid] # Draft ELSE state'[c.sid] \notin InFlight
             /\ Emptying(c, items')
  <2>1. c.sid \in Subs
    BY <1>2 DEF UnderWay, WellFormed
  <2>2. ClearedBut(c, {c.sid}, state', items')
    BY <1>1, <1>2, <2>1, ClearedStays DEF Clearing
  <2>3. Emptying(c, items) /\ items'[c.sid] \subseteq items[c.sid]
    BY <1>2, <2>1 DEF Clearing, Subsides
  <2> QED
    BY <1>2, <2>1, <2>2, <2>3 DEF Clearing, Subsides, Emptying
<1> QED
  BY <1>2 DEF Clearing

\* The exchanges of a submission or resubmission.
LEMMA SubmittingClears ==
  ASSUME ClearingInv, Typed', NEW p \in Procs,
         \/ ListDrafts(p) \/ ProbeDraft(p) \/ CreateSubmission(p)
         \/ AttachVersion(p) \/ MarkSubmitted(p)
  PROVE  call[p].op \notin ClearsOps /\ Clearing(call'[p], state', items')
<1> DEFINE c == call[p]
           d == call'[p]
<1>0. /\ Typed /\ c \in Calls /\ WellFormed(p, c) /\ Clearing(c, state, items)
      /\ d \in Calls /\ WellFormed(p, d)
  BY DEF ClearingInv, Typed, CallsWellFormed, WellFormed
<1>1. c.op \notin ClearsOps /\ c.pc # "idle"
  BY <1>0 DEF ClearsOps, UnderWay, Clearing, WellFormed, ListDrafts, ProbeDraft,
              CreateSubmission, AttachVersion, MarkSubmitted
<1>2. d.pc \in {"idle", "probe", "create", "attach"} \/ (d.pc = "mark" /\ d.op = "submit")
  <2>1. ASSUME NEW found, NEW next, Get(p, found, next),
               \A e \in next : e.pc \in {"probe", "create", "attach"}
        PROVE  d.pc \in {"idle", "probe", "create", "attach"}
    BY <1>0, <2>1, GotoLands DEF Get, Failed, Returned
  <2>2. CASE ListDrafts(p) \/ ProbeDraft(p)
    BY <1>0, <2>1, <2>2, ListDraftsLeads, ProbeDraftLeads
  <2>3. CASE CreateSubmission(p)
    <3> DEFINE after(s) == [c EXCEPT !.pc = "attach", !.sid = s, !.fresh = TRUE]
    <3>1. Goto(p, Failed) \/ \E s \in Unborn : Goto(p, {after(s)})
      BY <2>3 DEF CreateSubmission, Send
    <3>2. \A s : after(s).pc = "attach"
      BY <1>0 DEF Calls
    <3> HIDE DEF after
    <3>3. CASE Goto(p, Failed)
      BY <1>0, <3>3, GotoLands DEF Failed, Returned
    <3>4. ASSUME NEW s \in Unborn, Goto(p, {after(s)}) PROVE d.pc = "attach"
      BY <1>0, <3>2, <3>4, GotoLands
    <3> QED
      BY <3>1, <3>3, <3>4
  <2>4. CASE AttachVersion(p)
    <3> DEFINE marking == [c EXCEPT !.pc = "mark"]
    <3>1. Goto(p, {marking}) \/ Goto(p, GiveUp(c))
      BY <2>4 DEF AttachVersion, Send
    <3>2. marking.pc = "mark" /\ marking.op = "submit"
      BY <1>0, <2>4 DEF AttachVersion, WellFormed, Calls
    <3>3. \A e \in GiveUp(c) : e.pc \in {"idle", "create"}
      BY <1>0, <1>1, GiveUpGoesOn
    <3> HIDE DEF marking
    <3> QED
      BY <1>0, <3>1, <3>2, <3>3, GotoLands
  <2>5. CASE MarkSubmitted(p)
    <3>1. Goto(p, {Returned("Ok")}) \/ Goto(p, GiveUp(c))
      BY <2>5 DEF MarkSubmitted, Send
    <3>2. \A e \in GiveUp(c) : e.pc \in {"idle", "create"}
      BY <1>0, <1>1, GiveUpGoesOn
    <3> QED
      BY <1>0, <3>1, <3>2, GotoLands DEF Returned
  <2> QED
    BY <2>2, <2>3, <2>4, <2>5
<1>3. d.op \in {"none", "submit"}
  BY <1>0, <1>2 DEF WellFormed
<1> QED
  BY <1>1, <1>2, <1>3, ClearsNothing

\* The exchanges of cancel_submission and discard_review_submission.
Sound(p) ==
  /\ Clearing(call'[p], state', items')
  /\ call[p].op \in ClearsOps => Honest(call[p], call'[p].result, state', items')

LEMMA FailedSound == ASSUME NEW p, call'[p] \in Failed PROVE Sound(p)
BY FailedClears DEF Sound

LEMMA ListSound ==
  ASSUME OnOnePage, ClearingInv, NEW p \in Procs, ListToCancelFirst(p) \/ ListToCancel(p)
  PROVE  Sound(p)
<1> DEFINE c == call[p]
           d == call'[p]
<1>0. Typed /\ c \in Calls /\ WellFormed(p, c) /\ Clearing(c, state, items)
  BY DEF ClearingInv, Typed, CallsWellFormed, WellFormed
<1>1. CASE ListToCancelFirst(p)
  <2> DEFINE to(e) == [c EXCEPT !.pc = "cancel", !.sid = e.sub]
             first(pg) == IF pg = {} THEN {Returned("Ok")} ELSE {to(e) : e \in pg}
  <2>1. c.op = "cancelReview"
    BY <1>1 DEF ListToCancelFirst
  <2>2. Goto(p, Failed) \/ Goto(p, UNION {first(pg) : pg \in Listing({"WAITING_FOR_REVIEW", "IN_REVIEW"})})
    BY <1>1 DEF ListToCancelFirst, Get
  <2>3. \A e : to(e).op = "cancelReview" /\ to(e).pc = "cancel"
    BY <1>0, <2>1 DEF Calls
  <2> HIDE DEF to
  <2>4. d \in Failed \/ d = Returned("Ok") \/ \E e : d = to(e)
    BY <1>0, <2>2, GotoLands
  <2>5. d.op \in {"none", "cancelReview"} /\ d.pc # "read"
    BY <2>3, <2>4 DEF Failed, Returned
  <2> QED
    BY <2>1, <2>5, ClearsNothing DEF Sound, ClearsOps
<1>2. CASE ListToCancel(p)
  <2> DEFINE next == UNION {Proceed([c EXCEPT !.todo = pg]) : pg \in Listing(Active)}
  <2>1. /\ c.op = "cancelSubmission" /\ c.result = "none"
        /\ UNCHANGED service /\ (Goto(p, next) \/ Goto(p, Failed))
    BY <1>0, <1>2 DEF ListToCancel, Get, WellFormed
  <2>2. ASSUME NEW pg \in Listing(Active), d \in Proceed([c EXCEPT !.todo = pg]) PROVE Sound(p)
    <3> DEFINE b == [c EXCEPT !.todo = pg]
    <3>1. pg \subseteq Snapshots
      BY <1>0, ListingPart
    <3>2. b \in Calls /\ b.todo = pg /\ b.op = c.op /\ b.result = "none"
      BY <1>0, <2>1, <3>1 DEF Calls
    <3>3. pg = {[sub |-> s, st |-> state[s]] : s \in {t \in Subs : state[t] \in Active}}
      BY WholeListing
    <3>4. ASSUME NEW s \in Subs, state[s] \in Active PROVE \E e \in pg : e.sub = s
      <4>1. [sub |-> s, st |-> state[s]] \in pg
        BY <3>3, <3>4
      <4> QED
        BY <4>1
    <3>5. ASSUME NEW e \in pg PROVE StillApplies(e, state)
      <4>1. e.st = state[e.sub]
        BY <3>3
      <4> QED
        BY <4>1 DEF StillApplies, Draft, InFlight
    <3> HIDE DEF b
    <3>6. ClearedBut(b, {}, state, items)
      BY <2>1, <3>2, <3>4, <3>5 DEF ClearedBut, Asked, Cleared
    <3>7. Clearing(d, state, items) /\ Honest(b, d.result, state, items)
      BY <2>1, <2>2, <3>2, <3>6, ProceedClears DEF ClearsOps, b
    <3>8. Honest(c, d.result, state, items)
      BY <2>1, <3>2, <3>7 DEF Honest, Asked
    <3> QED
      BY <2>1, <3>7, <3>8 DEF Sound, service
  <2>3. d \in next \/ d \in Failed
    BY <1>0, <2>1, GotoLands
  <2> QED
    BY <2>2, <2>3, FailedSound
<1> QED
  BY <1>1, <1>2

LEMMA ReadSound ==
  ASSUME ClearingInv, NEW p \in Procs, ReadSubmission(p)
  PROVE  Sound(p)
<1> DEFINE c == call[p]
           d == call'[p]
<1>1. /\ Typed /\ c \in Calls /\ c.op = "discard" /\ c.todo = {} /\ c.sid \in Subs
      /\ c.result = "none"
  BY DEF ClearingInv, Typed, CallsWellFormed, WellFormed, Clearing, ReadSubmission
<1>2. /\ UNCHANGED service
      /\ \/ d \in Failed
         \/ state[c.sid] \in Active /\ d = Dispatch(c, c.sid, state[c.sid])
         \/ state[c.sid] \notin Active /\ d = Returned("Ok")
  BY <1>1, GotoLands DEF ReadSubmission, Get
<1>3. CASE state[c.sid] \in Active /\ d = Dispatch(c, c.sid, state[c.sid])
  <2>1. StillApplies([sub |-> c.sid, st |-> state[c.sid]], state)
    BY DEF StillApplies, Draft, InFlight
  <2>2. ClearedBut(c, {c.sid}, state, items)
    BY <1>1 DEF ClearedBut, Asked
  <2>3. Clearing(d, state, items)
    BY <1>1, <1>3, <2>1, <2>2, DispatchClears
  <2>4. d.result = "none"
    BY <1>1, <1>3 DEF Dispatch, Calls
  <2> QED
    BY <1>2, <2>3, <2>4 DEF Sound, Honest, service
<1>4. CASE state[c.sid] \notin Active /\ d = Returned("Ok")
  <2>1. d.op = "none" /\ d.pc = "idle" /\ d.result = "Ok"
    BY <1>4 DEF Returned
  <2>2. Honest(c, d.result, state', items')
    BY <1>1, <1>2, <1>4, <2>1 DEF Honest, Asked, service
  <2> QED
    BY <2>1, <2>2, ClearsNothing DEF Sound
<1> QED
  BY <1>2, <1>3, <1>4, FailedSound

LEMMA ProceedKeepsOp ==
  ASSUME NEW c \in Calls, NEW d \in Proceed(c)
  PROVE  d.op \in {"none", c.op} /\ d.pc # "read"
<1>1. CASE c.todo = {}
  BY <1>1 DEF Proceed, Returned
<1>2. CASE c.todo # {}
  <2>1. PICK e \in c.todo : d = Dispatch([c EXCEPT !.todo = @ \ {e}], e.sub, e.st)
    BY <1>2 DEF Proceed
  <2> QED
    BY <2>1 DEF Dispatch, Calls
<1> QED
  BY <1>1, <1>2

LEMMA CancelSound ==
  ASSUME ClearingInv, Typed', NEW p \in Procs, CancelInFlight(p)
  PROVE  Sound(p)
<1> DEFINE c == call[p]
           d == call'[p]
<1>0. /\ Typed /\ c \in Calls /\ WellFormed(p, c) /\ Clearing(c, state, items)
      /\ c.pc = "cancel" /\ c.sid \in Subs /\ c.result = "none"
  BY DEF ClearingInv, Typed, CallsWellFormed, WellFormed, CancelInFlight
<1>1. d \in Failed \/ (d \in Proceed(c) /\ MoveTo(c.sid, "CANCELING"))
  BY <1>0, GotoLands DEF CancelInFlight, Send
<1>2. ASSUME d \in Proceed(c), MoveTo(c.sid, "CANCELING"), c.op \in ClearsOps PROVE Sound(p)
  <2>1. Subsides /\ state'[c.sid] = "CANCELING"
    BY <1>0, <1>2 DEF MoveTo, Subsides, Typed, ServiceTyped, Draft, InFlight
  <2>2. ClearedBut(c, {c.sid}, state', items')
    BY <1>0, <1>2, <2>1, ClearedStays DEF Clearing, UnderWay
  <2>3. ClearedBut(c, {}, state', items')
    BY <2>1, <2>2 DEF ClearedBut, Cleared, Active, Draft, InFlight
  <2> QED
    BY <1>0, <1>2, <2>3, ProceedClears DEF Clearing, Sound
<1>3. ASSUME d \in Proceed(c), c.op \notin ClearsOps PROVE Sound(p)
  <2>1. c.op \in {"none", "cancelReview", "resubmit"}
    BY <1>0, <1>3 DEF Calls, OpNames, ClearsOps, WellFormed
  <2>2. d.op \in {"none", c.op} /\ d.pc # "read"
    BY <1>0, <1>3, ProceedKeepsOp
  <2> QED
    BY <1>3, <2>1, <2>2, ClearsNothing DEF Sound
<1> QED
  BY <1>1, <1>2, <1>3, FailedSound

LEMMA FetchSound ==
  ASSUME ClearingInv, Typed', NEW p \in Procs, FetchItems(p)
  PROVE  Sound(p)
<1> DEFINE c == call[p]
           d == call'[p]
           rest == items[c.sid] \ c.seen
           pcAfter(pg) == IF pg = {} THEN "verify" ELSE "delete"
           after(pg, m) == [c EXCEPT !.pc = pcAfter(pg), !.page = pg, !.seen = @ \cup pg, !.more = m]
           next == {after(pg, (pg # rest)) : pg \in Page(rest, ItemPageSize)}
<1>0. /\ Typed /\ c \in Calls /\ WellFormed(p, c) /\ Clearing(c, state, items)
      /\ c.pc = "items" /\ c.sid \in Subs /\ c.result = "none"
  BY DEF ClearingInv, Typed, CallsWellFormed, WellFormed, FetchItems
<1>1. UNCHANGED service /\ (Goto(p, Failed) \/ Goto(p, next))
  BY DEF FetchItems, Get
<1>2. ASSUME NEW pg \in Page(rest, ItemPageSize), NEW m \in BOOLEAN, ~m => pg = rest, d = after(pg, m)
      PROVE  Sound(p)
  <2>1. /\ d.pc = pcAfter(pg) /\ d.page = pg /\ d.seen = c.seen \cup pg /\ d.more = m
        /\ d.op = c.op /\ d.sid = c.sid /\ d.todo = c.todo /\ d.stuck = c.stuck
        /\ d.result = "none"
    <3> HIDE DEF pcAfter
    <3> QED
      BY <1>0, <1>2 DEF Calls
  <2>2. pg \subseteq rest /\ (pg = {} => rest = {})
    BY PagePart, EmptyPage
  <2> HIDE DEF after
  <2>3. d.pc \in {"verify", "delete"} /\ (d.pc = "verify" <=> pg = {})
    BY <2>1
  <2>4. ASSUME c.op \in ClearsOps
        PROVE  ClearedBut(d, {d.sid}, state, items) /\ state[d.sid] \notin InFlight /\ Emptying(d, items)
    <3>1. ClearedBut(c, {c.sid}, state, items) /\ state[c.sid] \notin InFlight /\ items[c.sid] \cap c.seen = {}
      BY <1>0, <2>4 DEF Clearing, UnderWay, Emptying
    <3>2. rest = items[c.sid]
      BY <3>1
    <3>3. Emptying(d, items)
      BY <1>2, <2>1, <2>2, <2>3, <3>1, <3>2 DEF Emptying
    <3> QED
      BY <2>1, <3>1, <3>3 DEF ClearedBut, Asked, Cleared
  <2>5. Clearing(d, state, items)
    BY <1>0, <2>1, <2>3, <2>4 DEF Clearing, UnderWay
  <2> QED
    BY <1>1, <2>1, <2>5 DEF Sound, Honest, service
<1>3. CASE Goto(p, Failed)
  BY <1>0, <1>3, FailedSound, GotoLands
<1>4. CASE Goto(p, next)
  <2>1. d \in next
    BY <1>0, <1>4, GotoLands
  <2>2. PICK pg \in Page(rest, ItemPageSize) : d = after(pg, (pg # rest))
    BY <2>1
  <2> HIDE DEF after, rest
  <2>3. PICK m \in BOOLEAN : m = (pg # rest)
    OBVIOUS
  <2> QED
    BY <1>2, <2>2, <2>3
<1> QED
  BY <1>1, <1>3, <1>4

LEMMA DeleteSound ==
  ASSUME ClearingInv, Typed', NEW p \in Procs, DeleteItem(p)
  PROVE  Sound(p)
<1> DEFINE c == call[p]
           d == call'[p]
           pcAfter(v) == IF c.page # {v} THEN "delete" ELSE IF c.more THEN "items" ELSE "verify"
           after(v) == [c EXCEPT !.page = @ \ {v}, !.pc = pcAfter(v)]
<1>0. /\ Typed /\ c \in Calls /\ WellFormed(p, c) /\ Clearing(c, state, items)
      /\ c.pc = "delete" /\ c.sid \in Subs /\ c.result = "none"
  BY DEF ClearingInv, Typed, CallsWellFormed, WellFormed, DeleteItem
<1>1. PICK v \in c.page :
        \/ Goto(p, Failed)
        \/ state[c.sid] = Draft /\ Detach(c.sid, v) /\ Goto(p, {after(v)})
  BY DEF DeleteItem, Send
<1>2. ASSUME state[c.sid] = Draft, Detach(c.sid, v), d = after(v) PROVE Sound(p)
  <2>1. /\ d.pc = pcAfter(v) /\ d.page = c.page \ {v} /\ d.seen = c.seen /\ d.more = c.more
        /\ d.op = c.op /\ d.sid = c.sid /\ d.todo = c.todo /\ d.stuck = c.stuck
        /\ d.result = "none"
    <3> HIDE DEF pcAfter
    <3> QED
      BY <1>0, <1>2 DEF Calls
  <2>2. Subsides /\ items'[c.sid] = items[c.sid] \ {v}
    BY <1>0, <1>2 DEF Detach, Subsides, Typed, ServiceTyped, Draft, InFlight
  <2> HIDE DEF after
  <2>3. /\ d.pc \in {"delete", "items", "verify"}
        /\ d.pc = "items" => c.page = {v}
        /\ d.pc = "verify" => c.page = {v} /\ ~c.more
    BY <2>1
  <2>4. ASSUME c.op \in ClearsOps
        PROVE  ClearedBut(d, {d.sid}, state', items') /\ state'[d.sid] \notin InFlight /\ Emptying(d, items')
    <3>1. /\ ClearedBut(c, {c.sid}, state, items) /\ state[c.sid] \notin InFlight
          /\ items[c.sid] \cap c.seen \subseteq c.page
          /\ c.more \/ items[c.sid] \subseteq c.page
      BY <1>0, <2>4 DEF Clearing, UnderWay, Emptying
    <3>2. ClearedBut(c, {c.sid}, state', items') /\ state'[c.sid] \notin InFlight
      BY <1>0, <2>2, <3>1, ClearedStays DEF Subsides
    <3>3. Emptying(d, items')
      BY <2>1, <2>2, <2>3, <3>1 DEF Emptying
    <3> QED
      BY <2>1, <3>2, <3>3 DEF ClearedBut, Asked, Cleared
  <2>5. Clearing(d, state', items')
    BY <1>0, <2>1, <2>3, <2>4 DEF Clearing, UnderWay
  <2> QED
    BY <2>1, <2>5 DEF Sound, Honest
<1>3. CASE Goto(p, Failed)
  BY <1>0, <1>3, FailedSound, GotoLands
<1>4. CASE state[c.sid] = Draft /\ Detach(c.sid, v) /\ Goto(p, {after(v)})
  <2> HIDE DEF after
  <2>1. d = after(v)
    BY <1>0, <1>4, GotoLands
  <2> QED
    BY <1>2, <1>4, <2>1
<1> QED
  BY <1>1, <1>3, <1>4

LEMMA VerifySound ==
  ASSUME ClearingInv, Typed', NEW p \in Procs, VerifyDiscarded(p)
  PROVE  Sound(p)
<1> DEFINE c == call[p]
           d == call'[p]
           with(x) == [c EXCEPT !.stuck = x]
<1>0. /\ Typed /\ c \in Calls /\ WellFormed(p, c) /\ Clearing(c, state, items)
      /\ c.pc = "verify" /\ c.sid \in Subs /\ c.result = "none" /\ c.op # "submit"
  BY DEF ClearingInv, Typed, CallsWellFormed, WellFormed, VerifyDiscarded
<1>1. PICK x \in BOOLEAN : x = (c.stuck \/ state[c.sid] = Draft)
  OBVIOUS
<1>2. UNCHANGED service /\ (d \in Failed \/ d \in Proceed(with(x)))
  BY <1>0, <1>1, GotoLands DEF VerifyDiscarded, Get
<1>3. /\ with(x) \in Calls /\ with(x).op = c.op /\ with(x).todo = c.todo /\ with(x).sid = c.sid
      /\ with(x).stuck = x /\ with(x).result = "none"
  BY <1>0 DEF Calls
<1> HIDE DEF with
<1>4. ASSUME d \in Proceed(with(x)), c.op \in ClearsOps PROVE Sound(p)
  <2>1. /\ ClearedBut(c, {c.sid}, state, items) /\ state[c.sid] \notin InFlight
        /\ items[c.sid] = {}
    BY <1>0, <1>4 DEF Clearing, UnderWay, Emptying
  <2>2. (c.stuck => x) /\ (state[c.sid] = Draft => x)
    BY <1>1
  <2>3. ClearedBut(with(x), {}, state, items)
    BY <1>3, <2>1, <2>2 DEF ClearedBut, Asked, Cleared, Active
  <2>4. Clearing(d, state, items) /\ Honest(with(x), d.result, state, items)
    BY <1>0, <1>3, <1>4, <2>3, ProceedClears DEF Clearing
  <2>5. Honest(c, d.result, state, items)
    BY <1>3, <2>4 DEF Honest, Asked
  <2> QED
    BY <1>2, <2>4, <2>5 DEF Sound, service
<1>5. ASSUME d \in Proceed(with(x)), c.op \notin ClearsOps PROVE Sound(p)
  <2>1. c.op \in {"none", "cancelReview", "resubmit"}
    BY <1>0, <1>5 DEF Calls, OpNames, ClearsOps
  <2>2. d.op \in {"none", c.op} /\ d.pc # "read"
    BY <1>3, <1>5, ProceedKeepsOp
  <2> QED
    BY <1>5, <2>1, <2>2, ClearsNothing DEF Sound
<1> QED
  BY <1>2, <1>4, <1>5, FailedSound

LEMMA RespondSound ==
  ASSUME OnOnePage, ClearingInv, Typed', NEW p \in Procs, Respond(p)
  PROVE  Sound(p)
<1>1. CASE ListDrafts(p) \/ ProbeDraft(p) \/ CreateSubmission(p) \/ AttachVersion(p) \/ MarkSubmitted(p)
  BY <1>1, SubmittingClears DEF Sound
<1>2. CASE ClearingStep(p)
  BY <1>2, ListSound, ReadSound, CancelSound, FetchSound, DeleteSound, VerifySound DEF ClearingStep
<1> QED
  BY <1>1, <1>2 DEF Respond, ClearingStep

\* nobody sends anything to review while another clears
OthersSendNothing ==
  \A p, q \in Procs :
    OpsOf[p] \cap ClearsOps # {} /\ OpsOf[q] \cap {"submit", "resubmit"} # {} => p = q

\* An exchange of a caller that sends nothing to review.
LEMMA OthersSubside ==
  ASSUME Typed, NEW p \in Procs, Fits(call[p]), Respond(p), OpsOf[p] \cap {"submit", "resubmit"} = {}
  PROVE  Subsides
<1> DEFINE c == call[p]
<1>0. ServiceTyped /\ WellFormed(p, c) /\ (c.pc # "idle" => c.op \in {"cancelReview"} \cup ClearsOps)
  BY OpsAssumption DEF Typed, CallsWellFormed, WellFormed, OpNames, ClearsOps
<1>1. ClearingStep(p)
  BY <1>0 DEF Fits, ClearsOps, WellFormed, Respond, ClearingStep, ListDrafts, ProbeDraft,
              CreateSubmission, AttachVersion, MarkSubmitted
<1>2. \/ UNCHANGED service
      \/ MoveTo(c.sid, "CANCELING")
      \/ \E v : state[c.sid] = Draft /\ Detach(c.sid, v)
  BY <1>1 DEF ClearingStep, ListToCancelFirst, ListToCancel, ReadSubmission, CancelInFlight,
              FetchItems, DeleteItem, VerifyDiscarded, Get, Send
<1>3. CASE UNCHANGED service
  BY <1>3 DEF Subsides, service
<1>4. CASE MoveTo(c.sid, "CANCELING")
  BY <1>0, <1>4 DEF Subsides, MoveTo, ServiceTyped, Draft, InFlight
<1>5. ASSUME NEW v, state[c.sid] = Draft, Detach(c.sid, v) PROVE Subsides
  <2>1. PICK st \in {Draft, "Gone", "COMPLETE"} : state' = [state EXCEPT ![c.sid] = st]
    BY <1>5 DEF Detach
  <2>2. items' = [items EXCEPT ![c.sid] = @ \ {v}]
    BY <1>5 DEF Detach
  <2> QED
    BY <1>0, <1>5, <2>1, <2>2 DEF Subsides, ServiceTyped, Draft, InFlight
<1> QED
  BY <1>2, <1>3, <1>4, <1>5

LEMMA ClearingInvariant == ASSUME OthersSendNothing, OnOnePage PROVE Spec => []ClearingInv
<1>1. Init => \A p \in Procs : Clearing(call[p], state, items)
  BY DEF Init, Clearing, Returned, ClearsOps
<1>2. ClearingInv /\ Fitting /\ Typed' /\ [Next]_vars => ClearingInv'
  <2> SUFFICES ASSUME ClearingInv, Fitting, Typed', [Next]_vars PROVE ClearingInv'
    OBVIOUS
  <2>0. Typed /\ \A q \in Procs : WellFormed(q, call[q]) /\ Clearing(call[q], state, items)
    BY DEF ClearingInv, Typed, CallsWellFormed
  <2>1. ASSUME NEW p \in Procs, NEW d, call' = [call EXCEPT ![p] = d], Clearing(d, state', items'),
               Subsides \/ \A q \in Procs \ {p} : OpsOf[q] \cap ClearsOps = {}
        PROVE  ClearingInv'
    <3>1. call'[p] = d /\ \A q \in Procs \ {p} : call'[q] = call[q]
      BY <2>0, <2>1 DEF Typed, CallsWellFormed
    <3>2. ASSUME NEW q \in Procs \ {p} PROVE Clearing(call[q], state', items')
      <4>1. CASE Subsides
        BY <2>0, <4>1, WaitingClears
      <4>2. CASE OpsOf[q] \cap ClearsOps = {}
        <5>1. call[q].op \notin ClearsOps /\ call[q].pc # "read"
          BY <2>0, <4>2 DEF WellFormed, Clearing, ClearsOps
        <5> QED
          BY <5>1 DEF Clearing, ClearsOps
      <4> QED
        BY <2>1, <4>1, <4>2
    <3> QED
      BY <2>1, <3>1, <3>2 DEF ClearingInv
  <2>2. ASSUME NEW p \in Procs, Start(p) PROVE ClearingInv'
    <3>1. PICK d : Begins(p, d)
      BY <2>2, StartsWell
    <3>2. call' = [call EXCEPT ![p] = d] /\ Subsides
      BY <3>1 DEF Begins, Begin, Subsides, service
    <3>3. Clearing(d, state', items')
      BY <3>1 DEF Begins, FirstRequest, Clearing, ClearsOps, UnderWay
    <3> QED
      BY <2>1, <3>2, <3>3
  <2>3. ASSUME NEW p \in Procs, Respond(p) PROVE ClearingInv'
    <3>1. PICK d : call' = [call EXCEPT ![p] = d]
      BY <2>0, <2>3, RespondTyped DEF StepTyped, Moves
    <3>2. Clearing(d, state', items')
      <4>1. call'[p] = d
        BY <2>0, <3>1 DEF Typed, CallsWellFormed
      <4> QED
        BY <2>3, <4>1, RespondSound DEF Sound
    <3>3. CASE OpsOf[p] \cap {"submit", "resubmit"} = {}
      BY <2>0, <2>1, <2>3, <3>1, <3>2, <3>3, OthersSubside DEF Fitting
    <3>4. CASE OpsOf[p] \cap {"submit", "resubmit"} # {}
      <4>1. \A q \in Procs \ {p} : OpsOf[q] \cap ClearsOps = {}
        BY <3>4 DEF OthersSendNothing
      <4> QED
        BY <2>1, <3>1, <3>2, <4>1
    <3> QED
      BY <3>3, <3>4
  <2>4. ASSUME NEW p \in Procs, Drop(p) PROVE ClearingInv'
    <3> DEFINE d == Returned("Dropped")
    <3>1. call' = [call EXCEPT ![p] = d] /\ Subsides
      BY <2>4 DEF Drop, Goto, Subsides, service
    <3>2. d.op = "none" /\ d.pc = "idle"
      BY DEF Returned
    <3> HIDE DEF d
    <3>3. Clearing(d, state', items')
      BY <3>2, ClearsNothing
    <3> QED
      BY <2>1, <3>1, <3>3
  <2>5. ASSUME call' = call, Subsides PROVE ClearingInv'
    BY <2>0, <2>5, WaitingClears DEF ClearingInv
  <2>6. ASSUME NEW s \in Subs, Review(s) PROVE call' = call /\ Subsides
    BY <2>0, <2>6 DEF Review, MoveTo, Subsides, Typed, ServiceTyped, Draft, InFlight
  <2>7. ASSUME NEW s \in Subs, RemoveOnWebsite(s) PROVE call' = call /\ Subsides
    BY <2>0, <2>7 DEF RemoveOnWebsite, Subsides, Typed, ServiceTyped, Draft, InFlight
  <2>8. CASE UNCHANGED vars
    BY <2>5, <2>8 DEF vars, Subsides
  <2> QED
    BY <2>2, <2>3, <2>4, <2>5, <2>6, <2>7, <2>8 DEF Next
<1> QED
  BY <1>1, <1>2, TypedInvariant, FitsInvariant, PTL DEF Spec, ClearingInv

\* As long as nobody else sends anything to review, a caller that sees all
\* submissions on one page can believe cancel_submission and
\* discard_review_submission, however many others cancel and discard: what Ok says
\* is cleared is not active, and what SubmissionNotRemovable leaves are empty drafts.
THEOREM VerdictIsTrue == ASSUME OthersSendNothing, OnOnePage PROVE Spec => VerdictIsHonest
<1> DEFINE verdict(p) ==
             LET asked == IF call[p].op = "discard" THEN {call[p].sid} ELSE Subs
                 left == {s \in asked : state'[s] \in Active} IN
             call[p].op \in {"discard", "cancelSubmission"} =>
               /\ call'[p].result = "Ok" => left = {}
               /\ call'[p].result = "NotRemovable" =>
                    \A s \in left : state'[s] = Draft /\ items'[s] = {}
<1>1. ASSUME ClearingInv, Typed', Next, NEW p \in Procs PROVE verdict(p)
  <2>1. CASE call[p].op \in ClearsOps /\ call'[p].result \in {"Ok", "NotRemovable"}
    <3>1. call[p].pc # "idle"
      BY <1>1, <2>1 DEF ClearingInv, Typed, CallsWellFormed, WellFormed, ClearsOps
    <3>2. Respond(p)
      BY <1>1, <2>1, <3>1, AnswerResponds DEF ClearingInv
    <3>3. Honest(call[p], call'[p].result, state', items')
      BY <1>1, <2>1, <3>2, RespondSound DEF Sound
    <3> QED
      BY <3>3 DEF Honest, Asked
  <2>2. CASE ~(call[p].op \in ClearsOps /\ call'[p].result \in {"Ok", "NotRemovable"})
    BY <2>2 DEF ClearsOps
  <2> QED
    BY <2>1, <2>2
<1>2. ClearingInv /\ Typed' /\ [Next]_vars => [\A p \in Procs : verdict(p)]_vars
  BY <1>1
<1> QED
  BY <1>2, ClearingInvariant, TypedInvariant, PTL DEF Spec, VerdictIsHonest

-----------------------------------------------------------------------------
(* The workflow keeps its promise (module ReviewPromise).                  *)

\* A step after which the same submissions are sent to review, with the same
\* versions.
SendsNothing ==
  \A s \in Subs :
    /\ WasSent(s)' <=> WasSent(s)
    /\ WasSent(s) => items'[s] = items[s]

LEMMA SentOffStays == ASSUME SendsNothing PROVE SentOff' = SentOff
BY DEF SendsNothing, SentOff

\* A submission that is not a draft moves on, or one that is not there begins.
LEMMA MoveSendsNothing ==
  ASSUME Typed, NEW s \in Subs, NEW st \in States, MoveTo(s, st),
         \/ state[s] \notin {"Unborn", Draft} /\ st \notin {"Unborn", Draft}
         \/ state[s] = "Unborn" /\ st = Draft
  PROVE  SendsNothing
<1>1. items' = items /\ state'[s] = st /\ \A t \in Subs \ {s} : state'[t] = state[t]
  BY DEF MoveTo, Typed, ServiceTyped
<1> QED
  BY <1>1 DEF SendsNothing, WasSent

LEMMA IdleSendsNothing == ASSUME UNCHANGED service PROVE SendsNothing
BY DEF SendsNothing, WasSent, service

\* Only a mark request sends anything, and it sends one draft, as it is.
LEMMA OnlyMarkSends ==
  ASSUME Typed, NEW p \in Procs, Respond(p)
  PROVE  \/ SendsNothing
         \/ /\ MarkSubmitted(p) /\ call[p].sid \in Subs /\ CanMark(call[p].sid)
            /\ SentOff' = SentOff \cup {[sub |-> call[p].sid, versions |-> items[call[p].sid]]}
<1> DEFINE c == call[p]
<1>0. WellFormed(p, c) /\ ServiceTyped
  BY DEF Typed, CallsWellFormed
<1>1. CASE \/ ListDrafts(p) \/ ProbeDraft(p) \/ ListToCancelFirst(p) \/ ListToCancel(p)
           \/ ReadSubmission(p) \/ FetchItems(p) \/ VerifyDiscarded(p)
  <2>1. UNCHANGED service
    BY <1>1 DEF ListDrafts, ProbeDraft, ListToCancelFirst, ListToCancel, ReadSubmission,
                FetchItems, VerifyDiscarded, Get
  <2> QED
    BY <2>1, IdleSendsNothing
<1>2. CASE CreateSubmission(p)
  <2>1. UNCHANGED service \/ \E s \in Unborn : MoveTo(s, Draft)
    BY <1>2 DEF CreateSubmission, Send
  <2> QED
    BY <2>1, IdleSendsNothing, MoveSendsNothing DEF Unborn, States, Active
<1>3. CASE AttachVersion(p)
  <2>1. \/ UNCHANGED service
        \/ /\ state[c.sid] = Draft /\ state' = state
           /\ items' = [items EXCEPT ![c.sid] = @ \cup {c.ver}]
    BY <1>3 DEF AttachVersion, Send
  <2> QED
    BY <1>0, <2>1, IdleSendsNothing DEF SendsNothing, WasSent, ServiceTyped
<1>4. CASE MarkSubmitted(p)
  <2>1. c.sid \in Subs
    BY <1>0, <1>4 DEF MarkSubmitted, WellFormed
  <2>2. UNCHANGED service \/ (CanMark(c.sid) /\ MoveTo(c.sid, "WAITING_FOR_REVIEW"))
    BY <1>4 DEF MarkSubmitted, Send
  <2>3. ASSUME CanMark(c.sid), MoveTo(c.sid, "WAITING_FOR_REVIEW")
        PROVE  SentOff' = SentOff \cup {[sub |-> c.sid, versions |-> items[c.sid]]}
    <3>1. \A t \in Subs : WasSent(t)' <=> (WasSent(t) \/ t = c.sid)
      BY <1>0, <2>1, <2>3 DEF CanMark, MoveTo, WasSent, ServiceTyped, Draft
    <3>2. items' = items
      BY <2>3 DEF MoveTo
    <3> QED
      BY <2>1, <3>1, <3>2 DEF SentOff
  <2> QED
    BY <1>4, <2>1, <2>2, <2>3, IdleSendsNothing
<1>5. CASE CancelInFlight(p)
  <2>1. c.sid \in Subs
    BY <1>0, <1>5 DEF CancelInFlight, WellFormed
  <2>2. UNCHANGED service \/ (state[c.sid] \in InFlight /\ MoveTo(c.sid, "CANCELING"))
    BY <1>5 DEF CancelInFlight, Send
  <2> QED
    BY <2>1, <2>2, IdleSendsNothing, MoveSendsNothing DEF InFlight, States, Draft
<1>6. CASE DeleteItem(p)
  <2>1. c.sid \in Subs
    BY <1>0, <1>6 DEF DeleteItem, WellFormed
  <2>2. \/ UNCHANGED service
        \/ \E v \in c.page : state[c.sid] = Draft /\ v \in items[c.sid] /\ Detach(c.sid, v)
    BY <1>6 DEF DeleteItem, Send
  <2>3. ASSUME NEW v, state[c.sid] = Draft, Detach(c.sid, v) PROVE SendsNothing
    <3>1. /\ items'[c.sid] = items[c.sid] \ {v}
          /\ state'[c.sid] = Draft \/ items[c.sid] = {v}
          /\ \A t \in Subs \ {c.sid} : state'[t] = state[t] /\ items'[t] = items[t]
      BY <1>0, <2>1, <2>3 DEF Detach, ServiceTyped
    <3>2. \A t \in Subs : t = c.sid => ~WasSent(t) /\ ~WasSent(t)'
      BY <2>3, <3>1 DEF WasSent
    <3> QED
      BY <3>1, <3>2 DEF SendsNothing, WasSent
  <2> QED
    BY <2>2, <2>3, IdleSendsNothing
<1> QED
  BY <1>1, <1>2, <1>3, <1>4, <1>5, <1>6 DEF Respond

\* What p's new locals say to the outside.
LEMMA CallShows ==
  ASSUME Typed, NEW p \in Procs, NEW d, call' = [call EXCEPT ![p] = d]
  PROVE  /\ AskedFor' = [AskedFor EXCEPT ![p] = AskedBy(d)]
         /\ Told' = [Told EXCEPT ![p] = d.result]
         /\ AskedFor[p] = AskedBy(call[p]) /\ Told[p] = call[p].result
<1>1. call'[p] = d /\ \A q \in Procs \ {p} : call'[q] = call[q]
  BY DEF Typed, CallsWellFormed
<1>2. AskedFor' = [AskedFor EXCEPT ![p] = AskedBy(d)]
  <2>1. AskedFor' = [q \in Procs |-> AskedBy(call'[q])]
    BY DEF AskedFor, AskedBy
  <2>2. \A q \in Procs : AskedFor[q] = AskedBy(call[q])
    BY DEF AskedFor
  <2>3. AskedFor = [q \in Procs |-> AskedFor[q]]
    BY DEF AskedFor
  <2> QED
    BY <1>1, <2>1, <2>2, <2>3
<1>3. Told' = [Told EXCEPT ![p] = d.result]
  <2>1. Told' = [q \in Procs |-> call'[q].result]
    BY DEF Told
  <2>2. \A q \in Procs : Told[q] = call[q].result
    BY DEF Told
  <2>3. Told = [q \in Procs |-> Told[q]]
    BY DEF Told
  <2> QED
    BY <1>1, <2>1, <2>2, <2>3
<1>4. AskedFor[p] = AskedBy(call[p]) /\ Told[p] = call[p].result
  BY DEF AskedFor, Told
<1> QED
  BY <1>2, <1>3, <1>4

LEMMA CallShowsNothing ==
  ASSUME Typed, NEW p \in Procs, NEW d, call' = [call EXCEPT ![p] = d],
         AskedBy(d) = AskedBy(call[p]), d.result = call[p].result
  PROVE  AskedFor' = AskedFor /\ Told' = Told
<1>1. call'[p] = d /\ \A q \in Procs \ {p} : call'[q] = call[q]
  BY DEF Typed, CallsWellFormed
<1>2. \A q \in Procs : AskedBy(call'[q]) = AskedBy(call[q]) /\ call'[q].result = call[q].result
  BY <1>1
<1>3. AskedFor' = AskedFor
  BY <1>2 DEF AskedFor, AskedBy
<1> QED
  BY <1>2, <1>3 DEF Told

\* What a call under way, or a finished one, shows.
LEMMA AskedByCall ==
  ASSUME NEW p, NEW c, WellFormed(p, c)
  PROVE  /\ c.op = "submit" => AskedBy(c) = c.ver /\ c.ver \in Versions
         /\ c.op # "submit" => AskedBy(c) = NoVersion
         /\ AskedBy(c) # NoVersion <=> c.op = "submit"
         /\ c.result \in Promise!Answers
BY NullAssumption DEF AskedBy, WellFormed, Calls, Results, Promise!Answers

\* Every exchange is a step of the promise, or shows nothing.
LEMMA RespondPromised ==
  ASSUME IInv, Typed', Next, NEW p \in Procs, Respond(p)
  PROVE  Promise!Next \/ UNCHANGED <<AskedFor, Told, SentOff>>
<1> DEFINE c == call[p]
<1>0. Typed /\ WellFormed(p, c)
  BY DEF IInv, Typed, CallsWellFormed
<1>1. PICK d : call' = [call EXCEPT ![p] = d] /\ WellFormed(p, d)
  BY <1>0, RespondTyped DEF StepTyped, Moves
<1>2. call'[p] = d /\ GoesOn(c, d)
  BY <1>0, <1>1, RespondGoesOn DEF Typed, CallsWellFormed
<1>3. c.pc # "idle" /\ c.op # "none" /\ c.result = "none"
  <2>1. c.pc # "idle"
    BY DEF Respond, ListDrafts, ProbeDraft, CreateSubmission, AttachVersion, MarkSubmitted,
           ListToCancelFirst, ListToCancel, ReadSubmission, CancelInFlight, FetchItems,
           DeleteItem, VerifyDiscarded
  <2> QED
    BY <1>0, <2>1, OpsAssumption DEF WellFormed, OpNames
<1>4. CASE d.op = c.op /\ d.ver = c.ver
  <2>1. d.result = "none" /\ AskedBy(d) = AskedBy(c)
    BY <1>1, <1>3, <1>4 DEF WellFormed, AskedBy
  <2>2. AskedFor' = AskedFor /\ Told' = Told
    BY <1>0, <1>1, <1>3, <2>1, CallShowsNothing
  <2>3. CASE SendsNothing
    BY <2>2, <2>3, SentOffStays
  <2>4. CASE ~SendsNothing
    <3>1. /\ MarkSubmitted(p) /\ c.sid \in Subs /\ CanMark(c.sid)
          /\ SentOff' = SentOff \cup {[sub |-> c.sid, versions |-> items[c.sid]]}
      BY <1>0, <2>4, OnlyMarkSends
    <3>2. c.op = "submit"
      <4>1. d = Returned("Ok") \/ d \in GiveUp(c)
        BY <1>0, <1>2, <3>1, GotoLands DEF MarkSubmitted, Send
      <4> QED
        BY <1>3, <1>4, <4>1 DEF GiveUp, Failed, Returned
    <3>3. items[c.sid] = {c.ver} /\ ~Promise!Sent(c.sid)
      BY <1>0, <3>1, <3>2
      DEF IInv, ReusedDraftIsOurs, HoldsOnlyItsVersion, MarkSubmitted, CanMark, Promise!Sent,
          SentOff, WasSent
    <3>4. AskedFor[p] = c.ver /\ AskedFor[p] # NoVersion
      BY <1>0, <1>1, <3>2, CallShows, AskedByCall
    <3> QED
      BY <2>2, <3>1, <3>3, <3>4 DEF Promise!Next, Promise!Submit, Promise!SendOf
  <2> QED
    BY <2>3, <2>4
<1>5. ASSUME NEW r \in {"Ok", "Err", "NotRemovable"}, d = Returned(r), r = "NotRemovable" => c.op # "submit"
      PROVE  Promise!Next
  <2>1. d.op = "none" /\ d.result = r /\ AskedBy(d) = NoVersion
    BY <1>5 DEF Returned, AskedBy
  <2>2. /\ AskedFor' = [AskedFor EXCEPT ![p] = NoVersion] /\ Told' = [Told EXCEPT ![p] = r]
        /\ AskedFor[p] = AskedBy(c) /\ Told[p] = "none"
    BY <1>0, <1>1, <1>3, <2>1, CallShows, AskedByCall
  <2>3. \A answers : r \in answers => Promise!Answer(p, answers)
    BY <2>2 DEF Promise!Answer
  <2>4. CASE SendsNothing /\ c.op = "submit"
    <3>1. r # "Ok"
      <4> SUFFICES ASSUME r = "Ok" PROVE FALSE
        OBVIOUS
      <4>1. CanMark(c.sid) /\ MoveTo(c.sid, "WAITING_FOR_REVIEW") /\ c.sid \in Subs
        BY <1>0, <1>2, <2>1, <2>4, SubmittedByMark DEF Submits, WellFormed
      <4>2. /\ state[c.sid] = Draft /\ state'[c.sid] = "WAITING_FOR_REVIEW"
            /\ items[c.sid] # {} /\ items' = items
        BY <1>0, <4>1 DEF CanMark, MoveTo, Typed, ServiceTyped
      <4>3. \A s \in Subs : s = c.sid => ~WasSent(s) /\ WasSent(s)'
        BY <4>2 DEF WasSent, Draft
      <4> QED
        BY <2>4, <4>1, <4>3 DEF SendsNothing
    <3>2. AskedFor[p] # NoVersion /\ SentOff' = SentOff /\ r \in {"Err", "Dropped"}
      BY <1>0, <1>5, <2>2, <2>4, <3>1, AskedByCall, SentOffStays
    <3> QED
      BY <2>3, <3>2 DEF Promise!Next, Promise!Fail
  <2>5. CASE SendsNothing /\ c.op # "submit"
    <3>1. AskedFor[p] = NoVersion /\ SentOff' = SentOff /\ r \in Promise!Answers
      BY <1>0, <2>2, <2>5, AskedByCall, SentOffStays DEF Promise!Answers
    <3> QED
      BY <2>3, <3>1 DEF Promise!Next, Promise!Otherwise
  <2>6. CASE ~SendsNothing
    <3>1. /\ MarkSubmitted(p) /\ c.sid \in Subs /\ CanMark(c.sid)
          /\ SentOff' = SentOff \cup {[sub |-> c.sid, versions |-> items[c.sid]]}
      BY <1>0, <2>6, OnlyMarkSends
    <3>2. r \in {"Ok", "Err"}
      <4>1. d = Returned("Ok") \/ d \in GiveUp(c)
        BY <1>0, <1>2, <3>1, GotoLands DEF MarkSubmitted, Send
      <4> QED
        BY <1>0, <1>5, <2>1, <4>1 DEF GiveUp, Failed, Returned, WellFormed, Calls
    <3>3. ~Promise!Sent(c.sid) /\ items[c.sid] \in (SUBSET Versions) \ {{}}
      BY <1>0, <3>1 DEF CanMark, Promise!Sent, SentOff, WasSent, Typed, ServiceTyped
    <3>4. Promise!SendOf(c.sid, items[c.sid])
      BY <3>1, <3>3 DEF Promise!SendOf
    <3>5. CASE c.op = "submit"
      <4>1. items[c.sid] = {c.ver} /\ AskedFor[p] = c.ver /\ AskedFor[p] # NoVersion
        BY <1>0, <2>2, <3>1, <3>5, AskedByCall
        DEF IInv, ReusedDraftIsOurs, HoldsOnlyItsVersion, MarkSubmitted, CanMark
      <4> QED
        BY <2>3, <3>1, <3>2, <3>4, <4>1 DEF Promise!Next, Promise!Submit
    <3>6. CASE c.op # "submit"
      <4>1. AskedFor[p] = NoVersion
        BY <1>0, <2>2, <3>6, AskedByCall
      <4> QED
        BY <2>2, <2>3, <3>1, <3>2, <3>3, <3>4, <4>1 DEF Promise!Next, Promise!Resubmit
    <3> QED
      BY <3>5, <3>6
  <2> QED
    BY <2>4, <2>5, <2>6
<1> QED
  BY <1>2, <1>4, <1>5 DEF GoesOn

\* The workflow implements ReviewPromise: with a single submitter, every step of
\* every caller, the reviewers and the website is one of the promise's or shows
\* nothing.
THEOREM SubmissionsKeepPromise == ASSUME SingleSubmitter PROVE Spec => KeepsPromise
<1>1. Init => Promise!Init
  <2> SUFFICES ASSUME Init PROVE Promise!Init
    OBVIOUS
  <2>1. AskedFor = [p \in Procs |-> NoVersion] /\ Told = [p \in Procs |-> "none"]
    BY DEF Init, AskedFor, AskedBy, Told, Returned
  <2>2. SentOff \subseteq [sub : Subs, versions : SUBSET Versions]
    BY DEF Init, SentOff
  <2>3. \A q, r \in SentOff : q.sub = r.sub => q = r
    BY DEF SentOff
  <2> QED
    BY <2>1, <2>2, <2>3 DEF Promise!Init
<1>2. IInv /\ Typed' /\ [Next]_vars => [Promise!Next]_<<AskedFor, Told, SentOff>>
  <2> SUFFICES ASSUME IInv, Typed', [Next]_vars
               PROVE  Promise!Next \/ UNCHANGED <<AskedFor, Told, SentOff>>
    OBVIOUS
  <2>0. Typed
    BY DEF IInv
  <2>1. ASSUME NEW p \in Procs, Start(p) PROVE Promise!Next
    <3>1. PICK d : Begins(p, d)
      BY <2>1, StartsWell
    <3>2. call' = [call EXCEPT ![p] = d] /\ SendsNothing /\ WellFormed(p, d) /\ d.result = "none"
      BY <3>1, IdleSendsNothing DEF Begins, Begin, FirstRequest, WellFormed
    <3>3. call[p].op = "none" /\ WellFormed(p, call[p])
      BY <2>0, <3>1 DEF Begins, Begin, Typed, CallsWellFormed, WellFormed
    <3>4. AskedFor[p] = NoVersion /\ SentOff' = SentOff
      BY <2>0, <3>2, <3>3, CallShows, AskedByCall, SentOffStays
    <3>5. AskedFor' = [AskedFor EXCEPT ![p] = AskedBy(d)] /\ Told' = [Told EXCEPT ![p] = "none"]
      <4>1. AskedFor' = [AskedFor EXCEPT ![p] = AskedBy(d)] /\ Told' = [Told EXCEPT ![p] = d.result]
        BY <2>0, <2>1, <3>2, CallShows
      <4> QED
        BY <3>2, <4>1
    <3>6. CASE d.op = "submit"
      <4>1. AskedBy(d) \in Versions
        BY <3>2, <3>6, AskedByCall
      <4> QED
        BY <3>4, <3>5, <4>1 DEF Promise!Next, Promise!Ask
    <3>7. CASE d.op # "submit"
      <4>1. AskedBy(d) = NoVersion /\ "none" \in Promise!Answers
        BY <3>2, <3>7, AskedByCall DEF Promise!Answers
      <4> QED
        BY <3>4, <3>5, <4>1 DEF Promise!Next, Promise!Otherwise, Promise!Answer
    <3> QED
      BY <3>6, <3>7
  <2>2. ASSUME NEW p \in Procs, Respond(p) PROVE Promise!Next \/ UNCHANGED <<AskedFor, Told, SentOff>>
    <3>1. Next
      BY <2>2 DEF Next
    <3> QED
      BY <2>2, <3>1, RespondPromised
  <2>3. ASSUME NEW p \in Procs, Drop(p) PROVE Promise!Next
    <3> DEFINE d == Returned("Dropped")
    <3>1. call' = [call EXCEPT ![p] = d] /\ SendsNothing
      BY <2>3, IdleSendsNothing DEF Drop, Goto
    <3>2. d.op = "none" /\ d.result = "Dropped"
      BY DEF Returned
    <3>3. AskedBy(d) = NoVersion
      BY <3>2 DEF AskedBy
    <3> HIDE DEF d
    <3>4. /\ AskedFor' = [AskedFor EXCEPT ![p] = NoVersion]
          /\ Told' = [Told EXCEPT ![p] = "Dropped"] /\ SentOff' = SentOff
      <4>1. AskedFor' = [AskedFor EXCEPT ![p] = AskedBy(d)] /\ Told' = [Told EXCEPT ![p] = d.result]
        BY <2>0, <2>3, <3>1, CallShows
      <4> QED
        BY <3>1, <3>2, <3>3, <4>1, SentOffStays
    <3>5. "Dropped" \in {"Err", "Dropped"} /\ "Dropped" \in Promise!Answers
      BY DEF Promise!Answers
    <3> QED
      BY <3>4, <3>5 DEF Promise!Next, Promise!Fail, Promise!Otherwise, Promise!Answer
  <2>4. ASSUME call' = call, SendsNothing PROVE UNCHANGED <<AskedFor, Told, SentOff>>
    BY <2>4, SentOffStays DEF AskedFor, Told
  <2>5. ASSUME NEW s \in Subs, Review(s) PROVE call' = call /\ SendsNothing
    <3>1. /\ call' = call /\ state[s] \notin {"Unborn", Draft}
          /\ \E st \in States \ {"Unborn", Draft} : MoveTo(s, st)
      BY <2>5 DEF Review, States, Active, InFlight, Draft
    <3> QED
      BY <2>0, <3>1, MoveSendsNothing
  <2>6. ASSUME NEW s \in Subs, RemoveOnWebsite(s) PROVE call' = call /\ SendsNothing
    BY <2>0, <2>6 DEF RemoveOnWebsite, SendsNothing, WasSent, Typed, ServiceTyped
  <2>7. CASE UNCHANGED vars
    BY <2>4, <2>7, IdleSendsNothing DEF vars, service
  <2> QED
    BY <2>1, <2>2, <2>3, <2>4, <2>5, <2>6, <2>7 DEF Next
<1> QED
  BY <1>1, <1>2, IInvInvariant, TypedInvariant, PTL DEF Spec, KeepsPromise, Promise!Spec
=============================================================================
