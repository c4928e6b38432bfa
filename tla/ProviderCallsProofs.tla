-------------------------- MODULE ProviderCallsProofs --------------------------
(***************************************************************************)
(* Proofs about Team and Records, for any number of entries, reads under   *)
(* way, changes, resources, hosts and copies, and about MCProviderCalls,   *)
(* which runs them beside the transfers and the account export: each part  *)
(* behaves there as it does alone.                                         *)
(***************************************************************************)
EXTENDS MCProviderCalls, PagedReadingProofs, TransferProofs, AccountExportProofs

-----------------------------------------------------------------------------
(* Team.                                                                   *)

\* Nobody is a member and invited, so who leaves the listing that delete_user
\* addresses has left the account.
Apart(H) == H["users"] \cap H["userInvitations"] = {}

TeamInv ==
  /\ held \in [Listings -> SUBSET Entries]
  /\ Apart(held)
  /\ RemovedStaysOut

LEMMA UsersAre == Users = held["users"] \cup held["userInvitations"]
BY DEF Users, Team

LEMMA TeamListed == "users" \in Listings /\ "userInvitations" \in Listings
BY TeamAssumption DEF Team

\* An invitation, or anything else that enters a listing.
LEMMA Enters ==
  ASSUME TeamInv, NEW l \in Listings, NEW e \in Entries, Enter(l, e)
  PROVE  /\ held' \in [Listings -> SUBSET Entries] /\ Apart(held')
         /\ l \in Team => Users' = Users \cup {e}
         /\ l \notin Team => Users' = Users
<1>1. held' = [held EXCEPT ![l] = @ \cup {e}]
  BY DEF Enter, HeldBecomes
<1>2. held' \in [Listings -> SUBSET Entries]
  BY <1>1 DEF TeamInv
<1>3. l \in Team => e \notin held["users"] /\ e \notin held["userInvitations"]
  BY TeamListed DEF Enter, Together, Team
<1>4. Apart(held')
  BY <1>1, <1>3, TeamListed DEF TeamInv, Apart, Team
<1>5. /\ l \in Team => Users' = Users \cup {e}
      /\ l \notin Team => Users' = Users
  BY <1>1, TeamListed, UsersAre DEF TeamInv, Team, Users
<1> QED
  BY <1>2, <1>4, <1>5

LEMMA Leaves ==
  ASSUME TeamInv, NEW l \in Listings, NEW e \in Entries, Leave(l, e)
  PROVE  /\ held' \in [Listings -> SUBSET Entries] /\ Apart(held')
         /\ Users' \subseteq Users
         /\ l \in Team => e \notin Users'
<1>1. held' = [held EXCEPT ![l] = @ \ {e}] /\ e \in held[l]
  BY DEF Leave, HeldBecomes
<1>2. held' \in [Listings -> SUBSET Entries] /\ Apart(held')
  BY <1>1, TeamListed DEF TeamInv, Apart
<1>3. Users' = held'["users"] \cup held'["userInvitations"]
  BY DEF Users, Team
<1> QED
  BY <1>1, <1>2, <1>3, TeamListed, UsersAre DEF TeamInv, Apart, Team

LEMMA Accepts ==
  ASSUME TeamInv, NEW e \in Entries, Accept(e)
  PROVE  held' \in [Listings -> SUBSET Entries] /\ Apart(held') /\ Users' = Users
<1>1. /\ held' = [held EXCEPT !["userInvitations"] = @ \ {e}, !["users"] = @ \cup {e}]
      /\ e \in held["userInvitations"]
  BY DEF Accept, HeldBecomes
<1>2. held' \in [Listings -> SUBSET Entries]
  BY <1>1 DEF TeamInv
<1>3. /\ held'["userInvitations"] = held["userInvitations"] \ {e}
      /\ held'["users"] = held["users"] \cup {e}
  BY <1>1, TeamListed DEF TeamInv
<1>4. Apart(held')
  BY <1>3 DEF TeamInv, Apart
<1>5. Users' = held'["users"] \cup held'["userInvitations"]
  BY DEF Users, Team
<1> QED
  BY <1>1, <1>2, <1>3, <1>4, <1>5, UsersAre

\* Whatever changes at the service, who was removed and is not back stays out.
LEMMA OthersKeepOut ==
  ASSUME TeamInv, Others
  PROVE  TeamInv'
<1>1. removed' = removed \ (Users' \ Users)
  BY DEF Others
<1>2. ASSUME NEW l \in InUse, NEW e \in Entries, Enter(l, e) \/ Leave(l, e)
      PROVE  held' \in [Listings -> SUBSET Entries] /\ Apart(held')
  <2>1. CASE l \in Listings
    BY <1>2, <2>1, Enters, Leaves
  <2>2. CASE l \notin Listings
    BY <1>2, <2>2, TeamListed DEF Enter, Leave, HeldBecomes, TeamInv, Apart
  <2> QED
    BY <2>1, <2>2
<1>3. ASSUME NEW e \in Entries, Accept(e) \/ Edit(e)
      PROVE  held' \in [Listings -> SUBSET Entries] /\ Apart(held')
  BY <1>3, Accepts DEF Edit, TeamInv
<1>4. held' \in [Listings -> SUBSET Entries] /\ Apart(held')
  BY <1>2, <1>3 DEF Others, ServiceNext
<1> QED
  BY <1>1, <1>4 DEF TeamInv, RemovedStaysOut

LEMMA TeamInvariant == TeamSpec => []TeamInv
<1>1. TeamInit => TeamInv
  <2> SUFFICES ASSUME TeamInit PROVE TeamInv
    OBVIOUS
  <2>1. PICK H, I \in SUBSET Entries :
          H \cap I = {} /\ held = [l \in Listings |-> IF l = "userInvitations" THEN I ELSE H]
    BY DEF TeamInit, PagedInit
  <2> QED
    BY <2>1, TeamListed DEF TeamInit, TeamInv, Apart, RemovedStaysOut
<1>2. TeamInv /\ [TeamNext]_teamVars => TeamInv'
  <2> SUFFICES ASSUME TeamInv, [TeamNext]_teamVars PROVE TeamInv'
    OBVIOUS
  <2>1. CASE Others
    BY <2>1, OthersKeepOut
  <2>2. ASSUME NEW e \in Entries, invite_user(e) PROVE TeamInv'
    <3>1. Enter("userInvitations", e) /\ removed' = removed \ {e}
      BY <2>2 DEF invite_user
    <3>2. /\ held' \in [Listings -> SUBSET Entries] /\ Apart(held')
          /\ Users' = Users \cup {e}
      BY <3>1, TeamListed, Enters DEF Team
    <3> QED
      BY <3>1, <3>2 DEF TeamInv, RemovedStaysOut
  <2>3. ASSUME NEW e \in Entries, NEW pending \in BOOLEAN, delete_user(e, pending)
        PROVE  TeamInv'
    <3> DEFINE listing == IF pending THEN "userInvitations" ELSE "users"
    <3>1. /\ Leave(listing, e) /\ removed' \subseteq removed \cup {e}
          /\ listing \in Listings /\ listing \in Team
      BY <2>3, TeamListed DEF delete_user, Team
    <3>2. /\ held' \in [Listings -> SUBSET Entries] /\ Apart(held')
          /\ Users' \subseteq Users /\ e \notin Users'
      BY <3>1, Leaves
    <3> QED
      BY <3>1, <3>2 DEF TeamInv, RemovedStaysOut
  <2>4. ASSUME NEW t \in Tasks, ReadNext(t), UNCHANGED <<shown, removed>>
        PROVE  TeamInv'
    <3>1. held' = held
      BY <2>4 DEF ReadNext, Answered, Begin, NextPage, FailPage, LoadMore, DropRead
    <3> QED
      BY <2>4, <3>1 DEF TeamInv, Apart, RemovedStaysOut, Users
  <2>5. CASE UNCHANGED teamVars
    BY <2>5 DEF teamVars, pagedVars, TeamInv, Apart, RemovedStaysOut, Users
  <2> QED
    BY <2>1, <2>2, <2>3, <2>4, <2>5 DEF TeamNext
<1> QED
  BY <1>1, <1>2, PTL DEF TeamSpec

\* Who was removed with an Ok is neither member nor invited until invited again,
\* however many hosts call with listings however old.
THEOREM RemovalsHold == TeamSpec => []RemovedStaysOut
<1>1. TeamInv => RemovedStaysOut
  BY DEF TeamInv
<1> QED
  BY TeamInvariant, <1>1, PTL

-----------------------------------------------------------------------------
(* Team: the readers work as PagedReading says although hosts invite and   *)
(* delete in listings that nobody reads, which no step of PagedReading     *)
(* does.                                                                   *)

LEMMA EnterOrLeave ==
  ASSUME PagedInv, NEW l \in Listings, NEW e \in Entries, Enter(l, e) \/ Leave(l, e)
  PROVE  PagedInv'
<1>1. \E H \in [Listings -> SUBSET Entries] : HeldBecomes(H)
  BY DEF Enter, Leave, PagedInv, ServiceTyped
<1> QED
  BY <1>1, HeldBecomesKeeps

TeamTyped == PagedInv /\ shown \subseteq Team \X Entries /\ removed \subseteq Entries

LEMMA PairsTyped == Pairs \subseteq Team \X Entries /\ Pairs' \subseteq Team \X Entries
BY DEF Pairs

LEMMA TeamTypedInvariant == TeamSpec => []TeamTyped
<1>1. TeamInit => TeamTyped
  BY InitHolds, PairsTyped DEF TeamInit, TeamTyped
<1>2. TeamTyped /\ [TeamNext]_teamVars => TeamTyped'
  <2> SUFFICES ASSUME TeamTyped, [TeamNext]_teamVars PROVE TeamTyped'
    OBVIOUS
  <2>1. CASE Others
    BY <2>1, ServiceKeeps, PairsTyped DEF Others, TeamTyped
  <2>2. ASSUME NEW e \in Entries, invite_user(e) PROVE TeamTyped'
    BY <2>2, TeamListed, EnterOrLeave, PairsTyped DEF invite_user, TeamTyped
  <2>3. ASSUME NEW e \in Entries, NEW pending \in BOOLEAN, delete_user(e, pending)
        PROVE  TeamTyped'
    BY <2>3, TeamListed, EnterOrLeave DEF delete_user, TeamTyped
  <2>4. ASSUME NEW t \in Tasks, ReadNext(t), UNCHANGED <<shown, removed>>
        PROVE  TeamTyped'
    BY <2>4, BeginKeeps, NextPageKeeps, OthersKeep DEF ReadNext, Answered, TeamTyped
  <2>5. CASE UNCHANGED teamVars
    BY <2>5 DEF teamVars, pagedVars, TeamTyped, PagedInv, ServiceTyped, ReadsWell
  <2> QED
    BY <2>1, <2>2, <2>3, <2>4, <2>5 DEF TeamNext
<1> QED
  BY <1>1, <1>2, PTL DEF TeamSpec

\* Every variable keeps its type.
THEOREM TeamTypeCorrect == TeamSpec => []TeamTypeOK
<1>1. TeamTyped => TeamTypeOK
  BY DEF TeamTyped, TeamTypeOK, PagedInv, ServiceTyped, ReadsWell, WellRead, PagedTypeOK
<1> QED
  BY TeamTypedInvariant, <1>1, PTL

\* A listing of users that ends well has everybody who was in it all along, while
\* hosts invite and delete users and the invited accept.
THEOREM TeamListingsAreComplete == TeamSpec => []CompleteListing
<1>1. TeamTyped => CompleteListing
  BY NothingOwed DEF TeamTyped
<1> QED
  BY TeamTypedInvariant, <1>1, PTL

-----------------------------------------------------------------------------
(* Records.                                                                *)

\* A host that goes by there being none, or has not tried anything yet, has no
\* copy; nobody else makes copies in its name.
NoneIsTrue(h) == view[h].known \in {"new", "none"} => own[h] = 0

RecordsInv ==
  /\ own \in [Actors -> Nat]
  /\ DOMAIN view = Hosts
  /\ \A h \in Hosts : NoneIsTrue(h)
  /\ NeverTwice

\* A request never makes a host believe that there is none.
LEMMA ConcludesNone ==
  ASSUME DOMAIN view = Hosts, NEW h \in Hosts, NEW said, NEW after,
         after.known \notin {"new", "none"}, Concludes(h, said, after)
  PROVE  /\ DOMAIN view' = Hosts
         /\ \A g \in Hosts \ {h} : view'[g] = view[g]
         /\ view'[h].known \in {"new", "none"} => view'[h] = view[h] /\ said \in Refusals
<1>1. Unknown(DOMAIN record).known \notin {"new", "none"}
  BY DEF Unknown
<1> DEFINE next == CASE said = "Ok" -> after
                     [] said \in Refusals -> view[h]
                     [] OTHER -> Unknown(DOMAIN record)
<1>2. view' = [view EXCEPT ![h] = next]
  BY DEF Concludes
<1>3. next.known \in {"new", "none"} => next = view[h] /\ said \in Refusals
  <2>1. CASE said = "Ok"
    BY <2>1 DEF Refusals
  <2>2. CASE said \in Refusals
    BY <2>2 DEF Refusals
  <2>3. CASE said # "Ok" /\ said \notin Refusals
    BY <1>1, <2>3
  <2> QED
    BY <2>1, <2>2, <2>3
<1> HIDE DEF next
<1> QED
  BY <1>2, <1>3

\* An error that leaves the host with what it knew means that nothing was done: a
\* 5xx, an answer that cannot be read and none at all are told apart from it.
LEMMA RefusedIsUndone ==
  ASSUME NEW answer \in Effective, NEW answers
  PROVE  Verdict(answer, answers) \notin Refusals
BY DEF Effective, Verdict, Refusals

LEMMA NotNone ==
  \A v, W : There(v).known = "some" /\ Unknown(W).known = "unknown"
BY DEF There, Unknown

\* What others take away, or add in their own name, leaves what a host knows of
\* its own copies true.
LEMMA TakenAway ==
  ASSUME RecordsInv, NEW a \in Actors, own[a] > 0, own' = [own EXCEPT ![a] = @ - 1],
         DOMAIN view' = Hosts,
         \A h \in Hosts : view'[h].known \in {"new", "none"} => view'[h] = view[h]
  PROVE  RecordsInv'
<1>1. own' \in [Actors -> Nat] /\ \A b \in Actors : own'[b] <= own[b]
  BY DEF RecordsInv
<1>2. \A h \in Hosts : NoneIsTrue(h)'
  BY <1>1 DEF RecordsInv, NoneIsTrue, Actors
<1>3. NeverTwice'
  BY <1>1 DEF RecordsInv, NeverTwice, Actors
<1> QED
  BY <1>1, <1>2, <1>3 DEF RecordsInv

LEMMA ReadKeepsCount == ASSUME RecordsInv, NEW h \in Hosts, Read(h) PROVE RecordsInv'
<1>1. own' = own /\ DOMAIN view' = Hosts /\ \A g \in Hosts \ {h} : view'[g] = view[g]
  BY DEF Read, RecordsInv
<1>2. view'[h].known \in {"new", "none"} => own[h] = 0
  <2>1. CASE SomeThere
    BY <2>1, NotNone DEF Read, RecordsInv
  <2>2. CASE ~SomeThere
    <3>1. h \in Actors /\ own[h] \in Nat
      BY DEF RecordsInv, Actors
    <3> QED
      BY <2>2, <3>1 DEF SomeThere
  <2> QED
    BY <2>1, <2>2
<1> QED
  BY <1>1, <1>2 DEF RecordsInv, NoneIsTrue, NeverTwice

LEMMA CreateKeepsCount == ASSUME RecordsInv, NEW h \in Hosts, Create(h) PROVE RecordsInv'
<1>1. own[h] = 0 /\ h \in Actors
  BY DEF Create, RecordsInv, NoneIsTrue, Actors
<1>2. PICK op \in resource.creates, answer \in Answers :
        /\ \/ answer \in Effective /\ own' = [own EXCEPT ![h] = @ + 1]
           \/ own' = own
        /\ Concludes(h, Verdict(answer, op.answers),
                     IF op.answers THEN There(record') ELSE Unknown(DOMAIN record))
  BY DEF Create
<1>3. /\ DOMAIN view' = Hosts
      /\ \A g \in Hosts \ {h} : view'[g] = view[g]
      /\ view'[h].known \in {"new", "none"} => Verdict(answer, op.answers) \in Refusals
  BY <1>2, NotNone, ConcludesNone DEF RecordsInv
<1>4. own' \in [Actors -> Nat] /\ own'[h] <= 1
  BY <1>1, <1>2 DEF RecordsInv
<1>5. \A g \in Hosts \ {h} : own'[g] = own[g]
  BY <1>2 DEF RecordsInv, Actors
<1>6. view'[h].known \in {"new", "none"} => own'[h] = 0
  BY <1>1, <1>2, <1>3, RefusedIsUndone
<1> QED
  BY <1>3, <1>4, <1>5, <1>6 DEF RecordsInv, NoneIsTrue, NeverTwice

LEMMA UpdateKeepsCount == ASSUME RecordsInv, NEW h \in Hosts, Update(h) PROVE RecordsInv'
<1>1. PICK op \in resource.edits, answer \in Answers :
        /\ own' = own \/ (~SomeThere /\ own' = [own EXCEPT ![h] = @ + 1])
        /\ Concludes(h, Verdict(answer, op.answers),
                     IF op.answers THEN There(record') ELSE Unknown(DOMAIN record))
  BY DEF Update
<1>2. /\ DOMAIN view' = Hosts
      /\ \A g \in Hosts \ {h} : view'[g] = view[g]
      /\ view'[h].known \notin {"new", "none"}
  BY <1>1, NotNone, ConcludesNone DEF RecordsInv, Update
<1>3. h \in Actors /\ own[h] \in Nat /\ (~SomeThere => own[h] = 0)
  <2>1. h \in Actors /\ own[h] \in Nat
    BY DEF RecordsInv, Actors
  <2> QED
    BY <2>1 DEF SomeThere
<1>4. /\ own' \in [Actors -> Nat] /\ \A g \in Hosts \ {h} : own'[g] = own[g]
      /\ own'[h] <= 1
  BY <1>1, <1>3 DEF RecordsInv, NeverTwice, Actors
<1> QED
  BY <1>2, <1>4 DEF RecordsInv, NoneIsTrue, NeverTwice

LEMMA DeleteKeepsCount == ASSUME RecordsInv, NEW h \in Hosts, Delete(h) PROVE RecordsInv'
<1>1. PICK answer \in Answers \ {"unreadable"} :
        /\ \/ \E a \in Actors : own[a] > 0 /\ own' = [own EXCEPT ![a] = @ - 1]
           \/ own' = own
        /\ Concludes(h, Verdict(answer, FALSE), Unknown(DOMAIN record))
  BY DEF Delete
<1>2. DOMAIN view' = Hosts /\ \A g \in Hosts : view'[g].known \in {"new", "none"} => view'[g] = view[g]
  BY <1>1, NotNone, ConcludesNone DEF RecordsInv
<1>3. CASE own' = own
  BY <1>2, <1>3 DEF RecordsInv, NoneIsTrue, NeverTwice
<1> QED
  BY <1>1, <1>2, <1>3, TakenAway

LEMMA ElsewhereKeepsCount == ASSUME RecordsInv, Elsewhere PROVE RecordsInv'
<1>1. view' = view
  BY DEF Elsewhere
<1>2. CASE own' = own
  BY <1>1, <1>2 DEF RecordsInv, NoneIsTrue, NeverTwice
<1>3. CASE own' = [own EXCEPT ![Website] = @ + 1]
  <2>1. own' \in [Actors -> Nat] /\ \A h \in Hosts : own'[h] = own[h]
    BY <1>3, RecordsAssumption DEF RecordsInv, Actors
  <2> QED
    BY <1>1, <2>1 DEF RecordsInv, NoneIsTrue, NeverTwice
<1> QED
  BY <1>1, <1>2, <1>3, TakenAway DEF Elsewhere, RecordsInv

LEMMA RecordsInvariant == RecordsSpec => []RecordsInv
<1>1. RecordsInit => RecordsInv
  <2> SUFFICES ASSUME RecordsInit PROVE RecordsInv
    OBVIOUS
  <2>1. PICK W : view = [h \in Hosts |-> New(W)]
    BY DEF RecordsInit
  <2>2. PICK n \in {0, 1} : own = [h \in Actors |-> IF h = Website THEN n ELSE 0]
    BY DEF RecordsInit
  <2>3. own \in [Actors -> Nat] /\ \A h \in Hosts : own[h] = 0
    BY <2>2, RecordsAssumption DEF Actors
  <2> QED
    BY <2>1, <2>3 DEF RecordsInv, NoneIsTrue, NeverTwice
<1>2. RecordsInv /\ [RecordsNext]_recordVars => RecordsInv'
  <2> SUFFICES ASSUME RecordsInv, [RecordsNext]_recordVars PROVE RecordsInv'
    OBVIOUS
  <2>1. CASE UNCHANGED recordVars
    BY <2>1 DEF recordVars, RecordsInv, NoneIsTrue, NeverTwice
  <2> QED
    BY <2>1, ElsewhereKeepsCount, ReadKeepsCount, CreateKeepsCount, UpdateKeepsCount, DeleteKeepsCount DEF RecordsNext
<1> QED
  BY <1>1, <1>2, PTL DEF RecordsSpec

\* A host that repeats a create only as the errors allow never makes a second copy
\* of its own, whatever answers are lost, whatever a server error leaves done, and
\* whoever else works on the record.
THEOREM CreatesOnce == RecordsSpec => []NeverTwice
<1>1. RecordsInv => NeverTwice
  BY DEF RecordsInv
<1> QED
  BY RecordsInvariant, <1>1, PTL

\* What a host knows after a request is of the record's shape.
LEMMA ConcludesTyped ==
  ASSUME NEW V, view \in [Hosts -> V], NEW h \in Hosts, NEW said, NEW after \in V,
         Unknown(DOMAIN record) \in V, Concludes(h, said, after)
  PROVE  view' \in [Hosts -> V]
<1> DEFINE next == CASE said = "Ok" -> after
                     [] said \in Refusals -> view[h]
                     [] OTHER -> Unknown(DOMAIN record)
<1>1. view' = [view EXCEPT ![h] = next]
  BY DEF Concludes
<1>2. next \in V
  <2>1. CASE said = "Ok"
    BY <2>1 DEF Refusals
  <2>2. CASE said \in Refusals
    BY <2>2 DEF Refusals
  <2>3. CASE said # "Ok" /\ said \notin Refusals
    BY <2>3
  <2> QED
    BY <2>1, <2>2, <2>3
<1> HIDE DEF next
<1> QED
  BY <1>1, <1>2

Views(W) == [known : {"new", "unknown", "none", "some"}, value : Values(W)]

LEMMA ViewsTyped ==
  ASSUME NEW W
  PROVE  /\ New(W) \in Views(W) /\ Unknown(W) \in Views(W) /\ Absent(W) \in Views(W)
         /\ \A v \in Values(W) : There(v) \in Views(W)
BY DEF New, Unknown, Absent, There, Views, Values

\* An attribute that is sent gets a value like any other.
LEMMA BodyTyped ==
  ASSUME NEW W, NEW old \in Values(W), NEW seen \in Values(W), NEW sent, NEW aims
  PROVE  LET body == [f \in sent \cap W |-> IF f \in aims THEN ~seen[f] ELSE seen[f]] IN
         [f \in W |-> IF f \in DOMAIN body THEN body[f] ELSE old[f]] \in Values(W)
<1> DEFINE body == [f \in sent \cap W |-> IF f \in aims THEN ~seen[f] ELSE seen[f]]
<1>1. DOMAIN body = sent \cap W
  OBVIOUS
<1>2. \A f \in W : old[f] \in BOOLEAN /\ seen[f] \in BOOLEAN
  BY DEF Values
<1>3. \A f \in sent \cap W : body[f] \in BOOLEAN
  BY <1>2
<1> HIDE DEF body
<1>4. \A f \in W : (IF f \in DOMAIN body THEN body[f] ELSE old[f]) \in BOOLEAN
  BY <1>1, <1>2, <1>3
<1>5. [f \in W |-> IF f \in DOMAIN body THEN body[f] ELSE old[f]] \in Values(W)
  BY <1>4 DEF Values
<1> QED
  BY <1>5 DEF body

LEMMA RecordsTypeInvariant == RecordsTypeOK /\ [RecordsNext]_recordVars => RecordsTypeOK'
<1> SUFFICES ASSUME RecordsTypeOK, [RecordsNext]_recordVars PROVE RecordsTypeOK'
  OBVIOUS
<1>1. PICK W \in Watched(resource) :
        record \in Values(W) /\ meant \in Values(W) /\ view \in [Hosts -> Views(W)]
  BY DEF RecordsTypeOK, Views
<1>2. DOMAIN record = W /\ DOMAIN meant = W
  BY <1>1 DEF Values
<1>3. resource \in Resources /\ own \in [Actors -> 0..MaxCopies]
  BY DEF RecordsTypeOK
<1>4. /\ Unknown(W) \in Views(W) /\ Absent(W) \in Views(W)
      /\ \A v \in Values(W) : There(v) \in Views(W)
  BY ViewsTyped
<1> DEFINE Typed == /\ resource' = resource /\ record' \in Values(W) /\ meant' \in Values(W)
                    /\ view' \in [Hosts -> Views(W)] /\ own' \in [Actors -> 0..MaxCopies]
<1>5. Typed => RecordsTypeOK'
  BY <1>1, <1>3 DEF RecordsTypeOK, Views
<1>6. ASSUME NEW a \in Actors, own[a] < MaxCopies
      PROVE  [own EXCEPT ![a] = @ + 1] \in [Actors -> 0..MaxCopies]
  BY <1>3, <1>6, RecordsAssumption
<1>7. ASSUME NEW a \in Actors, own[a] > 0
      PROVE  [own EXCEPT ![a] = @ - 1] \in [Actors -> 0..MaxCopies]
  BY <1>3, <1>7, RecordsAssumption
<1>8. Hosts \subseteq Actors /\ Website \in Actors
  BY DEF Actors
<1>9. ASSUME NEW h \in Hosts, Read(h) PROVE Typed
  BY <1>1, <1>2, <1>3, <1>4, <1>9 DEF Read
<1>10. ASSUME NEW h \in Hosts, Create(h) PROVE Typed
  <2>1. PICK op \in resource.creates, answer \in Answers, v \in Values(W) :
          /\ UNCHANGED own \/ (own[h] < MaxCopies /\ own' = [own EXCEPT ![h] = @ + 1])
          /\ UNCHANGED <<record, meant>> \/ (record' = v /\ meant' = v)
          /\ Concludes(h, Verdict(answer, op.answers),
                       IF op.answers THEN There(record') ELSE Unknown(W))
    BY <1>2, <1>10 DEF Create
  <2>2. /\ record' \in Values(W) /\ meant' \in Values(W)
        /\ own' \in [Actors -> 0..MaxCopies]
    BY <1>1, <1>3, <1>6, <1>8, <2>1
  <2>3. view' \in [Hosts -> Views(W)]
    BY <1>1, <1>2, <1>4, <2>1, <2>2, ConcludesTyped
  <2> QED
    BY <1>10, <2>2, <2>3 DEF Create
<1>11. ASSUME NEW h \in Hosts, Update(h) PROVE Typed
  <2>1. PICK op \in resource.edits, answer \in Answers, aims \in SUBSET DOMAIN record :
          LET body == [f \in Sent(op, aims) \cap DOMAIN record |->
                         IF f \in aims THEN ~view[h].value[f] ELSE view[h].value[f]] IN
          /\ \/ record' = [f \in DOMAIN record |->
                             IF f \in DOMAIN body THEN body[f] ELSE record[f]]
             \/ record' = record
          /\ \/ meant' = [f \in DOMAIN record |->
                            IF f \in aims THEN ~view[h].value[f] ELSE meant[f]]
             \/ meant' = meant
          /\ own' = own \/ (~SomeThere /\ own' = [own EXCEPT ![h] = @ + 1])
          /\ Concludes(h, Verdict(answer, op.answers),
                       IF op.answers THEN There(record') ELSE Unknown(DOMAIN record))
    BY <1>11 DEF Update
  <2>2. view[h].value \in Values(W)
    BY <1>1 DEF Views
  <2>3. record' \in Values(W)
    BY <1>1, <1>2, <2>1, <2>2, BodyTyped
  <2>4. view' \in [Hosts -> Views(W)]
    BY <1>1, <1>2, <1>4, <2>1, <2>3, ConcludesTyped
  <2>5. meant' \in Values(W)
    BY <1>1, <1>2, <2>1, <2>2 DEF Values
  <2>6. own' \in [Actors -> 0..MaxCopies]
    <3>1. h \in Actors /\ own[h] \in Nat /\ (~SomeThere => own[h] = 0)
      <4>1. h \in Actors /\ own[h] \in Nat
        BY <1>3, <1>8
      <4> QED
        BY <4>1 DEF SomeThere
    <3> QED
      BY <1>3, <1>6, <2>1, <3>1, RecordsAssumption
  <2> QED
    BY <1>11, <2>3, <2>4, <2>5, <2>6 DEF Update
<1>12. ASSUME NEW h \in Hosts, Delete(h) PROVE Typed
  <2>1. PICK answer \in Answers \ {"unreadable"} :
          /\ \/ \E a \in Actors : own[a] > 0 /\ own' = [own EXCEPT ![a] = @ - 1]
             \/ own' = own
          /\ Concludes(h, Verdict(answer, FALSE), Unknown(DOMAIN record))
    BY <1>12 DEF Delete
  <2>2. view' \in [Hosts -> Views(W)]
    BY <1>1, <1>2, <1>4, <2>1, ConcludesTyped
  <2>3. own' \in [Actors -> 0..MaxCopies]
    BY <1>3, <1>7, <2>1
  <2> QED
    BY <1>1, <1>12, <2>2, <2>3 DEF Delete
<1>13. ASSUME Elsewhere PROVE Typed
  <2>1. record' \in Values(W) /\ meant' \in Values(W)
    <3>1. ASSUME NEW f \in DOMAIN record, record' = [record EXCEPT ![f] = ~@],
                 meant' = [meant EXCEPT ![f] = ~record[f]]
          PROVE  record' \in Values(W) /\ meant' \in Values(W)
      BY <1>1, <3>1 DEF Values
    <3> QED
      BY <1>1, <1>2, <1>13, <3>1 DEF Elsewhere
  <2>2. own' \in [Actors -> 0..MaxCopies]
    BY <1>3, <1>6, <1>7, <1>8, <1>13 DEF Elsewhere
  <2> QED
    BY <1>1, <1>13, <2>1, <2>2 DEF Elsewhere
<1>14. ASSUME UNCHANGED recordVars PROVE Typed
  BY <1>1, <1>3, <1>14 DEF recordVars
<1> QED
  BY <1>5, <1>9, <1>10, <1>11, <1>12, <1>13, <1>14 DEF RecordsNext

\* Every variable keeps its type: what a host knows has the attributes of the
\* record, and nobody makes more copies than the bound.
THEOREM RecordsTypeCorrect == RecordsSpec => []RecordsTypeOK
<1>1. RecordsInit => RecordsTypeOK
  <2> SUFFICES ASSUME RecordsInit PROVE RecordsTypeOK
    OBVIOUS
  <2>1. PICK W \in Watched(resource) :
          record = [f \in W |-> FALSE] /\ meant = record /\ view = [h \in Hosts |-> New(W)]
    BY DEF RecordsInit
  <2>2. record \in Values(W) /\ meant \in Values(W) /\ view \in [Hosts -> Views(W)]
    BY <2>1, ViewsTyped DEF Values
  <2>3. own \in [Actors -> 0..MaxCopies]
    BY RecordsAssumption DEF RecordsInit
  <2> QED
    BY <2>2, <2>3 DEF RecordsInit, RecordsTypeOK, Views
<1> QED
  BY <1>1, RecordsTypeInvariant, PTL DEF RecordsSpec

\* What an edit sends besides what it is about: nothing that is not restated.
LEMMA EditsSend ==
  ASSUME NEW r \in AllResources, NEW e \in r.edits
  PROVE  /\ e.always \subseteq e.some
         /\ e.always \subseteq Restated(r) \/ \E f : e.some = {f}
<1> USE DEF Resource, Patch
<1>1. CASE r.edits = {}
  BY <1>1
<1>2. CASE r \in {Version, BetaGroup, BetaAppLocalization, VersionLocalization, AppInfo, App,
                  BetaAppReviewDetail, AppReviewDetail, Device}
  <2>1. e.always = {}
    BY <1>2 DEF Version, BetaGroup, BetaAppLocalization, VersionLocalization, AppInfo, App,
         BetaAppReviewDetail, AppReviewDetail, Device, update_version, update_beta_group,
         update_beta_app_localization, update_localization, update_app_info_category, update_app,
         update_beta_app_review_detail, update_app_review_detail, update_device
  <2> QED
    BY <2>1
<1>3. CASE r \in {PhasedRelease, Build, BuildOfVersion, BetaBuildLocalization, BundleId, ReviewReply}
  <2>1. e \in {update_phased_release_state, expire_build, attach_build,
              update_beta_build_localization, update_bundle_id, reply_to_review}
    BY <1>3 DEF PhasedRelease, Build, BuildOfVersion, BetaBuildLocalization, BundleId, ReviewReply
  <2>2. /\ reply_to_review.some = {"responseBody"} /\ reply_to_review.always = {"responseBody"}
        /\ expire_build.some = {"expired"} /\ expire_build.always = {"expired"}
        /\ attach_build.some = {"build"} /\ attach_build.always = {"build"}
        /\ update_bundle_id.some = {"name"} /\ update_bundle_id.always = {"name"}
    BY DEF reply_to_review, expire_build, attach_build, update_bundle_id
  <2>3. /\ update_phased_release_state.some = {"phasedReleaseState"}
        /\ update_phased_release_state.always = {"phasedReleaseState"}
        /\ update_beta_build_localization.some = {"whatsNew"}
        /\ update_beta_build_localization.always = {"whatsNew"}
    BY DEF update_phased_release_state, update_beta_build_localization
  <2> QED
    BY <2>1, <2>2, <2>3
<1>4. e.some \subseteq Attributes(r)
  BY DEF Attributes
<1>5. CASE r = AppInfoLocalization
  <2>1. e.always \subseteq {"name"} /\ e.always \subseteq e.some
    BY <1>5 DEF AppInfoLocalization, update_app_info_localization,
         update_app_info_localization_privacy
  <2> QED
    BY <1>4, <1>5, <2>1 DEF Restated
<1>6. CASE r = User
  <2>1. \/ e = update_user \/ e = update_user_visible_apps
    BY <1>6 DEF User
  <2>2. e.always \subseteq e.some /\ ("visibleApps" \notin e.always \/ e.some = {"visibleApps"})
    BY <2>1 DEF update_user, update_user_visible_apps
  <2> QED
    BY <1>4, <1>6, <2>2 DEF Restated
<1>7. CASE r = AccessibilityDeclaration
  <2>1. e.always \subseteq e.some /\ "publish" \notin e.always
    BY <1>7 DEF AccessibilityDeclaration, update_accessibility_declaration
  <2> QED
    BY <1>4, <1>7, <2>1 DEF Restated
<1>8. CASE r = AgeRating
  <2>1. e.always \subseteq e.some
    BY <1>8 DEF AgeRating, update_age_rating
  <2> QED
    BY <1>4, <1>8, <2>1 DEF Restated
<1>9. \/ r.edits = {}
      \/ r \in {Version, BetaGroup, BetaAppLocalization, VersionLocalization, AppInfo, App,
               BetaAppReviewDetail, AppReviewDetail, Device}
      \/ r \in {PhasedRelease, Build, BuildOfVersion, BetaBuildLocalization, BundleId, ReviewReply}
      \/ r \in {AppInfoLocalization, User, AccessibilityDeclaration, AgeRating}
  BY DEF AllResources, ReleaseRequest, VersionSubmission, BetaReviewSubmission, BuildInGroup,
         TesterInGroup, TesterInvitation, ScreenshotSet, Capability, Certificate, Profile,
         AnalyticsRequest
<1> QED
  BY <1>1, <1>2, <1>3, <1>5, <1>6, <1>7, <1>8, <1>9

LEMMA UpdateHolds ==
  ASSUME RecordsTypeOK, EditsHold, NEW h \in Hosts, Update(h)
  PROVE  EditsHold'
<1>1. PICK op \in resource.edits, answer \in Answers :
      \E aims \in (SUBSET (op.some \cap DOMAIN record)) \ {{}} :
        LET body == [f \in Sent(op, aims) \cap DOMAIN record |->
                       IF f \in aims THEN ~view[h].value[f] ELSE view[h].value[f]] IN
        \/ /\ answer \in Effective /\ (SomeThere \/ op.replaces)
           /\ record' = [f \in DOMAIN record |->
                           IF f \in DOMAIN body THEN body[f] ELSE record[f]]
           /\ meant' = [f \in DOMAIN record |->
                          IF f \in aims THEN ~view[h].value[f] ELSE meant[f]]
           /\ own' = IF SomeThere THEN own ELSE [own EXCEPT ![h] = @ + 1]
        \/ answer \in Ineffective /\ UNCHANGED <<own, record, meant>>
  BY Zenon DEF Update
<1>2. PICK aims \in (SUBSET (op.some \cap DOMAIN record)) \ {{}} :
        LET body == [f \in Sent(op, aims) \cap DOMAIN record |->
                       IF f \in aims THEN ~view[h].value[f] ELSE view[h].value[f]] IN
        \/ /\ answer \in Effective /\ (SomeThere \/ op.replaces)
           /\ record' = [f \in DOMAIN record |->
                           IF f \in DOMAIN body THEN body[f] ELSE record[f]]
           /\ meant' = [f \in DOMAIN record |->
                          IF f \in aims THEN ~view[h].value[f] ELSE meant[f]]
           /\ own' = IF SomeThere THEN own ELSE [own EXCEPT ![h] = @ + 1]
        \/ answer \in Ineffective /\ UNCHANGED <<own, record, meant>>
  BY <1>1
<1> DEFINE body == [f \in Sent(op, aims) \cap DOMAIN record |->
                      IF f \in aims THEN ~view[h].value[f] ELSE view[h].value[f]]
<1>3. /\ aims \subseteq DOMAIN record /\ aims # {} /\ aims \subseteq op.some
      /\ \/ UNCHANGED <<record, meant>>
         \/ /\ record' = [f \in DOMAIN record |->
                 IF f \in Sent(op, aims) \cap DOMAIN record
                 THEN IF f \in aims THEN ~view[h].value[f] ELSE view[h].value[f]
                 ELSE record[f]]
            /\ meant' = [f \in DOMAIN record |->
                 IF f \in aims THEN ~view[h].value[f] ELSE meant[f]]
  <2>1. [f \in DOMAIN record |-> IF f \in DOMAIN body THEN body[f] ELSE record[f]]
          = [f \in DOMAIN record |->
               IF f \in Sent(op, aims) \cap DOMAIN record
               THEN IF f \in aims THEN ~view[h].value[f] ELSE view[h].value[f]
               ELSE record[f]]
    OBVIOUS
  <2> QED
    BY <1>2, <2>1
<1> HIDE DEF body
<1>4. resource \in AllResources /\ resource' = resource
  BY RecordsAssumption DEF RecordsTypeOK, Update
<1>5. ASSUME NEW f \in DOMAIN record \ Restated(resource), f \notin aims
      PROVE  f \notin Sent(op, aims)
  <2>1. ASSUME f \in op.always PROVE FALSE
    <3>1. PICK g : op.some = {g}
      BY <1>4, <1>5, <2>1, EditsSend
    <3>2. f = g /\ g \in aims
      BY <1>3, <1>4, <2>1, <3>1, EditsSend
    <3> QED
      BY <1>5, <3>2
  <2> QED
    BY <1>5, <2>1 DEF Sent
<1>6. DOMAIN record' = DOMAIN record
  BY <1>3
<1>7. ASSUME NEW f \in DOMAIN record \ Restated(resource)
      PROVE  record'[f] = meant'[f]
  <2>1. record[f] = meant[f]
    BY <1>7 DEF EditsHold
  <2>2. CASE f \in aims
    BY <1>3, <2>1, <2>2 DEF Sent
  <2>3. CASE f \notin aims
    BY <1>3, <1>5, <2>1, <2>3
  <2> QED
    BY <2>2, <2>3
<1> QED
  BY <1>4, <1>6, <1>7 DEF EditsHold

\* What an operation does not restate keeps the value that somebody last meant to
\* give it, for any number of hosts with views of any age: no edit undoes another.
THEOREM EditsAreKept == RecordsSpec => []EditsHold
<1>1. RecordsInit => EditsHold
  BY DEF RecordsInit, EditsHold
<1>2. RecordsTypeOK /\ EditsHold /\ [RecordsNext]_recordVars => EditsHold'
  <2> SUFFICES ASSUME RecordsTypeOK, EditsHold, [RecordsNext]_recordVars PROVE EditsHold'
    OBVIOUS
  <2>1. PICK W : record \in Values(W) /\ meant \in Values(W)
    BY DEF RecordsTypeOK
  <2>2. DOMAIN record = W /\ DOMAIN meant = W
    BY <2>1 DEF Values
  <2>3. ASSUME NEW h \in Hosts, Create(h) PROVE EditsHold'
    <3>1. resource' = resource /\ \E v \in Values(W) : \/ UNCHANGED <<record, meant>>
                                                       \/ record' = v /\ meant' = v
      BY <2>2, <2>3 DEF Create
    <3> QED
      BY <2>2, <3>1 DEF EditsHold, Values
  <2>4. CASE Elsewhere
    <3>1. \/ \E f \in W : /\ record' = [record EXCEPT ![f] = ~@]
                           /\ meant' = [meant EXCEPT ![f] = ~record[f]]
          \/ record' \in Values(W) /\ meant' = record'
          \/ UNCHANGED <<record, meant>>
      BY <2>2, <2>4 DEF Elsewhere
    <3>2. resource' = resource
      BY <2>4 DEF Elsewhere
    <3> QED
      BY <2>2, <3>1, <3>2 DEF EditsHold, Values
  <2>5. ASSUME UNCHANGED <<resource, record, meant>> PROVE EditsHold'
    BY <2>5 DEF EditsHold
  <2> QED
    BY <2>3, <2>4, <2>5, UpdateHolds DEF RecordsNext, Read, Delete, recordVars
<1> QED
  BY <1>1, <1>2, RecordsTypeCorrect, PTL DEF RecordsSpec

-----------------------------------------------------------------------------
(* MCProviderCalls.                                                        *)

\* What one part does leaves the others alone, so each part of a behaviour is a
\* behaviour of that part: what holds of it alone holds here.
LEMMA PartsAreThemselves ==
  Spec => TeamSpec /\ RecordsSpec /\ UploadSpec /\ SegmentSpec /\ ExportSpec
<1>1. Init => TeamInit /\ RecordsInit /\ UploadInit /\ SegmentInit /\ ExportInit
  BY DEF Init
<1>2. [Next]_providerVars =>
        /\ [TeamNext]_teamVars /\ [RecordsNext]_recordVars /\ [Uploading]_uploadVars
        /\ [Downloading]_segmentVars /\ [ExportNext]_exportVars
  BY DEF Next, Rest, providerVars
<1> QED
  BY <1>1, <1>2, PTL DEF Spec, TeamSpec, RecordsSpec, UploadSpec, SegmentSpec, ExportSpec

\* Every variable of the five parts keeps its type.
THEOREM ProviderTypeCorrect == Spec => []TypeOK
<1>1. TeamTypeOK /\ RecordsTypeOK /\ UploadTypeOK /\ SegmentTypeOK /\ ExportTypeOK => TypeOK
  BY DEF TypeOK
<1> QED
  BY PartsAreThemselves, TeamTypeCorrect, RecordsTypeCorrect, UploadTypeCorrect,
     SegmentTypeCorrect, ExportTypeCorrect, <1>1, PTL

\* Each safety property of a part holds of the composition, whatever the other
\* parts do: all that ProviderCalls.cfg checks but the liveness of the readers.
THEOREM PartsStaySafe ==
  Spec => /\ [](CompleteListing /\ RemovedStaysOut /\ NeverTwice /\ EditsHold)
          /\ [](CommittedIsComplete /\ HeldIsBounded /\ UnsupportedMeansTooLarge /\ OkMeansWhole)
          /\ [](ArrivesAsEntered /\ RightPasswordOpens /\ ConnectsIfComplete)
          /\ OkMeansUploaded
BY PartsAreThemselves, TeamListingsAreComplete, RemovalsHold, CreatesOnce, EditsAreKept,
   CommittedScreenshotsAreComplete, OkIsUploaded, TransferIsBounded, UnsupportedIsExact, OkIsWhole,
   AccountsArriveAsEntered, OnlyTheRightPasswordOpens, CompleteAccountsConnect, PTL
=============================================================================
