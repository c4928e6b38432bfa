---------------------------- MODULE PagedReading ----------------------------
(***************************************************************************)
(* How the App Store provider reads a listing of App Store Connect         *)
(* (providers/appstore/client.rs): a page per request, `links.next` being  *)
(* followed until it is absent, handed to the host as a token, or ignored. *)
(* Between two pages of a read the listing changes: entries are added and  *)
(* removed on other devices, on the website, by Apple.                     *)
(*                                                                         *)
(* `links.next` is opaque to the code.  What is assumed of the service is  *)
(* that it works as a cursor: the next page starts behind the entries the  *)
(* earlier pages showed, and an entry that stays keeps its place.          *)
(*                                                                         *)
(* A definition named D_Mistake, before D, is D with a plausible mistake:  *)
(* the properties are shown to notice it.                                  *)
(***************************************************************************)
EXTENDS Naturals, Sequences, FiniteSets, FiniteSetsExt, SequencesExt

CONSTANTS
  Tasks,      \* the calls of readers, each made once
  Kinds,      \* the readers the tasks may call, of those defined below
  Entries,    \* what a listing can hold: apps, builds, persons...
  Untyped,    \* the entries that lack the attribute a typed reader needs
  PageSize,   \* entries on a page
  MaxRev,     \* bound: revisions an entry goes through
  MaxChanges  \* bound: how often the listings change

ASSUME PagedAssumption ==
  /\ PageSize \in Nat \ {0} /\ MaxRev \in Nat \ {0} /\ MaxChanges \in Nat
  /\ Untyped \subseteq Entries
  /\ \A k \in Kinds : /\ k.from \in Seq(STRING) /\ k.from # <<>>
                     /\ k.follow \in {"all", "token", "none"}

-----------------------------------------------------------------------------
(* The readers.  from: the listings read, one after the other; follow:     *)
(* what becomes of links.next; typed: untyped entries are skipped.         *)

Reader(from, follow) == [from |-> from, follow |-> follow, typed |-> FALSE]
Whole(listing) == Reader(<<listing>>, "all")
ByToken(listing) == Reader(<<listing>>, "token")

fetch_apps == Whole("apps")
fetch_customer_reviews == Whole("customerReviews")
fetch_customer_reviews_page == ByToken("customerReviews")
fetch_review_submissions == Whole("reviewSubmissions")
fetch_versions == Reader(<<"appStoreVersions">>, "none")
fetch_builds == Whole("builds")
fetch_builds_page == ByToken("builds")
fetch_builds_for_group == Whole("builds of a group")
fetch_beta_groups == Whole("betaGroups")
fetch_beta_testers == Whole("betaTesters")
fetch_beta_build_localizations == Whole("betaBuildLocalizations")
fetch_beta_app_localizations == Whole("betaAppLocalizations")
fetch_accessibility_declarations == Whole("accessibilityDeclarations")
fetch_app_info_localizations == Whole("appInfoLocalizations")
fetch_localizations == Whole("appStoreVersionLocalizations")
fetch_screenshot_sets == Whole("appScreenshotSets")
fetch_app_categories == Whole("appCategories")
fetch_team_members == Whole("users")
fetch_users == Reader(<<"users", "userInvitations">>, "all")
fetch_user_visible_apps == Whole("visibleApps")
fetch_devices == Whole("devices")
fetch_bundle_ids == Whole("bundleIds")
fetch_bundle_id_capabilities == [Whole("bundleIdCapabilities") EXCEPT !.typed = TRUE]
fetch_certificates == Whole("certificates")
fetch_profiles == Whole("profiles")
fetch_analytics_report_requests_page == ByToken("analyticsReportRequests")
fetch_analytics_reports_page == ByToken("analyticsReports")
fetch_analytics_report_instances_page == ByToken("analyticsReportInstances")
fetch_analytics_report_segments_page == ByToken("analyticsReportSegments")

Listings == UNION {ToSet(k.from) : k \in Kinds}

-----------------------------------------------------------------------------
VARIABLES
  held,    \* held[l]: the entries of listing l at the service
  rev,     \* rev[e]: the current revision of entry e
  read,    \* read[t]: where task t is in its call, and the call's locals
  changes  \* how often the listings changed
pagedVars == <<held, rev, read, changes>>

PCs == {"unborn", "reading", "parked", "done"}
Results == {"none", "Ok", "Err", "Dropped"}

Reads == [pc : PCs, kind : Kinds,
          todo : Seq(STRING),            \* listings not yet read to the end
          seen : SUBSET Entries,         \* next_url: what it starts behind
          got : [Entries -> 0..MaxRev],  \* what was read, 0: not there
          result : Results,
          \* history, for the properties
          stayed : SUBSET (Listings \X Entries), \* held since the call began
          around : SUBSET Entries]     \* since then in one of its listings

PagedTypeOK ==
  /\ held \in [Listings -> SUBSET Entries]
  /\ rev \in [Entries -> 1..MaxRev]
  /\ read \in [Tasks -> Reads]
  /\ changes \in 0..MaxChanges

Nothing == [e \in Entries |-> 0]

Unborn(k) ==
  [pc |-> "unborn", kind |-> k, todo |-> <<>>, seen |-> {}, got |-> Nothing,
   result |-> "none", stayed |-> {}, around |-> {}]

Team == {"users", "userInvitations"}

PagedInit ==
  /\ \E H, I \in SUBSET Entries :
       H \cap I = {} /\ held = [l \in Listings |-> IF l = "userInvitations" THEN I ELSE H]
  /\ rev = [e \in Entries |-> 1]
  /\ \E kinds \in [Tasks -> Kinds] : read = [t \in Tasks |-> Unborn(kinds[t])]
  /\ changes = 0

Behind(k, H) == UNION {H[l] : l \in ToSet(k.from)}

Begin(t) ==
  LET k == read[t].kind IN
  /\ read[t].pc = "unborn"
  /\ read' = [read EXCEPT ![t].pc = "reading", ![t].todo = k.from,
       ![t].stayed = {x \in Listings \X Entries : x[1] \in ToSet(k.from) /\ x[2] \in held[x[1]]},
       ![t].around = Behind(k, held)]
  /\ UNCHANGED <<held, rev, changes>>

\* the pages that list S may answer with
Pages(S) == IF Cardinality(S) <= PageSize THEN {S} ELSE kSubset(PageSize, S)

Kept(k) == IF k.typed THEN Entries \ Untyped ELSE Entries

Extended(r, page) ==
  [e \in Entries |-> IF e \in page \cap Kept(r.kind) THEN rev[e] ELSE r.got[e]]

\* where a read goes from a page: more says whether links.next is present
After(r, page, more) ==
  LET next == [r EXCEPT !.seen = @ \cup page, !.got = Extended(r, page)] IN
  IF more /\ r.kind.follow = "all" THEN next
  ELSE IF more /\ r.kind.follow = "token" THEN [next EXCEPT !.pc = "parked"]
  ELSE IF Tail(r.todo) # <<>> THEN [next EXCEPT !.todo = Tail(@), !.seen = {}]
  ELSE [next EXCEPT !.pc = "done", !.todo = <<>>, !.seen = {}, !.result = "Ok"]

NextPage_SameUrl(t) ==
  /\ read[t].pc = "reading"
  /\ \E page \in Pages(held[Head(read[t].todo)]) :
       read' = [read EXCEPT ![t] =
                  After(@, page, page # held[Head(read[t].todo)])]
  /\ UNCHANGED <<held, rev, changes>>

NextPage_FullPagesOnly(t) ==
  LET r == read[t]
      rest == held[Head(r.todo)] \ r.seen IN
  /\ r.pc = "reading"
  /\ \E page \in Pages(rest) :
       read' = [read EXCEPT ![t] = After(r, page, FALSE)]
  /\ UNCHANGED <<held, rev, changes>>

\* one request: a page comes, with links.next unless nothing is behind it
NextPage(t) ==
  LET r == read[t]
      rest == held[Head(r.todo)] \ r.seen IN
  /\ r.pc = "reading"
  /\ \E page \in Pages(rest) :
       read' = [read EXCEPT ![t] = After(r, page, page # rest)]
  /\ UNCHANGED <<held, rev, changes>>

\* one request fails or does not decode: `?` drops the pages read so far; what
\* a host collected by token, and its token, stay with the host
FailPage(t) ==
  /\ read[t].pc = "reading"
  /\ read' = [read EXCEPT ![t] =
       IF @.kind.follow = "token" /\ @.seen # {} THEN [@ EXCEPT !.pc = "parked"]
       ELSE [@ EXCEPT !.pc = "done", !.todo = <<>>, !.seen = {}, !.got = Nothing,
                      !.result = "Err"]]
  /\ UNCHANGED <<held, rev, changes>>

\* the host asks for more with the token it holds
LoadMore(t) ==
  /\ read[t].pc = "parked"
  /\ read' = [read EXCEPT ![t].pc = "reading"]
  /\ UNCHANGED <<held, rev, changes>>

\* the host drops the future, or forgets the token
DropRead(t) ==
  /\ read[t].pc \in {"reading", "parked"}
  /\ read' = [read EXCEPT ![t].pc = "done", ![t].todo = <<>>, ![t].seen = {},
                          ![t].result = "Dropped"]
  /\ UNCHANGED <<held, rev, changes>>

-----------------------------------------------------------------------------
(* The service.                                                            *)

InUse == UNION {ToSet(read[t].kind.from) : t \in {u \in Tasks : read[u].pc \in {"reading", "parked"}}}

\* the listings become H: what the running reads will be measured by
HeldBecomes(H) ==
  /\ changes < MaxChanges /\ changes' = changes + 1
  /\ held' = H
  /\ read' = [t \in Tasks |->
       IF read[t].pc = "done" THEN read[t]
       ELSE [read[t] EXCEPT !.stayed = {x \in @ : x[2] \in H[x[1]]},
                            !.around = @ \cap Behind(read[t].kind, H)]]
  /\ rev' = rev

\* nobody is a member and invited
Together(l) == IF l \in Team THEN Team \cap Listings ELSE {l}

Enter(l, e) ==
  /\ \A m \in Together(l) : e \notin held[m]
  /\ HeldBecomes([held EXCEPT ![l] = @ \cup {e}])

Leave(l, e) == e \in held[l] /\ HeldBecomes([held EXCEPT ![l] = @ \ {e}])

\* an invited person becomes a member
Accept(e) ==
  /\ Team \subseteq Listings /\ e \in held["userInvitations"]
  /\ HeldBecomes([held EXCEPT !["userInvitations"] = @ \ {e}, !["users"] = @ \cup {e}])

Edit(e) ==
  /\ changes < MaxChanges /\ changes' = changes + 1
  /\ rev[e] < MaxRev /\ rev' = [rev EXCEPT ![e] = @ + 1]
  /\ UNCHANGED <<held, read>>

ServiceNext ==
  \/ \E l \in InUse, e \in Entries : Enter(l, e) \/ Leave(l, e)
  \/ \E e \in Entries : Accept(e) \/ Edit(e)

Answered(t) == NextPage(t) \/ FailPage(t)
ReadNext(t) == Begin(t) \/ Answered(t) \/ LoadMore(t) \/ DropRead(t)

PagedNext == ServiceNext \/ \E t \in Tasks : ReadNext(t)

PagedSpec == PagedInit /\ [][PagedNext]_pagedVars

\* the service answers a request
PagedFairness == \A t \in Tasks : WF_pagedVars(NextPage(t))

-----------------------------------------------------------------------------
(* Properties.                                                             *)

Lists(r) == {e \in Entries : r.got[e] # 0}
Finished(t, k) == read[t].pc = "done" /\ read[t].result = "Ok" /\ read[t].kind = k

\* A read that ends well lists every entry that was in its listing from the
\* first request to the last, whatever was added or removed meanwhile and
\* however often the host had to ask again; fetch_versions reads one page only.
CompleteListing ==
  \A t \in Tasks : read[t].result = "Ok" /\ read[t].kind.follow # "none" =>
    {x[2] : x \in read[t].stayed} \cap Kept(read[t].kind) \subseteq Lists(read[t])

\* Every request loop returns to the host, however the listing changes.
ReadReturns == \A t \in Tasks : read[t].pc = "reading" ~> read[t].pc # "reading"

\* "Lists every user of the connected account: the active members followed by
\* the outstanding invitations" (client.rs:6534): whoever was a user, invited
\* or active, all along is listed.
EveryUserIsListed ==
  \A t \in Tasks : Finished(t, fetch_users) => read[t].around \subseteq Lists(read[t])
=============================================================================
