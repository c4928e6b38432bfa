------------------------------- MODULE AppSync -------------------------------
(***************************************************************************)
(* Synchronising the apps of an account into the host's blob store:        *)
(* SyncService::sync_apps (service/sync.rs) and the Flutter facade's       *)
(* FrbSyncService::sync_apps (frb_api.rs), on top of fetch_apps as         *)
(* PagedReading has it.  Several syncs may be under way: on the threads of *)
(* the runtime, or between two awaits of the Dart closure.                 *)
(***************************************************************************)
EXTENDS PagedReading

CONSTANT Interruptible  \* a host can drop a sync between two saves (Flutter)

ASSUME SyncAssumption == Interruptible \in BOOLEAN /\ Kinds = {fetch_apps}

VARIABLES
  store,      \* store[e]: the revision in the blob of app e, 0: no blob
  buffer,     \* buffer[t]: the blobs sync t still has to save, 0: none
  syncpc,
  oldest,     \* history: the revisions when last no sync was under way
  overlapped  \* history: two syncs were under way since then
syncVars == <<store, buffer, syncpc, oldest, overlapped>>
vars == <<pagedVars, syncVars>>

TypeOK ==
  /\ PagedTypeOK
  /\ store \in [Entries -> 0..MaxRev]
  /\ buffer \in [Tasks -> [Entries -> 0..MaxRev]]
  /\ syncpc \in [Tasks -> {"unborn", "fetching", "saving", "done", "dropped"}]
  /\ oldest \in [Entries -> 1..MaxRev]
  /\ overlapped \in BOOLEAN
  /\ \A t \in Tasks : syncpc[t] \in {"unborn", "fetching", "done"} => buffer[t] = Nothing

Init ==
  /\ PagedInit
  /\ store = Nothing
  /\ buffer = [t \in Tasks |-> Nothing]
  /\ syncpc = [t \in Tasks |-> "unborn"]
  /\ oldest = rev
  /\ overlapped = FALSE

UnderWay == {t \in Tasks : syncpc[t] \in {"fetching", "saving"}}

\* sync t moves to pc; the history follows
Goto(t, pc) ==
  /\ syncpc' = [syncpc EXCEPT ![t] = pc]
  /\ oldest' = IF UnderWay' = {} THEN rev ELSE oldest
  /\ overlapped' = (UnderWay' # {} /\ (overlapped \/ UnderWay \ {t} # {}))

BeginSync(t) ==
  /\ Begin(t)
  /\ Goto(t, "fetching")
  /\ UNCHANGED <<store, buffer>>

\* fetch_apps goes on
Fetch(t) ==
  /\ Answered(t)
  /\ UNCHANGED syncVars

\* fetch_apps is back: every app is serialised and handed to the store
BeginSaving(t) ==
  /\ syncpc[t] = "fetching" /\ read[t].result = "Ok"
  /\ Goto(t, "saving")
  /\ buffer' = [buffer EXCEPT ![t] = read[t].got]
  /\ UNCHANGED <<pagedVars, store>>

Save_Leftover(t) ==
  /\ syncpc[t] = "saving"
  /\ \E e \in Entries, u \in {t} \cup {v \in Tasks : syncpc[v] = "dropped"} :
       /\ buffer[u][e] # 0
       /\ store' = [store EXCEPT ![e] = buffer[u][e]]
       /\ buffer' = [buffer EXCEPT ![u][e] = 0]
  /\ UNCHANGED <<pagedVars, syncpc, oldest, overlapped>>

Save(t) ==
  /\ syncpc[t] = "saving"
  /\ \E e \in Entries :
       /\ buffer[t][e] # 0
       /\ store' = [store EXCEPT ![e] = buffer[t][e]]
       /\ buffer' = [buffer EXCEPT ![t][e] = 0]
  /\ UNCHANGED <<pagedVars, syncpc, oldest, overlapped>>

ReturnSync_Early(t) ==
  /\ \/ syncpc[t] = "saving"
     \/ syncpc[t] = "fetching" /\ read[t].result = "Err"
  /\ Goto(t, "done")
  /\ UNCHANGED <<pagedVars, store, buffer>>

\* Ok when everything is saved, fetch_apps' error before anything is
ReturnSync(t) ==
  /\ \/ syncpc[t] = "saving" /\ buffer[t] = Nothing
     \/ syncpc[t] = "fetching" /\ read[t].result = "Err"
  /\ Goto(t, "done")
  /\ UNCHANGED <<pagedVars, store, buffer>>

\* the host drops the future: at any request, at a save only if that awaits
DropSync(t) ==
  /\ \/ syncpc[t] = "fetching" /\ DropRead(t)
     \/ syncpc[t] = "saving" /\ Interruptible /\ UNCHANGED pagedVars
  /\ Goto(t, "dropped")
  /\ UNCHANGED <<store, buffer>>

\* an app changes at the service
Change ==
  /\ ServiceNext
  /\ oldest' = IF UnderWay = {} THEN rev' ELSE oldest
  /\ UNCHANGED <<store, buffer, syncpc, overlapped>>

Storing(t) == BeginSaving(t) \/ Save(t) \/ ReturnSync(t)

Next == Change \/ \E t \in Tasks : BeginSync(t) \/ Fetch(t) \/ Storing(t) \/ DropSync(t)

Spec == Init /\ [][Next]_vars

\* the service answers a request, and the host's store returns
FairSpec ==
  /\ Spec
  /\ \A t \in Tasks : WF_vars(NextPage(t) /\ UNCHANGED syncVars) /\ WF_vars(Storing(t))

-----------------------------------------------------------------------------
(* Properties.                                                             *)

\* The syncs, however they interleave and wherever they are dropped, keep the
\* promise of AppCache: no blob ever holds what the service did not have, or
\* gets a revision from before the syncs that are under way together.
Cache == INSTANCE AppCache WITH
  Apps <- Entries, current <- rev, cached <- store, oldest <- oldest
IsAppCache == Cache!CacheSpec

\* A sync that returns Ok leaves a blob of every app that stayed in the account
\* all along, at least as new as the account was when the syncs began.
OkMeansStored ==
  [][\A t \in Tasks : syncpc[t] = "saving" /\ syncpc'[t] = "done" =>
       \A x \in read[t].stayed : store[x[2]] >= oldest[x[2]]]_vars

\* As long as the host runs one sync at a time, no blob goes back in time, also
\* after syncs that were dropped half-way.
StoreNeverGoesBack ==
  [][\A e \in Entries : store'[e] < store[e] => overlapped]_vars

\* Every sync returns, however many apps come and go while it reads.
SyncReturns == \A t \in Tasks : t \in UnderWay ~> t \notin UnderWay
=============================================================================
