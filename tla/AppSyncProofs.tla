---------------------------- MODULE AppSyncProofs ----------------------------
(***************************************************************************)
(* Proofs about AppSync, for every number of syncs, apps, revisions and    *)
(* entries on a page: it implements AppCache, and what its syncs promise.  *)
(***************************************************************************)
EXTENDS AppSync, PagedReadingProofs

SyncPCs == {"unborn", "fetching", "saving", "done", "dropped"}

SyncTyped ==
  /\ store \in [Entries -> 0..MaxRev]
  /\ buffer \in [Tasks -> [Entries -> 0..MaxRev]]
  /\ syncpc \in [Tasks -> SyncPCs]
  /\ oldest \in [Entries -> 1..MaxRev]
  /\ overlapped \in BOOLEAN
  /\ \A t \in Tasks : syncpc[t] \in {"unborn", "fetching", "done"} => buffer[t] = Nothing

\* The service is never behind what was noted or stored of it, and what was
\* noted is up to date while nobody synchronises.
UpToDate ==
  /\ \A e \in Entries : oldest[e] <= rev[e] /\ store[e] <= rev[e]
  /\ UnderWay = {} => oldest = rev

\* A revision that a sync read, or is about to save, of app e.
Fresh(n, e) == n # 0 => oldest[e] <= n /\ n <= rev[e]
ReadsFresh ==
  \A t \in Tasks, e \in Entries :
    /\ syncpc[t] = "fetching" => Fresh(read[t].got[e], e)
    /\ syncpc[t] = "saving" => Fresh(buffer[t][e], e)

\* A sync is where its read is.
InStep == \A t \in Tasks : /\ read[t].pc = "unborn" => syncpc[t] = "unborn"
                           /\ syncpc[t] = "saving" => read[t].result = "Ok"

\* What a sync has to leave behind it is saved or still in its buffer.
Delivers ==
  \A t \in Tasks : syncpc[t] = "saving" =>
    \A x \in read[t].stayed : buffer[t][x[2]] # 0 \/ store[x[2]] >= oldest[x[2]]

\* A sync that is alone finds every blob it has yet to save as old as the
\* service was when it began, or older.
Alone ==
  ~overlapped =>
    \A t \in UnderWay :
      /\ \A u \in UnderWay : u = t
      /\ \A e \in Entries : syncpc[t] = "fetching" \/ buffer[t][e] # 0 => store[e] <= oldest[e]

SyncInv ==
  /\ PagedInv /\ SyncTyped
  /\ UpToDate /\ ReadsFresh /\ InStep /\ Delivers /\ Alone

-----------------------------------------------------------------------------
(* The parts of a step.                                                    *)

LEMMA NothingTyped ==
  Nothing \in [Entries -> 0..MaxRev] /\ \A e \in Entries : Nothing[e] = 0
BY PagedAssumption DEF Nothing

LEMMA GotoMoves ==
  ASSUME SyncTyped, NEW t \in Tasks, NEW pc \in SyncPCs, Goto(t, pc)
  PROVE  /\ syncpc' \in [Tasks -> SyncPCs] /\ overlapped' \in BOOLEAN
         /\ \A u \in Tasks : syncpc'[u] = IF u = t THEN pc ELSE syncpc[u]
         /\ pc \in {"fetching", "saving"} => UnderWay' = UnderWay \cup {t}
         /\ pc \notin {"fetching", "saving"} => UnderWay' = UnderWay \ {t}
         /\ UnderWay' # {} => oldest' = oldest
         /\ UnderWay' = {} => oldest' = rev
         /\ UnderWay' # {} /\ ~overlapped' => ~overlapped /\ UnderWay \subseteq {t}
<1>1. /\ syncpc' \in [Tasks -> SyncPCs]
      /\ \A u \in Tasks : syncpc'[u] = IF u = t THEN pc ELSE syncpc[u]
  BY DEF Goto, SyncTyped
<1>2. /\ pc \in {"fetching", "saving"} => UnderWay' = UnderWay \cup {t}
      /\ pc \notin {"fetching", "saving"} => UnderWay' = UnderWay \ {t}
  BY <1>1 DEF UnderWay
<1>3. /\ oldest' = (IF UnderWay' = {} THEN rev ELSE oldest)
      /\ overlapped' = (UnderWay' # {} /\ (overlapped \/ UnderWay \ {t} # {}))
  BY DEF Goto
<1> QED
  BY <1>1, <1>2, <1>3

LEMMA Numbers ==
  ASSUME SyncInv, NEW e \in Entries
  PROVE  /\ rev[e] \in Nat /\ rev[e] # 0 /\ oldest[e] \in Nat /\ oldest[e] # 0
         /\ store[e] \in Nat
         /\ \A t \in Tasks : read[t].got[e] \in Nat /\ buffer[t][e] \in Nat
<1>1. /\ rev \in [Entries -> 1..MaxRev] /\ oldest \in [Entries -> 1..MaxRev]
      /\ store \in [Entries -> 0..MaxRev]
      /\ \A t \in Tasks : buffer[t] \in [Entries -> 0..MaxRev]
  BY DEF SyncInv, PagedInv, ServiceTyped, SyncTyped
<1>2. \A t \in Tasks : read[t].got \in [Entries -> 0..MaxRev]
  BY DEF SyncInv, PagedInv, ReadsWell, WellRead, Reads
<1> QED
  BY <1>1, <1>2, PagedAssumption

LEMMA InitSync == Init => SyncInv
<1> SUFFICES ASSUME Init PROVE SyncInv
  OBVIOUS
<1>1. PagedInv
  BY InitHolds DEF Init
<1>2. SyncTyped
  BY <1>1, NothingTyped DEF Init, SyncTyped, SyncPCs, PagedInv, ServiceTyped
<1>3. UnderWay = {}
  BY DEF Init, UnderWay
<1>4. UpToDate
  BY <1>1, <1>3, NothingTyped, PagedAssumption DEF Init, UpToDate, PagedInv, ServiceTyped
<1> QED
  BY <1>1, <1>2, <1>3, <1>4 DEF SyncInv, Init, ReadsFresh, InStep, Delivers, Alone

LEMMA BeginSyncKeeps ==
  ASSUME SyncInv, NEW t \in Tasks, BeginSync(t)
  PROVE  SyncInv' /\ rev' = rev /\ store' = store /\ oldest' = oldest
<1>1. /\ PagedInv' /\ read'[t].pc = "reading" /\ read'[t].got = Nothing
      /\ rev' = rev /\ \A u \in Tasks : u # t => read'[u] = read[u]
  BY BeginKeeps DEF BeginSync, SyncInv, Begin, PagedInv, ReadsWell
<1>2. syncpc[t] = "unborn" /\ SyncTyped /\ Goto(t, "fetching") /\ store' = store /\ buffer' = buffer
  BY DEF BeginSync, Begin, SyncInv, InStep
<1>3. /\ syncpc' \in [Tasks -> SyncPCs] /\ overlapped' \in BOOLEAN
      /\ \A u \in Tasks : syncpc'[u] = IF u = t THEN "fetching" ELSE syncpc[u]
      /\ UnderWay' = UnderWay \cup {t} /\ oldest' = oldest
      /\ ~overlapped' => ~overlapped /\ UnderWay \subseteq {t}
  BY <1>2, GotoMoves DEF SyncPCs
<1>4. SyncTyped'
  BY <1>2, <1>3 DEF SyncTyped
<1>5. UpToDate'
  BY <1>1, <1>2, <1>3 DEF SyncInv, UpToDate
<1>6. ReadsFresh'
  BY <1>1, <1>2, <1>3, NothingTyped DEF SyncInv, ReadsFresh, Fresh
<1>7. InStep' /\ Delivers'
  BY <1>1, <1>2, <1>3 DEF SyncInv, InStep, Delivers
<1>8. Alone'
  <2> SUFFICES ASSUME ~overlapped' PROVE Alone'
    BY DEF Alone
  <2>1. UnderWay = {} /\ UnderWay' = {t}
    BY <1>2, <1>3 DEF UnderWay
  <2>2. \A e \in Entries : store[e] <= oldest[e]
    BY <2>1 DEF SyncInv, UpToDate
  <2> QED
    BY <1>2, <1>3, <2>1, <2>2 DEF Alone
<1> QED
  BY <1>1, <1>2, <1>3, <1>4, <1>5, <1>6, <1>7, <1>8 DEF SyncInv

\* A read that is under way is that of a sync that fetches, or of nobody.
LEMMA ReadingFetches ==
  ASSUME SyncInv, NEW t \in Tasks, read[t].pc = "reading"
  PROVE  read[t].result = "none" /\ syncpc[t] # "saving"
BY DEF SyncInv, PagedInv, ReadsWell, WellRead, InStep

LEMMA FetchKeeps ==
  ASSUME SyncInv, NEW t \in Tasks, Fetch(t)
  PROVE  SyncInv' /\ rev' = rev /\ store' = store /\ oldest' = oldest
<1>1. /\ PagedInv' /\ rev' = rev /\ UNCHANGED syncVars
      /\ \A e \in Entries : read'[t].got[e] \in {read[t].got[e], rev[e], 0}
  BY NextPageKeeps, OthersKeep, NothingTyped DEF Fetch, Answered, SyncInv
<1>2. read[t].pc = "reading" /\ \A u \in Tasks : u # t => read'[u] = read[u]
  BY DEF Fetch, Answered, NextPage, FailPage, SyncInv, PagedInv, ReadsWell
<1>3. syncpc[t] # "saving"
  BY <1>2, ReadingFetches
<1>4. read'[t].pc # "unborn"
  BY NextPageKeeps, OthersKeep DEF Fetch, Answered, SyncInv
<1>5. SyncTyped' /\ UnderWay' = UnderWay
  BY <1>1 DEF SyncInv, SyncTyped, syncVars, UnderWay
<1>6. UpToDate' /\ Alone'
  BY <1>1, <1>5 DEF SyncInv, UpToDate, Alone, syncVars
<1>7. InStep' /\ Delivers'
  BY <1>1, <1>2, <1>3, <1>4 DEF SyncInv, InStep, Delivers, syncVars
<1>8. ReadsFresh'
  <2>1. \A e \in Entries : Fresh(rev[e], e)
    BY Numbers DEF SyncInv, UpToDate, Fresh
  <2> QED
    BY <1>1, <1>2, <2>1 DEF SyncInv, ReadsFresh, Fresh, syncVars
<1> QED
  BY <1>1, <1>5, <1>6, <1>7, <1>8 DEF SyncInv, syncVars

LEMMA BeginSavingKeeps ==
  ASSUME SyncInv, NEW t \in Tasks, BeginSaving(t)
  PROVE  SyncInv' /\ rev' = rev /\ store' = store /\ oldest' = oldest
<1>1. /\ syncpc[t] = "fetching" /\ read[t].result = "Ok" /\ SyncTyped /\ Goto(t, "saving")
      /\ UNCHANGED pagedVars /\ UNCHANGED store
      /\ buffer' = [buffer EXCEPT ![t] = read[t].got]
  BY DEF BeginSaving, SyncInv
<1>2. UNCHANGED <<held, rev, read, changes>> /\ PagedInv'
  BY <1>1 DEF pagedVars, SyncInv, PagedInv, ServiceTyped, ReadsWell
<1>3. /\ syncpc' \in [Tasks -> SyncPCs] /\ overlapped' \in BOOLEAN
      /\ \A u \in Tasks : syncpc'[u] = IF u = t THEN "saving" ELSE syncpc[u]
      /\ UnderWay' = UnderWay /\ oldest' = oldest
      /\ ~overlapped' => ~overlapped /\ UnderWay = {t}
  BY <1>1, GotoMoves DEF SyncPCs, UnderWay
<1>4. /\ read[t].got \in [Entries -> 0..MaxRev]
      /\ \A u \in Tasks : buffer'[u] = IF u = t THEN read[t].got ELSE buffer[u]
  BY <1>1 DEF SyncInv, PagedInv, ReadsWell, WellRead, Reads, SyncTyped
<1>5. SyncTyped'
  BY <1>1, <1>3, <1>4 DEF SyncTyped
<1>6. UpToDate'
  BY <1>1, <1>2, <1>3 DEF SyncInv, UpToDate
<1>7. ReadsFresh' /\ InStep'
  BY <1>1, <1>2, <1>3, <1>4 DEF SyncInv, ReadsFresh, Fresh, InStep
<1>8. Delivers'
  <2>1. ASSUME NEW x \in read[t].stayed PROVE read[t].got[x[2]] # 0
    <3>1. read[t].kind.follow # "none" /\ Kept(read[t].kind) = Entries
      BY SyncAssumption DEF SyncInv, PagedInv, ReadsWell, WellRead, Reads, Kept, fetch_apps,
         Whole, Reader
    <3>2. x[2] \in Entries
      BY DEF SyncInv, PagedInv, ReadsWell, WellRead, Reads
    <3>3. x[2] \in {y[2] : y \in read[t].stayed}
      OBVIOUS
    <3> QED
      BY <1>1, <3>1, <3>2, <3>3, NothingOwed DEF SyncInv, CompleteListing, Lists
  <2> QED
    BY <1>1, <1>2, <1>3, <1>4, <2>1 DEF SyncInv, Delivers
<1>9. Alone'
  BY <1>1, <1>3, <1>4 DEF SyncInv, Alone
<1> QED
  BY <1>1, <1>2, <1>3, <1>5, <1>6, <1>7, <1>8, <1>9 DEF SyncInv

\* A save stores a revision that is fresh.
LEMMA SaveKeeps ==
  ASSUME SyncInv, NEW t \in Tasks, Save(t)
  PROVE  /\ SyncInv' /\ rev' = rev /\ oldest' = oldest
         /\ \E e \in Entries : \E n \in oldest[e]..rev[e] :
              /\ store' = [store EXCEPT ![e] = n]
              /\ ~overlapped => store[e] <= n
<1>1. PICK e \in Entries :
        /\ buffer[t][e] # 0
        /\ store' = [store EXCEPT ![e] = buffer[t][e]]
        /\ buffer' = [buffer EXCEPT ![t][e] = 0]
  BY DEF Save
<1>2. /\ syncpc[t] = "saving" /\ t \in UnderWay /\ SyncTyped
      /\ UNCHANGED <<held, rev, read, changes, syncpc, oldest, overlapped>>
  BY DEF Save, pagedVars, UnderWay, SyncInv
<1>3. PagedInv' /\ UnderWay' = UnderWay
  BY <1>2 DEF SyncInv, PagedInv, ServiceTyped, ReadsWell, UnderWay
<1>4. /\ oldest[e] <= buffer[t][e] /\ buffer[t][e] <= rev[e]
      /\ buffer[t][e] \in oldest[e]..rev[e]
      /\ buffer[t][e] \in 0..MaxRev
  <2>1. oldest[e] <= buffer[t][e] /\ buffer[t][e] <= rev[e]
    BY <1>1, <1>2 DEF SyncInv, ReadsFresh, Fresh
  <2>2. oldest[e] \in Nat /\ rev[e] \in Nat /\ buffer[t][e] \in 0..MaxRev
    BY <1>2, Numbers DEF SyncTyped
  <2> QED
    BY <2>1, <2>2
<1>5. /\ \A u \in Tasks, f \in Entries :
           buffer'[u][f] = IF u = t /\ f = e THEN 0 ELSE buffer[u][f]
      /\ \A f \in Entries : store'[f] = IF f = e THEN buffer[t][e] ELSE store[f]
      /\ \A u \in Tasks : u # t => buffer'[u] = buffer[u]
      /\ buffer' \in [Tasks -> [Entries -> 0..MaxRev]] /\ store' \in [Entries -> 0..MaxRev]
  BY <1>1, <1>2, <1>4, PagedAssumption DEF SyncTyped
<1>6. SyncTyped'
  BY <1>2, <1>5 DEF SyncTyped
<1>7. UpToDate' /\ ReadsFresh' /\ InStep'
  BY <1>2, <1>3, <1>4, <1>5 DEF SyncInv, UpToDate, ReadsFresh, Fresh, InStep
<1>8. Delivers'
  <2> SUFFICES ASSUME NEW u \in Tasks, syncpc[u] = "saving", NEW x \in read[u].stayed
               PROVE  buffer'[u][x[2]] # 0 \/ store'[x[2]] >= oldest[x[2]]
    BY <1>2 DEF Delivers
  <2>1. x[2] \in Entries
    BY DEF SyncInv, PagedInv, ReadsWell, WellRead, Reads
  <2>2. buffer[u][x[2]] # 0 \/ store[x[2]] >= oldest[x[2]]
    BY DEF SyncInv, Delivers
  <2>3. CASE x[2] = e
    BY <1>4, <1>5, <2>1, <2>3, Numbers
  <2>4. CASE x[2] # e
    BY <1>5, <2>1, <2>2, <2>4
  <2> QED
    BY <2>3, <2>4
<1>9. Alone' /\ (~overlapped => store[e] <= buffer[t][e])
  <2>1. ASSUME ~overlapped
        PROVE  /\ \A u \in UnderWay : u = t
               /\ \A f \in Entries : buffer[t][f] # 0 => store[f] <= oldest[f]
    BY <1>2, <2>1 DEF SyncInv, Alone
  <2>2. ~overlapped => store[e] <= buffer[t][e]
    BY <1>1, <1>4, <2>1, Numbers
  <2>3. Alone'
    BY <1>2, <1>3, <1>5, <2>1 DEF Alone
  <2> QED
    BY <2>2, <2>3
<1> QED
  BY <1>1, <1>2, <1>3, <1>4, <1>6, <1>7, <1>8, <1>9 DEF SyncInv

\* A sync ends: what it leaves in its buffer is saved no more.
LEMMA LeavingKeeps ==
  ASSUME SyncInv, NEW t \in Tasks, NEW pc \in {"done", "dropped"}, Goto(t, pc),
         PagedInv', rev' = rev, read'[t].pc # "unborn",
         \A u \in Tasks : u # t => read'[u] = read[u],
         UNCHANGED <<store, buffer>>, pc = "done" => buffer[t] = Nothing
  PROVE  SyncInv' /\ oldest' \in {oldest, rev}
<1>1. /\ syncpc' \in [Tasks -> SyncPCs] /\ overlapped' \in BOOLEAN
      /\ \A u \in Tasks : syncpc'[u] = IF u = t THEN pc ELSE syncpc[u]
      /\ UnderWay' = UnderWay \ {t}
      /\ UnderWay' # {} => oldest' = oldest
      /\ UnderWay' = {} => oldest' = rev
      /\ UnderWay' # {} /\ ~overlapped' => UnderWay \subseteq {t}
  BY GotoMoves DEF SyncPCs, SyncInv
<1>2. SyncTyped'
  BY <1>1 DEF SyncInv, SyncTyped, PagedInv, ServiceTyped
<1>3. UpToDate'
  BY <1>1, Numbers DEF SyncInv, UpToDate
<1>4. ASSUME NEW u \in Tasks, syncpc'[u] \in {"fetching", "saving"}
      PROVE  u # t /\ oldest' = oldest /\ syncpc[u] = syncpc'[u] /\ read'[u] = read[u]
  <2>1. u # t /\ syncpc[u] = syncpc'[u]
    BY <1>1, <1>4
  <2>2. u \in UnderWay'
    BY <1>4 DEF UnderWay
  <2> QED
    BY <1>1, <2>1, <2>2
<1>5. ReadsFresh' /\ Delivers'
  BY <1>4 DEF SyncInv, ReadsFresh, Fresh, Delivers
<1>6. InStep'
  BY <1>1, <1>4 DEF SyncInv, InStep
<1>7. Alone'
  BY <1>1 DEF Alone
<1> QED
  BY <1>1, <1>2, <1>3, <1>5, <1>6, <1>7 DEF SyncInv

LEMMA ReturnSyncKeeps ==
  ASSUME SyncInv, NEW t \in Tasks, ReturnSync(t)
  PROVE  /\ SyncInv' /\ rev' = rev /\ store' = store /\ oldest' \in {oldest, rev}
         /\ syncpc[t] = "saving" => buffer[t] = Nothing
<1>1. /\ Goto(t, "done") /\ UNCHANGED <<store, buffer>> /\ UNCHANGED pagedVars
      /\ \/ syncpc[t] = "saving" /\ buffer[t] = Nothing
         \/ syncpc[t] = "fetching" /\ read[t].result = "Err"
  BY DEF ReturnSync
<1>2. UNCHANGED <<held, rev, read, changes>> /\ PagedInv'
  BY <1>1 DEF pagedVars, SyncInv, PagedInv, ServiceTyped, ReadsWell
<1>3. read[t].pc # "unborn" /\ buffer[t] = Nothing
  BY <1>1 DEF SyncInv, InStep, SyncTyped
<1> QED
  BY <1>1, <1>2, <1>3, LeavingKeeps

LEMMA DropSyncKeeps ==
  ASSUME SyncInv, NEW t \in Tasks, DropSync(t)
  PROVE  SyncInv' /\ rev' = rev /\ store' = store /\ oldest' \in {oldest, rev}
<1>1. Goto(t, "dropped") /\ UNCHANGED <<store, buffer>> /\ syncpc[t] \in {"fetching", "saving"}
  BY DEF DropSync
<1>2. CASE DropRead(t)
  <2>1. \A u \in Tasks : u # t => read'[u] = read[u]
    BY <1>2 DEF DropRead, SyncInv, PagedInv, ReadsWell
  <2> QED
    BY <1>1, <1>2, <2>1, OthersKeep, LeavingKeeps DEF SyncInv
<1>3. CASE UNCHANGED pagedVars
  <2>1. UNCHANGED <<held, rev, read, changes>> /\ PagedInv'
    BY <1>3 DEF pagedVars, SyncInv, PagedInv, ServiceTyped, ReadsWell
  <2>2. read[t].pc # "unborn"
    BY <1>1 DEF SyncInv, InStep
  <2> QED
    BY <1>1, <2>1, <2>2, LeavingKeeps
<1> QED
  BY <1>2, <1>3 DEF DropSync

LEMMA ChangeKeeps ==
  ASSUME SyncInv, Change
  PROVE  /\ SyncInv' /\ store' = store
         /\ \/ rev' = rev /\ oldest' = oldest
            \/ /\ \E e \in Entries : rev' = [rev EXCEPT ![e] = @ + 1]
               /\ oldest' = oldest \/ (oldest = rev /\ oldest' = rev')
<1>1. /\ PagedInv'
      /\ \A t \in Tasks : /\ read'[t].got = read[t].got /\ read'[t].pc = read[t].pc
                          /\ read'[t].result = read[t].result
                          /\ read'[t].stayed \subseteq read[t].stayed
      /\ rev' = rev \/ \E e \in Entries : rev' = [rev EXCEPT ![e] = @ + 1]
  BY ServiceKeeps DEF Change, SyncInv
<1>2. /\ UNCHANGED <<store, buffer, syncpc, overlapped>> /\ UnderWay' = UnderWay
      /\ oldest' = IF UnderWay = {} THEN rev' ELSE oldest
  BY DEF Change, UnderWay
<1>3. UnderWay = {} => oldest = rev
  BY DEF SyncInv, UpToDate
<1>4. \A e \in Entries : rev'[e] \in Nat /\ rev[e] <= rev'[e]
  BY <1>1, Numbers DEF SyncInv, PagedInv, ServiceTyped
<1>5. SyncTyped'
  BY <1>1, <1>2 DEF SyncInv, SyncTyped, PagedInv, ServiceTyped
<1>6. UpToDate'
  BY <1>2, <1>4, Numbers DEF SyncInv, UpToDate
<1>7. ASSUME NEW t \in Tasks, syncpc[t] \in {"fetching", "saving"} PROVE oldest' = oldest
  BY <1>2, <1>7 DEF UnderWay
<1>8. ReadsFresh'
  <2> SUFFICES ASSUME NEW t \in Tasks, syncpc[t] \in {"fetching", "saving"}, NEW e \in Entries,
                      NEW n \in Nat, Fresh(n, e)
               PROVE  Fresh(n, e)'
    BY <1>1, <1>2, Numbers DEF SyncInv, ReadsFresh
  <2> QED
    BY <1>4, <1>7, Numbers DEF Fresh
<1>9. InStep' /\ Delivers'
  BY <1>1, <1>2, <1>7 DEF SyncInv, InStep, Delivers
<1>10. Alone'
  <2>1. ASSUME NEW t \in UnderWay PROVE oldest' = oldest
    BY <1>2, <2>1
  <2> QED
    BY <1>2, <2>1 DEF SyncInv, Alone
<1> QED
  BY <1>1, <1>2, <1>3, <1>5, <1>6, <1>8, <1>9, <1>10 DEF SyncInv

LEMMA IdleKeeps ==
  ASSUME SyncInv, UNCHANGED vars
  PROVE  SyncInv' /\ UNCHANGED <<rev, store, oldest>>
BY DEF vars, pagedVars, syncVars, SyncInv, PagedInv, ServiceTyped, ReadsWell, SyncTyped,
       UpToDate, ReadsFresh, Fresh, InStep, Delivers, Alone, UnderWay

LEMMA SyncInvariant == Spec => []SyncInv
<1>1. SyncInv /\ [Next]_vars => SyncInv'
  BY BeginSyncKeeps, FetchKeeps, BeginSavingKeeps, SaveKeeps, ReturnSyncKeeps, DropSyncKeeps,
     ChangeKeeps, IdleKeeps DEF Next, Storing
<1> QED
  BY InitSync, <1>1, PTL DEF Spec

-----------------------------------------------------------------------------
(* The theorems.                                                           *)

\* Every variable keeps its type.
THEOREM SyncTypeCorrect == Spec => []TypeOK
<1>1. SyncInv => TypeOK
  BY DEF SyncInv, PagedInv, ServiceTyped, ReadsWell, WellRead, PagedTypeOK, SyncTyped, SyncPCs,
     TypeOK
<1> QED
  BY SyncInvariant, <1>1, PTL

\* The syncs implement AppCache: a save writes a revision between the oldest
\* allowed and the current one, and only the end of the last sync, or a change
\* while there is none, moves the oldest.
THEOREM SyncsImplementCache == Spec => IsAppCache
<1>1. Init => Cache!CacheInit
  BY DEF Init, PagedInit, Nothing, Cache!CacheInit
<1>2. SyncInv /\ [Next]_vars => [Cache!CacheNext]_(Cache!cacheVars)
  <2> SUFFICES ASSUME SyncInv, [Next]_vars PROVE [Cache!CacheNext]_(Cache!cacheVars)
    OBVIOUS
  <2> USE DEF Cache!CacheNext, Cache!cacheVars, Cache!Settle, Cache!Publish, Cache!Write
  <2>1. CASE Change
    BY <2>1, ChangeKeeps
  <2>2. ASSUME NEW t \in Tasks, BeginSync(t) \/ Fetch(t) \/ BeginSaving(t)
        PROVE  UNCHANGED Cache!cacheVars
    BY <2>2, BeginSyncKeeps, FetchKeeps, BeginSavingKeeps
  <2>3. ASSUME NEW t \in Tasks, Save(t)
        PROVE  \E e \in Entries : Cache!Write(e)
    BY <2>3, SaveKeeps
  <2>4. ASSUME NEW t \in Tasks, ReturnSync(t) \/ DropSync(t)
        PROVE  Cache!Settle \/ UNCHANGED Cache!cacheVars
    BY <2>4, ReturnSyncKeeps, DropSyncKeeps
  <2>5. CASE UNCHANGED vars
    BY <2>5, IdleKeeps
  <2> QED
    BY <2>1, <2>2, <2>3, <2>4, <2>5 DEF Next, Storing
<1> QED
  BY SyncInvariant, <1>1, <1>2, PTL DEF Spec, IsAppCache, Cache!CacheSpec

\* An Ok means that all that stayed in the account is stored.
THEOREM OkIsStored == Spec => OkMeansStored
<1>1. SyncInv /\ [Next]_vars =>
        [\A t \in Tasks : syncpc[t] = "saving" /\ syncpc'[t] = "done" =>
           \A x \in read[t].stayed : store[x[2]] >= oldest[x[2]]]_vars
  <2> SUFFICES ASSUME SyncInv, Next, NEW t \in Tasks, syncpc[t] = "saving", syncpc'[t] = "done",
                      NEW x \in read[t].stayed
               PROVE  store[x[2]] >= oldest[x[2]]
    OBVIOUS
  <2>1. ReturnSync(t)
    BY DEF Next, Storing, Change, BeginSync, Fetch, BeginSaving, Save, ReturnSync, DropSync, Goto,
       syncVars, SyncInv, SyncTyped
  <2>2. x[2] \in Entries
    BY DEF SyncInv, PagedInv, ReadsWell, WellRead, Reads
  <2> QED
    BY <2>1, <2>2, ReturnSyncKeeps, NothingTyped DEF SyncInv, Delivers
<1> QED
  BY SyncInvariant, <1>1, PTL DEF Spec, OkMeansStored

\* One sync at a time never takes a blob back.
THEOREM BlobsGoForward == Spec => StoreNeverGoesBack
<1>1. SyncInv /\ [Next]_vars => [\A e \in Entries : store'[e] < store[e] => overlapped]_vars
  <2> SUFFICES ASSUME SyncInv, Next, NEW e \in Entries, store'[e] < store[e] PROVE overlapped
    OBVIOUS
  <2>0. ~(store[e] < store[e])
    BY Numbers
  <2>1. PICK t \in Tasks : Save(t)
    BY <2>0, BeginSyncKeeps, FetchKeeps, BeginSavingKeeps, ReturnSyncKeeps, DropSyncKeeps,
       ChangeKeeps DEF Next, Storing
  <2>2. PICK f \in Entries : \E n \in oldest[f]..rev[f] :
          store' = [store EXCEPT ![f] = n] /\ (~overlapped => store[f] <= n)
    BY <2>1, SaveKeeps
  <2>3. PICK n \in oldest[f]..rev[f] :
          store' = [store EXCEPT ![f] = n] /\ (~overlapped => store[f] <= n)
    BY <2>2
  <2>4. store'[e] = IF e = f THEN n ELSE store[e]
    BY <2>3 DEF SyncInv, SyncTyped
  <2> QED
    BY <2>0, <2>3, <2>4, Numbers
<1> QED
  BY SyncInvariant, <1>1, PTL DEF Spec, StoreNeverGoesBack
=============================================================================
