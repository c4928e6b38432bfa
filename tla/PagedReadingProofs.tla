------------------------- MODULE PagedReadingProofs -------------------------
(***************************************************************************)
(* Proofs about PagedReading, for every set of readers, every listing and  *)
(* every page size.                                                        *)
(***************************************************************************)
EXTENDS PagedReading, SequenceTheorems, TLAPS

\* x, an entry in a listing, is still to come for a read with the locals r.
Awaits(r, x) ==
  /\ \E i \in DOMAIN r.todo : r.todo[i] = x[1]
  /\ x[1] = Head(r.todo) => x[2] \notin r.seen

\* What stayed in the listings of a read that follows links.next was read or is
\* still to come.
NothingMissed(r) ==
  r.kind.follow # "none" =>
    \A x \in r.stayed : x[2] \in Kept(r.kind) => r.got[x[2]] # 0 \/ Awaits(r, x)

\* The locals r of a read are those of a call that is where r.pc says.
WellRead(r) ==
  /\ r \in Reads
  /\ \A i \in DOMAIN r.todo : r.todo[i] \in Listings
  /\ r.pc \in {"reading", "parked"} => r.todo # <<>>
  /\ r.pc # "done" => r.result = "none"
  /\ r.result = "Ok" => r.todo = <<>>
  /\ r.pc = "unborn" => r.stayed = {} /\ r.seen = {} /\ r.got = Nothing
  /\ r.result \in {"none", "Ok"} => NothingMissed(r)

\* A read under way is measured by entries its listings H still hold.
StayedIn(r, H) == r.pc # "done" => \A x \in r.stayed : x[2] \in H[x[1]]

ServiceTyped ==
  held \in [Listings -> SUBSET Entries] /\ rev \in [Entries -> 1..MaxRev] /\ changes \in 0..MaxChanges

ReadsWell ==
  /\ DOMAIN read = Tasks /\ read = [t \in Tasks |-> read[t]]
  /\ \A t \in Tasks : WellRead(read[t]) /\ StayedIn(read[t], held)

PagedInv == ServiceTyped /\ ReadsWell

-----------------------------------------------------------------------------
(* Lists that are read one after the other.                                *)

\* What a list holds is its head or in its tail.
LEMMA HeadOrTail ==
  ASSUME NEW s \in Seq(STRING), s # <<>>, NEW i \in DOMAIN s, s[i] # Head(s)
  PROVE  /\ Tail(s) \in Seq(STRING) /\ Tail(s) # <<>>
         /\ \E j \in DOMAIN Tail(s) : Tail(s)[j] = s[i]
<1>1. /\ Tail(s) \in Seq(STRING) /\ Len(Tail(s)) = Len(s) - 1
      /\ \A j \in 1..Len(Tail(s)) : Tail(s)[j] = s[j + 1]
  BY HeadTailProperties
<1>2. DOMAIN s = 1..Len(s) /\ Len(s) \in Nat /\ Head(s) = s[1]
  BY LenProperties
<1>3. i \in 2..Len(s)
  BY <1>2
<1>4. i - 1 \in 1..Len(Tail(s)) /\ DOMAIN Tail(s) = 1..Len(Tail(s))
  BY <1>1, <1>2, <1>3, LenProperties
<1>5. Tail(s)[i - 1] = s[i]
  BY <1>1, <1>3, <1>4
<1>6. Tail(s) # <<>>
  BY <1>4
<1> QED
  BY <1>1, <1>4, <1>5, <1>6

LEMMA NothingToDo == <<>> \in Seq(STRING) /\ DOMAIN <<>> = {}
BY EmptySeq, LenProperties

LEMMA HeadAndTail ==
  ASSUME NEW s \in Seq(STRING), s # <<>>, NEW L, \A i \in DOMAIN s : s[i] \in L
  PROVE  /\ Head(s) \in L
         /\ Tail(s) \in Seq(STRING)
         /\ \A i \in DOMAIN Tail(s) : Tail(s)[i] \in L
<1>1. /\ Tail(s) \in Seq(STRING) /\ Len(Tail(s)) = Len(s) - 1
      /\ \A j \in 1..Len(Tail(s)) : Tail(s)[j] = s[j + 1]
  BY HeadTailProperties
<1>2. DOMAIN s = 1..Len(s) /\ Len(s) \in Nat /\ Len(s) # 0 /\ Head(s) = s[1]
  BY LenProperties, EmptySeq
<1>3. DOMAIN Tail(s) = 1..Len(Tail(s))
  BY <1>1, LenProperties
<1> QED
  BY <1>1, <1>2, <1>3

\* Every page is part of what is listed.
LEMMA PagePart == ASSUME NEW S, NEW page \in Pages(S) PROVE page \subseteq S
BY DEF Pages, kSubset

\* A page adds the current revisions of the entries it keeps.
LEMMA ExtendedBy ==
  ASSUME ServiceTyped, NEW r \in Reads, NEW page
  PROVE  /\ Extended(r, page) \in [Entries -> 0..MaxRev]
         /\ \A e \in Entries :
              /\ Extended(r, page)[e] \in {r.got[e], rev[e]}
              /\ r.got[e] # 0 => Extended(r, page)[e] # 0
              /\ e \in page /\ e \in Kept(r.kind) => Extended(r, page)[e] # 0
<1>1. r.got \in [Entries -> 0..MaxRev]
  BY DEF Reads
<1>2. \A f \in Entries : rev[f] \in 1..MaxRev /\ rev[f] # 0 /\ r.got[f] \in 0..MaxRev
  BY <1>1, PagedAssumption DEF ServiceTyped
<1>3. \A e \in Entries :
        Extended(r, page)[e] = IF e \in page \cap Kept(r.kind) THEN rev[e] ELSE r.got[e]
  BY DEF Extended
<1>4. Extended(r, page) \in [Entries -> 0..MaxRev]
  BY <1>2, PagedAssumption DEF Extended
<1> QED
  BY <1>2, <1>3, <1>4

-----------------------------------------------------------------------------
(* One page.                                                               *)

LEMMA AfterWell ==
  ASSUME ServiceTyped, NEW r, WellRead(r), r.pc = "reading",
         StayedIn(r, held),
         NEW page \in Pages(held[Head(r.todo)] \ r.seen)
  PROVE  LET a == After(r, page, page # held[Head(r.todo)] \ r.seen) IN
         /\ WellRead(a) /\ StayedIn(a, held)
         /\ a.got = Extended(r, page)
         /\ a.pc # "unborn" /\ a.kind = r.kind /\ a.stayed = r.stayed
<1> DEFINE rest == held[Head(r.todo)] \ r.seen
           a == After(r, page, page # rest)
           next == [r EXCEPT !.seen = @ \cup page, !.got = Extended(r, page)]
<1>1. /\ r \in Reads /\ r.todo \in Seq(STRING) /\ r.todo # <<>> /\ r.kind \in Kinds
      /\ r.seen \subseteq Entries /\ r.result = "none" /\ NothingMissed(r)
      /\ \A i \in DOMAIN r.todo : r.todo[i] \in Listings
      /\ r.stayed \subseteq Listings \X Entries
  BY DEF WellRead, Reads
<1>2. /\ Head(r.todo) \in Listings /\ Tail(r.todo) \in Seq(STRING)
      /\ \A i \in DOMAIN Tail(r.todo) : Tail(r.todo)[i] \in Listings
  BY <1>1, HeadAndTail
<1>3. page \subseteq rest /\ rest \subseteq Entries
  BY <1>2, PagePart DEF ServiceTyped
<1>4. /\ Extended(r, page) \in [Entries -> 0..MaxRev]
      /\ \A e \in Entries : r.got[e] # 0 \/ (e \in page /\ e \in Kept(r.kind))
                             => Extended(r, page)[e] # 0
  BY <1>1, ExtendedBy
<1>5. next \in Reads
  BY <1>1, <1>3, <1>4 DEF Reads
<1>6. /\ next.pc = "reading" /\ next.todo = r.todo /\ next.result = "none"
      /\ next.seen = r.seen \cup page /\ next.got = Extended(r, page)
      /\ next.kind = r.kind /\ next.stayed = r.stayed
  BY <1>1 DEF Reads
<1> HIDE DEF next
\* what stayed and is not read is behind this page, or in another listing
<1>7. ASSUME r.kind.follow # "none", NEW x \in r.stayed, x[2] \in Kept(r.kind),
             Extended(r, page)[x[2]] = 0
      PROVE  /\ x[2] \notin page /\ Awaits(r, x)
             /\ x[1] = Head(r.todo) => x[2] \in rest /\ page # rest
  <2>1. x[1] \in Listings /\ x[2] \in Entries
    BY <1>1, <1>7
  <2>2. r.got[x[2]] = 0 /\ x[2] \notin page
    BY <1>4, <1>7, <2>1
  <2>3. Awaits(r, x)
    BY <1>1, <1>7, <2>2 DEF NothingMissed
  <2>4. x[2] \in held[x[1]]
    BY <1>7 DEF StayedIn
  <2> QED
    BY <2>2, <2>3, <2>4 DEF Awaits
<1>8. CASE page # rest /\ r.kind.follow = "all"
  <2>1. a = next
    BY <1>8 DEF After, next
  <2>2. NothingMissed(next)
    BY <1>6, <1>7 DEF NothingMissed, Awaits
  <2> QED
    BY <1>1, <1>5, <1>6, <2>1, <2>2 DEF WellRead, StayedIn
<1>9. CASE page # rest /\ r.kind.follow = "token"
  <2>1. a = [next EXCEPT !.pc = "parked"]
    BY <1>9 DEF After, next
  <2>2. /\ a \in Reads /\ a.pc = "parked" /\ a.todo = r.todo /\ a.seen = r.seen \cup page
        /\ a.got = Extended(r, page) /\ a.kind = r.kind /\ a.stayed = r.stayed
        /\ a.result = "none"
    BY <1>5, <1>6, <2>1 DEF Reads, PCs
  <2> HIDE DEF a
  <2>3. NothingMissed(a)
    BY <1>7, <2>2 DEF NothingMissed, Awaits
  <2>4. WellRead(a) /\ StayedIn(a, held)
    BY <1>1, <2>2, <2>3 DEF WellRead, StayedIn
  <2> QED
    BY <2>2, <2>4 DEF a
\* the end of a listing
<1>10. ASSUME ~(page # rest /\ r.kind.follow \in {"all", "token"}),
              r.kind.follow # "none", NEW x \in r.stayed, x[2] \in Kept(r.kind),
              Extended(r, page)[x[2]] = 0
       PROVE  Tail(r.todo) # <<>> /\ \E j \in DOMAIN Tail(r.todo) : Tail(r.todo)[j] = x[1]
  <2>1. page = rest
    BY <1>1, <1>10, PagedAssumption
  <2>2. PICK i \in DOMAIN r.todo : r.todo[i] = x[1]
    BY <1>7, <1>10 DEF Awaits
  <2>3. x[1] # Head(r.todo)
    BY <1>7, <1>10, <2>1
  <2> QED
    BY <1>1, <2>2, <2>3, HeadOrTail
<1>11. CASE /\ ~(page # rest /\ r.kind.follow \in {"all", "token"})
            /\ Tail(r.todo) # <<>>
  <2>1. a = [next EXCEPT !.todo = Tail(r.todo), !.seen = {}]
    BY <1>6, <1>11 DEF After, next
  <2>2. /\ a \in Reads /\ a.pc = "reading" /\ a.todo = Tail(r.todo) /\ a.seen = {}
        /\ a.got = Extended(r, page) /\ a.kind = r.kind /\ a.stayed = r.stayed
        /\ a.result = "none"
    BY <1>2, <1>5, <1>6, <2>1 DEF Reads
  <2> HIDE DEF a
  <2>3. NothingMissed(a)
    BY <1>10, <1>11, <2>2 DEF NothingMissed, Awaits
  <2>4. WellRead(a) /\ StayedIn(a, held)
    BY <1>1, <1>2, <1>11, <2>2, <2>3 DEF WellRead, StayedIn
  <2> QED
    BY <2>2, <2>4 DEF a
<1>12. CASE /\ ~(page # rest /\ r.kind.follow \in {"all", "token"})
            /\ Tail(r.todo) = <<>>
  <2>1. a = [next EXCEPT !.pc = "done", !.todo = <<>>, !.seen = {}, !.result = "Ok"]
    BY <1>12 DEF After, next
  <2>2. /\ a \in Reads /\ a.pc = "done" /\ a.todo = <<>> /\ a.seen = {}
        /\ a.got = Extended(r, page) /\ a.kind = r.kind /\ a.stayed = r.stayed
        /\ a.result = "Ok"
    BY <1>5, <1>6, <2>1, NothingToDo DEF Reads, PCs, Results
  <2> HIDE DEF a
  <2>3. NothingMissed(a)
    BY <1>10, <1>12, <2>2 DEF NothingMissed
  <2>4. WellRead(a) /\ StayedIn(a, held)
    BY <2>2, <2>3, NothingToDo DEF WellRead, StayedIn
  <2> QED
    BY <2>2, <2>4 DEF a
<1> QED
  BY <1>8, <1>9, <1>11, <1>12

-----------------------------------------------------------------------------
(* Every step keeps the invariant.                                         *)

LEMMA ReadMoves ==
  ASSUME ReadsWell, NEW t \in Tasks, NEW d, read' = [read EXCEPT ![t] = d],
         WellRead(d), StayedIn(d, held), held' = held
  PROVE  ReadsWell'
<1>1. /\ DOMAIN read' = Tasks /\ read' = [u \in Tasks |-> read'[u]]
      /\ \A u \in Tasks : read'[u] = IF u = t THEN d ELSE read[u]
  BY DEF ReadsWell
<1> QED
  BY <1>1 DEF ReadsWell

LEMMA InitHolds == PagedInit => PagedInv
<1> SUFFICES ASSUME PagedInit PROVE PagedInv
  OBVIOUS
<1>1. ServiceTyped
  BY PagedAssumption DEF PagedInit, ServiceTyped
<1>2. PICK kinds \in [Tasks -> Kinds] : read = [t \in Tasks |-> Unborn(kinds[t])]
  BY DEF PagedInit
<1>3. Nothing \in [Entries -> 0..MaxRev]
  BY PagedAssumption DEF Nothing
<1>4. ASSUME NEW k \in Kinds PROVE WellRead(Unborn(k)) /\ Unborn(k).stayed = {}
  BY <1>3, NothingToDo DEF WellRead, Unborn, NothingMissed, Reads, PCs, Results
<1>5. ReadsWell
  BY <1>2, <1>4 DEF ReadsWell, StayedIn
<1> QED
  BY <1>1, <1>5 DEF PagedInv

LEMMA BeginKeeps ==
  ASSUME PagedInv, NEW t \in Tasks, Begin(t)
  PROVE  PagedInv' /\ read'[t].pc = "reading" /\ read'[t].got = Nothing
<1> DEFINE r == read[t]
           k == r.kind
           S == {x \in Listings \X Entries : x[1] \in ToSet(k.from) /\ x[2] \in held[x[1]]}
           d == [r EXCEPT !.pc = "reading", !.todo = k.from, !.stayed = S,
                          !.around = Behind(k, held)]
<1>1. /\ WellRead(r) /\ r \in Reads /\ r.pc = "unborn" /\ k \in Kinds
      /\ r.seen = {} /\ r.got = Nothing /\ r.result = "none"
  BY DEF PagedInv, ReadsWell, Begin, WellRead, Reads
<1>2. /\ k.from \in Seq(STRING) /\ k.from # <<>>
      /\ \A i \in DOMAIN k.from : k.from[i] \in Listings
  BY <1>1, PagedAssumption DEF Listings, ToSet
<1>3. Behind(k, held) \subseteq Entries
  BY <1>1 DEF Behind, PagedInv, ServiceTyped, Listings
<1>4. read' = [read EXCEPT ![t] = d]
  BY DEF Begin, ReadsWell, PagedInv
<1>5. /\ d \in Reads /\ d.pc = "reading" /\ d.todo = k.from /\ d.stayed = S
      /\ d.seen = {} /\ d.got = Nothing /\ d.result = "none" /\ d.kind = k
  BY <1>1, <1>2, <1>3 DEF Reads, PCs
<1>6. \A x \in S : (\E i \in DOMAIN k.from : k.from[i] = x[1]) /\ x[2] \in held[x[1]]
  BY DEF ToSet
<1> HIDE DEF d, S
<1>7. NothingMissed(d)
  BY <1>5, <1>6 DEF NothingMissed, Awaits
<1>8. WellRead(d) /\ StayedIn(d, held)
  BY <1>2, <1>5, <1>6, <1>7 DEF WellRead, StayedIn
<1>9. ServiceTyped' /\ held' = held
  BY DEF Begin, PagedInv, ServiceTyped
<1>10. ReadsWell'
  BY <1>4, <1>8, <1>9, ReadMoves DEF PagedInv
<1>11. read'[t] = d
  BY <1>4 DEF PagedInv, ReadsWell
<1> QED
  BY <1>5, <1>9, <1>10, <1>11 DEF PagedInv

\* A page that comes adds current revisions to what was read.
LEMMA NextPageKeeps ==
  ASSUME PagedInv, NEW t \in Tasks, NextPage(t)
  PROVE  /\ PagedInv' /\ UNCHANGED <<held, rev, changes>> /\ read'[t].pc # "unborn"
         /\ \A e \in Entries : read'[t].got[e] \in {read[t].got[e], rev[e]}
<1> DEFINE r == read[t]
           rest == held[Head(r.todo)] \ r.seen
<1>1. PICK page \in Pages(rest) : read' = [read EXCEPT ![t] = After(r, page, page # rest)]
  BY DEF NextPage
<1>2. /\ WellRead(r) /\ StayedIn(r, held) /\ r.pc = "reading" /\ ServiceTyped
      /\ UNCHANGED <<held, rev, changes>>
  BY DEF NextPage, PagedInv, ReadsWell
<1> DEFINE a == After(r, page, page # rest)
<1>3. WellRead(a) /\ StayedIn(a, held) /\ a.got = Extended(r, page) /\ a.pc # "unborn"
  BY <1>1, <1>2, AfterWell
<1>4. \A e \in Entries : a.got[e] \in {r.got[e], rev[e]}
  BY <1>2, <1>3, ExtendedBy DEF WellRead
<1> HIDE DEF a
<1>5. read' = [read EXCEPT ![t] = a]
  BY <1>1 DEF a
<1>6. ReadsWell' /\ read'[t] = a
  BY <1>2, <1>3, <1>5, ReadMoves DEF PagedInv, ReadsWell
<1>7. ServiceTyped'
  BY <1>2 DEF ServiceTyped
<1> QED
  BY <1>2, <1>3, <1>4, <1>6, <1>7 DEF PagedInv

\* A page that does not come, a resumed read and a dropped one.
LEMMA OthersKeep ==
  ASSUME PagedInv, NEW t \in Tasks, FailPage(t) \/ LoadMore(t) \/ DropRead(t)
  PROVE  /\ PagedInv' /\ UNCHANGED <<held, rev, changes>> /\ read'[t].pc # "unborn"
         /\ read'[t].got \in {read[t].got, Nothing}
<1> DEFINE r == read[t]
<1>1. /\ WellRead(r) /\ r \in Reads /\ StayedIn(r, held) /\ ServiceTyped
      /\ UNCHANGED <<held, rev, changes>>
  BY DEF FailPage, LoadMore, DropRead, PagedInv, ReadsWell, WellRead
<1>2. Nothing \in [Entries -> 0..MaxRev]
  BY PagedAssumption DEF Nothing
<1>3. ASSUME NEW d, read' = [read EXCEPT ![t] = d], WellRead(d), StayedIn(d, held),
             d.got \in {r.got, Nothing}, d.pc # "unborn"
      PROVE  PagedInv' /\ read'[t].got \in {r.got, Nothing} /\ read'[t].pc # "unborn"
  BY <1>1, <1>3, ReadMoves DEF PagedInv, ReadsWell, ServiceTyped
<1>4. CASE FailPage(t)
  <2>1. r.pc = "reading"
    BY <1>4 DEF FailPage
  <2>2. CASE r.kind.follow = "token" /\ r.seen # {}
    <3> DEFINE d == [r EXCEPT !.pc = "parked"]
    <3>1. read' = [read EXCEPT ![t] = d]
      BY <1>4, <2>2 DEF FailPage
    <3>2. /\ d \in Reads /\ d.pc = "parked" /\ d.todo = r.todo /\ d.seen = r.seen
          /\ d.got = r.got /\ d.kind = r.kind /\ d.stayed = r.stayed
          /\ d.result = r.result
      BY <1>1 DEF Reads, PCs
    <3> HIDE DEF d
    <3>3. WellRead(d) /\ StayedIn(d, held)
      BY <1>1, <2>1, <3>2 DEF WellRead, StayedIn, NothingMissed, Awaits
    <3> QED
      BY <1>1, <1>3, <3>1, <3>2, <3>3
  <2>3. CASE ~(r.kind.follow = "token" /\ r.seen # {})
    <3> DEFINE d == [r EXCEPT !.pc = "done", !.todo = <<>>, !.seen = {}, !.got = Nothing,
                              !.result = "Err"]
    <3>1. read' = [read EXCEPT ![t] = d]
      BY <1>4, <2>3 DEF FailPage
    <3>2. /\ d \in Reads /\ d.pc = "done" /\ d.todo = <<>> /\ d.got = Nothing
          /\ d.result = "Err"
      BY <1>1, <1>2, NothingToDo DEF Reads, PCs, Results
    <3> HIDE DEF d
    <3>3. WellRead(d) /\ StayedIn(d, held)
      BY <3>2, NothingToDo DEF WellRead, StayedIn
    <3> QED
      BY <1>1, <1>3, <3>1, <3>2, <3>3
  <2> QED
    BY <2>2, <2>3
<1>5. CASE LoadMore(t)
  <2> DEFINE d == [r EXCEPT !.pc = "reading"]
  <2>1. read' = [read EXCEPT ![t] = d] /\ r.pc = "parked"
    BY <1>5 DEF LoadMore
  <2>2. /\ d \in Reads /\ d.pc = "reading" /\ d.todo = r.todo /\ d.seen = r.seen
        /\ d.got = r.got /\ d.kind = r.kind /\ d.stayed = r.stayed
        /\ d.result = r.result
    BY <1>1 DEF Reads, PCs
  <2> HIDE DEF d
  <2>3. WellRead(d) /\ StayedIn(d, held)
    BY <1>1, <2>1, <2>2 DEF WellRead, StayedIn, NothingMissed, Awaits
  <2> QED
    BY <1>1, <1>3, <2>1, <2>2, <2>3
<1>6. CASE DropRead(t)
  <2> DEFINE d == [r EXCEPT !.pc = "done", !.todo = <<>>, !.seen = {}, !.result = "Dropped"]
  <2>1. read' = [read EXCEPT ![t] = d]
    BY <1>6 DEF DropRead, PagedInv, ReadsWell
  <2>2. /\ d \in Reads /\ d.pc = "done" /\ d.todo = <<>> /\ d.got = r.got
        /\ d.result = "Dropped"
    BY <1>1, NothingToDo DEF Reads, PCs, Results
  <2> HIDE DEF d
  <2>3. WellRead(d) /\ StayedIn(d, held)
    BY <2>2, NothingToDo DEF WellRead, StayedIn
  <2> QED
    BY <1>1, <1>3, <2>1, <2>2, <2>3
<1> QED
  BY <1>4, <1>5, <1>6

\* The listings become H: the entries that left are no longer owed to anybody.
LEMMA HeldBecomesKeeps ==
  ASSUME PagedInv, NEW H \in [Listings -> SUBSET Entries], HeldBecomes(H)
  PROVE  PagedInv' /\ rev' = rev /\ (\A t \in Tasks : /\ read'[t].got = read[t].got
                                                     /\ read'[t].pc = read[t].pc
                                                     /\ read'[t].result = read[t].result
                                                     /\ read'[t].kind = read[t].kind
                                                     /\ read'[t].stayed \subseteq read[t].stayed)
<1> DEFINE d(t) == [read[t] EXCEPT !.stayed = {x \in @ : x[2] \in H[x[1]]},
                                   !.around = @ \cap Behind(read[t].kind, H)]
<1>0. read' = [t \in Tasks |-> IF read[t].pc = "done" THEN read[t] ELSE d(t)]
  BY DEF HeldBecomes
<1>1. /\ held' = H /\ rev' = rev /\ changes' \in 0..MaxChanges
      /\ \A t \in Tasks : read'[t] = IF read[t].pc = "done" THEN read[t] ELSE d(t)
      /\ DOMAIN read' = Tasks /\ read' = [t \in Tasks |-> read'[t]]
  <2> HIDE DEF d
  <2>1. held' = H /\ rev' = rev /\ changes < MaxChanges /\ changes' = changes + 1
    BY DEF HeldBecomes
  <2>2. changes \in 0..MaxChanges
    BY DEF PagedInv, ServiceTyped
  <2>3. changes' \in 0..MaxChanges
    BY <2>1, <2>2, PagedAssumption
  <2> QED
    BY <1>0, <2>1, <2>3
<1>2. ASSUME NEW t \in Tasks, read[t].pc # "done"
      PROVE  /\ WellRead(d(t)) /\ StayedIn(d(t), H) /\ d(t).got = read[t].got
             /\ d(t).pc = read[t].pc /\ d(t).result = read[t].result
             /\ d(t).kind = read[t].kind /\ d(t).stayed \subseteq read[t].stayed
  <2> DEFINE r == read[t]
             e == d(t)
  <2>1. WellRead(r) /\ r \in Reads
    BY DEF PagedInv, ReadsWell, WellRead
  <2>2. /\ e \in Reads /\ e.pc = r.pc /\ e.todo = r.todo /\ e.seen = r.seen
        /\ e.got = r.got /\ e.kind = r.kind /\ e.result = r.result
        /\ e.stayed = {x \in r.stayed : x[2] \in H[x[1]]}
    BY <2>1 DEF Reads
  <2> HIDE DEF e
  <2>3. WellRead(e) /\ StayedIn(e, H)
    BY <2>1, <2>2 DEF WellRead, StayedIn, NothingMissed, Awaits
  <2> QED
    BY <2>2, <2>3 DEF e
<1> HIDE DEF d
<1>3. ServiceTyped'
  BY <1>1 DEF PagedInv, ServiceTyped
<1>4. ReadsWell'
  BY <1>1, <1>2 DEF PagedInv, ReadsWell, StayedIn
<1> QED
  BY <1>1, <1>2, <1>3, <1>4 DEF PagedInv

LEMMA ServiceKeeps ==
  ASSUME PagedInv, ServiceNext
  PROVE  /\ PagedInv'
         /\ \A t \in Tasks : /\ read'[t].got = read[t].got /\ read'[t].pc = read[t].pc
                             /\ read'[t].result = read[t].result
                             /\ read'[t].kind = read[t].kind
                             /\ read'[t].stayed \subseteq read[t].stayed
         /\ rev' = rev \/ \E e \in Entries : rev' = [rev EXCEPT ![e] = @ + 1]
<1>1. ASSUME NEW l, NEW e \in Entries, Enter(l, e) \/ Leave(l, e)
      PROVE  \E H \in [Listings -> SUBSET Entries] : HeldBecomes(H)
  BY <1>1 DEF Enter, Leave, PagedInv, ServiceTyped
<1>2. ASSUME NEW e \in Entries, Accept(e)
      PROVE  \E H \in [Listings -> SUBSET Entries] : HeldBecomes(H)
  BY <1>2 DEF Accept, PagedInv, ServiceTyped
<1>3. ASSUME NEW e \in Entries, Edit(e)
      PROVE  PagedInv' /\ read' = read /\ rev' = [rev EXCEPT ![e] = @ + 1]
  BY <1>3, PagedAssumption DEF Edit, PagedInv, ServiceTyped, ReadsWell
<1> QED
  BY <1>1, <1>2, <1>3, HeldBecomesKeeps DEF ServiceNext

LEMMA PagedInvariant == PagedSpec => []PagedInv
<1>1. PagedInv /\ [PagedNext]_pagedVars => PagedInv'
  <2> SUFFICES ASSUME PagedInv, [PagedNext]_pagedVars PROVE PagedInv'
    OBVIOUS
  <2>1. CASE ServiceNext
    BY <2>1, ServiceKeeps
  <2>2. ASSUME NEW t \in Tasks, ReadNext(t) PROVE PagedInv'
    BY <2>2, BeginKeeps, NextPageKeeps, OthersKeep DEF ReadNext, Answered
  <2>3. CASE UNCHANGED pagedVars
    BY <2>3 DEF pagedVars, PagedInv, ServiceTyped, ReadsWell
  <2> QED
    BY <2>1, <2>2, <2>3 DEF PagedNext
<1> QED
  BY InitHolds, <1>1, PTL DEF PagedSpec

-----------------------------------------------------------------------------
(* The theorems.                                                           *)

\* Every variable keeps its type.
THEOREM TypeCorrect == PagedSpec => []PagedTypeOK
<1>1. PagedInv => PagedTypeOK
  BY DEF PagedInv, ServiceTyped, ReadsWell, WellRead, PagedTypeOK
<1> QED
  BY PagedInvariant, <1>1, PTL

\* What is owed at the end is nothing, so everything that stayed was read.
LEMMA NothingOwed == PagedInv => CompleteListing
<1> SUFFICES ASSUME PagedInv, NEW t \in Tasks, read[t].result = "Ok",
                    read[t].kind.follow # "none",
                    NEW x \in read[t].stayed, x[2] \in Kept(read[t].kind)
             PROVE  x[2] \in Lists(read[t])
  BY DEF CompleteListing
<1>1. WellRead(read[t]) /\ read[t].todo = <<>> /\ NothingMissed(read[t])
  BY DEF PagedInv, ReadsWell, WellRead
<1>2. read[t].got[x[2]] # 0
  BY <1>1, NothingToDo DEF NothingMissed, Awaits
<1>3. x[2] \in Entries
  BY <1>1 DEF WellRead, Reads
<1> QED
  BY <1>2, <1>3 DEF Lists

\* A read that ends well lists every entry that was there all along.
THEOREM ListingsAreComplete == PagedSpec => []CompleteListing
BY PagedInvariant, NothingOwed, PTL
=============================================================================
