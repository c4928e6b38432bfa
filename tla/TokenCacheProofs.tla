-------------------------- MODULE TokenCacheProofs --------------------------
(***************************************************************************)
(* Proofs about TokenCache, for every number of tasks and every choice of  *)
(* the time constants.                                                     *)
(***************************************************************************)
EXTENDS TokenCache, TLAPS

\* Every variable keeps its type.
THEOREM TypeCorrect == Spec => []TypeOK
<1>1. Init => TypeOK
  BY TimeAssumption DEF Init, TypeOK, Exps
<1>2. TypeOK /\ [Next]_vars => TypeOK'
  <2> SUFFICES ASSUME TypeOK, [Next]_vars PROVE TypeOK'
    OBVIOUS
  <2> USE TimeAssumption DEF TypeOK, Exps
  <2>1. ASSUME NEW t \in Tasks, ReadClock(t) PROVE TypeOK'
    BY <2>1 DEF ReadClock
  <2>2. ASSUME NEW t \in Tasks, TakeCached(t) PROVE TypeOK'
    BY <2>2 DEF TakeCached
  <2>3. ASSUME NEW t \in Tasks, Mint(t) PROVE TypeOK'
    BY <2>3 DEF Mint
  <2>4. ASSUME NEW t \in Tasks, Finish(t) PROVE TypeOK'
    BY <2>4 DEF Finish
  <2>5. CASE Tick
    BY <2>5 DEF Tick, tasks
  <2>6. CASE SetBack
    BY <2>6 DEF SetBack, tasks
  <2>7. CASE UNCHANGED vars
    BY <2>7 DEF vars
  <2> QED
    BY <2>1, <2>2, <2>3, <2>4, <2>5, <2>6, <2>7 DEF Next, FailToSign, SendRequest, Drop
<1> QED
  BY <1>1, <1>2, PTL DEF Spec

\* A refresh stores a token that expires at least TTL - REFRESH_MARGIN later
\* than the one it replaces.  Only Mint writes the cache, and it does so when
\* seen[t] + REFRESH_MARGIN >= cache, whatever the clock reads by then.
THEOREM Spaced == Spec => RefreshesAreSpaced
<1>1. TypeOK /\ [Next]_vars =>
        [cache # None /\ cache' # cache => cache' - cache >= TTL - REFRESH_MARGIN]_vars
  <2> SUFFICES ASSUME TypeOK, Next, cache # None, cache' # cache
               PROVE  cache' - cache >= TTL - REFRESH_MARGIN
    OBVIOUS
  <2>1. PICK t \in Tasks : Mint(t)
    BY DEF Next, ReadClock, TakeCached, FailToSign, SendRequest, Drop, Finish, Tick, SetBack
  <2>2. cache \in Int /\ seen[t] \in Int
    BY DEF TypeOK, Exps
  <2>3. seen[t] + REFRESH_MARGIN >= cache
    BY <2>1 DEF Mint, Hit, needs_refresh
  <2>4. cache' = seen[t] + TTL
    BY <2>1 DEF Mint
  <2> QED
    BY <2>2, <2>3, <2>4, TimeAssumption
<1> QED
  BY TypeCorrect, <1>1, PTL DEF Spec, RefreshesAreSpaced

-----------------------------------------------------------------------------
(* The life of a held token, when the delay from the reading to the        *)
(* request, together with how far the device is ever behind Apple, fits in *)
(* the margin.  The clock may be set back at any moment, also after the    *)
(* reading and after the token was handed out.                             *)

\* the readings are not older than the delay, and a held token outlives the
\* reading it was chosen with by more than the margin
ReadingsAreRecent ==
  \A t \in Tasks :
    /\ pc[t] # "idle" => clock <= seen[t] + MaxDelay
    /\ pc[t] = "sending" => held[t] \in Int /\ held[t] > seen[t] + REFRESH_MARGIN

IInv == TypeOK /\ ahead >= -MaxBehind /\ ReadingsAreRecent

LEMMA IInvInvariant == Spec => []IInv
<1>1. Init => IInv
  BY TimeAssumption DEF Init, IInv, TypeOK, Exps, ReadingsAreRecent
<1>2. TypeOK' /\ IInv /\ [Next]_vars => IInv'
  <2> SUFFICES ASSUME TypeOK', IInv, [Next]_vars
               PROVE  ahead' >= -MaxBehind /\ ReadingsAreRecent'
    BY DEF IInv
  <2> USE TimeAssumption DEF IInv, TypeOK, Exps, ReadingsAreRecent
  <2>1. ASSUME NEW t \in Tasks, ReadClock(t) PROVE ahead' >= -MaxBehind /\ ReadingsAreRecent'
    BY <2>1 DEF ReadClock
  <2>2. ASSUME NEW t \in Tasks, TakeCached(t) PROVE ahead' >= -MaxBehind /\ ReadingsAreRecent'
    <3>1. cache \in Int /\ cache > seen[t] + REFRESH_MARGIN
      BY <2>2 DEF TakeCached, Hit, needs_refresh
    <3> QED
      BY <2>2, <3>1 DEF TakeCached
  <2>3. ASSUME NEW t \in Tasks, Mint(t) PROVE ahead' >= -MaxBehind /\ ReadingsAreRecent'
    BY <2>3 DEF Mint
  <2>4. ASSUME NEW t \in Tasks, Finish(t) PROVE ahead' >= -MaxBehind /\ ReadingsAreRecent'
    BY <2>4 DEF Finish
  <2>5. CASE Tick
    BY <2>5 DEF Tick, tasks
  <2>6. CASE SetBack
    <3>1. PICK k \in 1..MaxStepBack :
            clock' = clock - k /\ ahead' = ahead - k /\ ahead - k >= -MaxBehind
      BY <2>6 DEF SetBack
    <3>2. clock' <= clock /\ UNCHANGED tasks
      BY <2>6, <3>1 DEF SetBack
    <3> QED
      BY <3>1, <3>2 DEF tasks
  <2>7. CASE UNCHANGED vars
    BY <2>7 DEF vars
  <2> QED
    BY <2>1, <2>2, <2>3, <2>4, <2>5, <2>6, <2>7 DEF Next, FailToSign, SendRequest, Drop
<1> QED
  BY <1>1, <1>2, TypeCorrect, PTL DEF Spec

\* A token a task is about to send has not expired at Apple, although the
\* decision to hand it out was taken with an old reading of the clock.
THEOREM TokenIsLive ==
  ASSUME MaxDelay + MaxBehind <= REFRESH_MARGIN
  PROVE  Spec => []HeldTokenIsLive
<1>1. IInv => HeldTokenIsLive
  <2> SUFFICES ASSUME IInv, NEW t \in Tasks, pc[t] = "sending" PROVE clock - ahead < held[t]
    BY DEF HeldTokenIsLive, AppleNow
  <2>1. clock \in Int /\ ahead \in Int /\ seen[t] \in Int /\ held[t] \in Int
    BY DEF IInv, TypeOK, ReadingsAreRecent
  <2>2. clock <= seen[t] + MaxDelay /\ held[t] > seen[t] + REFRESH_MARGIN
    BY DEF IInv, ReadingsAreRecent
  <2>3. ahead >= -MaxBehind
    BY DEF IInv
  <2> QED
    BY <2>1, <2>2, <2>3, TimeAssumption
<1> QED
  BY <1>1, IInvInvariant, PTL
=============================================================================
