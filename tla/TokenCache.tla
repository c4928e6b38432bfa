------------------------------ MODULE TokenCache ------------------------------
(***************************************************************************)
(* AppStoreAuthenticator (auth/es256.rs): the bearer token every request   *)
(* of the App Store provider obtains before it is sent.  Tasks share one   *)
(* cached token behind a tokio mutex.                                      *)
(*                                                                         *)
(* bearer_token reads the clock BEFORE it waits for the mutex, so a task   *)
(* decides with a reading that may be old.  Nothing is awaited while the   *)
(* mutex is held: the test, the signing and the store are one step.        *)
(*                                                                         *)
(* A token is known by its exp.  The device's clock may differ from        *)
(* Apple's, and may be set back while the program runs.                    *)
(*                                                                         *)
(* A definition named D_Mistake, before D, is D with a plausible mistake:  *)
(* the properties are shown to notice it.                                  *)
(***************************************************************************)
EXTENDS Integers

CONSTANTS
  Tasks,
  None,
  TTL,           \* TTL_SECS
  REFRESH_MARGIN,
  Cap,           \* Apple rejects tokens that expire further out than this
  Skews,         \* how far the device's clock may be ahead of Apple's (< 0: behind)
  MaxDelay,      \* longest time from bearer_token's reading of the clock to the request
  MaxStepBack,   \* how far the device's clock may be set back at once
  MaxBehind,     \* how far the device's clock is ever behind Apple's
  MaxTime        \* bound: the clock stops here

ASSUME TimeAssumption ==
  /\ TTL \in Nat /\ REFRESH_MARGIN \in Nat /\ REFRESH_MARGIN < TTL /\ Cap \in Nat
  /\ MaxDelay \in Nat /\ MaxStepBack \in Nat /\ MaxBehind \in Nat /\ MaxTime \in Nat
  /\ Skews \subseteq Int /\ \A k \in Skews : -MaxBehind <= k
ASSUME NoneAssumption == None \notin Int

VARIABLES
  clock,    \* unix_now()
  ahead,    \* clock minus Apple's clock
  validKey, \* whether the .p8 key can sign
  cache,    \* exp of the cached token, or None
  pc, seen, \* seen[t]: the reading t decides with
  held      \* held[t]: exp of the token t is about to send
vars == <<clock, ahead, validKey, cache, pc, seen, held>>
tasks == <<pc, seen, held>>

Exps == Nat \cup {None}

TypeOK ==
  /\ clock \in Nat /\ ahead \in Int /\ validKey \in BOOLEAN
  /\ cache \in Exps
  /\ pc \in [Tasks -> {"idle", "locking", "sending"}]
  /\ seen \in [Tasks -> Nat]
  /\ held \in [Tasks -> Exps]

Init ==
  /\ clock = 0 /\ ahead \in Skews /\ validKey \in BOOLEAN
  /\ cache = None
  /\ pc = [t \in Tasks |-> "idle"]
  /\ seen = [t \in Tasks |-> 0]
  /\ held = [t \in Tasks |-> None]

needs_refresh_NoMargin(expires_at, now) == now >= expires_at
needs_refresh(expires_at, now) == now + REFRESH_MARGIN >= expires_at

\* let now = unix_now()
ReadClock(t) ==
  /\ pc[t] = "idle"
  /\ pc' = [pc EXCEPT ![t] = "locking"]
  /\ seen' = [seen EXCEPT ![t] = clock]
  /\ UNCHANGED <<clock, ahead, validKey, cache, held>>

Hit_Reread(t) == cache # None /\ ~needs_refresh(cache, clock)
Hit(t) == cache # None /\ ~needs_refresh(cache, seen[t])

\* the mutex is free: the cached token is good enough
TakeCached(t) ==
  /\ pc[t] = "locking" /\ Hit(t)
  /\ pc' = [pc EXCEPT ![t] = "sending"]
  /\ held' = [held EXCEPT ![t] = cache]
  /\ UNCHANGED <<clock, ahead, validKey, cache, seen>>

Mint_WrongSign(t) ==
  /\ pc[t] = "locking" /\ ~Hit(t) /\ validKey
  /\ pc' = [pc EXCEPT ![t] = "sending"]
  /\ cache' = seen[t] - TTL
  /\ held' = [held EXCEPT ![t] = seen[t] - TTL]
  /\ UNCHANGED <<clock, ahead, validKey, seen>>

\* sign_team_token, then the store
Mint(t) ==
  /\ pc[t] = "locking" /\ ~Hit(t) /\ validKey
  /\ pc' = [pc EXCEPT ![t] = "sending"]
  /\ cache' = seen[t] + TTL
  /\ held' = [held EXCEPT ![t] = seen[t] + TTL]
  /\ UNCHANGED <<clock, ahead, validKey, seen>>

Finish(t) ==
  /\ pc' = [pc EXCEPT ![t] = "idle"]
  /\ seen' = [seen EXCEPT ![t] = 0]
  /\ held' = [held EXCEPT ![t] = None]
  /\ UNCHANGED <<clock, ahead, validKey, cache>>

\* StackError::Auth; the cache keeps what it had
FailToSign(t) == pc[t] = "locking" /\ ~Hit(t) /\ ~validKey /\ Finish(t)

\* the request leaves with the token
SendRequest(t) == pc[t] = "sending" /\ Finish(t)

\* the host drops the call while it waits
Drop(t) == pc[t] # "idle" /\ Finish(t)

Tick ==
  /\ clock < MaxTime
  /\ \A t \in Tasks : pc[t] # "idle" => clock < seen[t] + MaxDelay
  /\ clock' = clock + 1
  /\ UNCHANGED <<ahead, validKey, cache, tasks>>

SetBack ==
  /\ \E k \in 1..MaxStepBack :
       /\ k <= clock /\ ahead - k >= -MaxBehind
       /\ clock' = clock - k /\ ahead' = ahead - k
  /\ UNCHANGED <<validKey, cache, tasks>>

Next ==
  \/ \E t \in Tasks : ReadClock(t) \/ TakeCached(t) \/ Mint(t) \/ FailToSign(t)
                        \/ SendRequest(t) \/ Drop(t)
  \/ Tick \/ SetBack

Spec == Init /\ [][Next]_vars

-----------------------------------------------------------------------------
(* Properties.                                                             *)

AppleNow == clock - ahead

\* "Regenerate this long before exp to avoid handing out a token that expires
\* mid-flight": while a task may still send its token, Apple has not seen it
\* expire, although the decision was taken with an old reading of the clock.
HeldTokenIsLive ==
  \A t \in Tasks : pc[t] = "sending" => AppleNow < held[t]

\* "concurrent requests share one token": however the tasks' readings of the
\* clock interleave with their turns on the mutex, and even if the clock is set
\* back, a cached token is replaced only by one that expires at least
\* TTL - REFRESH_MARGIN later: no two tasks both refresh, and an old reading
\* never brings an earlier token back.
RefreshesAreSpaced ==
  [][cache # None /\ cache' # cache => cache' - cache >= TTL - REFRESH_MARGIN]_vars

\* "Apple rejects tokens expiring more than 20 minutes out, so we stay safely
\* under the cap" (es256.rs:11)
HeldTokenIsUnderTheCap ==
  \A t \in Tasks : pc[t] = "sending" => held[t] - AppleNow <= Cap
=============================================================================
