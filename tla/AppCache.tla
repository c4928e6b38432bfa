------------------------------ MODULE AppCache ------------------------------
(***************************************************************************)
(* What the stored app blobs promise a host that reads them: every blob is *)
(* a revision the app has had at the service, and none is written with a   *)
(* revision older than the last moment at which nobody was synchronising.  *)
(***************************************************************************)
EXTENDS Naturals

CONSTANTS Apps

VARIABLES
  current,  \* current[a]: the revision of app a at the service
  cached,   \* cached[a]: the revision in its blob, 0: no blob
  oldest    \* oldest[a]: the oldest revision that may be written
cacheVars == <<current, cached, oldest>>

CacheInit ==
  /\ current = [a \in Apps |-> 1]
  /\ cached = [a \in Apps |-> 0]
  /\ oldest = current

\* app a changes at the service
Publish(a) ==
  /\ current' = [current EXCEPT ![a] = @ + 1]
  /\ oldest' = oldest \/ (oldest = current /\ oldest' = current')
  /\ cached' = cached

Write(a) ==
  /\ \E r \in oldest[a]..current[a] : cached' = [cached EXCEPT ![a] = r]
  /\ UNCHANGED <<current, oldest>>

\* nobody is synchronising any more
Settle ==
  /\ oldest' = current
  /\ UNCHANGED <<current, cached>>

CacheNext == Settle \/ \E a \in Apps : Publish(a) \/ Write(a)

CacheSpec == CacheInit /\ [][CacheNext]_cacheVars
=============================================================================
