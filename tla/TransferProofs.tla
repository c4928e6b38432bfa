---------------------------- MODULE TransferProofs ----------------------------
(***************************************************************************)
(* Proofs about the transfers of files: SegmentDownload, for every limit   *)
(* and every size of body, and ScreenshotUpload, for every size of file.   *)
(***************************************************************************)
EXTENDS SegmentDownload, ScreenshotUpload, SequenceTheorems, WellFoundedInduction, TLAPS

LEMMA ResponseType ==
  ASSUME NEW r \in Responses
  PROVE  /\ r.announced \in Int /\ r.size \in 0..MaxBody /\ r.gzip \in BOOLEAN
         /\ r.announced \in {-1, r.size}
BY DEF Responses

LEMMA ChunkFits ==
  ASSUME NEW size \in 0..MaxBody, NEW a \in 0..MaxBody, NEW c \in 0..a,
         NEW n \in 1..(size - a)
  PROVE  a + n \in 0..MaxBody /\ c + n \in 0..(a + n) /\ 0..a \subseteq 0..(a + n)
BY SegmentAssumption

LEMMA SizesTyped ==
  ASSUME SegmentTypeOK
  PROVE  /\ response.announced \in Int /\ response.size \in 0..MaxBody
         /\ response.announced \in {-1, response.size}
         /\ arrived \in 0..MaxBody /\ compressed \in 0..arrived /\ text \in 0..arrived
         /\ verdict = "none" <=> segpc # "returned"
BY ResponseType DEF SegmentTypeOK

\* Every variable keeps its type.
THEOREM SegmentTypeCorrect == SegmentSpec => []SegmentTypeOK
<1> USE SegmentAssumption DEF SegmentTypeOK
<1>1. SegmentInit => SegmentTypeOK
  BY DEF SegmentInit, NoResponse, Responses, Statuses, Verdicts
<1>2. SegmentTypeOK /\ [Downloading]_segmentVars => SegmentTypeOK'
  <2> SUFFICES ASSUME SegmentTypeOK, [Downloading]_segmentVars PROVE SegmentTypeOK'
    OBVIOUS
  <2>1. ASSUME NEW v \in Verdicts \ {"none"}, Return(v) PROVE SegmentTypeOK'
    BY <2>1 DEF Return
  <2>2. CASE Request
    BY <2>2 DEF Request
  <2>3. CASE CheckAnnounced
    BY <2>3, <2>1 DEF CheckAnnounced, Verdicts
  <2>4. CASE ReadErrorBody
    BY <2>4, <2>1 DEF ReadErrorBody, Verdicts
  <2>5. CASE Chunk
    <3>1. PICK n \in 1..(response.size - arrived) :
            IF compressed + n > max_bytes THEN Return("Unsupported")
            ELSE /\ arrived' = arrived + n /\ compressed' = compressed + n
                 /\ UNCHANGED <<segpc, response, text, verdict>>
      BY <2>5 DEF Chunk
    <3>2. CASE compressed + n > max_bytes
      BY <3>1, <3>2, <2>1 DEF Verdicts
    <3>3. CASE ~(compressed + n > max_bytes)
      <4>2. /\ arrived + n \in 0..MaxBody /\ compressed + n \in 0..(arrived + n)
            /\ text \in 0..(arrived + n)
        BY SizesTyped, ChunkFits
      <4>3. /\ arrived' = arrived + n /\ compressed' = compressed + n
            /\ UNCHANGED <<segpc, response, text, verdict>>
        BY <3>1, <3>3
      <4> QED
        BY <4>2, <4>3
    <3> QED
      BY <3>2, <3>3
  <2>6. CASE EndOfBody
    BY <2>6 DEF EndOfBody
  <2>7. CASE Gunzip
    BY <2>7, <2>1 DEF Gunzip, Verdicts
  <2>8. CASE Broken
    BY <2>8, <2>1 DEF Broken, Verdicts
  <2>9. CASE ErrorChunk
    <3>1. PICK n \in 1..(response.size - arrived) :
            arrived' = arrived + n /\ text' = text + n
      BY <2>9 DEF ErrorChunk
    <3>2. /\ arrived + n \in 0..MaxBody /\ text + n \in 0..(arrived + n)
          /\ compressed \in 0..(arrived + n)
      BY SizesTyped, ChunkFits
    <3> QED
      BY <2>9, <3>1, <3>2 DEF ErrorChunk
  <2>10. CASE UNCHANGED segmentVars
    BY <2>10 DEF segmentVars
  <2> QED
    BY <2>2, <2>3, <2>4, <2>5, <2>6, <2>7, <2>8, <2>9, <2>10 DEF Downloading
<1> QED
  BY <1>1, <1>2, PTL DEF SegmentSpec

-----------------------------------------------------------------------------
(* What is held is what has arrived: of a successful response in           *)
(* compressed, which is never over the limit, of any other in text.  A     *)
(* body is over, or was found too large, before a verdict says so.         *)

KeptWhole ==
  /\ compressed + text = arrived /\ compressed <= max_bytes /\ arrived <= response.size
  /\ response.status = "2xx" => text = 0
  /\ arrived # 0 => response.announced <= max_bytes
  /\ segpc \in {"unsent", "answered"} => arrived = 0
  /\ segpc = "erring" => response.status # "2xx" /\ response.announced <= max_bytes
  /\ segpc = "streaming" => response.announced <= max_bytes
  /\ segpc \in {"streaming", "complete"} \/ verdict \in {"Ok", "Decode"} => text = 0
  /\ segpc = "complete" \/ verdict \in {"Ok", "Decode"} => arrived = response.size
  /\ verdict = "Unsupported" => response.size > max_bytes

LEMMA KeptWholeInvariant == SegmentSpec => []KeptWhole
<1> USE SegmentAssumption DEF KeptWhole
<1>1. SegmentInit => KeptWhole
  BY DEF SegmentInit, NoResponse
<1>2. SegmentTypeOK /\ KeptWhole /\ [Downloading]_segmentVars => KeptWhole'
  <2> SUFFICES ASSUME SegmentTypeOK, KeptWhole, [Downloading]_segmentVars
               PROVE  KeptWhole'
    OBVIOUS
  <2>0. /\ response.announced \in Int /\ response.size \in Nat
        /\ response.announced \in {-1, response.size}
        /\ arrived \in Nat /\ compressed \in Nat /\ text \in Nat
        /\ verdict = "none" <=> segpc # "returned"
    BY SizesTyped, SegmentAssumption
  <2>1. CASE Request
    <3>1. compressed = 0 /\ text = 0 /\ arrived = 0 /\ verdict = "none"
      BY <2>0, <2>1 DEF Request
    <3>2. response'.size \in Nat
      BY <2>1, ResponseType DEF Request
    <3> QED
      BY <2>1, <3>1, <3>2 DEF Request
  <2>2. CASE CheckAnnounced
    <3>1. CASE response.announced > max_bytes
      <4>1. response.size > max_bytes
        BY <2>0, <3>1, SegmentAssumption
      <4>2. Return("Unsupported")
        BY <2>2, <3>1 DEF CheckAnnounced
      <4> QED
        BY <2>0, <2>2, <4>1, <4>2 DEF CheckAnnounced, Return
    <3>2. CASE ~(response.announced > max_bytes)
      BY <2>0, <2>2, <3>2 DEF CheckAnnounced
    <3> QED
      BY <3>1, <3>2
  <2>3. CASE ReadErrorBody
    BY <2>0, <2>3 DEF ReadErrorBody, Return
  <2>4. CASE Chunk
    <3>1. PICK n \in 1..(response.size - arrived) :
            IF compressed + n > max_bytes THEN Return("Unsupported")
            ELSE /\ arrived' = arrived + n /\ compressed' = compressed + n
                 /\ UNCHANGED <<segpc, response, text, verdict>>
      BY <2>4 DEF Chunk
    <3>2. segpc = "streaming"
      BY <2>4 DEF Chunk
    <3> QED
      BY <2>0, <3>1, <3>2 DEF Return
  <2>5. CASE EndOfBody
    BY <2>0, <2>5 DEF EndOfBody
  <2>6. CASE Gunzip
    BY <2>0, <2>6 DEF Gunzip, Return
  <2>7. CASE Broken
    BY <2>0, <2>7 DEF Broken, Return
  <2>8. CASE ErrorChunk
    <3>1. PICK n \in 1..(response.size - arrived) :
            arrived' = arrived + n /\ text' = text + n
      BY <2>8 DEF ErrorChunk
    <3> QED
      BY <2>0, <2>8, <3>1 DEF ErrorChunk
  <2>9. CASE UNCHANGED segmentVars
    BY <2>9 DEF segmentVars
  <2> QED
    BY <2>1, <2>2, <2>3, <2>4, <2>5, <2>6, <2>7, <2>8, <2>9 DEF Downloading
<1> QED
  BY SegmentTypeCorrect, <1>1, <1>2, PTL DEF SegmentSpec

\* Of a successful response, and of any that announces its length, the call never
\* holds more than max_bytes.
THEOREM TransferIsBounded == SegmentSpec => []HeldIsBounded
<1>1. SegmentTypeOK /\ KeptWhole => HeldIsBounded
  BY SizesTyped, SegmentAssumption DEF KeptWhole, HeldIsBounded
<1> QED
  BY SegmentTypeCorrect, KeptWholeInvariant, <1>1, PTL

\* Unsupported is only returned for a body over the limit, and a body over the
\* limit is never inflated.
THEOREM UnsupportedIsExact == SegmentSpec => []UnsupportedMeansTooLarge
<1>1. SegmentTypeOK /\ KeptWhole => UnsupportedMeansTooLarge
  BY SizesTyped, SegmentAssumption DEF KeptWhole, UnsupportedMeansTooLarge
<1> QED
  BY SegmentTypeCorrect, KeptWholeInvariant, <1>1, PTL

\* What is inflated is the whole body.
THEOREM OkIsWhole == SegmentSpec => []OkMeansWhole
<1>1. SegmentTypeOK /\ KeptWhole => OkMeansWhole
  BY SizesTyped DEF KeptWhole, OkMeansWhole
<1> QED
  BY SegmentTypeCorrect, KeptWholeInvariant, <1>1, PTL

-----------------------------------------------------------------------------
(* ScreenshotUpload: the operations of a reservation.                      *)

LEMMA LeastNatural ==
  ASSUME NEW T \in SUBSET Nat, T # {}
  PROVE  \E m \in T : \A k \in T : m <= k
<1>1. PICK m \in T : \A k \in T : ~ (<<k, m>> \in OpToRel(<, Nat))
  BY NatLessThanWellFounded, WFMin
<1>2. \A k \in T : ~ (k < m)
  BY <1>1 DEF OpToRel
<1> QED
  BY <1>2

LEMMA PlanType ==
  ASSUME NEW plan \in Plans
  PROVE  /\ plan \in Seq(Operations) /\ Len(plan) \in 1..FileSize
         /\ DOMAIN plan = 1..Len(plan)
         /\ \A i \in 1..Len(plan) :
              plan[i].offset \in 0..FileSize /\ plan[i].length \in 0..FileSize
<1>1. PICK n \in 1..FileSize : plan \in [1..n -> Operations]
  BY DEF Plans
<1>2. plan \in Seq(Operations) /\ Len(plan) = n
  BY <1>1, UploadAssumption
<1>3. \A i \in 1..n : plan[i] \in Operations
  BY <1>1
<1> QED
  BY <1>1, <1>2, <1>3 DEF Operations

\* The operations leave no byte out: the first one that ends after the byte
\* starts before it, because the one before it ended before the byte.
LEMMA PlanCovers ==
  ASSUME NEW plan \in Plans, NEW b \in Bytes
  PROVE  \E i \in DOMAIN plan : b \in chunk(plan[i])
<1> DEFINE end(i) == plan[i].offset + plan[i].length
           T == {i \in 1..Len(plan) : b <= end(i)}
<1>1. /\ plan \in Seq(Operations) /\ Len(plan) \in 1..FileSize /\ DOMAIN plan = 1..Len(plan)
      /\ \A i \in 1..Len(plan) :
           plan[i].offset \in 0..FileSize /\ plan[i].length \in 0..FileSize
  BY PlanType
<1>2. /\ plan[1].offset = 0
      /\ \A i \in 1..Len(plan) :
           end(i) = IF i + 1 \in 1..Len(plan) THEN plan[i + 1].offset ELSE FileSize
  BY <1>1 DEF Plans
<1>3. b \in 1..FileSize
  BY DEF Bytes
<1>4. Len(plan) \in T
  BY <1>1, <1>2, <1>3
<1>5. PICK i \in T : \A j \in T : i <= j
  <2>1. T \in SUBSET Nat
    BY <1>1
  <2> QED
    BY <1>4, <2>1, LeastNatural
<1>6. plan[i].offset < b
  <2>1. CASE i = 1
    BY <1>2, <1>3, <2>1
  <2>2. CASE i # 1
    <3>1. i - 1 \in 1..Len(plan) /\ i - 1 \notin T /\ i \in 1..Len(plan)
      BY <1>1, <1>5, <2>2
    <3>2. end(i - 1) = plan[i].offset
      BY <1>1, <1>2, <3>1
    <3> QED
      BY <1>1, <1>3, <3>1, <3>2
  <2> QED
    BY <2>1, <2>2
<1> QED
  BY <1>1, <1>5, <1>6 DEF chunk

\* What an operation leaves to the others is in the rest.
LEMMA TailKeeps ==
  ASSUME NEW s \in Seq(Operations), s # <<>>
  PROVE  /\ Head(s) = s[1] /\ Tail(s) \in Seq(Operations)
         /\ \A i \in DOMAIN s : i # 1 => i - 1 \in DOMAIN Tail(s) /\ Tail(s)[i - 1] = s[i]
<1>1. /\ Tail(s) \in Seq(Operations) /\ Len(Tail(s)) = Len(s) - 1
      /\ \A i \in 1..Len(Tail(s)) : Tail(s)[i] = s[i + 1]
  BY HeadTailProperties
<1>2. Head(s) = s[1] /\ DOMAIN s = 1..Len(s) /\ Len(s) \in Nat
  OBVIOUS
<1>3. DOMAIN Tail(s) = 1..Len(Tail(s))
  BY <1>1
<1> QED
  BY <1>1, <1>2, <1>3

-----------------------------------------------------------------------------
(* ScreenshotUpload: the inductive invariant.  A byte of the reservation   *)
(* of the call has arrived or an operation that brings it is still to do,  *)
(* unless somebody deleted the reservation; nothing is left to do when it  *)
(* is committed.                                                           *)

CallOfReservation ==
  /\ uppc \in {"uploading", "committing"} => shot \in Slots /\ shot \in asked
  /\ uppc # "uploading" => ops = <<>>

BytesUnderWay ==
  uppc \in {"uploading", "committing"} /\ shots[shot].state = "reserved" =>
    \A b \in Bytes : \/ shots[shot].bytes[b] = b
                     \/ \E i \in DOMAIN ops : b \in chunk(ops[i])

UploadInv == UploadTypeOK /\ CallOfReservation /\ BytesUnderWay /\ CommittedIsComplete

States == {"unborn", "reserved", "committed", "deleted"}

LEMMA ShotFields ==
  ASSUME NEW t \in Shots
  PROVE  t.state \in States /\ t.bytes \in [Bytes -> 0..FileSize]
BY DEF Shots, States

\* A reservation that gets another state keeps its bytes; no other changes.
LEMMA StateOnly ==
  ASSUME NEW s \in Slots, NEW x \in States, shots \in [Slots -> Shots],
         shots' = [shots EXCEPT ![s].state = x]
  PROVE  /\ shots' \in [Slots -> Shots]
         /\ shots'[s].state = x /\ shots'[s].bytes = shots[s].bytes
         /\ \A t \in Slots : t # s => shots'[t] = shots[t]
<1>1. shots[s] \in Shots
  OBVIOUS
<1>2. shots' = [shots EXCEPT ![s] = [shots[s] EXCEPT !.state = x]]
  OBVIOUS
<1>3. /\ [shots[s] EXCEPT !.state = x] \in Shots
      /\ [shots[s] EXCEPT !.state = x].state = x
      /\ [shots[s] EXCEPT !.state = x].bytes = shots[s].bytes
  BY <1>1 DEF Shots, States
<1> QED
  BY <1>2, <1>3

\* Nothing of the call is left after an error.
LEMMA FailKeeps ==
  ASSUME UploadInv, Fail, UNCHANGED <<shots, asked>> PROVE UploadInv'
<1>1. uppc' = "idle" /\ shot' = None /\ ops' = <<>> /\ uploaded' = "Err"
  BY DEF Fail
<1>2. UploadTypeOK'
  BY <1>1 DEF UploadInv, UploadTypeOK
<1>3. CallOfReservation' /\ BytesUnderWay'
  BY <1>1 DEF CallOfReservation, BytesUnderWay
<1>4. CommittedIsComplete'
  BY DEF UploadInv, CommittedIsComplete, Complete
<1> QED
  BY <1>2, <1>3, <1>4 DEF UploadInv

LEMMA ReserveKeeps ==
  ASSUME UploadInv, Reserve PROVE UploadInv'
<1>1. PICK s \in Slots \ asked, plan \in Plans :
        /\ shots' = [shots EXCEPT ![s].state = "reserved"]
        /\ asked' = asked \cup {s}
        /\ \/ /\ uppc' = "uploading" /\ shot' = s /\ ops' = plan
              /\ UNCHANGED uploaded
           \/ Fail
  BY DEF Reserve
<1>2. /\ shots' \in [Slots -> Shots]
      /\ shots'[s].state = "reserved" /\ shots'[s].bytes = shots[s].bytes
      /\ \A t \in Slots : t # s => shots'[t] = shots[t]
  <2>1. "reserved" \in States
    BY DEF States
  <2> QED
    BY <1>1, <2>1, StateOnly DEF UploadInv, UploadTypeOK
<1>3. \A t \in Slots : shots'[t].state = "unborn" <=> t \notin asked'
  BY <1>1, <1>2 DEF UploadInv, UploadTypeOK
<1>4. CommittedIsComplete'
  BY <1>2 DEF UploadInv, CommittedIsComplete, Complete
<1>5. CASE uppc' = "uploading" /\ shot' = s /\ ops' = plan /\ UNCHANGED uploaded
  <2>1. UploadTypeOK'
    BY <1>1, <1>2, <1>3, <1>5, PlanType DEF UploadInv, UploadTypeOK
  <2>2. CallOfReservation' /\ BytesUnderWay'
    BY <1>1, <1>5, PlanCovers DEF CallOfReservation, BytesUnderWay
  <2> QED
    BY <1>4, <2>1, <2>2 DEF UploadInv
<1>6. CASE Fail
  <2>1. UploadTypeOK'
    BY <1>1, <1>2, <1>3, <1>6 DEF UploadInv, UploadTypeOK, Fail
  <2>2. CallOfReservation' /\ BytesUnderWay'
    BY <1>6 DEF CallOfReservation, BytesUnderWay, Fail
  <2> QED
    BY <1>4, <2>1, <2>2 DEF UploadInv
<1> QED
  BY <1>1, <1>5, <1>6

LEMMA SendUploadKeeps ==
  ASSUME UploadInv, SendUpload PROVE UploadInv'
<1> DEFINE op == Head(ops)
           bytes == [b \in Bytes |-> IF b \in chunk(op) /\ shots[shot].state = "reserved"
                                     THEN b ELSE shots[shot].bytes[b]]
<1>1. /\ uppc = "uploading" /\ ops # <<>> /\ UNCHANGED asked
      /\ shots' = [shots EXCEPT ![shot].bytes = bytes]
      /\ (ops' = Tail(ops) /\ UNCHANGED <<uppc, shot, uploaded>>) \/ Fail
  BY DEF SendUpload, Transferred
<1>2. shot \in Slots /\ shot \in asked /\ shots \in [Slots -> Shots] /\ shots[shot] \in Shots
  BY <1>1 DEF UploadInv, CallOfReservation, UploadTypeOK
<1>3. bytes \in [Bytes -> 0..FileSize]
  <2>1. \A b \in Bytes : shots[shot].bytes[b] \in 0..FileSize
    BY <1>2, ShotFields
  <2>2. \A b \in Bytes : b \in 0..FileSize
    BY UploadAssumption DEF Bytes
  <2>3. \A b \in Bytes : bytes[b] \in 0..FileSize
    BY <2>1, <2>2
  <2> QED
    BY <2>3
<1>4. \A b \in Bytes : /\ bytes[b] = b \/ bytes[b] = shots[shot].bytes[b]
                       /\ b \in chunk(op) /\ shots[shot].state = "reserved" => bytes[b] = b
  OBVIOUS
<1> HIDE DEF bytes
<1>5. /\ shots' \in [Slots -> Shots]
      /\ shots'[shot].state = shots[shot].state /\ shots'[shot].bytes = bytes
      /\ \A t \in Slots : t # shot => shots'[t] = shots[t]
  <2>1. shots' = [shots EXCEPT ![shot] = [shots[shot] EXCEPT !.bytes = bytes]]
    BY <1>1
  <2>2. /\ [shots[shot] EXCEPT !.bytes = bytes] \in Shots
        /\ [shots[shot] EXCEPT !.bytes = bytes].state = shots[shot].state
        /\ [shots[shot] EXCEPT !.bytes = bytes].bytes = bytes
    BY <1>2, <1>3 DEF Shots
  <2> QED
    BY <1>2, <2>1, <2>2
<1>6. \A t \in Slots : shots'[t].state = shots[t].state
  BY <1>5
<1>7. CommittedIsComplete'
  <2> SUFFICES ASSUME NEW t \in Slots, shots'[t].state = "committed", NEW b \in Bytes
               PROVE  shots'[t].bytes[b] = b
    BY DEF CommittedIsComplete, Complete
  <2>1. shots[t].bytes[b] = b
    BY <1>6 DEF UploadInv, CommittedIsComplete, Complete
  <2>2. CASE t = shot
    BY <1>4, <1>5, <2>1, <2>2
  <2>3. CASE t # shot
    BY <1>5, <2>1, <2>3
  <2> QED
    BY <2>2, <2>3
<1>8. ops \in Seq(Operations)
  BY DEF UploadInv, UploadTypeOK
<1>9. CASE ops' = Tail(ops) /\ UNCHANGED <<uppc, shot, uploaded>>
  <2>1. UploadTypeOK'
    BY <1>1, <1>5, <1>6, <1>8, <1>9, TailKeeps DEF UploadInv, UploadTypeOK
  <2>2. CallOfReservation'
    BY <1>1, <1>2, <1>9 DEF CallOfReservation
  <2>3. BytesUnderWay'
    <3> SUFFICES ASSUME shots[shot].state = "reserved", NEW b \in Bytes
                 PROVE  \/ bytes[b] = b
                        \/ \E i \in DOMAIN Tail(ops) : b \in chunk(Tail(ops)[i])
      BY <1>5, <1>9 DEF BytesUnderWay
    <3>1. shots[shot].bytes[b] = b \/ \E i \in DOMAIN ops : b \in chunk(ops[i])
      BY <1>1 DEF UploadInv, BytesUnderWay
    <3>2. CASE shots[shot].bytes[b] = b
      BY <1>4, <3>2
    <3>3. ASSUME NEW i \in DOMAIN ops, b \in chunk(ops[i])
          PROVE  bytes[b] = b \/ \E j \in DOMAIN Tail(ops) : b \in chunk(Tail(ops)[j])
      <4>1. CASE i = 1
        <5>1. b \in chunk(op)
          BY <1>1, <1>8, <3>3, <4>1, TailKeeps
        <5> QED
          BY <1>4, <5>1
      <4>2. CASE i # 1
        BY <1>1, <1>8, <3>3, <4>2, TailKeeps
      <4> QED
        BY <4>1, <4>2
    <3> QED
      BY <3>1, <3>2, <3>3
  <2> QED
    BY <1>7, <2>1, <2>2, <2>3 DEF UploadInv
<1>10. CASE Fail
  <2>1. UploadTypeOK'
    BY <1>1, <1>5, <1>6, <1>10 DEF UploadInv, UploadTypeOK, Fail
  <2>2. CallOfReservation' /\ BytesUnderWay'
    BY <1>10 DEF CallOfReservation, BytesUnderWay, Fail
  <2> QED
    BY <1>7, <2>1, <2>2 DEF UploadInv
<1> QED
  BY <1>1, <1>9, <1>10

\* What is committed is whole: the reservation is still there, and nothing of it
\* is left to do.
LEMMA CommittedWhole ==
  ASSUME UploadInv, Commit
  PROVE  /\ shot \in Slots /\ shots' \in [Slots -> Shots]
         /\ shots'[shot].state = "committed"
         /\ \A b \in Bytes : shots'[shot].bytes[b] = b
         /\ \A t \in Slots : t # shot => shots'[t] = shots[t]
<1>1. uppc = "committing" /\ shots[shot].state = "reserved"
      /\ shots' = [shots EXCEPT ![shot].state = "committed"]
  BY DEF Commit
<1>2. shot \in Slots /\ ops = <<>> /\ shots \in [Slots -> Shots]
  BY <1>1 DEF UploadInv, CallOfReservation, UploadTypeOK
<1>3. \A b \in Bytes : shots[shot].bytes[b] = b
  BY <1>1, <1>2 DEF UploadInv, BytesUnderWay
<1>4. "committed" \in States
  BY DEF States
<1> QED
  BY <1>1, <1>2, <1>3, <1>4, StateOnly

LEMMA CommitKeeps ==
  ASSUME UploadInv, Commit PROVE UploadInv'
<1>1. /\ shot \in Slots /\ shots' \in [Slots -> Shots]
      /\ shots'[shot].state = "committed"
      /\ \A b \in Bytes : shots'[shot].bytes[b] = b
      /\ \A t \in Slots : t # shot => shots'[t] = shots[t]
  BY CommittedWhole
<1>2. uppc = "committing" /\ shot \in asked /\ ops = <<>> /\ UNCHANGED asked
  BY DEF Commit, UploadInv, CallOfReservation
<1>3. CommittedIsComplete'
  BY <1>1 DEF UploadInv, CommittedIsComplete, Complete
<1>4. uppc' = "idle" /\ shot' = None /\ ops' = <<>> /\ uploaded' \in {"Ok", "Err"}
  BY <1>2 DEF Commit, Fail
<1>5. UploadTypeOK'
  <2>1. \A t \in Slots : shots'[t].state = "unborn" <=> t \notin asked
    BY <1>1, <1>2 DEF UploadInv, UploadTypeOK
  <2> QED
    BY <1>1, <1>2, <1>4, <2>1 DEF UploadInv, UploadTypeOK
<1>6. CallOfReservation' /\ BytesUnderWay'
  BY <1>4 DEF CallOfReservation, BytesUnderWay
<1> QED
  BY <1>3, <1>5, <1>6 DEF UploadInv

LEMMA DeleteKeeps ==
  ASSUME UploadInv, NEW s \in Slots, delete_screenshot(s) PROVE UploadInv'
<1>1. /\ shots[s].state \in {"reserved", "committed"}
      /\ shots' = [shots EXCEPT ![s].state = "deleted"]
      /\ UNCHANGED <<uppc, shot, ops, asked, uploaded>>
  BY DEF delete_screenshot
<1>2. /\ shots' \in [Slots -> Shots]
      /\ shots'[s].state = "deleted" /\ shots'[s].bytes = shots[s].bytes
      /\ \A t \in Slots : t # s => shots'[t] = shots[t]
  <2>1. "deleted" \in States
    BY DEF States
  <2> QED
    BY <1>1, <2>1, StateOnly DEF UploadInv, UploadTypeOK
<1>3. UploadTypeOK'
  BY <1>1, <1>2 DEF UploadInv, UploadTypeOK
<1>4. CallOfReservation'
  BY <1>1 DEF UploadInv, CallOfReservation
<1>5. BytesUnderWay'
  BY <1>1, <1>2 DEF UploadInv, CallOfReservation, BytesUnderWay
<1>6. CommittedIsComplete'
  BY <1>2 DEF UploadInv, CommittedIsComplete, Complete
<1> QED
  BY <1>3, <1>4, <1>5, <1>6 DEF UploadInv

LEMMA UploadInvariant == UploadSpec => []UploadInv
<1>1. UploadInit => UploadInv
  <2> SUFFICES ASSUME UploadInit PROVE UploadInv
    OBVIOUS
  <2>1. shots \in [Slots -> Shots]
    <3>1. [b \in Bytes |-> 0] \in [Bytes -> 0..FileSize]
      BY UploadAssumption
    <3>2. [state |-> "unborn", bytes |-> [b \in Bytes |-> 0]] \in Shots
      BY <3>1 DEF Shots
    <3> QED
      BY <3>2 DEF UploadInit
  <2>2. \A s \in Slots : shots[s].state = "unborn"
    BY DEF UploadInit
  <2> QED
    BY <2>1, <2>2 DEF UploadInit, UploadInv, UploadTypeOK, CallOfReservation, BytesUnderWay,
                      CommittedIsComplete
<1>2. UploadInv /\ [Uploading]_uploadVars => UploadInv'
  <2> SUFFICES ASSUME UploadInv, [Uploading]_uploadVars PROVE UploadInv'
    OBVIOUS
  <2>1. CASE UploadScreenshot
    BY <2>1 DEF UploadScreenshot, UploadInv, UploadTypeOK, CallOfReservation, BytesUnderWay,
                CommittedIsComplete, Complete
  <2>2. CASE ReserveRefused \/ SendUploadRefused \/ CommitRefused
    BY <2>2, FailKeeps DEF ReserveRefused, SendUploadRefused, CommitRefused
  <2>3. CASE UploadsDone
    BY <2>3 DEF UploadsDone, UploadInv, UploadTypeOK, CallOfReservation, BytesUnderWay,
                CommittedIsComplete, Complete
  <2>4. CASE UNCHANGED uploadVars
    BY <2>4 DEF uploadVars, UploadInv, UploadTypeOK, CallOfReservation, BytesUnderWay,
                CommittedIsComplete, Complete
  <2> QED
    BY <2>1, <2>2, <2>3, <2>4, ReserveKeeps, SendUploadKeeps, CommitKeeps, DeleteKeeps
       DEF Uploading
<1> QED
  BY <1>1, <1>2, PTL DEF UploadSpec

\* Every variable keeps its type, and a reservation is unborn until it is asked for.
THEOREM UploadTypeCorrect == UploadSpec => []UploadTypeOK
<1>1. UploadInv => UploadTypeOK
  BY DEF UploadInv
<1> QED
  BY UploadInvariant, <1>1, PTL

\* Whatever fails, is lost or is deleted on the way, the service is told
\* `uploaded` only for a reservation whose every byte has arrived.
THEOREM CommittedScreenshotsAreComplete == UploadSpec => []CommittedIsComplete
<1>1. UploadInv => CommittedIsComplete
  BY DEF UploadInv
<1> QED
  BY UploadInvariant, <1>1, PTL

\* A call returns Ok only in the step that commits its own, whole, reservation.
THEOREM OkIsUploaded == UploadSpec => OkMeansUploaded
<1>1. UploadInv /\ [Uploading]_uploadVars =>
        [uploaded' = "Ok" /\ uploaded # "Ok" =>
           \E s \in Slots :
             s = shot /\ shots'[s].state = "committed" /\ Complete(s)']_uploadVars
  <2> SUFFICES ASSUME UploadInv, Uploading, uploaded' = "Ok", uploaded # "Ok"
               PROVE  \E s \in Slots :
                        s = shot /\ shots'[s].state = "committed" /\ Complete(s)'
    BY DEF uploadVars
  <2>1. Commit
    BY DEF Uploading, UploadScreenshot, Reserve, ReserveRefused, SendUpload, SendUploadRefused,
           UploadsDone, CommitRefused, delete_screenshot, Fail
  <2>2. /\ shot \in Slots /\ shots'[shot].state = "committed"
        /\ \A b \in Bytes : shots'[shot].bytes[b] = b
    BY <2>1, CommittedWhole
  <2> QED
    BY <2>2 DEF Complete
<1> QED
  BY UploadInvariant, <1>1, PTL DEF UploadSpec, OkMeansUploaded
=============================================================================
