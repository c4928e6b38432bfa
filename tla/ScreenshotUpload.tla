-------------------------- MODULE ScreenshotUpload --------------------------
(***************************************************************************)
(* Uploading a screenshot: AppStoreClient::upload_screenshot, send_upload  *)
(* and delete_screenshot (providers/appstore/client.rs) with App Store     *)
(* Connect and the store that takes the bytes.  Reserve, one transfer per  *)
(* upload operation of the reservation, commit; each can be refused or     *)
(* lose its answer.  A failed call is repeated by the host from the start, *)
(* and makes a new reservation, while others delete what they see.         *)
(*                                                                         *)
(* A definition named D_Mistake, before D, is D with a plausible mistake.  *)
(***************************************************************************)
EXTENDS Integers, Sequences

CONSTANTS
  Slots,     \* identifiers of reservations
  FileSize   \* data.len()

ASSUME UploadAssumption == FileSize \in Nat \ {0}

None == "none"
Bytes == 1..FileSize  \* byte b of the file; the file holds b at b

VARIABLES
  shots,    \* shots[s]: reservation s at the service
  uppc,
  shot,     \* screenshot_id of the call
  ops,      \* the upload operations still to do
  asked,    \* the reservations of this host's calls so far
  uploaded  \* what the last call returned
uploadVars == <<shots, uppc, shot, ops, asked, uploaded>>

Operations == [offset : 0..FileSize, length : 0..FileSize]

\* the uploadOperations of a reservation: one after the other, the whole file
Plans ==
  {plan \in UNION {[1..n -> Operations] : n \in 1..FileSize} :
     /\ plan[1].offset = 0
     /\ \A i \in DOMAIN plan :
          /\ plan[i].length > 0
          /\ plan[i].offset + plan[i].length =
               IF i + 1 \in DOMAIN plan THEN plan[i + 1].offset ELSE FileSize}

\* committed says that the service was told `uploaded`; it serves the screenshot
\* if what it got is what the checksum says
Shots == [state : {"unborn", "reserved", "committed", "deleted"},
          bytes : [Bytes -> 0..FileSize]]

UploadTypeOK ==
  /\ shots \in [Slots -> Shots]
  /\ uppc \in {"idle", "reserving", "uploading", "committing"}
  /\ shot \in Slots \cup {None}
  /\ ops \in Seq(Operations)
  /\ asked \subseteq Slots
  /\ uploaded \in {"none", "Ok", "Err"}
  /\ \A s \in Slots : shots[s].state = "unborn" <=> s \notin asked

UploadInit ==
  /\ shots = [s \in Slots |-> [state |-> "unborn", bytes |-> [b \in Bytes |-> 0]]]
  /\ uppc = "idle" /\ shot = None /\ ops = <<>> /\ asked = {} /\ uploaded = "none"

\* `?`: the call is over, the reservation stays as it is
Fail == uppc' = "idle" /\ shot' = None /\ ops' = <<>> /\ uploaded' = "Err"

\* the host calls upload_screenshot, for the first time or again after an error
UploadScreenshot ==
  /\ uppc = "idle" /\ uploaded # "Ok"
  /\ uppc' = "reserving" /\ uploaded' = "none"
  /\ UNCHANGED <<shots, shot, ops, asked>>

Reserve ==
  /\ uppc = "reserving"
  /\ \E s \in Slots \ asked, plan \in Plans :
       /\ shots' = [shots EXCEPT ![s].state = "reserved"]
       /\ asked' = asked \cup {s}
       /\ \/ /\ uppc' = "uploading" /\ shot' = s /\ ops' = plan
             /\ UNCHANGED uploaded
          \/ Fail  \* the answer is lost, or does not decode

ReserveRefused ==
  /\ uppc = "reserving"
  /\ Fail
  /\ UNCHANGED <<shots, asked>>

chunk_LengthAsEnd(op) == {b \in Bytes : op.offset < b /\ b <= op.length}

\* data[start..end], and where the service puts it
chunk(op) == {b \in Bytes : op.offset < b /\ b <= op.offset + op.length}

\* send_upload reaches the store
Transferred(op) ==
  shots' = [shots EXCEPT ![shot].bytes =
              [b \in Bytes |-> IF b \in chunk(op) /\ shots[shot].state = "reserved"
                               THEN b ELSE @[b]]]

SendUpload_ErrorsIgnored ==
  /\ uppc = "uploading" /\ ops # <<>>
  /\ ops' = Tail(ops)
  /\ Transferred(Head(ops)) \/ UNCHANGED shots
  /\ UNCHANGED <<uppc, shot, uploaded, asked>>

SendUpload ==
  /\ uppc = "uploading" /\ ops # <<>>
  /\ Transferred(Head(ops))
  /\ \/ /\ ops' = Tail(ops)
        /\ UNCHANGED <<uppc, shot, uploaded>>
     \/ Fail  \* the answer is lost
  /\ UNCHANGED asked

SendUploadRefused ==
  /\ uppc = "uploading" /\ ops # <<>>
  /\ Fail
  /\ UNCHANGED <<shots, asked>>

UploadsDone ==
  /\ uppc = "uploading" /\ ops = <<>>
  /\ uppc' = "committing"
  /\ UNCHANGED <<shots, shot, ops, asked, uploaded>>

Commit_NotFoundIsOk ==
  /\ uppc = "committing"
  /\ shots' = [shots EXCEPT ![shot].state = IF @ = "reserved" THEN "committed" ELSE @]
  /\ uppc' = "idle" /\ shot' = None /\ uploaded' = "Ok"
  /\ UNCHANGED <<ops, asked>>

Commit ==
  /\ uppc = "committing" /\ shots[shot].state = "reserved"
  /\ shots' = [shots EXCEPT ![shot].state = "committed"]
  /\ \/ uppc' = "idle" /\ shot' = None /\ uploaded' = "Ok" /\ UNCHANGED ops
     \/ Fail
  /\ UNCHANGED asked

\* refused, or the reservation is gone
CommitRefused ==
  /\ uppc = "committing"
  /\ Fail
  /\ UNCHANGED <<shots, asked>>

\* delete_screenshot, or delete_screenshot_set around it, by anybody: also of
\* the reservation of a call that is under way
delete_screenshot(s) ==
  /\ shots[s].state \in {"reserved", "committed"}
  /\ shots' = [shots EXCEPT ![s].state = "deleted"]
  /\ UNCHANGED <<uppc, shot, ops, asked, uploaded>>

Uploading ==
  \/ UploadScreenshot
  \/ Reserve \/ ReserveRefused
  \/ SendUpload \/ SendUploadRefused \/ UploadsDone
  \/ Commit \/ CommitRefused
  \/ \E s \in Slots : delete_screenshot(s)

UploadSpec == UploadInit /\ [][Uploading]_uploadVars

-----------------------------------------------------------------------------
(* Properties.                                                             *)

Complete(s) == \A b \in Bytes : shots[s].bytes[b] = b

\* The service is told `uploaded` only for a reservation whose every byte has
\* arrived, whatever failed, was lost or was deleted on the way: a committed
\* screenshot can always be served.
CommittedIsComplete ==
  \A s \in Slots : shots[s].state = "committed" => Complete(s)

\* An Ok means that the screenshot was there, whole, when the call returned,
\* also if others delete reservations meanwhile.
OkMeansUploaded ==
  [][uploaded' = "Ok" /\ uploaded # "Ok" =>
       \E s \in Slots :
         s = shot /\ shots'[s].state = "committed" /\ Complete(s)']_uploadVars
=============================================================================
