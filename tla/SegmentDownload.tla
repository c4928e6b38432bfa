--------------------------- MODULE SegmentDownload ---------------------------
(***************************************************************************)
(* Downloading one segment of an analytics report:                         *)
(* AppStoreClient::download_analytics_segment (providers/appstore/         *)
(* client.rs) against the store that holds the file.  Sizes are numbers of *)
(* bytes; of the bytes only how many there are is kept.  The response may  *)
(* come with or without an announced length, in chunks of any size, and    *)
(* the connection may break at any moment.                                 *)
(*                                                                         *)
(* A definition named D_Mistake, before D, is D with a plausible mistake.  *)
(***************************************************************************)
EXTENDS Integers

CONSTANTS
  max_bytes,  \* the host's limit
  MaxBody     \* bound: the largest body of a response

ASSUME SegmentAssumption == max_bytes \in Nat /\ MaxBody \in Nat \ {0}

VARIABLES
  segpc,
  response,   \* the response being read
  arrived,    \* bytes of its body that have arrived
  compressed, \* compressed.len()
  text,       \* bytes of an error body read so far by Response::text
  verdict     \* what the call returned
segmentVars == <<segpc, response, arrived, compressed, text, verdict>>

Statuses == {"2xx", "agreements", "other"}
Verdicts == {"none", "Ok", "Unsupported", "PendingAgreements", "Http", "Decode", "Network"}

NoResponse == [status |-> "other", announced |-> -1, size |-> 0, gzip |-> FALSE]

\* announced is -1 for a response without Content-Length; with one, the body is
\* as long as announced
Responses == {r \in [status : Statuses, announced : -1..MaxBody,
                     size : 0..MaxBody, gzip : BOOLEAN] :
                r.announced \in {-1, r.size}}

SegmentTypeOK ==
  /\ segpc \in {"unsent", "answered", "erring", "streaming", "complete", "returned"}
  /\ response \in Responses
  /\ arrived \in 0..MaxBody /\ compressed \in 0..arrived /\ text \in 0..arrived
  /\ verdict \in Verdicts
  /\ verdict = "none" <=> segpc # "returned"

SegmentInit ==
  /\ segpc = "unsent" /\ response = NoResponse
  /\ arrived = 0 /\ compressed = 0 /\ text = 0 /\ verdict = "none"

Return_GoingOn(v) ==
  /\ verdict' = v
  /\ UNCHANGED <<segpc, response, arrived, compressed, text>>

Return(v) ==
  /\ segpc' = "returned" /\ verdict' = v
  /\ UNCHANGED <<response, arrived, compressed, text>>

Request ==
  /\ segpc = "unsent"
  /\ response' \in Responses
  /\ segpc' = "answered"
  /\ UNCHANGED <<arrived, compressed, text, verdict>>

\* the announced length is checked before the status
CheckAnnounced ==
  /\ segpc = "answered"
  /\ IF response.announced > max_bytes THEN Return("Unsupported")
     ELSE /\ segpc' = IF response.status = "2xx" THEN "streaming" ELSE "erring"
          /\ UNCHANGED <<response, arrived, compressed, text, verdict>>

\* the body of any other answer is read as a whole
ErrorChunk ==
  /\ segpc = "erring"
  /\ \E n \in 1..(response.size - arrived) :
       arrived' = arrived + n /\ text' = text + n
  /\ UNCHANGED <<segpc, response, compressed, verdict>>

ReadErrorBody ==
  /\ segpc = "erring" /\ arrived = response.size
  /\ Return(IF response.status = "agreements" THEN "PendingAgreements" ELSE "Http")

Chunk_ThenCheck ==
  /\ segpc = "streaming"
  /\ \E n \in 1..(response.size - arrived) :
       IF compressed > max_bytes THEN Return("Unsupported")
       ELSE /\ arrived' = arrived + n /\ compressed' = compressed + n
            /\ UNCHANGED <<segpc, response, text, verdict>>

Chunk_LimitExcluded ==
  /\ segpc = "streaming"
  /\ \E n \in 1..(response.size - arrived) :
       IF compressed + n >= max_bytes THEN Return("Unsupported")
       ELSE /\ arrived' = arrived + n /\ compressed' = compressed + n
            /\ UNCHANGED <<segpc, response, text, verdict>>

Chunk_Skipped ==
  /\ segpc = "streaming"
  /\ \E n \in 1..(response.size - arrived) :
       /\ arrived' = arrived + n
       /\ compressed' = IF compressed + n > max_bytes THEN compressed ELSE compressed + n
       /\ UNCHANGED <<segpc, response, text, verdict>>

\* the next chunk, kept only if it still fits
Chunk ==
  /\ segpc = "streaming"
  /\ \E n \in 1..(response.size - arrived) :
       IF compressed + n > max_bytes THEN Return("Unsupported")
       ELSE /\ arrived' = arrived + n /\ compressed' = compressed + n
            /\ UNCHANGED <<segpc, response, text, verdict>>

EndOfBody ==
  /\ segpc = "streaming" /\ arrived = response.size
  /\ segpc' = "complete"
  /\ UNCHANGED <<response, arrived, compressed, text, verdict>>

\* inflating and parsing what was kept
Gunzip ==
  /\ segpc = "complete"
  /\ Return(IF response.gzip THEN "Ok" ELSE "Decode")

\* sending fails, or the connection breaks while a body is read
Broken ==
  /\ segpc \in {"unsent", "erring", "streaming"}
  /\ Return("Network")

Downloading ==
  \/ Request \/ CheckAnnounced \/ ErrorChunk \/ ReadErrorBody
  \/ Chunk \/ EndOfBody \/ Gunzip \/ Broken

SegmentSpec == SegmentInit /\ [][Downloading]_segmentVars

-----------------------------------------------------------------------------
(* Properties.                                                             *)

\* Of a successful response, and of any that announces its length, no more than
\* max_bytes is ever held, however it is cut into chunks.  The body of an error
\* response of unannounced length is read as a whole, whatever its size.
HeldIsBounded ==
  response.status = "2xx" \/ response.announced # -1 => compressed + text <= max_bytes

\* Unsupported, on which the host fetches the URL by itself, is returned only for
\* responses over the limit; and a successful response over the limit comes to
\* nothing else, unless its connection breaks first.
UnsupportedMeansTooLarge ==
  /\ verdict = "Unsupported" => response.size > max_bytes
  /\ verdict \in {"Ok", "Decode"} => response.size <= max_bytes

\* What is inflated and parsed is the whole body, not a part of it.
OkMeansWhole == verdict = "Ok" => compressed = response.size
=============================================================================
