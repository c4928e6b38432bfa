------------------------------ MODULE LogBuffer ------------------------------
(***************************************************************************)
(* The debug log of the Flutter facade (frb_api.rs).  The core logs        *)
(* synchronously into a buffer shared by all calls of a provider; at the   *)
(* end of every asynchronous call, whether it succeeded or not, the call   *)
(* takes what the buffer holds and hands it, line by line, to an           *)
(* asynchronous Dart closure.  A call may end at any await without         *)
(* returning: it is dropped, or it panics, as it does when the closure     *)
(* throws (frb_generated.rs).                                              *)
(*                                                                         *)
(* A line is the call that logs it and its number in that call.            *)
(* D_Mistake, before D, is D with a plausible mistake.                     *)
(***************************************************************************)
EXTENDS Naturals, Sequences, SequencesExt

CONSTANTS
  Calls,     \* the calls the host ever makes
  MaxLines   \* bound: the lines one call logs

ASSUME BoundAssumption == MaxLines \in Nat

Lines == Calls \X (1..MaxLines)

VARIABLES
  pending,    \* LogBuffer.pending
  taken,      \* taken[c]: lines that c's flush still has to hand over
  logged,     \* logged[c]: how many lines c logged
  pc,
  emitted,    \* every line logged, in the order of the log calls
  delivered,  \* every line handed to Dart, in the order of the closure's calls
  lost,       \* the lines that a flush had taken and not handed over when it was cut
  overlapped  \* two calls were under way at a time, now or earlier
vars == <<pending, taken, logged, pc, emitted, delivered, lost, overlapped>>

TypeOK ==
  /\ pending \in Seq(Lines) /\ emitted \in Seq(Lines) /\ delivered \in Seq(Lines)
  /\ taken \in [Calls -> Seq(Lines)]
  /\ logged \in [Calls -> 0..MaxLines]
  /\ pc \in [Calls -> {"unborn", "working", "flushing", "done", "dropped", "cut"}]
  /\ lost \subseteq Lines
  /\ overlapped \in BOOLEAN
  /\ \A c \in Calls : pc[c] # "flushing" => taken[c] = <<>>

Init ==
  /\ pending = <<>> /\ emitted = <<>> /\ delivered = <<>>
  /\ taken = [c \in Calls |-> <<>>]
  /\ logged = [c \in Calls |-> 0]
  /\ pc = [c \in Calls |-> "unborn"]
  /\ lost = {}
  /\ overlapped = FALSE

UnderWay == {c \in Calls : pc[c] \in {"working", "flushing"}}

Begin(c) ==
  /\ pc[c] = "unborn"
  /\ pc' = [pc EXCEPT ![c] = "working"]
  /\ overlapped' = (overlapped \/ UnderWay # {})
  /\ UNCHANGED <<pending, taken, logged, emitted, delivered, lost>>

\* send_and_read logs the request before it is sent, the response after
Log(c) ==
  /\ pc[c] = "working" /\ logged[c] < MaxLines
  /\ logged' = [logged EXCEPT ![c] = @ + 1]
  /\ LET line == <<c, logged[c] + 1>> IN
       pending' = Append(pending, line) /\ emitted' = Append(emitted, line)
  /\ UNCHANGED <<taken, pc, delivered, lost, overlapped>>

TakePending_Cloned(c) ==
  /\ pc[c] = "working"
  /\ pc' = [pc EXCEPT ![c] = "flushing"]
  /\ taken' = [taken EXCEPT ![c] = pending]
  /\ UNCHANGED <<pending, logged, emitted, delivered, lost, overlapped>>

TakePending_OnlyOnSuccess(c) ==
  /\ pc[c] = "working"
  /\ \/ /\ pc' = [pc EXCEPT ![c] = "flushing"]
        /\ taken' = [taken EXCEPT ![c] = pending]
        /\ pending' = <<>>
     \/ pc' = [pc EXCEPT ![c] = "done"] /\ UNCHANGED <<pending, taken>>
  /\ UNCHANGED <<logged, emitted, delivered, lost, overlapped>>

\* the provider call has its result: flush takes the whole buffer
TakePending(c) ==
  /\ pc[c] = "working"
  /\ pc' = [pc EXCEPT ![c] = "flushing"]
  /\ taken' = [taken EXCEPT ![c] = pending]
  /\ pending' = <<>>
  /\ UNCHANGED <<logged, emitted, delivered, lost, overlapped>>

Deliver_LastFirst(c) ==
  /\ pc[c] = "flushing" /\ taken[c] # <<>>
  /\ delivered' = Append(delivered, Last(taken[c]))
  /\ taken' = [taken EXCEPT ![c] = Front(@)]
  /\ UNCHANGED <<pending, logged, pc, emitted, lost, overlapped>>

\* one turn of the loop: (self.sink)(line).await
Deliver(c) ==
  /\ pc[c] = "flushing" /\ taken[c] # <<>>
  /\ delivered' = Append(delivered, Head(taken[c]))
  /\ taken' = [taken EXCEPT ![c] = Tail(@)]
  /\ UNCHANGED <<pending, logged, pc, emitted, lost, overlapped>>

Return_Early(c) ==
  /\ pc[c] = "flushing"
  /\ pc' = [pc EXCEPT ![c] = "done"]
  /\ UNCHANGED <<pending, taken, logged, emitted, delivered, lost, overlapped>>

\* the flush is over, the call returns its result
Return(c) ==
  /\ pc[c] = "flushing" /\ taken[c] = <<>>
  /\ pc' = [pc EXCEPT ![c] = "done"]
  /\ UNCHANGED <<pending, taken, logged, emitted, delivered, lost, overlapped>>

\* the call ends at an await: before its flush what it logged stays in the
\* buffer, in its flush the lines it took go with it
Drop(c) ==
  /\ pc[c] \in {"working", "flushing"}
  /\ pc' = [pc EXCEPT ![c] = IF @ = "flushing" THEN "cut" ELSE "dropped"]
  /\ lost' = lost \cup ToSet(taken[c])
  /\ taken' = [taken EXCEPT ![c] = <<>>]
  /\ UNCHANGED <<pending, logged, emitted, delivered, overlapped>>

Finishing(c) == TakePending(c) \/ Deliver(c) \/ Return(c)

Next == \E c \in Calls : Begin(c) \/ Log(c) \/ Finishing(c) \/ Drop(c)

Spec == Init /\ [][Next]_vars

\* a call gets its result, and the Dart closure's futures complete
FairSpec == Spec /\ \A c \in Calls : WF_vars(Finishing(c))

-----------------------------------------------------------------------------
(* Properties.                                                             *)

\* However the calls' logging and flushing interleave and wherever they end,
\* every line logged is in exactly one place: the buffer, one call's unfinished
\* flush, Dart's log, or lost; and lines are lost only with a flush that was cut
\* (it takes them all before it hands over the first, frb_api.rs:2931).
NothingLostNorRepeated ==
  LET places == {pending, delivered} \cup {taken[c] : c \in Calls} IN
  /\ lost \cup UNION {ToSet(s) : s \in places} = ToSet(emitted)
  /\ \A s \in places : IsInjective(s)
  /\ ToSet(pending) \cap ToSet(delivered) = {}
  /\ \A c \in Calls :
       /\ ToSet(taken[c]) \cap (ToSet(pending) \cup ToSet(delivered)) = {}
       /\ \A d \in Calls \ {c} : ToSet(taken[c]) \cap ToSet(taken[d]) = {}
  /\ \A s \in places : lost \cap ToSet(s) = {}
  /\ lost # {} => \E c \in Calls : pc[c] = "cut"

\* Every line that is in the buffer while a call is under way reaches Dart, also
\* those of a call that fails and those left by a call that was dropped, whichever
\* call's flush takes it: unless that flush is cut or the call is dropped before.
EveryLineArrives ==
  \A l \in Lines, c \in Calls :
    l \in ToSet(pending) /\ pc[c] = "working"
      ~> l \in ToSet(delivered) \cup lost \/ pc[c] = "dropped"

\* "order across calls is preserved" (frb_api.rs:31): Dart sees the lines in
\* the order in which they were logged.
OrderIsPreserved ==
  \A i, j \in DOMAIN delivered : i < j =>
    \E m, n \in DOMAIN emitted :
      m < n /\ emitted[m] = delivered[i] /\ emitted[n] = delivered[j]

\* As long as the host makes one call at a time, Dart sees the lines in the order
\* in which they were logged, whatever calls are dropped.
OrderedUntilOverlap == overlapped \/ OrderIsPreserved

\* For a host that makes one call at a time a call returns only when Dart has
\* every line logged so far, its own and those of dropped calls included, but for
\* those lost with a flush that was cut.
ReturnsDrained ==
  [][\A c \in Calls : pc[c] # "done" /\ pc'[c] = "done" /\ ~overlapped
       => ToSet(delivered) = ToSet(emitted) \ lost]_vars
=============================================================================
