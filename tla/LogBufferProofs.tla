--------------------------- MODULE LogBufferProofs ---------------------------
(***************************************************************************)
(* Proofs about LogBuffer, for any number of calls and of lines.           *)
(***************************************************************************)
EXTENDS LogBuffer, SequenceTheorems, TLAPS

-----------------------------------------------------------------------------
(* Sequences of lines.                                                     *)

\* A new element at the end.
LEMMA Appending ==
  ASSUME NEW S, NEW s \in Seq(S), NEW e \in S
  PROVE  /\ Append(s, e) \in Seq(S)
         /\ ToSet(Append(s, e)) = ToSet(s) \cup {e}
         /\ IsInjective(s) /\ e \notin ToSet(s) => IsInjective(Append(s, e))
<1>1. /\ Append(s, e) \in Seq(S) /\ Len(Append(s, e)) = Len(s) + 1
      /\ \A i \in 1..Len(s) : Append(s, e)[i] = s[i]
      /\ Append(s, e)[Len(s) + 1] = e
  BY AppendProperties
<1>2. DOMAIN s = 1..Len(s) /\ DOMAIN Append(s, e) = 1..(Len(s) + 1) /\ Len(s) \in Nat
  BY <1>1, LenProperties
<1>3. \A i \in DOMAIN Append(s, e) : i \in DOMAIN s \/ i = Len(s) + 1
  BY <1>2
<1>4. ToSet(Append(s, e)) \subseteq ToSet(s) \cup {e}
  BY <1>1, <1>2, <1>3 DEF ToSet
<1>5. ToSet(s) \cup {e} \subseteq ToSet(Append(s, e))
  <2>1. \A i \in DOMAIN s : i \in DOMAIN Append(s, e) /\ Append(s, e)[i] = s[i]
    BY <1>1, <1>2
  <2>2. Len(s) + 1 \in DOMAIN Append(s, e)
    BY <1>2
  <2> QED
    BY <1>1, <2>1, <2>2 DEF ToSet
<1>6. ASSUME IsInjective(s), e \notin ToSet(s) PROVE IsInjective(Append(s, e))
  BY <1>1, <1>2, <1>3, <1>6 DEF IsInjective, ToSet
<1> QED
  BY <1>1, <1>4, <1>5, <1>6

\* The first element is taken off.
LEMMA Heading ==
  ASSUME NEW S, NEW s \in Seq(S), s # <<>>
  PROVE  /\ Head(s) \in S /\ Tail(s) \in Seq(S)
         /\ Head(s) \in ToSet(s)
         /\ IsInjective(s) => ToSet(Tail(s)) = ToSet(s) \ {Head(s)} /\ IsInjective(Tail(s))
<1>1. /\ Head(s) \in S /\ Tail(s) \in Seq(S) /\ Len(Tail(s)) = Len(s) - 1
      /\ \A i \in 1..Len(Tail(s)) : Tail(s)[i] = s[i + 1]
  BY HeadTailProperties
<1>2. /\ Len(s) \in Nat \ {0} /\ DOMAIN s = 1..Len(s) /\ DOMAIN Tail(s) = 1..(Len(s) - 1)
      /\ Head(s) = s[1]
  BY <1>1, LenProperties, EmptySeq
<1>3. \A i \in DOMAIN Tail(s) : i + 1 \in DOMAIN s /\ i + 1 # 1 /\ Tail(s)[i] = s[i + 1]
  BY <1>1, <1>2
<1>4. \A i \in DOMAIN s : i # 1 => i - 1 \in DOMAIN Tail(s) /\ Tail(s)[i - 1] = s[i]
  BY <1>1, <1>2
<1>5. 1 \in DOMAIN s
  BY <1>2
<1>6. ASSUME IsInjective(s)
      PROVE  ToSet(Tail(s)) = ToSet(s) \ {Head(s)} /\ IsInjective(Tail(s))
  <2>1. ToSet(Tail(s)) \subseteq ToSet(s) \ {Head(s)}
    BY <1>2, <1>3, <1>5, <1>6 DEF ToSet, IsInjective
  <2>2. ToSet(s) \ {Head(s)} \subseteq ToSet(Tail(s))
    BY <1>2, <1>4 DEF ToSet
  <2>3. ASSUME NEW i \in DOMAIN Tail(s), NEW j \in DOMAIN Tail(s), Tail(s)[i] = Tail(s)[j]
        PROVE  i = j
    <3>1. i + 1 = j + 1
      BY <1>3, <1>6, <2>3 DEF IsInjective
    <3> QED
      BY <1>2, <3>1
  <2> QED
    BY <2>1, <2>2, <2>3 DEF IsInjective
<1> QED
  BY <1>1, <1>2, <1>5, <1>6 DEF ToSet

LEMMA NoLines == \A S : <<>> \in Seq(S) /\ ToSet(<<>>) = {} /\ IsInjective(<<>>)
BY EmptySeq DEF ToSet, IsInjective

-----------------------------------------------------------------------------
(* Types.                                                                  *)

LEMMA TypeInvariant == Spec => []TypeOK
<1>1. Init => TypeOK
  <2> SUFFICES ASSUME Init PROVE TypeOK
    OBVIOUS
  <2>1. <<>> \in Seq(Lines)
    BY NoLines
  <2>2. logged \in [Calls -> 0..MaxLines]
    BY BoundAssumption DEF Init
  <2> QED
    BY <2>1, <2>2 DEF Init, TypeOK
<1>2. TypeOK /\ [Next]_vars => TypeOK'
  <2> SUFFICES ASSUME TypeOK, [Next]_vars PROVE TypeOK'
    OBVIOUS
  <2>1. ASSUME NEW c \in Calls, Begin(c) PROVE TypeOK'
    BY <2>1 DEF TypeOK, Begin
  <2>2. ASSUME NEW c \in Calls, Log(c) PROVE TypeOK'
    <3> DEFINE line == <<c, logged[c] + 1>>
    <3>1. line \in Lines /\ logged' \in [Calls -> 0..MaxLines]
      BY <2>2, BoundAssumption DEF TypeOK, Log, Lines
    <3> HIDE DEF line
    <3>2. Append(pending, line) \in Seq(Lines) /\ Append(emitted, line) \in Seq(Lines)
      BY <3>1, Appending DEF TypeOK
    <3>3. /\ pending' = Append(pending, line) /\ emitted' = Append(emitted, line)
          /\ UNCHANGED <<taken, pc, delivered, lost, overlapped>>
      BY <2>2 DEF Log, line
    <3> QED
      BY <3>1, <3>2, <3>3 DEF TypeOK
  <2>3. ASSUME NEW c \in Calls, TakePending(c) PROVE TypeOK'
    BY <2>3, NoLines DEF TypeOK, TakePending
  <2>4. ASSUME NEW c \in Calls, Deliver(c) PROVE TypeOK'
    <3>1. Head(taken[c]) \in Lines /\ Tail(taken[c]) \in Seq(Lines)
      BY <2>4, Heading DEF TypeOK, Deliver
    <3>2. delivered' \in Seq(Lines)
      BY <2>4, <3>1, Appending DEF TypeOK, Deliver
    <3> QED
      BY <2>4, <3>1, <3>2 DEF TypeOK, Deliver
  <2>5. ASSUME NEW c \in Calls, Return(c) PROVE TypeOK'
    BY <2>5 DEF TypeOK, Return
  <2>6. ASSUME NEW c \in Calls, Drop(c) PROVE TypeOK'
    <3>1. ToSet(taken[c]) \subseteq Lines
      BY ElementOfSeq, LenProperties DEF TypeOK, ToSet
    <3> QED
      BY <2>6, <3>1, NoLines DEF TypeOK, Drop
  <2>7. CASE UNCHANGED vars
    BY <2>7 DEF TypeOK, vars
  <2> QED
    BY <2>1, <2>2, <2>3, <2>4, <2>5, <2>6, <2>7 DEF Next, Finishing
<1> QED
  BY <1>1, <1>2, PTL DEF Spec

\* Every variable of the log buffer keeps its type.
THEOREM TypeCorrect == Spec => []TypeOK
BY TypeInvariant

-----------------------------------------------------------------------------
(* No line is lost or repeated.                                            *)

\* The lines logged so far bear the numbers up to logged.
Numbered == \A l \in ToSet(emitted) : l[2] <= logged[l[1]]

KeptInv == TypeOK /\ Numbered /\ NothingLostNorRepeated

\* NothingLostNorRepeated, line by line, of a buffer p, flushes t, a log d at
\* Dart, the lines e that were logged and the lines x that are lost.
EachKept(p, t, d, e, x) ==
  /\ \A l : l \in ToSet(e) <=>
           \/ l \in ToSet(p) \/ l \in ToSet(d) \/ l \in x
           \/ \E c \in Calls : l \in ToSet(t[c])
  /\ IsInjective(p) /\ IsInjective(d) /\ \A c \in Calls : IsInjective(t[c])
  /\ \A l \in ToSet(p) : l \notin ToSet(d)
  /\ \A c \in Calls : \A l \in ToSet(t[c]) :
       /\ l \notin ToSet(p) /\ l \notin ToSet(d)
       /\ \A b \in Calls : b # c => l \notin ToSet(t[b])
  /\ \A l \in x : /\ l \notin ToSet(p) /\ l \notin ToSet(d)
                  /\ \A c \in Calls : l \notin ToSet(t[c])

CutLoses == lost # {} => \E c \in Calls : pc[c] = "cut"

LEMMA LineByLine ==
  /\ NothingLostNorRepeated <=>
       EachKept(pending, taken, delivered, emitted, lost) /\ CutLoses
  /\ NothingLostNorRepeated' <=>
       EachKept(pending', taken', delivered', emitted', lost') /\ CutLoses'
<1>1. ASSUME NEW p, NEW t, NEW d, NEW e, NEW x
      PROVE  LET places == {p, d} \cup {t[c] : c \in Calls} IN
             (/\ x \cup UNION {ToSet(s) : s \in places} = ToSet(e)
              /\ \A s \in places : IsInjective(s)
              /\ ToSet(p) \cap ToSet(d) = {}
              /\ \A c \in Calls :
                   /\ ToSet(t[c]) \cap (ToSet(p) \cup ToSet(d)) = {}
                   /\ \A b \in Calls \ {c} : ToSet(t[c]) \cap ToSet(t[b]) = {}
              /\ \A s \in places : x \cap ToSet(s) = {})
             <=> EachKept(p, t, d, e, x)
  <2> DEFINE places == {p, d} \cup {t[c] : c \in Calls}
  <2>1. \A l : l \in UNION {ToSet(s) : s \in places} <=>
               l \in ToSet(p) \/ l \in ToSet(d) \/ \E c \in Calls : l \in ToSet(t[c])
    OBVIOUS
  <2>2. (\A s \in places : IsInjective(s)) <=>
          IsInjective(p) /\ IsInjective(d) /\ \A c \in Calls : IsInjective(t[c])
    OBVIOUS
  <2>3. x \cup UNION {ToSet(s) : s \in places} = ToSet(e) <=>
          \A l : l \in ToSet(e) <=> l \in UNION {ToSet(s) : s \in places} \/ l \in x
    OBVIOUS
  <2>4. ToSet(p) \cap ToSet(d) = {} <=> \A l \in ToSet(p) : l \notin ToSet(d)
    OBVIOUS
  <2>5. (\A c \in Calls :
          /\ ToSet(t[c]) \cap (ToSet(p) \cup ToSet(d)) = {}
          /\ \A b \in Calls \ {c} : ToSet(t[c]) \cap ToSet(t[b]) = {})
        <=> \A c \in Calls : \A l \in ToSet(t[c]) :
              /\ l \notin ToSet(p) /\ l \notin ToSet(d)
              /\ \A b \in Calls : b # c => l \notin ToSet(t[b])
    OBVIOUS
  <2>6. (\A s \in places : x \cap ToSet(s) = {}) <=>
          \A l \in x : /\ l \notin ToSet(p) /\ l \notin ToSet(d)
                      /\ \A c \in Calls : l \notin ToSet(t[c])
    OBVIOUS
  <2> HIDE DEF places
  <2>7. (/\ x \cup UNION {ToSet(s) : s \in places} = ToSet(e)
         /\ \A s \in places : IsInjective(s)
         /\ ToSet(p) \cap ToSet(d) = {}
         /\ \A c \in Calls :
              /\ ToSet(t[c]) \cap (ToSet(p) \cup ToSet(d)) = {}
              /\ \A b \in Calls \ {c} : ToSet(t[c]) \cap ToSet(t[b]) = {}
         /\ \A s \in places : x \cap ToSet(s) = {})
        <=> EachKept(p, t, d, e, x)
    BY <2>1, <2>2, <2>3, <2>4, <2>5, <2>6 DEF EachKept
  <2> QED
    BY <2>7 DEF places
<1>2. NothingLostNorRepeated <=>
        EachKept(pending, taken, delivered, emitted, lost) /\ CutLoses
  BY <1>1, Zenon DEF NothingLostNorRepeated, CutLoses
<1>3. NothingLostNorRepeated' <=>
        EachKept(pending', taken', delivered', emitted', lost') /\ CutLoses'
  BY <1>1, Zenon DEF NothingLostNorRepeated, CutLoses
<1> QED
  BY <1>2, <1>3

\* A call that was cut stays so.
LEMMA StaysCut ==
  ASSUME TypeOK, CutLoses, Next, lost' = lost
  PROVE  CutLoses'
<1>1. ASSUME NEW c \in Calls, pc[c] = "cut" PROVE pc'[c] = "cut"
  BY <1>1 DEF Next, Finishing, Begin, Log, TakePending, Deliver, Return, Drop, TypeOK
<1> QED
  BY <1>1 DEF CutLoses

LEMMA LogKeeps ==
  ASSUME KeptInv, NEW c \in Calls, Log(c)
  PROVE  Numbered' /\ NothingLostNorRepeated'
<1> DEFINE line == <<c, logged[c] + 1>>
<1>1. line \in Lines /\ line[1] = c /\ line[2] = logged[c] + 1
  BY BoundAssumption DEF KeptInv, TypeOK, Log, Lines
<1>2. line \notin ToSet(emitted)
  BY <1>1 DEF KeptInv, Numbered, TypeOK
<1> HIDE DEF line
<1>3. /\ pending' = Append(pending, line) /\ emitted' = Append(emitted, line)
      /\ logged' = [logged EXCEPT ![c] = @ + 1]
      /\ UNCHANGED <<taken, pc, delivered, lost, overlapped>>
  BY DEF Log, line
<1>4. /\ ToSet(pending') = ToSet(pending) \cup {line}
      /\ ToSet(emitted') = ToSet(emitted) \cup {line}
  BY <1>1, <1>3, Appending DEF KeptInv, TypeOK
<1>5. /\ line \notin ToSet(pending) /\ line \notin ToSet(delivered)
      /\ line \notin lost /\ \A d \in Calls : line \notin ToSet(taken[d])
  BY <1>2, LineByLine DEF KeptInv, EachKept
<1>6. IsInjective(pending')
  BY <1>1, <1>3, <1>5, Appending, LineByLine DEF KeptInv, TypeOK, EachKept
<1>7. Numbered'
  <2>1. \A d \in Calls : logged[d] \in Nat /\ logged'[d] \in Nat /\ logged[d] <= logged'[d]
    BY <1>3, BoundAssumption DEF KeptInv, TypeOK
  <2>2. line[2] <= logged'[line[1]]
    BY <1>1, <1>3 DEF KeptInv, TypeOK
  <2>3. \A l \in ToSet(emitted) : l[1] \in Calls /\ l[2] \in Nat
    BY ElementOfSeq, LenProperties DEF KeptInv, TypeOK, ToSet, Lines
  <2>4. \A l \in ToSet(emitted) : l[2] <= logged'[l[1]]
    BY <2>1, <2>3 DEF KeptInv, Numbered
  <2> QED
    BY <1>4, <2>2, <2>4 DEF Numbered
<1>8. EachKept(pending', taken', delivered', emitted', lost')
  <2>1. EachKept(pending, taken, delivered, emitted, lost)
    BY LineByLine DEF KeptInv
  <2>2. \A l : l \in ToSet(emitted') <=> \/ l \in ToSet(pending') \/ l \in ToSet(delivered') \/ l \in lost'
                                        \/ \E d \in Calls : l \in ToSet(taken'[d])
    BY <1>3, <1>4, <2>1 DEF EachKept
  <2>3. \A l \in ToSet(pending') : l \notin ToSet(delivered')
    BY <1>3, <1>4, <1>5, <2>1 DEF EachKept
  <2>4. ASSUME NEW d \in Calls, NEW l \in ToSet(taken'[d])
        PROVE  /\ l \notin ToSet(pending') /\ l \notin ToSet(delivered')
               /\ \A b \in Calls : b # d => l \notin ToSet(taken'[b])
    <3>1. l \in ToSet(taken[d]) /\ \A b \in Calls : b # d => l \notin ToSet(taken[b])
      BY <1>3, <2>1, <2>4 DEF EachKept
    <3>2. l \notin ToSet(pending) /\ l \notin ToSet(delivered) /\ l # line
      BY <1>5, <2>1, <3>1 DEF EachKept
    <3> QED
      BY <1>3, <1>4, <3>1, <3>2
  <2>5. \A l \in lost' : /\ l \notin ToSet(pending') /\ l \notin ToSet(delivered')
                       /\ \A d \in Calls : l \notin ToSet(taken'[d])
    BY <1>3, <1>4, <1>5, <2>1 DEF EachKept
  <2>6. IsInjective(delivered') /\ \A d \in Calls : IsInjective(taken'[d])
    BY <1>3, <2>1 DEF EachKept
  <2> QED
    BY <1>6, <2>2, <2>3, <2>4, <2>5, <2>6 DEF EachKept
<1> QED
  BY <1>3, <1>7, <1>8, StaysCut, LineByLine DEF KeptInv, Next

LEMMA TakeKeeps ==
  ASSUME KeptInv, NEW c \in Calls, TakePending(c)
  PROVE  Numbered' /\ NothingLostNorRepeated'
<1>1. /\ pending' = <<>> /\ UNCHANGED <<logged, emitted, delivered, lost>>
      /\ \A d \in Calls : taken'[d] = IF d = c THEN pending ELSE taken[d]
      /\ taken[c] = <<>>
  BY DEF TakePending, KeptInv, TypeOK
<1>2. ToSet(<<>>) = {} /\ IsInjective(<<>>)
  BY NoLines
<1>3. EachKept(pending', taken', delivered', emitted', lost')
  BY <1>1, <1>2, LineByLine DEF KeptInv, EachKept
<1> QED
  BY <1>1, <1>3, StaysCut, LineByLine DEF KeptInv, Numbered, Next, Finishing

LEMMA DeliverKeeps ==
  ASSUME KeptInv, NEW c \in Calls, Deliver(c)
  PROVE  Numbered' /\ NothingLostNorRepeated'
<1> DEFINE line == Head(taken[c])
<1>1. /\ taken[c] \in Seq(Lines) /\ taken[c] # <<>> /\ delivered \in Seq(Lines)
      /\ IsInjective(taken[c]) /\ IsInjective(delivered)
  BY LineByLine DEF Deliver, KeptInv, TypeOK, EachKept
<1>2. /\ line \in Lines /\ line \in ToSet(taken[c])
      /\ ToSet(Tail(taken[c])) = ToSet(taken[c]) \ {line} /\ IsInjective(Tail(taken[c]))
  BY <1>1, Heading
<1> HIDE DEF line
<1>3. /\ delivered' = Append(delivered, line)
      /\ \A d \in Calls : taken'[d] = IF d = c THEN Tail(taken[c]) ELSE taken[d]
      /\ UNCHANGED <<pending, logged, emitted, lost>>
  BY DEF Deliver, KeptInv, TypeOK, line
<1>4. line \notin ToSet(delivered) /\ line \notin ToSet(pending) /\ line \notin lost
  BY <1>2, LineByLine DEF KeptInv, EachKept
<1>5. ToSet(delivered') = ToSet(delivered) \cup {line} /\ IsInjective(delivered')
  BY <1>1, <1>2, <1>3, <1>4, Appending
<1>6. \A d \in Calls : d # c => line \notin ToSet(taken[d])
  BY <1>2, LineByLine DEF KeptInv, EachKept
<1>7. EachKept(pending', taken', delivered', emitted', lost')
  <2>1. EachKept(pending, taken, delivered, emitted, lost)
    BY LineByLine DEF KeptInv
  <2>2. \A d \in Calls : IsInjective(taken'[d])
    BY <1>2, <1>3, <2>1 DEF EachKept
  <2>3. \A l : l \in ToSet(emitted') <=> \/ l \in ToSet(pending') \/ l \in ToSet(delivered') \/ l \in lost'
                                        \/ \E d \in Calls : l \in ToSet(taken'[d])
    BY <1>2, <1>3, <1>5, <2>1 DEF EachKept
  <2>4. \A d \in Calls : ToSet(taken'[d]) = ToSet(taken[d]) \ {line}
    BY <1>2, <1>3, <1>6
  <2>5. ASSUME NEW d \in Calls, NEW l \in ToSet(taken'[d])
        PROVE  /\ l \notin ToSet(pending') /\ l \notin ToSet(delivered')
               /\ \A b \in Calls : b # d => l \notin ToSet(taken'[b])
    <3>1. l \in ToSet(taken[d]) /\ l # line /\ \A b \in Calls : ToSet(taken'[b]) \subseteq ToSet(taken[b])
      BY <2>4, <2>5
    <3>2. /\ l \notin ToSet(pending) /\ l \notin ToSet(delivered)
          /\ \A b \in Calls : b # d => l \notin ToSet(taken[b])
      BY <2>1, <3>1 DEF EachKept
    <3> QED
      BY <1>3, <1>5, <3>1, <3>2
  <2>6. \A l \in lost' : /\ l \notin ToSet(pending') /\ l \notin ToSet(delivered')
                       /\ \A d \in Calls : l \notin ToSet(taken'[d])
    BY <1>3, <1>4, <1>5, <2>1, <2>4 DEF EachKept
  <2>7. IsInjective(pending') /\ \A l \in ToSet(pending') : l \notin ToSet(delivered')
    BY <1>3, <1>4, <1>5, <2>1 DEF EachKept
  <2> QED
    BY <1>5, <2>2, <2>3, <2>5, <2>6, <2>7 DEF EachKept
<1> QED
  BY <1>3, <1>7, StaysCut, LineByLine DEF KeptInv, Numbered, Next, Finishing

LEMMA DropKeeps ==
  ASSUME KeptInv, NEW c \in Calls, Drop(c)
  PROVE  Numbered' /\ NothingLostNorRepeated'
<1>1. /\ lost' = lost \cup ToSet(taken[c]) /\ UNCHANGED <<pending, logged, emitted, delivered>>
      /\ \A d \in Calls : taken'[d] = IF d = c THEN <<>> ELSE taken[d]
  BY DEF Drop, KeptInv, TypeOK
<1>2. ToSet(<<>>) = {} /\ IsInjective(<<>>)
  BY NoLines
<1>3. EachKept(pending, taken, delivered, emitted, lost) /\ CutLoses
  BY LineByLine DEF KeptInv
<1>4. EachKept(pending', taken', delivered', emitted', lost')
  BY <1>1, <1>2, <1>3 DEF EachKept
<1>5. CutLoses'
  <2>1. CASE pc[c] = "flushing"
    BY <2>1 DEF Drop, CutLoses, KeptInv, TypeOK
  <2>2. CASE pc[c] = "working"
    <3>1. lost' = lost
      BY <1>1, <1>2, <2>2 DEF KeptInv, TypeOK
    <3> QED
      BY <1>3, <3>1, StaysCut DEF KeptInv, Next
  <2> QED
    BY <2>1, <2>2 DEF Drop
<1> QED
  BY <1>1, <1>4, <1>5, LineByLine DEF KeptInv, Numbered

\* Every line logged is in exactly one place, for any number of calls, wherever
\* they end; only a flush that is cut loses lines.
THEOREM LinesAreKept == Spec => []NothingLostNorRepeated
<1>1. Init => Numbered /\ NothingLostNorRepeated
  BY NoLines DEF Init, Numbered, NothingLostNorRepeated
<1>2. KeptInv /\ [Next]_vars => Numbered' /\ NothingLostNorRepeated'
  <2> SUFFICES ASSUME KeptInv, [Next]_vars PROVE Numbered' /\ NothingLostNorRepeated'
    OBVIOUS
  <2>1. CASE UNCHANGED vars
    BY <2>1 DEF KeptInv, Numbered, NothingLostNorRepeated, vars
  <2>2. ASSUME NEW c \in Calls, Begin(c) \/ Return(c)
        PROVE  Numbered' /\ NothingLostNorRepeated'
    <3>1. UNCHANGED <<pending, taken, logged, emitted, delivered, lost>>
      BY <2>2 DEF Begin, Return
    <3>2. EachKept(pending', taken', delivered', emitted', lost')
      BY <3>1, LineByLine DEF KeptInv
    <3>3. CutLoses'
      BY <2>2, <3>1, StaysCut, LineByLine DEF KeptInv, Next, Finishing
    <3> QED
      BY <3>1, <3>2, <3>3, LineByLine DEF KeptInv, Numbered
  <2> QED
    BY <2>1, <2>2, LogKeeps, TakeKeeps, DeliverKeeps, DropKeeps DEF Next, Finishing
<1>3. KeptInv => NothingLostNorRepeated
  BY DEF KeptInv
<1> QED
  BY <1>1, <1>2, <1>3, TypeInvariant, PTL DEF Spec, KeptInv

LEMMA KeptInvariant == Spec => []KeptInv
<1>1. Init => Numbered
  BY NoLines DEF Init, Numbered
<1>2. KeptInv /\ [Next]_vars => Numbered'
  <2>1. KeptInv /\ UNCHANGED vars => Numbered'
    BY DEF KeptInv, Numbered, vars
  <2>2. ASSUME KeptInv, NEW c \in Calls, Begin(c) \/ Return(c) PROVE Numbered'
    BY <2>2 DEF KeptInv, Numbered, Begin, Return
  <2> QED
    BY <2>1, <2>2, LogKeeps, TakeKeeps, DeliverKeeps, DropKeeps DEF Next, Finishing
<1> QED
  BY <1>1, <1>2, TypeInvariant, LinesAreKept, PTL DEF Spec, KeptInv

-----------------------------------------------------------------------------
(* The order, for a host that makes one call at a time.                    *)

\* In the log e, line l was logged before line m.
Before(e, l, m) == \E i, j \in DOMAIN e : i < j /\ e[i] = l /\ e[j] = m

\* The lines of s are in the order of e; those of s all come before those of t.
Sorted(e, s) == \A i, j \in DOMAIN s : i < j => Before(e, s[i], s[j])
Ahead(e, s, t) == \A l \in ToSet(s), m \in ToSet(t) : Before(e, l, m)

LEMMA OrderGrows ==
  ASSUME NEW e \in Seq(Lines), NEW line \in Lines
  PROVE  /\ \A l, m : Before(e, l, m) => Before(Append(e, line), l, m)
         /\ \A l \in ToSet(e) : Before(Append(e, line), l, line)
<1>1. /\ Len(Append(e, line)) = Len(e) + 1 /\ Len(e) \in Nat
      /\ DOMAIN e = 1..Len(e) /\ DOMAIN Append(e, line) = 1..(Len(e) + 1)
      /\ \A i \in 1..Len(e) : Append(e, line)[i] = e[i]
      /\ Append(e, line)[Len(e) + 1] = line
  BY AppendProperties, LenProperties
<1>2. ASSUME NEW l, NEW m, Before(e, l, m) PROVE Before(Append(e, line), l, m)
  BY <1>1, <1>2 DEF Before
<1>3. ASSUME NEW l \in ToSet(e) PROVE Before(Append(e, line), l, line)
  <2>1. PICK i \in 1..Len(e) : e[i] = l
    BY <1>1 DEF ToSet
  <2>2. /\ i \in DOMAIN Append(e, line) /\ Len(e) + 1 \in DOMAIN Append(e, line)
        /\ i < Len(e) + 1 /\ Append(e, line)[i] = l
    BY <1>1, <2>1
  <2> QED
    BY <1>1, <2>2 DEF Before
<1> QED
  BY <1>2, <1>3

LEMMA SortedAppend ==
  ASSUME NEW e, NEW s \in Seq(Lines), NEW x \in Lines, Sorted(e, s),
         \A l \in ToSet(s) : Before(e, l, x)
  PROVE  Sorted(e, Append(s, x))
<1>1. /\ Len(s) \in Nat /\ DOMAIN s = 1..Len(s) /\ DOMAIN Append(s, x) = 1..(Len(s) + 1)
      /\ \A i \in 1..Len(s) : Append(s, x)[i] = s[i]
      /\ Append(s, x)[Len(s) + 1] = x
  BY AppendProperties, LenProperties
<1>2. ASSUME NEW i \in DOMAIN Append(s, x), NEW j \in DOMAIN Append(s, x), i < j
      PROVE  Before(e, Append(s, x)[i], Append(s, x)[j])
  <2>1. i \in DOMAIN s
    BY <1>1, <1>2
  <2>2. CASE j \in DOMAIN s
    BY <1>1, <1>2, <2>1, <2>2 DEF Sorted
  <2>3. CASE j = Len(s) + 1
    BY <1>1, <2>1, <2>3 DEF ToSet
  <2> QED
    BY <1>1, <2>2, <2>3
<1> QED
  BY <1>2 DEF Sorted

LEMMA SortedTail ==
  ASSUME NEW e, NEW s \in Seq(Lines), s # <<>>, Sorted(e, s)
  PROVE  /\ Sorted(e, Tail(s)) /\ ToSet(Tail(s)) \subseteq ToSet(s)
         /\ \A l \in ToSet(Tail(s)) : Before(e, Head(s), l)
<1>1. /\ Tail(s) \in Seq(Lines) /\ Len(Tail(s)) = Len(s) - 1
      /\ \A i \in 1..Len(Tail(s)) : Tail(s)[i] = s[i + 1]
  BY HeadTailProperties
<1>2. /\ Len(s) \in Nat \ {0} /\ DOMAIN s = 1..Len(s) /\ DOMAIN Tail(s) = 1..(Len(s) - 1)
      /\ Head(s) = s[1]
  BY <1>1, LenProperties, EmptySeq
<1>3. \A i \in DOMAIN Tail(s) : i + 1 \in DOMAIN s /\ 1 < i + 1 /\ Tail(s)[i] = s[i + 1]
  BY <1>1, <1>2
<1>4. Sorted(e, Tail(s))
  BY <1>2, <1>3 DEF Sorted
<1>5. ToSet(Tail(s)) \subseteq ToSet(s)
  BY <1>3 DEF ToSet
<1>6. 1 \in DOMAIN s
  BY <1>2
<1>7. \A l \in ToSet(Tail(s)) : Before(e, Head(s), l)
  BY <1>2, <1>3, <1>6 DEF ToSet, Sorted
<1> QED
  BY <1>4, <1>5, <1>7

\* While no two calls overlapped, what Dart has, what the one call under way
\* still hands over and what is in the buffer come in this order in the log, and
\* a flush leaves nothing in the buffer.
InOrder(d, t, p, e) ==
  /\ Sorted(e, d) /\ Sorted(e, p) /\ Ahead(e, d, p)
  /\ \A c \in Calls : Sorted(e, t[c]) /\ Ahead(e, d, t[c]) /\ Ahead(e, t[c], p)

InLine ==
  ~overlapped =>
    /\ \A c, d \in UnderWay : c = d
    /\ \A c \in UnderWay : pc[c] = "flushing" => pending = <<>>
    /\ InOrder(delivered, taken, pending, emitted)

LEMMA NoneInOrder ==
  \A e, s : Sorted(e, <<>>) /\ Ahead(e, <<>>, s) /\ Ahead(e, s, <<>>)
BY NoLines DEF Sorted, Ahead

\* The call under way is the only one, and no other holds lines.
LEMMA Alone ==
  ASSUME TypeOK, InLine, ~overlapped, NEW c \in Calls, pc[c] \in {"working", "flushing"}
  PROVE  UnderWay = {c} /\ \A d \in Calls \ {c} : taken[d] = <<>>
BY DEF InLine, UnderWay, TypeOK

LEMMA LogInLine ==
  ASSUME KeptInv, InLine, ~overlapped, NEW c \in Calls, Log(c)
  PROVE  InLine'
<1> DEFINE line == <<c, logged[c] + 1>>
<1>1. line \in Lines
  BY BoundAssumption DEF Log, Lines, KeptInv, TypeOK
<1> HIDE DEF line
<1>2. /\ pc[c] = "working" /\ UNCHANGED <<taken, pc, delivered, overlapped>>
      /\ pending' = Append(pending, line) /\ emitted' = Append(emitted, line)
  BY DEF Log, line
<1>3. /\ ToSet(pending) \subseteq ToSet(emitted) /\ ToSet(delivered) \subseteq ToSet(emitted)
      /\ \A d \in Calls : ToSet(taken[d]) \subseteq ToSet(emitted)
  BY LineByLine DEF KeptInv, EachKept
<1>4. /\ \A l, m : Before(emitted, l, m) => Before(emitted', l, m)
      /\ \A l \in ToSet(emitted) : Before(emitted', l, line)
  BY <1>1, <1>2, OrderGrows DEF KeptInv, TypeOK
<1>5. /\ \A s : Sorted(emitted, s) => Sorted(emitted', s)
      /\ \A s, t : Ahead(emitted, s, t) => Ahead(emitted', s, t)
  BY <1>4 DEF Sorted, Ahead
<1>6. InOrder(delivered, taken, pending, emitted)
  BY DEF InLine
<1>7. ToSet(pending') = ToSet(pending) \cup {line} /\ Sorted(emitted', pending')
  <2>1. ToSet(pending') = ToSet(pending) \cup {line}
    BY <1>1, <1>2, Appending DEF KeptInv, TypeOK
  <2>2. Sorted(emitted', Append(pending, line))
    <3>1. pending \in Seq(Lines) /\ Sorted(emitted', pending)
      BY <1>5, <1>6 DEF InOrder, KeptInv, TypeOK
    <3>2. \A l \in ToSet(pending) : Before(emitted', l, line)
      BY <1>3, <1>4
    <3> QED
      BY <1>1, <3>1, <3>2, SortedAppend
  <2> QED
    BY <1>2, <2>1, <2>2
<1>8. ASSUME NEW s, Ahead(emitted, s, pending), ToSet(s) \subseteq ToSet(emitted)
      PROVE  Ahead(emitted', s, pending')
  BY <1>4, <1>7, <1>8 DEF Ahead
<1>9. InOrder(delivered', taken', pending', emitted')
  BY <1>2, <1>3, <1>5, <1>6, <1>7, <1>8 DEF InOrder
<1> QED
  BY <1>2, <1>9, Alone DEF InLine, UnderWay, KeptInv

LEMMA DeliverInLine ==
  ASSUME TypeOK, InLine, ~overlapped, NEW c \in Calls, Deliver(c)
  PROVE  InLine'
<1> DEFINE line == Head(taken[c])
<1>1. /\ pc[c] = "flushing" /\ taken[c] # <<>> /\ taken[c] \in Seq(Lines)
      /\ UNCHANGED <<pending, pc, emitted, overlapped>> /\ delivered \in Seq(Lines)
      /\ delivered' = Append(delivered, line)
      /\ \A d \in Calls : taken'[d] = IF d = c THEN Tail(taken[c]) ELSE taken[d]
  BY DEF Deliver, TypeOK
<1>2. line \in Lines /\ line \in ToSet(taken[c])
  BY <1>1, Heading
<1>3. InOrder(delivered, taken, pending, emitted)
  BY DEF InLine
<1>4. /\ Sorted(emitted, Tail(taken[c])) /\ ToSet(Tail(taken[c])) \subseteq ToSet(taken[c])
      /\ \A l \in ToSet(Tail(taken[c])) : Before(emitted, line, l)
  BY <1>1, <1>3, SortedTail DEF InOrder
<1> HIDE DEF line
<1>5. ToSet(delivered') = ToSet(delivered) \cup {line} /\ Sorted(emitted, delivered')
  <2>1. \A l \in ToSet(delivered) : Before(emitted, l, line)
    BY <1>2, <1>3 DEF InOrder, Ahead
  <2>2. Sorted(emitted, Append(delivered, line))
    BY <1>1, <1>2, <1>3, <2>1, SortedAppend DEF InOrder
  <2> QED
    BY <1>1, <1>2, <2>2, Appending
<1>6. Ahead(emitted, delivered', pending)
  BY <1>2, <1>3, <1>5 DEF InOrder, Ahead
<1>7. Ahead(emitted, delivered', Tail(taken[c])) /\ Ahead(emitted, Tail(taken[c]), pending)
  BY <1>3, <1>4, <1>5 DEF InOrder, Ahead
<1>8. \A d \in Calls \ {c} : taken[d] = <<>>
  BY <1>1, Alone
<1>9. InOrder(delivered', taken', pending', emitted')
  BY <1>1, <1>3, <1>4, <1>5, <1>6, <1>7, <1>8, NoneInOrder DEF InOrder
<1> QED
  BY <1>1, <1>9, Alone DEF InLine, UnderWay

LEMMA InLineStep ==
  ASSUME KeptInv, InLine, Next
  PROVE  InLine'
<1>0. overlapped => overlapped'
  BY DEF Next, Finishing, Begin, Log, TakePending, Deliver, Return, Drop
<1> SUFFICES ASSUME ~overlapped, ~overlapped' PROVE InLine'
  BY <1>0 DEF InLine
<1>1. ASSUME NEW c \in Calls, Begin(c) PROVE InLine'
  <2>1. /\ UnderWay' = {c} /\ UNCHANGED <<pending, taken, emitted, delivered>>
        /\ pc'[c] = "working"
    BY <1>1 DEF Begin, UnderWay, KeptInv, TypeOK
  <2> QED
    BY <2>1 DEF InLine
<1>2. ASSUME NEW c \in Calls, TakePending(c) PROVE InLine'
  <2>1. /\ pc[c] = "working" /\ UnderWay' = UnderWay /\ pending' = <<>>
        /\ UNCHANGED <<emitted, delivered>>
        /\ \A d \in Calls : taken'[d] = IF d = c THEN pending ELSE taken[d]
    BY <1>2 DEF TakePending, UnderWay, KeptInv, TypeOK
  <2>2. InOrder(delivered', taken', pending', emitted')
    BY <2>1, NoneInOrder DEF InLine, InOrder
  <2> QED
    BY <2>1, <2>2 DEF InLine
<1>3. ASSUME NEW c \in Calls, Return(c) \/ Drop(c) PROVE InLine'
  <2>1. /\ UnderWay' \subseteq UnderWay /\ UNCHANGED <<pending, emitted, delivered>>
        /\ \A d \in UnderWay' : pc'[d] = pc[d]
        /\ \A d \in Calls : taken'[d] \in {taken[d], <<>>}
    BY <1>3 DEF Return, Drop, UnderWay, KeptInv, TypeOK
  <2>2. InOrder(delivered', taken', pending', emitted')
    BY <2>1, NoneInOrder DEF InLine, InOrder
  <2> QED
    BY <2>1, <2>2 DEF InLine
<1> QED
  BY <1>1, <1>2, <1>3, LogInLine, DeliverInLine DEF Next, Finishing, KeptInv

LEMMA InLineInvariant == Spec => [](KeptInv /\ InLine)
<1>1. Init => InLine
  <2> SUFFICES ASSUME Init PROVE InLine
    OBVIOUS
  <2>1. UnderWay = {} /\ delivered = <<>> /\ pending = <<>> /\ \A c \in Calls : taken[c] = <<>>
    BY DEF Init, UnderWay
  <2> QED
    BY <2>1, NoneInOrder DEF InLine, InOrder
<1>2. KeptInv /\ InLine /\ [Next]_vars => InLine'
  <2>1. KeptInv /\ InLine /\ UNCHANGED vars => InLine'
    BY DEF vars, InLine, UnderWay
  <2> QED
    BY <2>1, InLineStep
<1> QED
  BY <1>1, <1>2, KeptInvariant, PTL DEF Spec

\* As long as the host makes one call at a time, Dart sees the lines in the order
\* in which they were logged, whatever calls are dropped.
THEOREM OrderHoldsUntilOverlap == Spec => []OrderedUntilOverlap
<1>1. KeptInv /\ InLine => OrderedUntilOverlap
  <2> SUFFICES ASSUME InLine, ~overlapped PROVE OrderIsPreserved
    BY DEF OrderedUntilOverlap
  <2>1. Sorted(emitted, delivered)
    BY DEF InLine, InOrder
  <2> QED
    BY <2>1 DEF Sorted, Before, OrderIsPreserved
<1> QED
  BY InLineInvariant, <1>1, PTL

\* For such a host a call returns only when Dart has every line logged so far
\* that was not lost with a flush that was cut.
THEOREM CallsReturnDrained == Spec => ReturnsDrained
<1>1. ASSUME KeptInv, InLine, [Next]_vars, NEW c \in Calls, pc[c] # "done", pc'[c] = "done",
             ~overlapped
      PROVE  ToSet(delivered) = ToSet(emitted) \ lost
  <2>1. Return(c)
    BY <1>1 DEF Next, Finishing, Begin, Log, TakePending, Deliver, Return, Drop, vars, KeptInv, TypeOK
  <2>2. c \in UnderWay /\ pc[c] = "flushing" /\ taken[c] = <<>>
    BY <2>1 DEF Return, UnderWay
  <2>3. pending = <<>> /\ \A d \in Calls : taken[d] = <<>>
    BY <1>1, <2>2, Alone DEF InLine, KeptInv
  <2>4. ToSet(pending) = {} /\ \A d \in Calls : ToSet(taken[d]) = {}
    BY <2>3, NoLines
  <2> QED
    BY <1>1, <2>4, LineByLine DEF KeptInv, EachKept
<1>2. KeptInv /\ InLine /\ [Next]_vars =>
        [\A c \in Calls : pc[c] # "done" /\ pc'[c] = "done" /\ ~overlapped
           => ToSet(delivered) = ToSet(emitted) \ lost]_vars
  BY <1>1
<1> QED
  BY InLineInvariant, <1>2, PTL DEF Spec, ReturnsDrained
=============================================================================
