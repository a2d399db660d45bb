--------------------------- MODULE ClaimUIDsProofs ---------------------------
(* The scan of ClaimUIDs for annotations of any length and any shape of UUID, *)
(* the one of the code, 8-4-4-4-12, included.                                 *)
EXTENDS ClaimUIDs, TLAPS

\* Whatever the scan can take out of the annotations.
Pieces == UNION {Windows(k) : k \in DraKeys}

Typed ==
  /\ annotations \in Annotations
  /\ uuids \in Seq(Pieces) /\ uids \in Seq(Pieces) /\ IsInjective(uids)
  /\ TypeOK

\* The values behind the scan, and the part of the value in hand behind it, have
\* given up their UUIDs.
Behind ==
  /\ \A k \in DraKeys : k \notin left /\ k # key => AllFound(k, Range(uids))
  /\ key # NoKey =>
       \A j \in 1..Len(Value) :
         j < i /\ Starts(Value, j) => Window(Value, j) \in Range(uuids) \cup Range(uids)

\* Values have a length.
LEMMA Lengths ==
  ASSUME annotations \in Annotations, NEW k \in Keys
  PROVE  Len(annotations[k]) \in Nat
BY AnnotationsAssumption

\* No UUID that starts a run begins inside another one: the character in front of
\* it would be one of the other's.
LEMMA NoneInside ==
  ASSUME NEW s, NEW m \in Nat \ {0}, NEW j \in Nat, IsUUID(s, m), m < j, j < Past(m)
  PROVE  ~Starts(s, j)
<1>1. UuidLen \in Nat
  BY ShapeAssumption
<1>2. j - 1 - m \in 0..(UuidLen - 1) /\ m + (j - 1 - m) = j - 1
  BY <1>1 DEF Past
<1>3. s[j - 1] \in HexDigits \cup {Dash}
  BY <1>2 DEF IsUUID
<1>4. j # 1
  OBVIOUS
<1> QED BY <1>3 DEF Starts, Places

\* Appending adds one element to the range, keeps a sequence without duplicates
\* so if the element is new, and taking the head off loses nothing but the head.
LEMMA RangeAppend ==
  ASSUME NEW S, NEW q \in Seq(S), NEW e \in S
  PROVE  Range(Append(q, e)) = Range(q) \cup {e}
<1>1. /\ Len(Append(q, e)) = Len(q) + 1 /\ Append(q, e)[Len(q) + 1] = e
      /\ \A n \in 1..Len(q) : Append(q, e)[n] = q[n]
      /\ DOMAIN q = 1..Len(q) /\ DOMAIN Append(q, e) = 1..(Len(q) + 1)
      /\ Len(q) \in Nat
  OBVIOUS
<1> QED BY <1>1 DEF Range

LEMMA AppendInjective ==
  ASSUME NEW S, NEW q \in Seq(S), NEW e \in S, IsInjective(q), e \notin Range(q)
  PROVE  IsInjective(Append(q, e))
<1>1. /\ Append(q, e)[Len(q) + 1] = e /\ \A n \in 1..Len(q) : Append(q, e)[n] = q[n]
      /\ DOMAIN q = 1..Len(q) /\ DOMAIN Append(q, e) = 1..(Len(q) + 1)
      /\ Len(q) \in Nat
  OBVIOUS
<1>2. \A n \in 1..Len(q) : q[n] # e
  BY <1>1 DEF Range
<1> QED BY <1>1, <1>2 DEF IsInjective

LEMMA RangeTail ==
  ASSUME NEW S, NEW q \in Seq(S), q # <<>>
  PROVE  /\ Head(q) \in S /\ Tail(q) \in Seq(S)
         /\ Range(q) \subseteq Range(Tail(q)) \cup {Head(q)}
<1>1. /\ Len(q) \in Nat /\ Len(q) > 0 /\ Head(q) = q[1] /\ Tail(q) \in Seq(S)
      /\ Len(Tail(q)) = Len(q) - 1
      /\ \A n \in 1..(Len(q) - 1) : Tail(q)[n] = q[n + 1]
      /\ DOMAIN q = 1..Len(q) /\ DOMAIN Tail(q) = 1..(Len(q) - 1)
  OBVIOUS
<1>2. ASSUME NEW n \in 1..Len(q), n # 1 PROVE q[n] \in Range(Tail(q))
  <2>1. n - 1 \in 1..(Len(q) - 1) /\ Tail(q)[n - 1] = q[n]
    BY <1>1, <1>2
  <2> QED BY <1>1, <2>1 DEF Range
<1> QED BY <1>1, <1>2 DEF Range

\* Taking the head off uuids into uids loses nothing, whether it is seen already
\* or not.
LEMMA CollectKeeps ==
  ASSUME Typed, Collect
  PROVE  /\ uuids' \in Seq(Pieces) /\ uids' \in Seq(Pieces)
         /\ IsInjective(uids')
         /\ Range(uids) \subseteq Range(uids')
         /\ Range(uuids) \cup Range(uids) \subseteq Range(uuids') \cup Range(uids')
<1> USE DEF Typed, Collect
<1>1. /\ Head(uuids) \in Pieces /\ Tail(uuids) \in Seq(Pieces)
      /\ Range(uuids) \subseteq Range(Tail(uuids)) \cup {Head(uuids)}
  BY RangeTail
<1>2. CASE Unseen(Head(uuids))
  <2>1. uids' = Append(uids, Head(uuids))
    BY <1>2
  <2>2. uids' \in Seq(Pieces)
    BY <1>1, <2>1
  <2>3. Range(uids') = Range(uids) \cup {Head(uuids)}
    BY <1>1, <2>1, RangeAppend
  <2>4. IsInjective(uids')
    BY <1>1, <1>2, <2>1, AppendInjective DEF Unseen
  <2> QED BY <1>1, <2>2, <2>3, <2>4
<1>3. CASE ~Unseen(Head(uuids))
  BY <1>1, <1>3 DEF Unseen
<1> QED BY <1>2, <1>3

\* Every step keeps the types and the index inside the value.
LEMMA StepTyped == ASSUME Typed, [Next]_vars PROVE Typed'
<1> USE ShapeAssumption
<1>1. ASSUME NEW k \in Keys, NextAnnotation(k) PROVE Typed'
  <2>1. Len(annotations[k]) \in Nat
    BY Lengths DEF Typed
  <2> QED BY <1>1, <2>1 DEF NextAnnotation, Typed, TypeOK, Value, Pieces, Windows
<1>2. CASE Found
  <2>1. key \in Keys /\ Len(Value) \in Nat /\ i \in Nat \ {0}
    BY <1>2, Lengths DEF Found, Typed, TypeOK, Value
  <2>2. Window(Value, i) \in Pieces
    <3>1. key \in DraKeys /\ i \in Places(Value)
      BY <1>2, <2>1, ShapeAssumption DEF Found, InBounds, Places, Typed, TypeOK
    <3> QED BY <3>1 DEF Pieces, Windows, Value
  <2>3. uuids' \in Seq(Pieces)
    BY <1>2, <2>2 DEF Found, Typed
  <2>4. i' \in 1..(Len(Value) + 1)
    BY <1>2, <2>1 DEF Found, InBounds, Past
  <2>5. Pieces' = Pieces
    BY <1>2 DEF Found, Pieces, Windows
  <2> QED BY <1>2, <2>3, <2>4, <2>5 DEF Found, Typed, TypeOK, Value
<1>3. CASE NotFound
  <2>1. key \in Keys /\ Len(Value) \in Nat /\ i \in Nat \ {0}
    BY <1>3, Lengths DEF NotFound, Typed, TypeOK, Value
  <2>2. i' \in 1..(Len(Value) + 1)
    BY <1>3, <2>1 DEF NotFound, InBounds
  <2> QED BY <1>3, <2>2 DEF NotFound, Typed, TypeOK, Value, Pieces, Windows
<1>4. CASE Collect
  <2>1. uuids' \in Seq(Pieces) /\ uids' \in Seq(Pieces) /\ IsInjective(uids')
    BY <1>4, CollectKeeps
  <2> QED BY <1>4, <2>1 DEF Collect, Scanned, Typed, TypeOK, Value, Pieces, Windows
<1>5. CASE EndOfValue
  BY <1>5 DEF EndOfValue, Scanned, Typed, TypeOK, Value, Pieces, Windows
<1>6. CASE UNCHANGED vars
  BY <1>6 DEF vars, Typed, TypeOK, Value, Pieces, Windows
<1> QED BY <1>1, <1>2, <1>3, <1>4, <1>5, <1>6 DEF Next

\* Every step leaves nothing behind the scan.
LEMMA StepBehind == ASSUME Typed, Behind, [Next]_vars PROVE Behind'
<1> USE ShapeAssumption
<1>1. ASSUME NEW k \in Keys, NextAnnotation(k) PROVE Behind'
  <2>1. i' = 1 /\ UNCHANGED <<annotations, uuids, uids>>
    BY <1>1 DEF NextAnnotation
  <2>2. \A d \in DraKeys : d \notin left' /\ d # key' => d \notin left /\ d # key
    BY <1>1 DEF NextAnnotation
  <2> QED BY <2>1, <2>2 DEF Behind, AllFound, Value
<1>2. CASE Found
  <2>1. key \in Keys /\ Len(Value) \in Nat /\ i \in Nat \ {0}
    BY <1>2, Lengths DEF Found, Typed, TypeOK, Value
  <2>2. Window(Value, i) \in Pieces
    <3>1. key \in DraKeys /\ i \in Places(Value)
      BY <1>2, <2>1, ShapeAssumption DEF Found, InBounds, Places, Typed, TypeOK
    <3> QED BY <3>1 DEF Pieces, Windows, Value
  <2>3. Range(uuids') = Range(uuids) \cup {Window(Value, i)}
    BY <1>2, <2>2, RangeAppend DEF Found, Typed
  <2>4. ASSUME NEW j \in 1..Len(Value), j < i', Starts(Value, j)
        PROVE  Window(Value, j) \in Range(uuids') \cup Range(uids)
    <3>1. CASE j < i
      BY <1>2, <2>3, <2>4, <3>1 DEF Behind, Found
    <3>2. CASE j = i
      BY <2>3, <3>2
    <3>3. CASE i < j
      BY <1>2, <2>1, <2>4, <3>3, NoneInside DEF Found
    <3> QED BY <2>1, <3>1, <3>2, <3>3
  <2> QED BY <1>2, <2>4 DEF Found, Behind, AllFound, Value
<1>3. CASE NotFound
  <2>1. i \in Nat /\ Len(Value) \in Nat
    BY <1>3, Lengths DEF NotFound, Typed, TypeOK, Value
  <2>2. ASSUME NEW j \in 1..Len(Value), j < i', Starts(Value, j) PROVE j < i
    BY <1>3, <2>1, <2>2 DEF NotFound, Starts, Places
  <2> QED BY <1>3, <2>2 DEF NotFound, Behind, AllFound, Value
<1>4. CASE Collect
  <2>1. /\ Range(uids) \subseteq Range(uids')
        /\ Range(uuids) \cup Range(uids) \subseteq Range(uuids') \cup Range(uids')
    BY <1>4, CollectKeeps
  <2> QED BY <1>4, <2>1 DEF Collect, Behind, AllFound, Value
<1>5. CASE EndOfValue
  <2>1. key \in Keys /\ Len(Value) \in Nat /\ i \in Nat /\ Range(uuids) = {}
    BY <1>5, Lengths DEF EndOfValue, Scanned, Typed, TypeOK, Value, Range
  <2>2. ASSUME NEW j \in 1..Len(Value), Starts(Value, j) PROVE j < i
    BY <1>5, <2>1, <2>2 DEF EndOfValue, Scanned, Starts, Places, InBounds
  <2>3. AllFound(key, Range(uids))
    BY <1>5, <2>1, <2>2 DEF EndOfValue, Scanned, Behind, AllFound, Value
  <2> QED BY <1>5, <2>3 DEF EndOfValue, Behind, AllFound, Value
<1>6. CASE UNCHANGED vars
  BY <1>6 DEF vars, Behind, AllFound, Value
<1> QED BY <1>1, <1>2, <1>3, <1>4, <1>5, <1>6 DEF Next

\* Initially nothing is scanned.
LEMMA InitTyped == ASSUME Init PROVE Typed /\ Behind
BY ShapeAssumption DEF Init, Typed, TypeOK, Behind, IsInjective

\* The scan stays inside the values, whatever they are (plugin.go:259).
THEOREM TypeCorrect == Spec => []TypeOK
<1>1. Init => Typed
  BY InitTyped
<1>2. Typed /\ [Next]_vars => Typed'
  BY StepTyped
<1>3. Typed => TypeOK
  BY DEF Typed
<1> QED BY <1>1, <1>2, <1>3, PTL DEF Spec

\* Every UUID in an annotation with the prefix that no hexadecimal digit or dash
\* precedes is in the result, for values of any length and any shape of UUID
\* (plugin.go:231-266).
THEOREM EveryUidFoundHolds == Spec => []EveryUidFound
<1>1. Init => Typed /\ Behind
  BY InitTyped
<1>2. Typed /\ Behind /\ [Next]_vars => Typed' /\ Behind'
  BY StepTyped, StepBehind
<1>3. Behind => EveryUidFound
  BY ShapeAssumption DEF Behind, EveryUidFound, Done
<1> QED BY <1>1, <1>2, <1>3, PTL DEF Spec

\* The result has no duplicates, and only UUIDs that occur in annotations with the
\* prefix (plugin.go:234-251).
THEOREM ReportedOnceHolds == Spec => []ReportedOnce
<1>1. Init => Typed
  BY InitTyped
<1>2. Typed /\ [Next]_vars => Typed'
  BY StepTyped
<1>3. ASSUME Typed PROVE ReportedOnce
  <2>1. \A n \in DOMAIN uids : uids[n] \in Pieces
    BY <1>3 DEF Typed
  <2> QED BY <1>3, <2>1 DEF Typed, ReportedOnce, Range, Pieces
<1> QED BY <1>1, <1>2, <1>3, PTL DEF Spec

=============================================================================
