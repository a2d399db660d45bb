----------------------------- MODULE ClaimUIDs ------------------------------
(***************************************************************************)
(* How the NRI plugin learns which claims a pod uses: extractClaimUIDs     *)
(* scans the pod's annotations for strings of the shape of a UUID          *)
(* (pkg/nri/plugin.go:231-290).  RdmaNetns.tla takes the result for        *)
(* granted, as ClaimsOf.                                                   *)
(*                                                                         *)
(* Characters are told apart only as far as the scan does, and the shape   *)
(* is a parameter: 36 characters with dashes after 8, 13, 18 and 23 in the *)
(* code.  Positions count from 1.                                          *)
(***************************************************************************)
EXTENDS Naturals, Sequences, Functions

CONSTANTS
  UuidLen, DashAt,  \* length of a UUID, offsets of its dashes
  HexDigits, Dash,  \* characters a UUID is made of; there may be any others
  Keys, DraKeys,    \* annotation keys, those that begin with resource.kubernetes.io/
  Annotations,      \* the annotations a pod may have: key -> value
  NoKey

ASSUME ShapeAssumption ==
  /\ UuidLen \in Nat \ {0} /\ DashAt \subseteq 0..(UuidLen - 1)
  /\ NoKey \notin Keys /\ DraKeys \subseteq Keys

ASSUME AnnotationsAssumption ==
  \A a \in Annotations : DOMAIN a = Keys /\ \A k \in Keys : Len(a[k]) \in Nat

VARIABLES
  annotations,  \* of the pod
  left,         \* keys the loop has not come to yet
  key, i,       \* the one in hand, and where the scan of its value is
  uuids,        \* found in this value
  uids          \* the result so far

vars == <<annotations, left, key, i, uuids, uids>>

Value == annotations[key]

Window(s, j) == SubSeq(s, j, j + UuidLen - 1)

\* A UUID begins at j.
IsUUID(s, j) ==
  \A k \in 0..(UuidLen - 1) :
    IF k \in DashAt THEN s[j + k] = Dash ELSE s[j + k] \in HexDigits

\* Mutant of InBounds: the last place a UUID fits in is left out.
InBoundsShort(s, j) == j + UuidLen <= Len(s)

InBounds(s, j) == j + UuidLen <= Len(s) + 1

\* Mutant of Past: the index is stepped once too often.
PastNext(j) == j + UuidLen + 1

\* The scan goes on behind the UUID.
Past(j) == j + UuidLen

\* Mutant of Unseen: duplicates are kept.
UnseenAlways(u) == TRUE

Unseen(u) == u \notin Range(uids)

Init ==
  /\ annotations \in Annotations
  /\ left = Keys /\ key = NoKey /\ i = 1 /\ uuids = <<>> /\ uids = <<>>

\* The map is ranged over in any order; other annotations are skipped.
NextAnnotation(k) ==
  /\ key = NoKey /\ k \in left
  /\ left' = left \ {k}
  /\ key' = IF k \in DraKeys THEN k ELSE NoKey
  /\ i' = 1
  /\ UNCHANGED <<annotations, uuids, uids>>

Found ==
  /\ key # NoKey /\ InBounds(Value, i) /\ IsUUID(Value, i)
  /\ uuids' = Append(uuids, Window(Value, i)) /\ i' = Past(i)
  /\ UNCHANGED <<annotations, left, key, uids>>

NotFound ==
  /\ key # NoKey /\ InBounds(Value, i) /\ ~IsUUID(Value, i)
  /\ i' = i + 1
  /\ UNCHANGED <<annotations, left, key, uuids, uids>>

Scanned == key # NoKey /\ ~InBounds(Value, i)

\* What was found in the value, one by one, without duplicates.
Collect ==
  /\ Scanned /\ uuids # <<>>
  /\ uids' = IF Unseen(Head(uuids)) THEN Append(uids, Head(uuids)) ELSE uids
  /\ uuids' = Tail(uuids)
  /\ UNCHANGED <<annotations, left, key, i>>

EndOfValue ==
  /\ Scanned /\ uuids = <<>> /\ key' = NoKey
  /\ UNCHANGED <<annotations, left, i, uuids, uids>>

Next ==
  \/ \E k \in Keys : NextAnnotation(k)
  \/ Found \/ NotFound \/ Collect \/ EndOfValue

Spec == Init /\ [][Next]_vars

-----------------------------------------------------------------------------
(* Properties. *)

Done == key = NoKey /\ left = {}

\* The index stays inside the value, or right behind it.
TypeOK ==
  /\ left \subseteq Keys
  /\ key \in DraKeys \cup {NoKey} /\ i \in Nat
  /\ key # NoKey => key \notin left /\ i \in 1..(Len(Value) + 1)
  /\ key = NoKey => uuids = <<>>

\* The places where a UUID begins, and those among them that no hexadecimal digit
\* or dash precedes.
Places(s)    == {j \in 1..Len(s) : j + UuidLen - 1 <= Len(s) /\ IsUUID(s, j)}
Starts(s, j) ==
  /\ j \in Places(s)
  /\ j = 1 \/ s[j - 1] \notin HexDigits \cup {Dash}

\* Every claim UID in the annotations is found, whatever stands around it, UUIDs
\* that overlap included: the scan never jumps over one that a comma, a quote or
\* the beginning of the value precedes (plugin.go:255-266).
AllFound(k, result) ==
  \A j \in 1..Len(annotations[k]) :
    Starts(annotations[k], j) => Window(annotations[k], j) \in result

EveryUidFound == Done => \A k \in DraKeys : AllFound(k, Range(uids))

\* Whatever is reported occurs in an annotation with the prefix, has the shape of
\* a UUID and is reported once (plugin.go:234-251).
Windows(k) == {Window(annotations[k], j) : j \in Places(annotations[k])}

ReportedOnce ==
  /\ IsInjective(uids)
  /\ Range(uids) \subseteq UNION {Windows(k) : k \in DraKeys}

=============================================================================
