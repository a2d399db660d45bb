---------------------------- MODULE MCClaimUIDs -----------------------------
(* Instance of ClaimUIDs for TLC: UUIDs of the shape "a-b", every value of a *)
(* few characters under one key, a UUID under another and under a foreign    *)
(* one.                                                                      *)
EXTENDS ClaimUIDs

CONSTANTS one, two, foreign, MaxLen

Chars == {"a", "b", "-", ","}

MCAnnotations ==
  {[k \in Keys |-> CASE k = one     -> v
                     [] k = two     -> <<"a", "-", "b">>
                     [] k = foreign -> <<"b", "-", "b">>] :
     v \in UNION {[1..n -> Chars] : n \in 0..MaxLen}}
=============================================================================
