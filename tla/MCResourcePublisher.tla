------------------------- MODULE MCResourcePublisher -------------------------
(* Instances of ResourcePublisher for TLC: a node with a VF, a physical      *)
(* interface, a skipped one and a uverbs device; two claims for the VF, two  *)
(* for the uverbs device, one of which is a RoCE combination: the name of    *)
(* the link it creates is one that isAllocatableInterface accepts.           *)
EXTENDS ResourcePublisher, TLC

CONSTANTS vfA, vfB, rdC, roC

MCKind ==
  (vfA :> "sriov-vf") @@ (vfB :> "sriov-vf") @@ (rdC :> "uverbs") @@ (roC :> "roce")
MCSelects ==
  (vfA :> {"sriov-vf"}) @@ (vfB :> {"sriov-vf"}) @@ (rdC :> {"rdma"}) @@ (roC :> {"rdma"})
MCCreates ==
  (vfA :> NoName) @@ (vfB :> NoName) @@ (rdC :> NoName) @@ (roC :> "mvf00")
Of(f) == [c \in Claims |-> f[c]]
ClaimKind    == Of(MCKind)
ClaimSelects == Of(MCSelects)
ClaimCreates == Of(MCCreates)

\* The names inside the pods: eth1 is in use in the host as well, net1 is not.
MCPodName ==
  (vfA :> "eth1") @@ (vfB :> "net1") @@ (rdC :> "net1") @@ (roC :> "net1")
ClaimPodName == Of(MCPodName)
KeptPodName  == [c \in Claims |-> "vf0"]
=============================================================================
