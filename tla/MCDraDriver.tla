---------------------------- MODULE MCDraDriver -----------------------------
(* Instances of DraDriver for TLC: claims of each kind of handler, under     *)
(* configurations as a claim would carry them.                               *)
EXTENDS DraDriver, TLC

CONSTANTS c1, c2, c3

Own(config)   == [driver |-> "own", parses |-> TRUE, config |-> config]
Other(config) == [driver |-> "other", parses |-> TRUE, config |-> config]
Broken        == [driver |-> "own", parses |-> FALSE, config |-> DefaultConfig]

Netdev(kind, fields) == [type |-> "netdev", kind |-> kind, mode |-> "", fields |-> fields]
RoCE == [type |-> "combo", kind |-> "", mode |-> "", fields |-> {"combo"}]

\* uid[:8] of each claim.
DistinctPrefix == (c1 :> "p1") @@ (c2 :> "p2") @@ (c3 :> "p3")

\* Two claims whose UIDs agree that far.
SharedPrefix == (c1 :> "p1") @@ (c2 :> "p2") @@ (c3 :> "p1")

\* A macvlan, a veth pair, and a claim whose configuration does not decode.
CreatingConfig ==
  (c1 :> <<Other(RoCE), Own(Netdev("macvlan", {"parent"}))>>)
    @@ (c2 :> <<Own(Netdev("veth", {}))>>) @@ (c3 :> <<Broken>>)

\* An existing interface, a RoCE combination, and a device node.
TakingConfig ==
  (c1 :> <<Own(Netdev("host-device", {"hostDevice"}))>>)
    @@ (c2 :> <<Own(RoCE)>>)
    @@ (c3 :> <<Own([type |-> "rdma", kind |-> "", mode |-> "", fields |-> {}])>>)

\* c1 names an interface that exists.
ExistingLink == (c1 :> "eth7") @@ (c2 :> "none") @@ (c3 :> "none")
=============================================================================
