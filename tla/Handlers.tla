------------------------------ MODULE Handlers ------------------------------
(***************************************************************************)
(* The device handlers (pkg/handler), the registry that dispatches to them *)
(* and the parsing of a claim's configuration (pkg/driver).  No state: a   *)
(* handler is a record saying what its Prepare and Unprepare do to the     *)
(* node's network interfaces, and DraDriver.tla performs the effects.      *)
(***************************************************************************)
EXTENDS Naturals, Sequences

(***************************************************************************)
(* A handler:                                                              *)
(*   needs   configuration fields that Validate or Prepare insists on      *)
(*   modes   values of "mode" that Prepare accepts ({}: mode is not read)  *)
(*   makes   prefix of the interface name Prepare generates and LinkAdds,  *)
(*           completed with claimUID[:8]; "" when it creates nothing.  What *)
(*           was created is what Unprepare deletes                         *)
(*   takes   Prepare hands over an interface that exists already, and      *)
(*           Unprepare leaves it in place                                  *)
(*   keeps   what is taken keeps its name inside the pod if the claim does *)
(*           not give it one (the default name is eth1 otherwise)          *)
(*   pair    a second end stays in the host and dies with the first        *)
(*   names   AllocationInfo.DeviceName is set                              *)
(***************************************************************************)
Plain(type, kind) ==
  [type |-> type, kind |-> kind, needs |-> {}, modes |-> {},
   makes |-> "", takes |-> FALSE, keeps |-> FALSE, pair |-> FALSE, names |-> TRUE]

DummyHandler == [Plain("netdev", "dummy") EXCEPT !.makes = "dm"]

MacvlanHandler == [Plain("netdev", "macvlan") EXCEPT
                     !.makes = "mv", !.needs = {"parent"},
                     !.modes = {"", "bridge", "vepa", "private"}]

IpvlanHandler == [Plain("netdev", "ipvlan") EXCEPT
                    !.makes = "iv", !.needs = {"parent"}, !.modes = {"", "l2", "l3"}]

\* The host end vh<uid> is the one recorded and deleted; the container end
\* vc<uid> is the one CDI moves.
VethHandler == [Plain("netdev", "veth") EXCEPT !.makes = "vh", !.pair = TRUE]

IpoibHandler == [Plain("netdev", "ipoib") EXCEPT
                   !.makes = "ib", !.needs = {"parent", "pkey"},
                   !.modes = {"", "datagram", "connected"}]

SriovVfHandler == [Plain("netdev", "sriov-vf") EXCEPT !.takes = TRUE]

HostDeviceHandler == [Plain("netdev", "host-device") EXCEPT
                        !.takes = TRUE, !.keeps = TRUE, !.needs = {"hostDevice"}]

\* A device node, no interface.  (The exclusive-mode namespace move is not
\* part of this module.)
UverbsHandler == Plain("rdma", "uverbs")

\* An uverbs device and a dummy interface.  The AllocationInfo it returns
\* leaves DeviceName empty.
RoCEHandler == [Plain("combo", "roce") EXCEPT
                  !.makes = "dm", !.needs = {"combo"}, !.names = FALSE]

HandlerRegistry == {MacvlanHandler, IpvlanHandler, VethHandler, SriovVfHandler,
                    DummyHandler, HostDeviceHandler, IpoibHandler,
                    UverbsHandler, RoCEHandler}

NoHandler == Plain("", "")

\* HandlerRegistry.Get: the handler of a type and kind; NoHandler is the nil.
Get(type, kind) ==
  IF \E h \in HandlerRegistry : h.type = type /\ h.kind = kind
  THEN CHOOSE h \in HandlerRegistry : h.type = type /\ h.kind = kind
  ELSE NoHandler

(***************************************************************************)
(* A claim's configuration is the sequence of its config entries.  An      *)
(* entry is opaque configuration for this driver or for another            *)
(* ("driver"), which decodes as a DeviceConfig or not ("parses").  The     *)
(* decoded configuration keeps its type, the netdev kind, the mode and the *)
(* set of fields that are present.                                         *)
(***************************************************************************)
DefaultConfig == [type |-> "netdev", kind |-> "dummy", mode |-> "", fields |-> {}]

GetKind(config) ==
  CASE config.type = "netdev" -> config.kind
    [] config.type = "rdma"   -> "uverbs"
    [] config.type = "combo"  -> "roce"
    [] OTHER                  -> ""

Usable(entry) == entry.driver = "own" /\ entry.parses

\* parseConfig: the first entry for this driver that decodes; the default
\* dummy configuration when there is none, whatever the reason.
ParseConfig(entries) ==
  LET usable == SelectSeq(entries, Usable)
  IN  IF usable = <<>> THEN DefaultConfig ELSE Head(usable).config

\* registry.MustGet, Validate and the checks of the configuration that
\* Prepare makes before it touches anything.
Accepts(config) ==
  LET h == Get(config.type, GetKind(config))
  IN  /\ h # NoHandler
      /\ h.needs \subseteq config.fields
      /\ h.modes = {} \/ config.mode \in h.modes
=============================================================================
