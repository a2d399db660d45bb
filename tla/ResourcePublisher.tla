------------------------- MODULE ResourcePublisher --------------------------
(***************************************************************************)
(* What a node offers (pkg/driver/publisher.go): the devices that the      *)
(* driver finds when it starts and publishes as ResourceSlice, while the   *)
(* claims that were given some of them are prepared, move interfaces into  *)
(* pods and create others.  A device is offered under the name that its    *)
(* interface bears at that time, and a VF loses that name in the pod       *)
(* (pkg/handler/netdev/sriov.go).  How RDMA devices are offered depends on *)
(* the namespace mode, detected once per process                           *)
(* (pkg/handler/rdma/system.go).                                           *)
(*                                                                         *)
(* Environment, modelled from how the code uses it: the scheduler, which   *)
(* gives a claim any published device that its selectors accept and that   *)
(* is free or may be given many times; the kubelet, the container runtime  *)
(* and the kernel.  The driver's work on a claim is one step here:         *)
(* DraDriver.tla has its details.                                          *)
(***************************************************************************)
EXTENDS Naturals, FiniteSets

CONSTANTS
  Interfaces,       \* names an interface may bear under /sys/class/net
  SkippedNames,     \* lo, eth0, docker0, cni0, veth...
  VFs,              \* the interfaces with device/physfn, by the names they have at first
  Physical,         \* the others with a device
  KernelNames,      \* names the kernel gives: devN
  AllocatableNames, \* those whose name matches isAllocatableInterface
  Uverbs,           \* /dev/infiniband/uverbsN
  Exclusive,        \* the RDMA namespace mode of the system
  Claims,
  Kind,             \* claim -> its handler: "sriov-vf", "uverbs", "roce" or another
  Selects,          \* claim -> kinds of devices its selectors accept
  Creates,          \* claim -> the interface its handler creates, or NoName
  PodName,          \* claim -> interfaceName of its config, the name inside the pod
  NoName

CONSTANTS Slots,    \* maxVirtualSlots
          MaxDowns, MaxFaults, FaultKinds  \* bounds of the environment

ASSUME PublisherAssumption ==
  /\ VFs \cup Physical \cup AllocatableNames \cup KernelNames \subseteq Interfaces
  /\ Interfaces \cap Uverbs = {} /\ PodName \in [Claims -> Interfaces]
  /\ Selects \in [Claims -> SUBSET {"sriov-vf", "physical", "rdma", "virtual", "macvlan", "ipvlan"}]
  /\ Creates \in [Claims -> Interfaces \cup {NoName}] /\ NoName \notin Interfaces \cup Uverbs
  /\ \A c, e \in Claims : Creates[c] \notin VFs \cup Physical \cup KernelNames \cup {PodName[e]}
  /\ Exclusive \in BOOLEAN /\ MaxDowns \in Nat /\ MaxFaults \in Nat /\ Slots \in Nat

(***************************************************************************)
(* Discovery: a device has a name, made of its kind and the interface or   *)
(* device file it stands for, and the AllowMultipleAllocations flag.       *)
(***************************************************************************)
Device(kind, of, multi) == [name |-> [kind |-> kind, of |-> of], multi |-> multi]

Candidates(links) == links \ SkippedNames

\* A VF is not offered as an interface of its own as well.
PhysicalNames(links, virtual) == (Candidates(links) \cap AllocatableNames) \ virtual

\* links: the interfaces in the host; virtual: those of them that are VFs.
DiscoverNetworkDevices(links, virtual) ==
  {Device("sriov-vf", v, FALSE) : v \in Candidates(links) \cap virtual}
    \cup {Device("physical", n, FALSE) : n \in PhysicalNames(links, virtual)}

\* Mutant of Shareable: the flag is the other way round.
ShareableExclusive(netns) == netns = "exclusive"

Shareable(netns) == netns = "shared"

DiscoverRDMADevices(netns) == {Device("rdma", u, Shareable(netns)) : u \in Uverbs}

\* parents: the interfaces in the host that have a device.
DiscoverVirtualPools(parents) ==
  {Device("virtual", NoName, TRUE)}
    \cup {Device("macvlan", n, FALSE) : n \in parents}
    \cup {Device("ipvlan", n, FALSE) : n \in parents}

VARIABLES
  up,         \* the driver process: "down", "started", "published"
  mode,       \* its cachedMode
  slice,      \* the published devices; they stay when the process goes
  present,    \* names of the interfaces in the host's network namespace
  vfs,        \* those of them that a VF bears
  inPod,      \* claim -> the interface that is in its pod, or NoName
  wanted,     \* claims of the pods now on the node
  given,      \* claim -> the name of the device it was given, or NoDevice
  prepared,   \* claims the driver has prepared
  misread,    \* history: the slice was published by a process with the wrong mode
  oversold,   \* history: claims that were given a device of such a slice
  renamed,    \* history: names that a VF went into a pod with and came back without
  downs, faults

process == <<up, mode>>
host == <<present, vfs, inPod, renamed>>
history == <<misread, oversold>>
vars == <<process, slice, host, wanted, given, prepared, history, downs, faults>>

NoDevice == [kind |-> "none", of |-> NoName]
Names == [kind : {"sriov-vf", "physical", "rdma", "virtual", "macvlan", "ipvlan"},
          of   : Interfaces \cup Uverbs \cup {NoName}]

TypeOK ==
  /\ up \in {"down", "started", "published"} /\ mode \in {"shared", "exclusive"}
  /\ slice \subseteq [name : Names, multi : BOOLEAN]
  /\ present \subseteq Interfaces /\ vfs \subseteq Interfaces /\ renamed \subseteq Interfaces
  /\ inPod \in [Claims -> Interfaces \cup {NoName}]
  /\ wanted \subseteq Claims /\ prepared \subseteq Claims /\ oversold \subseteq Claims
  /\ given \in [Claims -> Names \cup {NoDevice}] /\ misread \in BOOLEAN
  /\ downs \in 0..MaxDowns /\ faults \in 0..MaxFaults

Init ==
  /\ up = "down" /\ mode = "shared" /\ slice = {}
  /\ present = VFs \cup Physical /\ vfs = VFs /\ inPod = [c \in Claims |-> NoName]
  /\ wanted = {} /\ given = [c \in Claims |-> NoDevice] /\ prepared = {}
  /\ misread = FALSE /\ oversold = {} /\ renamed = {} /\ downs = 0 /\ faults = 0

\* "mode": the netlink call for the mode; "net", "pool": the two readings of
\* /sys/class/net; "rdma": that of /dev/infiniband; "publish": PublishResources.
Fault(kinds) ==
  /\ kinds \subseteq FaultKinds /\ faults < MaxFaults /\ faults' = faults + 1

-----------------------------------------------------------------------------
(* The driver. *)

\* Mutant of SystemMode: exclusive is not among the modes that are translated.
SystemModeUnset == IF Exclusive THEN "" ELSE "shared"

SystemMode == IF Exclusive THEN "exclusive" ELSE "shared"

\* The mode that DetectNetnsMode caches; "shared" if it cannot tell.
Start ==
  /\ up = "down" /\ up' = "started"
  /\ \/ mode' = SystemMode /\ UNCHANGED faults
     \/ mode' = "shared" /\ Fault({"mode"})
  /\ UNCHANGED <<slice, host, wanted, given, prepared, history, downs>>

\* DiscoverResources; what cannot be read is left out.
DiscoverResources(failed) ==
  (IF "net" \in failed THEN {} ELSE DiscoverNetworkDevices(present, vfs))
    \cup (IF "rdma" \in failed THEN {} ELSE DiscoverRDMADevices(mode))
    \cup DiscoverVirtualPools(IF "pool" \in failed THEN {} ELSE present \cap (Physical \cup vfs))

\* Once per process; if it fails, the slice of an earlier process stays.
Publish ==
  /\ up = "started" /\ up' = "published"
  /\ \/ /\ \E failed \in SUBSET {"net", "rdma", "pool"} :
             /\ slice' = DiscoverResources(failed)
             /\ IF failed = {} THEN UNCHANGED faults ELSE Fault(failed)
        /\ misread' = (mode # SystemMode)
     \/ Fault({"publish"}) /\ UNCHANGED <<slice, misread>>
  /\ UNCHANGED <<mode, host, wanted, given, prepared, oversold, downs>>

Stop ==
  /\ up # "down" /\ up' = "down" /\ downs < MaxDowns /\ downs' = downs + 1
  /\ UNCHANGED <<mode, slice, host, wanted, given, prepared, history, faults>>

\* The uverbs handler gets the device the scheduler chose, also as half of RoCE.
UsesRdma(c) == Kind[c] \in {"uverbs", "roce"}

\* sriov-vf does too; the others ignore it.
Serviceable(c) ==
  /\ Kind[c] = "sriov-vf" => given[c].kind = "sriov-vf" /\ given[c].of \in present
  /\ UsesRdma(c) => given[c].kind = "rdma"
  /\ Creates[c] \notin present

Prepare(c) ==
  /\ up # "down" /\ c \in wanted \ prepared /\ given[c] # NoDevice /\ Serviceable(c)
  /\ prepared' = prepared \cup {c}
  /\ present' = present \cup ({Creates[c]} \ {NoName})
  /\ UNCHANGED <<process, slice, vfs, inPod, renamed, wanted, given, history, downs, faults>>

\* The interface the claim's CDI file names.
LinkOf(c) == IF Kind[c] = "sriov-vf" THEN given[c].of ELSE Creates[c]

\* Mutant of Deletes: a VF is deleted like an interface that was created.
DeletesAny(c) == LinkOf(c)

\* What was created is deleted if it is still in the host; a VF is left alone.
Deletes(c) == Creates[c]

Unprepare(c) ==
  /\ up # "down" /\ c \in prepared \ wanted
  /\ prepared' = prepared \ {c} /\ present' = present \ {Deletes(c)}
  /\ UNCHANGED <<process, slice, vfs, inPod, renamed, wanted, given, history, downs, faults>>

-----------------------------------------------------------------------------
(* Scheduler, kubelet, runtime and kernel. *)

PodAdded(c) ==
  /\ c \notin wanted /\ given[c] = NoDevice /\ inPod[c] = NoName
  /\ wanted' = wanted \cup {c}
  /\ UNCHANGED <<process, slice, host, given, prepared, history, downs, faults>>

PodRemoved(c) ==
  /\ c \in wanted /\ wanted' = wanted \ {c}
  /\ UNCHANGED <<process, slice, host, given, prepared, history, downs, faults>>

Holders(name) == {c \in Claims : given[c] = name}

\* A device is free, or it may be given to many: the virtual one as long as it
\* has slots.
Available(d) ==
  IF d.multi THEN d.name.kind = "virtual" => Cardinality(Holders(d.name)) < Slots
             ELSE Holders(d.name) = {}

Allocate(c) ==
  /\ c \in wanted /\ given[c] = NoDevice
  /\ \E d \in slice : /\ d.name.kind \in Selects[c] /\ Available(d)
                      /\ given' = [given EXCEPT ![c] = d.name]
  /\ oversold' = IF misread THEN oversold \cup {c} ELSE oversold
  /\ UNCHANGED <<process, slice, host, wanted, prepared, misread, downs, faults>>

\* The claim is deleted with its pod, once the driver is done with it.
Deallocate(c) ==
  /\ c \notin wanted /\ c \notin prepared /\ given[c] # NoDevice
  /\ given' = [given EXCEPT ![c] = NoDevice] /\ oversold' = oversold \ {c}
  /\ UNCHANGED <<process, slice, host, wanted, prepared, misread, downs, faults>>

\* The runtime moves the interface that the CDI file names.
Inject(c) ==
  /\ c \in wanted \cap prepared /\ LinkOf(c) \in present
  /\ inPod' = [inPod EXCEPT ![c] = LinkOf(c)] /\ present' = present \ {LinkOf(c)}
  /\ vfs' = vfs \ {LinkOf(c)}
  /\ UNCHANGED <<process, slice, renamed, wanted, given, prepared, history, downs, faults>>

\* A VF had another name in the pod, and the kernel returns it under that one
\* unless an interface of the host has it; nothing gives it the old one back.
NameReturned(c, n) ==
  /\ n \notin present
  /\ IF PodName[c] \in present THEN n \in KernelNames ELSE n = PodName[c]

\* What the driver had created is deleted with the namespace.
DestroyNetns(c) ==
  /\ c \notin wanted /\ inPod[c] # NoName
  /\ inPod' = [inPod EXCEPT ![c] = NoName]
  /\ IF Kind[c] = "sriov-vf"
     THEN \E n \in Interfaces :
            /\ NameReturned(c, n)
            /\ present' = present \cup {n} /\ vfs' = vfs \cup {n}
            /\ renamed' = (renamed \cup {inPod[c]}) \ {n}
     ELSE UNCHANGED <<present, vfs, renamed>>
  /\ UNCHANGED <<process, slice, wanted, given, prepared, history, downs, faults>>

-----------------------------------------------------------------------------
Next ==
  \/ Start \/ Publish \/ Stop
  \/ \E c \in Claims : \/ Prepare(c) \/ Unprepare(c) \/ PodAdded(c) \/ PodRemoved(c)
                       \/ Allocate(c) \/ Deallocate(c) \/ Inject(c) \/ DestroyNetns(c)

Spec == Init /\ [][Next]_vars

\* A process that goes is started again and publishes; the kubelet retries; the
\* namespace of a pod that is gone is destroyed.
Fairness ==
  /\ WF_vars(Start) /\ WF_vars(Publish)
  /\ \A c \in Claims : WF_vars(Prepare(c)) /\ WF_vars(DestroyNetns(c))

FairSpec == Spec /\ Fairness

-----------------------------------------------------------------------------
(* Properties. *)

\* The claims that have their device to themselves: those given a VF, or in
\* exclusive mode a device file.
Alone(c) == Kind[c] = "sriov-vf" \/ (UsesRdma(c) /\ Exclusive)

\* No name of a VF, and in exclusive mode no RDMA device, is held by two claims at
\* a time, through restarts and republished slices; unless a process could not
\* read the mode and offered the devices as shareable (publisher.go:66-97,
\* 156-161, system.go:40-45).
HeldOnce ==
  \A c, e \in prepared \ oversold :
    c # e /\ Alone(c) /\ Alone(e) => given[c].of # given[e].of

\* What HeldOnce rests on (the invariant that its proof uses).  A published VF
\* cannot be given many times, nor can an RDMA device in exclusive mode, and a
\* name says what it stands for (publisher.go:68-97, 143-163).
Offered ==
  \A d \in slice :
    /\ d.name.kind = "sriov-vf" => ~d.multi /\ d.name.of \in Interfaces
    /\ d.name.kind = "rdma" => (d.multi /\ Exclusive => misread) /\ d.name.of \in Uverbs

\* Two claims were given the same one of these only if it was oversold.
GivenOnce ==
  /\ \A c \in Claims : /\ given[c].kind = "sriov-vf" => given[c].of \in Interfaces
                       /\ given[c].kind = "rdma" => given[c].of \in Uverbs
  /\ \A c, e \in Claims \ oversold :
       c # e /\ given[c] = given[e] =>
         /\ given[c].kind # "sriov-vf"
         /\ given[c].kind = "rdma" => ~Exclusive

\* A claim keeps the device it was prepared with, one its handler can use.
PreparedWith ==
  \A c \in prepared : /\ Kind[c] = "sriov-vf" => given[c].kind = "sriov-vf"
                      /\ UsesRdma(c) => given[c].kind = "rdma"

Inductive == Offered /\ GivenOnce /\ PreparedWith

\* A claim for a VF that was given one is eventually prepared, or no longer
\* wanted, unless the VF came back from an earlier pod under another name: the
\* name given is that of an interface, which comes back from the pod that had it
\* before and is not deleted (publisher.go:68, sriov.go:42-58, 105).
VfServed ==
  \A c \in Claims :
    (c \in wanted /\ Kind[c] = "sriov-vf" /\ given[c] # NoDevice)
      ~> (c \in prepared \/ c \notin wanted \/ given[c].of \in renamed)

\* "Physical devices (SR-IOV VFs, RDMA HCAs) are enumerated 1:1 in the
\* ResourceSlice" (README.md:39): a VF in the host of a node whose driver runs is
\* offered.
EnumeratedOnce ==
  up = "published" =>
    \A v \in vfs \ SkippedNames : Device("sriov-vf", v, FALSE) \in slice

=============================================================================
