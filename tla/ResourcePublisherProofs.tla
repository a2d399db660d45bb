---------------------- MODULE ResourcePublisherProofs -----------------------
(* Theorems about ResourcePublisher, for every set of interfaces, devices   *)
(* and claims and every bound: type correctness, and that no device meant   *)
(* for one claim is held by two.                                            *)
EXTENDS ResourcePublisher, TLAPS

Environment(c) ==
  \/ PodAdded(c) \/ PodRemoved(c) \/ Allocate(c) \/ Deallocate(c) \/ Inject(c) \/ DestroyNetns(c)

-----------------------------------------------------------------------------
(* Types. *)

LEMMA InitType == Init => TypeOK
<1> SUFFICES ASSUME Init PROVE TypeOK
  OBVIOUS
<1>1. given \in [Claims -> Names \cup {NoDevice}]
  BY DEF Init
<1>2. slice \subseteq [name : Names, multi : BOOLEAN]
  BY DEF Init
<1>3. downs \in 0..MaxDowns /\ faults \in 0..MaxFaults
  BY PublisherAssumption DEF Init, PublisherAssumption
<1>4. /\ inPod \in [Claims -> Interfaces \cup {NoName}] /\ present \subseteq Interfaces
      /\ vfs \subseteq Interfaces /\ renamed \subseteq Interfaces
  BY PublisherAssumption DEF Init, PublisherAssumption
<1> QED BY <1>1, <1>2, <1>3, <1>4 DEF Init, TypeOK

\* A published device has one of the names, and a flag.
LEMMA DevicesTyped ==
  ASSUME NEW links \in SUBSET Interfaces, NEW virtual, NEW netns, NEW parents \in SUBSET Interfaces
  PROVE  DiscoverNetworkDevices(links, virtual)
           \cup DiscoverRDMADevices(netns) \cup DiscoverVirtualPools(parents)
           \subseteq [name : Names, multi : BOOLEAN]
<1>1. SUFFICES ASSUME NEW d, \/ d \in DiscoverNetworkDevices(links, virtual)
                             \/ d \in DiscoverRDMADevices(netns)
                             \/ d \in DiscoverVirtualPools(parents)
               PROVE  d \in [name : Names, multi : BOOLEAN]
  OBVIOUS
<1>2. CASE d \in DiscoverNetworkDevices(links, virtual)
  <2>1. PICK n \in Interfaces, kind \in {"sriov-vf", "physical"} : d = Device(kind, n, FALSE)
    BY <1>2 DEF DiscoverNetworkDevices, Candidates, PhysicalNames
  <2> QED BY <2>1 DEF Device, Names
<1>3. CASE d \in DiscoverRDMADevices(netns)
  <2>1. Shareable(netns) \in BOOLEAN
    BY DEF Shareable
  <2>2. PICK u \in Uverbs : d = Device("rdma", u, Shareable(netns))
    BY <1>3 DEF DiscoverRDMADevices
  <2> QED BY <2>1, <2>2 DEF Device, Names
<1>4. CASE d \in DiscoverVirtualPools(parents)
  <2>1. \/ d = Device("virtual", NoName, TRUE)
        \/ \E n \in Interfaces, kind \in {"macvlan", "ipvlan"} : d = Device(kind, n, FALSE)
    BY <1>4 DEF DiscoverVirtualPools
  <2>2. CASE d = Device("virtual", NoName, TRUE)
    BY <2>2 DEF Device, Names
  <2>3. ASSUME NEW n \in Interfaces, NEW kind \in {"macvlan", "ipvlan"}, d = Device(kind, n, FALSE)
        PROVE  d \in [name : Names, multi : BOOLEAN]
    BY <2>3 DEF Device, Names
  <2> QED BY <2>1, <2>2, <2>3
<1> QED BY <1>1, <1>2, <1>3, <1>4

LEMMA DriverType ==
  ASSUME TypeOK, \/ Start \/ Publish \/ Stop
                 \/ \E c \in Claims : Prepare(c) \/ Unprepare(c)
  PROVE  TypeOK'
<1> USE PublisherAssumption DEF PublisherAssumption
<1>1. CASE Start
  BY <1>1 DEF TypeOK, Start, SystemMode, Fault, host, history
<1>2. CASE Publish
  <2>1. slice' \subseteq [name : Names, multi : BOOLEAN]
    <3>1. ASSUME NEW failed PROVE DiscoverResources(failed) \subseteq [name : Names, multi : BOOLEAN]
      <4>1. present \in SUBSET Interfaces
        BY DEF TypeOK
      <4>2. (IF "pool" \in failed THEN {} ELSE present \cap (Physical \cup vfs)) \in SUBSET Interfaces
        BY <4>1
      <4> QED BY <4>1, <4>2, DevicesTyped DEF DiscoverResources
    <3> QED BY <1>2, <3>1 DEF TypeOK, Publish
  <2>2. faults' \in 0..MaxFaults
    BY <1>2 DEF TypeOK, Publish, Fault
  <2>3. misread' \in BOOLEAN
    BY <1>2 DEF TypeOK, Publish
  <2> QED BY <1>2, <2>1, <2>2, <2>3 DEF TypeOK, Publish, host
<1>3. CASE Stop
  BY <1>3 DEF TypeOK, Stop, host, history
<1>4. ASSUME NEW c \in Claims, Prepare(c) PROVE TypeOK'
  BY <1>4 DEF TypeOK, Prepare, process, history
<1>5. ASSUME NEW c \in Claims, Unprepare(c) PROVE TypeOK'
  BY <1>5 DEF TypeOK, Unprepare, process, history
<1> QED BY <1>1, <1>2, <1>3, <1>4, <1>5

LEMMA EnvironmentType ==
  ASSUME TypeOK, NEW c \in Claims, Environment(c)
  PROVE  TypeOK'
<1> USE PublisherAssumption DEF PublisherAssumption
<1>1. CASE PodAdded(c)
  BY <1>1 DEF TypeOK, PodAdded, process, host, history
<1>2. CASE PodRemoved(c)
  BY <1>2 DEF TypeOK, PodRemoved, process, host, history
<1>3. CASE Allocate(c)
  <2>1. PICK d \in slice : given' = [given EXCEPT ![c] = d.name]
    BY <1>3 DEF Allocate
  <2>2. d.name \in Names
    BY DEF TypeOK
  <2> QED BY <1>3, <2>1, <2>2 DEF TypeOK, Allocate, process, host
<1>4. CASE Deallocate(c)
  BY <1>4 DEF TypeOK, Deallocate, process, host
<1>5. CASE Inject(c)
  BY <1>5 DEF TypeOK, Inject, process, history
<1>6. CASE DestroyNetns(c)
  BY <1>6 DEF TypeOK, DestroyNetns, process, history
<1> QED BY <1>1, <1>2, <1>3, <1>4, <1>5, <1>6 DEF Environment

LEMMA StepType == TypeOK /\ [Next]_vars => TypeOK'
<1> SUFFICES ASSUME TypeOK, [Next]_vars PROVE TypeOK'
  OBVIOUS
<1>1. CASE UNCHANGED vars
  BY <1>1 DEF TypeOK, vars, process, host, history
<1>2. CASE Next
  BY <1>2, DriverType, EnvironmentType DEF Next, Environment
<1> QED BY <1>1, <1>2

\* Every reachable state is well typed: what is published, given and prepared
\* always names interfaces, devices and claims of the node.
THEOREM TypeCorrect == Spec => []TypeOK
<1>1. Init => TypeOK
  BY InitType
<1>2. TypeOK /\ [Next]_vars => TypeOK'
  BY StepType
<1> QED BY <1>1, <1>2, PTL DEF Spec

-----------------------------------------------------------------------------
(* No device is held twice. *)

LEMMA InitInductive == Init => Inductive
BY PublisherAssumption DEF Init, Inductive, Offered, GivenOnce, PreparedWith, NoDevice

\* A process that knows the mode does not offer an RDMA device of an exclusive
\* system to many claims, and no process offers a VF to many.
LEMMA PublishOffers ==
  ASSUME TypeOK, Inductive, Publish
  PROVE  Offered'
<1> USE PublisherAssumption DEF PublisherAssumption
<1>1. SUFFICES ASSUME NEW d \in slice'
               PROVE  /\ d.name.kind = "sriov-vf" => ~d.multi /\ d.name.of \in Interfaces
                      /\ d.name.kind = "rdma" => (d.multi /\ Exclusive => misread') /\ d.name.of \in Uverbs
  BY DEF Offered
<1>2. CASE \E failed \in SUBSET {"net", "rdma", "pool"} :
                slice' = DiscoverResources(failed) /\ misread' = (mode # SystemMode)
  <2>1. \/ d \in DiscoverNetworkDevices(present, vfs)
        \/ d \in DiscoverRDMADevices(mode)
        \/ \E parents \in SUBSET Interfaces : d \in DiscoverVirtualPools(parents)
    <3>1. PICK failed \in SUBSET {"net", "rdma", "pool"} : slice' = DiscoverResources(failed)
      BY <1>2
    <3>2. (IF "pool" \in failed THEN {} ELSE present \cap (Physical \cup vfs)) \in SUBSET Interfaces
      BY DEF TypeOK
    <3> QED BY <1>1, <3>1, <3>2 DEF DiscoverResources
  <2>2. CASE d \in DiscoverNetworkDevices(present, vfs)
    BY <2>2 DEF TypeOK, DiscoverNetworkDevices, Candidates, PhysicalNames, Device
  <2>3. CASE d \in DiscoverRDMADevices(mode)
    BY <1>2, <2>3 DEF SystemMode, DiscoverRDMADevices, Shareable, Device
  <2>4. CASE \E parents \in SUBSET Interfaces : d \in DiscoverVirtualPools(parents)
    <3>1. d.name.kind \in {"virtual", "macvlan", "ipvlan"}
      <4>1. \/ d = Device("virtual", NoName, TRUE)
            \/ \E n \in Interfaces : d \in {Device("macvlan", n, FALSE), Device("ipvlan", n, FALSE)}
        BY <2>4 DEF DiscoverVirtualPools
      <4> QED BY <4>1 DEF Device
    <3> QED BY <3>1
  <2> QED BY <2>1, <2>2, <2>3, <2>4
<1>3. CASE UNCHANGED <<slice, misread>>
  BY <1>1, <1>3 DEF Inductive, Offered
<1> QED BY <1>2, <1>3 DEF Publish

LEMMA DriverInductive ==
  ASSUME TypeOK, Inductive,
         \/ Start \/ Publish \/ Stop
         \/ \E c \in Claims : Prepare(c) \/ Unprepare(c)
  PROVE  Inductive'
<1>1. CASE Start \/ Stop
  BY <1>1 DEF Inductive, Offered, GivenOnce, PreparedWith, Start, Stop, history
<1>2. CASE Publish
  BY <1>2, PublishOffers DEF Inductive, GivenOnce, PreparedWith, Publish
<1>3. ASSUME NEW c \in Claims, Prepare(c) PROVE Inductive'
  BY <1>3 DEF Inductive, Offered, GivenOnce, PreparedWith, Prepare, Serviceable, history
<1>4. ASSUME NEW c \in Claims, Unprepare(c) PROVE Inductive'
  BY <1>4 DEF Inductive, Offered, GivenOnce, PreparedWith, Unprepare, history
<1> QED BY <1>1, <1>2, <1>3, <1>4

\* The device that a claim is given was free, or may be given many times; it is
\* the slice of a misread mode that offers an exclusive device to many.
LEMMA AllocateInductive ==
  ASSUME TypeOK, Inductive, NEW c \in Claims, Allocate(c)
  PROVE  Inductive'
<1> USE DEF Allocate
<1>1. PICK d \in slice : Available(d) /\ given' = [given EXCEPT ![c] = d.name]
  OBVIOUS
<1>2. given'[c] = d.name /\ \A e \in Claims \ {c} : given'[e] = given[e]
  BY <1>1 DEF TypeOK
<1>3. Offered'
  BY DEF Inductive, Offered
<1>4. ASSUME NEW e \in Claims \ {c}, given[e] = d.name, c \notin oversold'
      PROVE  d.name.kind # "sriov-vf" /\ (d.name.kind = "rdma" => ~Exclusive)
  <2>1. d.multi
    BY <1>1, <1>4 DEF Available, Holders
  <2>2. ~misread
    BY <1>4 DEF TypeOK
  <2> QED BY <2>1, <2>2 DEF Inductive, Offered
<1>5. GivenOnce'
  <2>1. ASSUME NEW e \in Claims
        PROVE  /\ given'[e].kind = "sriov-vf" => given'[e].of \in Interfaces
               /\ given'[e].kind = "rdma" => given'[e].of \in Uverbs
    BY <1>2 DEF Inductive, Offered, GivenOnce
  <2>2. ASSUME NEW a \in Claims \ oversold', NEW b \in Claims \ oversold',
               a # b, given'[a] = given'[b]
        PROVE  given'[a].kind # "sriov-vf" /\ (given'[a].kind = "rdma" => ~Exclusive)
    <3>1. CASE a = c
      BY <2>2, <3>1, <1>2, <1>4
    <3>2. CASE b = c
      BY <2>2, <3>2, <1>2, <1>4
    <3>3. CASE a # c /\ b # c
      <4>1. a \notin oversold /\ b \notin oversold
        OBVIOUS
      <4> QED BY <2>2, <3>3, <4>1, <1>2 DEF Inductive, GivenOnce
    <3> QED BY <3>1, <3>2, <3>3
  <2> QED BY <2>1, <2>2 DEF GivenOnce
<1>6. PreparedWith'
  <2>1. ASSUME NEW e \in prepared'
        PROVE  /\ Kind[e] = "sriov-vf" => given'[e].kind = "sriov-vf"
               /\ UsesRdma(e) => given'[e].kind = "rdma"
    <3>1. CASE e = c
      BY <3>1, <2>1 DEF Inductive, PreparedWith, NoDevice
    <3>2. CASE e # c
      BY <3>2, <2>1, <1>2 DEF Inductive, PreparedWith, TypeOK
    <3> QED BY <3>1, <3>2
  <2> QED BY <2>1 DEF PreparedWith
<1> QED BY <1>3, <1>5, <1>6 DEF Inductive

LEMMA EnvironmentInductive ==
  ASSUME TypeOK, Inductive, NEW c \in Claims, Environment(c)
  PROVE  Inductive'
<1>1. CASE Allocate(c)
  BY <1>1, AllocateInductive
<1>2. CASE Deallocate(c)
  <2>1. given'[c] = NoDevice /\ \A e \in Claims \ {c} : given'[e] = given[e]
    BY <1>2 DEF Deallocate, TypeOK
  <2>2. Offered'
    BY <1>2 DEF Inductive, Offered, Deallocate
  <2>3. GivenOnce'
    <3>1. ASSUME NEW e \in Claims
          PROVE  /\ given'[e].kind = "sriov-vf" => given'[e].of \in Interfaces
                 /\ given'[e].kind = "rdma" => given'[e].of \in Uverbs
      BY <2>1 DEF Inductive, GivenOnce, NoDevice
    <3>2. ASSUME NEW a \in Claims \ oversold', NEW b \in Claims \ oversold',
                 a # b, given'[a] = given'[b]
          PROVE  given'[a].kind # "sriov-vf" /\ (given'[a].kind = "rdma" => ~Exclusive)
      <4>1. CASE a = c \/ b = c
        BY <3>2, <4>1, <2>1 DEF NoDevice
      <4>2. CASE a # c /\ b # c
        <5>1. a \notin oversold /\ b \notin oversold
          BY <1>2, <4>2 DEF Deallocate
        <5> QED BY <3>2, <4>2, <5>1, <2>1 DEF Inductive, GivenOnce
      <4> QED BY <4>1, <4>2
    <3> QED BY <3>1, <3>2 DEF GivenOnce
  <2>4. PreparedWith'
    BY <1>2, <2>1 DEF Inductive, PreparedWith, Deallocate, TypeOK
  <2> QED BY <2>2, <2>3, <2>4 DEF Inductive
<1>3. CASE PodAdded(c) \/ PodRemoved(c) \/ Inject(c) \/ DestroyNetns(c)
  BY <1>3 DEF Inductive, Offered, GivenOnce, PreparedWith, PodAdded, PodRemoved, Inject,
              DestroyNetns, history
<1> QED BY <1>1, <1>2, <1>3 DEF Environment

\* Through every restart and republished slice: a slice of a process that knows
\* the mode offers no VF and no exclusive RDMA device twice, and a claim keeps
\* the device it was given while it is prepared.
THEOREM InductiveHolds == Spec => []Inductive
<1>1. Init => Inductive
  BY InitInductive
<1>2. TypeOK /\ Inductive /\ [Next]_vars => Inductive'
  <2> SUFFICES ASSUME TypeOK, Inductive, [Next]_vars PROVE Inductive'
    OBVIOUS
  <2>1. CASE UNCHANGED vars
    BY <2>1 DEF vars, process, history, Inductive, Offered, GivenOnce, PreparedWith
  <2>2. CASE Next
    BY <2>2, DriverInductive, EnvironmentInductive DEF Next, Environment
  <2> QED BY <2>1, <2>2
<1> QED BY <1>1, <1>2, TypeCorrect, PTL DEF Spec

\* Two prepared claims never hold the same VF, nor in exclusive mode the same
\* RDMA device, unless one was given it from the slice of a process that took the
\* mode for shared (publisher.go:66-97, 156-161, system.go:40-45).
THEOREM HeldOnceHolds == Spec => []HeldOnce
<1>1. TypeOK /\ Inductive => HeldOnce
  <2> SUFFICES ASSUME TypeOK, Inductive,
                      NEW c \in prepared \ oversold, NEW e \in prepared \ oversold, c # e,
                      Alone(c), Alone(e), given[c].of = given[e].of
               PROVE  FALSE
    BY DEF HeldOnce
  <2>1. c \in Claims /\ e \in Claims
    BY DEF TypeOK
  <2>2. ASSUME NEW a \in prepared \ oversold, Alone(a)
        PROVE  \/ given[a].kind = "sriov-vf" /\ given[a].of \in Interfaces
               \/ given[a].kind = "rdma" /\ given[a].of \in Uverbs /\ Exclusive
    BY <2>2 DEF TypeOK, Alone, Inductive, PreparedWith, GivenOnce
  <2>3. given[c].kind = given[e].kind
    BY <2>2, PublisherAssumption DEF PublisherAssumption
  <2>4. given[c] = given[e]
    <3>1. given[c] \in Names /\ given[e] \in Names
      BY <2>1, <2>2 DEF TypeOK, NoDevice
    <3> QED BY <3>1, <2>3 DEF Names
  <2> QED BY <2>1, <2>2, <2>4 DEF Inductive, GivenOnce
<1> QED BY <1>1, TypeCorrect, InductiveHolds, PTL
=============================================================================
