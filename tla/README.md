# TLA+ models of the multi-device DRA driver

The driver is a kubelet plugin: one process per node prepares the devices of a
pod's ResourceClaims (network interfaces, RDMA devices, combinations of both)
before the pod starts, and undoes that when the pod is gone. It keeps its state
in files, survives restarts and rolling updates, and moves RDMA devices between
network namespaces from a second thread. This directory models that behaviour,
checks it with TLC on small instances and proves part of it with TLAPS.

## 1. Inventory

| part | state it keeps | operations | talks to |
|---|---|---|---|
| Kubelet plugin, `pkg/driver/driver.go` | `Driver.allocations` in memory; `<prefix>.json` (CDI) and `<prefix>.alloc.json` in `/etc/cdi`, `<prefix>` being the first 8 characters of the claim's UID | `PrepareResourceClaims`, `UnprepareResourceClaims`, and what they call | the kubelet (calls and results), the handlers, the file system |
| Handlers, `pkg/handler/netdev`, `rdma`, `combo` | none of their own; the interfaces of the node | `Validate`, `Prepare`, `Unprepare` for macvlan, ipvlan, veth, dummy, ipoib, sriov-vf, host-device, uverbs, roce | netlink, sysfs, the tracker |
| Registry and configuration, `pkg/handler/registry.go`, `types.go` | the table of handlers, fixed at start | `Register`, `Get`, `MustGet`, `GetKind`, `parseConfig` | |
| RDMA tracker, `pkg/nri/tracker.go` | `pending` and `active` moves, in memory, behind a mutex | `AddPending`, `RemovePending`, `ConsumePendingForClaims`, `MarkActive`, `RemoveActive`, `RemoveActiveForPod` | called by the uverbs handler and by the NRI plugin |
| NRI plugin, `pkg/nri/plugin.go` | none | `Run`, `RunPodSandbox`, `StopPodSandbox`, `extractClaimUIDs` | the container runtime (events), netlink, the tracker |
| Mode detection, `pkg/handler/rdma/system.go` | `cachedMode`, set once | `DetectNetnsMode` | netlink; read by the publisher and the uverbs handler |
| Publisher, `pkg/driver/publisher.go` | none; the ResourceSlice is in the API server | `DiscoverResources`, once at start | sysfs, the API server |
| Process, `cmd/dra-driver/main.go` | wiring | start, signal handling, stop | all of the above |

How they interact. The kubelet calls the plugin over gRPC. The plugin helper
lets one call run at a time, and with rolling updates a file lock extends that
to the two driver pods (main.go:119-123). A call first merges the allocation
files into the in-memory map, then works through its claims one by one. The
container runtime, not the driver, moves a prepared interface into the pod, as
the CDI file says. In exclusive RDMA mode the uverbs handler only *registers*
the move of the device; the NRI plugin performs it when the sandbox exists, in
a goroutine of its own that no lock orders against the gRPC calls. What the
publisher finds at start is what the scheduler gives to claims from then on.

What is hard:

* **crashes between two steps** of a claim: creating the interface, writing the
  CDI file and writing the allocation file are three operations with no
  transaction around them, and so are the three of Unprepare;
* **state of two instances**: the map of an instance is merged with the files
  on every call, and nothing is ever dropped from it;
* **retries**: the kubelet repeats a call that failed or whose answer was lost;
* **failures that are only logged**: the allocation file that is not saved or
  not removed, the rollback that fails, the file that cannot be read, the lookup of
  an interface whose error Unprepare takes for "already removed", the IB device whose
  name sysfs does not give, the publication that fails, the NRI plugin that ends;
* **two threads on one tracker**: Unprepare can come at any point of
  RunPodSandbox and StopPodSandbox; the tracker's calls are atomic, the netlink
  operations between them are not;
* **state that is lost by a restart**: the tracker is not persisted;
* **starts and ends that do not coincide**: the NRI connection begins after the
  plugin serves calls and may end before it; a sandbox may die under a live pod;
* **a snapshot that ages**: the devices are listed once, at a moment when pods
  may have some of them and claims have created others;
* **names that do not last**: a VF goes into a pod under the pod's name for it and
  comes back under that one.

What makes the parts correct:

* plugin: what is reported unprepared is gone; what is held as prepared is
  there and is not created again; every claim is eventually prepared or released;
* tracker and NRI plugin: a device outside the host is known to somebody who
  will bring it back; a running pod has its devices; a released device can be
  given to the next pod; every claim UID in the annotations is found;
* handlers and configuration: refused before anything is touched, or carried
  out and undone symmetrically;
* publisher and mode: a device for one claim is never held by two; who is given
  a VF gets it as long as the VF has the name it was published under.

## 2. Modules

| module | what it is |
|---|---|
| `Handlers` | the nine handlers as records, the registry (`Get`), `ParseConfig`, `GetKind`, `Accepts`. No state |
| `DraDriver` | the kubelet plugin and the node. EXTENDS `Handlers`, INSTANCEs `ClaimLifecycle` |
| `ClaimLifecycle` | abstract: what the kubelet may rely on. `DraDriver` implements it |
| `RdmaNetns` | the tracker, the uverbs handler and the NRI plugin as two threads. INSTANCEs `DeviceLoans` |
| `DeviceLoans` | abstract: what the pods may rely on. `RdmaNetns` implements it |
| `ClaimUIDs` | the search for claim UIDs in a pod's annotations |
| `ResourcePublisher` | discovery and mode detection, against the claims that use what was published |
| `MCDraDriver`, `MCRdmaNetns`, `MCClaimUIDs`, `MCResourcePublisher` | instances for TLC |
| `DraDriverProofs` | types and the release guarantee |
| `DraGrantsProofs` | EXTENDS `DraDriverProofs`: what was prepared stays prepared |
| `ClaimLifecycleProofs` | EXTENDS `DraDriverProofs`: the refinement |
| `RdmaNetnsProofs` | types, and that devices are tracked |
| `RdmaClaimsProofs` | EXTENDS `RdmaNetnsProofs`: what the tracker means for pods and claims |
| `DeviceLoansProofs` | EXTENDS `RdmaClaimsProofs`: the refinement |
| `ClaimUIDsProofs`, `ResourcePublisherProofs` | about the module of that name |

The modules meet at constants: `RdmaNetns` takes the result of `ClaimUIDs` for
granted (`PodOf`) and what `DraDriver` models of a claim as one set
(`recorded`); `DraDriver` takes the device the scheduler chose from
`ResourcePublisher` (`HostLink`); `ResourcePublisher` has a claim's Prepare and
Unprepare as one step each.

### Handlers and DraDriver

A handler record says what `Prepare` needs (`needs`, `modes`), what interface it
creates (`makes`, the prefix of the generated name) or takes over (`takes`),
whether it is a pair (`pair`), whether an existing interface keeps its name inside the
pod when the configuration gives it none (`keeps`: host-device does, sriov-vf calls it
eth1), and whether its `AllocationInfo` carries a device name (`names`; RoCE's does not). `DraDriver` performs the effects, so one set of
actions covers all nine handlers. A claim's configuration goes through
`ParseConfig` in the model as it does in the code, and a claim whose entries do
not decode becomes a dummy interface here too.

| variable | in the code |
|---|---|
| `up`, `newest` | driver pods that run; the one that registered last |
| `mem[i]` | `Driver.allocations` of instance i (its keys: an entry is determined by the claim) |
| `op`, `inst`, `todo`, `cur`, `pc`, `reply` | the call being served: kind, instance, claims left in the loop, claim in hand, next step, `results` |
| `cdi[p]`, `alloc[p]` | the two files with prefix p: the claim they were written for, `Absent`, or `Torn` (cut short) |
| `host`, `podns` | interfaces in the host's namespace; inside pods |
| `wanted`, `answer` | the kubelet: claims of its pods; what it was last told of each |
| `escaped` | history: claims whose interface a *named* failure left untracked |

| actions | in the code |
|---|---|
| `Start`, `Stop`, `Crash` | main.go; the serving instance may die at each program point in `CrashAt` |
| `BeginPrepare`, `BeginUnprepare` | the call, with `restoreAllocations`; a file may be unreadable |
| `PickCached`, `PickRejected`, `PickPrepared` | the three outcomes of the first half of the Prepare loop: known, refused or LinkAdd failed, interface created |
| `LinkUp`, `LinkUpFailed` | the handler's LinkByName and LinkSetUp, and its LinkDel when one of them fails, whose own result is ignored |
| `WriteCDI`, `WriteCDIFailed`, `Rollback`, `SaveAlloc` | `createCDISpec`, the rollback, `saveAllocation` and the map |
| `UnprepareUntracked`, `UnprepareFailed`, `UnprepareDone`, `RemoveCDI`, `RemoveAlloc` | the Unprepare loop |
| `Undone`, `NotUndone` | parts of the two above: the handler's Unprepare deletes the interface or finds it gone; or it fails, or its LinkByName does, which it takes for gone (dummy.go:99) |
| `Return` | the results reach the kubelet, or it has timed out |
| `PodAdded`, `PodRemoved`, `Inject`, `DestroyNetns` | kubelet, runtime, kernel |

An interface in the host is known by name. What is returned from a pod has the name it
had there, so `DestroyNetns` gives a claim's existing interface back only if the name is the
same (`KeepsName`); otherwise the claim's interface is gone for good, and the next Prepare fails.

Two crashes at adjacent points that leave the same state are one point of the
model: between two claims (`pick`), and after each of LinkAdd, LinkSetUp, the CDI
file, and the same for Unprepare. Inside a write a crash may leave a torn file.

Two claims whose UIDs agree in the first eight characters have the same files and, if
their handlers are the same, the same interface name (driver.go:261). `Distinct` is the set of
the claims that no other one matches. What the driver promises is stated for those, with any
number of others around them: claims that share a prefix harm each other and nobody else.

The order of the claims of a batch is not fixed: the helper hands over a list,
and no step depends on the order.

### ClaimLifecycle

Three variables: the `phase` of each claim in the kubelet's view ("released",
"busy" while a call is made or has not been answered usefully, "granted"), the
claims whose interface is `made`, and those whose interface has `leaked`. The edges
say what a driver may never do: answer "granted" or "released" without a call,
say "released" while an interface it has not lost is there, create an interface
for a released claim, or find a lost one in any way but by undoing it. There are no
files, maps, instances or steps of a call in it. `ImplementsLifecycle` in `DraDriver`
maps `answer` to `phase`, the created interface in `host` to `made` and `escaped` to
`leaked`, for the `Distinct` claims. A step of `ClaimLifecycle` may concern several claims, as one `Return`
answers for a batch.

### RdmaNetns

The plugin thread runs `Prepare`, `Record` (or `RecordFailed`), `TakeBack`,
`RemoveActive`, `ReturnRDMAToHost`, `Forget`; the NRI thread runs
`RunPodSandbox`, `NetnsOpened`, `Move`, `MarkActive`, `RunDone` and
`StopPodSandbox`, `GiveBack`, `StopDone`, each with its failures. `ForgetFailed` is the
Unprepare of a RoCE claim of which the network half fails: the claim stays recorded
and both halves are undone again. One action is one call of the tracker or one
netlink operation, so all interleavings of the two threads are explored.

`conn` is the NRI connection: `NriStart` comes any time after the process has
started to serve claims, and `NriExited` models `Run` returning, which main.go:138 only
logs; there is no second connection in a process. While it is not "on", sandboxes
start and stop `Unseen`. `Stops` covers a sandbox whose pod is gone and one that dies
under a live pod, which then gets another.

`Prepare` registers the move (`Registers`), or prepares the claim without one
(`RegistersNothing`): if the name of its IB device cannot be read (uverbs.go:62, 117, 234), which the
allocation remembers (`unresolved`), or in a process that could not read the namespace mode and takes it for
shared (`conn = "off"`, system.go:39). `TakeBack`, the handler's Unprepare, does nothing in these two
cases either (uverbs.go:144).

What `DraDriver` models of a claim (files and map) is one set here, `recorded`,
durable and written atomically; `unresolved` is durable with it. History variables: `lost` (claims whose move a named
failure dropped or kept from being registered, until they are registered again or released), `forgotten` (claims whose device a named failure left in a pod
with nobody who knows) and `raced` (claims unprepared while the runtime was busy with
their pod).

The kubelet and the runtime are modelled as the code uses them: a sandbox is
created when the pod's claims are prepared, the kernel returns the devices of a
destroyed namespace. The kubelet may unprepare a claim at any point of a sandbox
event; plugin.go:130-133 describes an order (the sandbox has stopped first) that
nothing in the driver enforces.

### DeviceLoans

The same for the RDMA devices: the `holder` of each device (the host or a pod), the pods that
are `running`, the claims that are `open`, and two sets for the named failures, `dropped` (a loan
that was not made) and `stray` (a device left in its pod). A device is lent from the host to the
pod of an open claim before that pod runs, returned when its pod does not run, a pod runs once it
has its devices, and a claim is closed when its pod does not have the device any more. No tracker,
events, handler steps or threads. `ImplementsLoans` in `RdmaNetns` maps `loc` to `holder`, the
pods that are wanted and whose sandbox runs to `running`, the claims that are not reported
unprepared to `open`, together with the `raced` ones, `lost` to `dropped` and `forgotten` to `stray`.
One step of `RdmaNetns` may concern several devices, pods and claims: a `Crash` in the middle of
RunPodSandbox lets the pod run, drops the loans that were left and leaves every device that is away.

### ClaimUIDs

One annotation after the other, one position after the other: `key` and `i` are
the loop variables of `extractClaimUIDs` and `extractUUIDs`, `uuids` the latter's
result, `uids` the former's; `Found`, `NotFound`, `Collect`, `EndOfValue`, `NextAnnotation`
are the steps of the three loops, `IsUUID` and `Window` the code's `isUUID` and slice.
The map is ranged over in any order. The length of a UUID and the places of its
dashes are constants, so the theorems hold for 36 and {8, 13, 18, 23}.

### ResourcePublisher

| variable | in the code |
|---|---|
| `up`, `mode` | the process before and after it has published; `cachedMode` |
| `slice` | the published ResourceSlice, which outlives the process |
| `present`, `vfs` | names of the interfaces in the host; those that a VF bears |
| `inPod` | the interface inside a claim's pod, by its name in the host |
| `given`, `wanted` | the device the scheduler gave a claim; claims of the pods now |
| `prepared` | claims the driver holds as prepared |
| `misread`, `oversold` | history: published with a mode that could not be read; claims given a device of such a slice |
| `renamed` | history: names a VF went into a pod with and came back without |

`DiscoverNetworkDevices`, `DiscoverRDMADevices` and `DiscoverVirtualPools` are operators with
the names of the functions they model; `Start` detects the mode, `Publish` evaluates
the three on what is in the host at that moment; each of the three directory reads may fail
on its own (publisher.go:54, 131, 217), and so may `PublishResources`, after which the slice of
an earlier process stays (main.go:148). A VF is called `PodName[c]` in the pod of claim c
(sriov.go:36-39, 78-83). The kernel returns it under that name, or under one of `KernelNames`
("devN") if an interface of the host has that name already (`NameReturned`); nothing in the repository
gives it the old name back, so that the name in the slice may be that of no interface. A device is a name (kind and interface) and its AllowMultipleAllocations flag.
The scheduler (`Allocate`, `Available`) gives any published device that the claim's
selectors accept; it is external and follows the flag.

## 3. Runs

Passing:

| run | instance | shows |
|---|---|---|
| `driver_crash` | macvlan + veth, 2 instances and a kubelet that goes forward only, a stop or crash at any point, a failure of 10 kinds, hand-over (1.9 million states) | `ReleasedClean`, `Remembered`, `NeverRecreated`, `GrantKept` |
| `driver_rolling` | veth, 2 instances, 2 stops or crashes, 2 failures, fairness (53 000 states) | `ReleasedClean`, `Inductive`, `EventuallyReleased`, `EventuallyGranted`, `ImplementsLifecycle`, `RecordedOnce` |
| `driver_grants` | RoCE, next to host-device and uverbs claims that share a prefix; 1 instance, a stop or crash, a failure (3 million states) | `Intact`, `GrantUsable` |
| `netns_races` | pod with 2 devices, second pod after one of them, 1 restart, 1 failure of 10 kinds (1.5 million states) | `TrackedAway`, `RunningHasDevice`, `ReleasedInHost`, `GivenBack`, `Inductive`, `ImplementsLoans` |
| `publisher` | 2 claims for one VF, a uverbs and a RoCE claim for one RDMA device, exclusive mode, 1 restart, 1 failure (of any set of the reads, or the publication), fairness; the RoCE claim's link is itself discovered, and the VF changes its name (310 000 states) | `HeldOnce`, `Inductive`, `VfServed` |
| `uuids` | every value of up to 7 characters, UUIDs of 3, two annotations with the prefix and one without | `EveryUidFound`, `ReportedOnce` |

* `ReleasedClean`: once the kubelet has been told that a claim is unprepared, the
  interface created for it is gone from the host, unless a named failure left it there. This is the property that needs
  the files: it must hold when the call was interrupted, when another instance
  did the Prepare, when the answer was lost and the call repeated.
* `Remembered`: what was answered about a claim is in its file, every call knows it,
  and what an instance has in its map is in the file. `NeverRecreated`: while a claim is
  held as prepared no LinkAdd runs for it.
* `RecordedOnce`: the same for a claim that is *recorded*, answered or not, and through
  rolling updates in both directions: a Prepare that finds the file does not create the
  interface again.
* `GrantKept`: no step takes the CDI file or the interface away from a claim that the kubelet
  holds as prepared. It needs neither of the two restrictions of `GrantUsable`: where a shared claim
  loses its interface with the first pod's namespace, it has been taken by the kernel, not the
  driver, and while the pod is there nothing takes it.
* `GrantUsable`: a claim held as prepared has its CDI file and its interface, although
  Prepare answers from the map without a look at the node. `Intact` is why.
* `EventuallyReleased`, `EventuallyGranted`: every pod's claims come to an end.
* `ImplementsLifecycle`: the refinement of `ClaimLifecycle`.
* `TrackedAway`: whatever the two threads do, a device that is out of the host is
  in the tracker's active set or in the hands of a handler that has just taken it
  out. Only a restart or a failed return breaks this (`forgotten`).
* `RunningHasDevice`: a running pod's namespace has the devices of its claims, unless
  the move was dropped by a restart, a failed move, an NRI plugin that is not there, or
  a sandbox that died under its pod, or was never registered because the mode or the name of the
  IB device could not be read (`lost`).
* `ReleasedInHost`: a claim reported unprepared has no registered move and no
  device in its pod. It excludes `raced`: unprepared between `RunPodSandbox` taking the
  move and performing it, the claim's device goes to a pod whose claim is gone. `TrackedAway`
  holds for these claims too: StopPodSandbox finds the device in the tracker.
* `GivenBack`: when StopPodSandbox has gone through its list, a device that is still in the pod was
  lost by a failure or is in the hands of Unprepare at this moment.
* `ImplementsLoans`: the refinement of `DeviceLoans`.
* `HeldOnce`: two prepared claims never have the same name of a VF or, in exclusive mode, the same
  RDMA device, through restarts that publish other snapshots; except from a slice of a
  process that could not read the mode and took it for shared (`oversold`), which
  system.go:35 does on purpose. It speaks of names, as the slice and the claims do: a VF that came back
  from its pod under another name and was published under it is another device for the scheduler,
  although the claim that had it may not have been unprepared yet.
* `VfServed`: a claim that was given a VF is prepared in the end, although the slice may be
  old, the VF may still be inside the previous pod, and what claims have created may be
  listed too; unless the VF came back from a pod under another name (`renamed`), after which
  Prepare fails at LinkByName (sriov.go:56) for whoever is given the old one. The links that claims create are offered as physical interfaces when a process
  starts meanwhile (publisher.go:330); no document promises that they are not, and the
  handlers that create links do not use the device they were given.
* `EveryUidFound`: each UUID that begins a value or follows a character that is neither a
  hexadecimal digit nor a dash is found, also next to overlapping ones; `ReportedOnce`: nothing
  else is, and each once.

Violations, each a disagreement between the code and what the repository says:

| run | property | what happens |
|---|---|---|
| `driver_stuck` | `AlwaysGranted` | crash between LinkAdd and the allocation file; every retry of Prepare fails because the name exists, and Unprepare knows nothing of the claim |
| `driver_stale` | `GrantUsable` | rolling update and back: the first instance still has the claim in its map after the second one unprepared it, and answers the next Prepare of the claim from the map |
| `driver_blank` | `AnswersNameDevice` | the second Prepare of a RoCE claim answers with an empty device name |
| `netns_stop_lost` | `StopReturns` | after a restart StopPodSandbox returns nothing, although its comment names this case |
| `netns_pending_lost` | `MovesRegistered` | after a restart the cached Prepare does not register the move again, and the pod starts without its device |
| `publisher_missing` | `EnumeratedOnce` | a driver that restarts while a pod has the VF publishes the node without it, and does not look again |

`ReleasedClean`, `Remembered`, `NeverRecreated`, `RecordedOnce`, `GrantUsable`, `GrantKept` and `EventuallyGranted` exclude
`escaped` claims, those whose interface one of these left untracked:

* a crash between LinkAdd and the allocation file;
* a dropped error: of the rollback (driver.go:81), of saving the allocation file (driver.go:291), of
  `LinkDel` after a failed `LinkSetUp` or `LinkByName` (dummy.go:56-63);
* an allocation file that cannot be read (driver.go:351);
* a lookup that fails in a handler's Unprepare, which takes every error of `LinkByName` for "already
  removed" and returns nil (dummy.go:99, macvlan.go:109, ipvlan.go:121, veth.go:115, ipoib.go:146): the
  driver removes the files and reports the claim released with the interface still on the host.

In each of these cases the code does what the exclusion says, no document denies it, and the claim stays
excluded until an Unprepare that knows of it does delete the interface. `driver_stuck` is what `EventuallyGranted`
would be without the exclusion. In the same way `RunningHasDevice` excludes `lost`, `TrackedAway` and `GivenBack`
exclude `forgotten`, `ReleasedInHost` excludes `raced`, `HeldOnce` excludes `oversold` and
`VfServed` excludes `renamed`: each is set by named steps only, and cleared when the matter is made good. The list of
hazards in PROJECT.json says for each hazard whether a property covers it or excludes it.

Bounds. One or two claims suffice for the plugin because claims with different
prefixes share only the loop and the map; two are needed for batches that are cut
in the middle, three for two claims that share a prefix and one that does not. Two
instances are the most that overlap in a rolling update. `driver_rolling` has two
failures, which allow a failure of the operation that handles the first one (a
failed rollback, a failed removal after a lost answer), and two crashes, a crash of the
call that cleans up after the first; the runs with more claims have one of each.
`GoBack` says whether the newer of two instances may go while the older one runs: only
`driver_crash` excludes it, for the properties that `driver_stale` shows to fail otherwise.
`driver_grants` has two of the seven crash points, one in each kind of call, and six of the kinds
of failure; `driver_crash` has all of them. `MaxDowns` and `MaxFaults`
are the only bounds; the calls and retries are unlimited. In `RdmaNetns` three
claims on two devices and two pods give a pod with two moves (partial failure of
a loop) and a device that goes from one pod to the next. In `ResourcePublisher` two claims
compete for one device of each exclusive kind, and a restart allows a slice with the mode
misread and a right one before or after it, and a VF that is offered under its second
name. One claim's name for the VF is in use in the host and the other's is not, so that the VF comes back both ways;
in `publisher_missing` it keeps its name, and is missing all the same. In `ClaimUIDs` a
value of 7 characters holds two UUIDs of 3 with one character between, before or after, and
two that overlap; `CHECK_DEADLOCK FALSE` is set in that run only, because the search ends.

Restrictions that are choices, not facts about the code. `driver_grants` does not
hand a prepared claim over to a later pod (`HandOver = FALSE`): with a shared claim
the interface dies with the first pod's namespace and the cached answer to the
second is void. And it leaves out a failed removal of the allocation file (driver.go:335),
after which the forgotten claim comes back from the file with no interface. Both
are listed as hazards, and are the assumption `FilesRemoved` of the theorem. `driver_crash` has both, but
`GoBack = FALSE`: of two instances the newer one stays.

Fairness. `WF(Serve)`: the process executes a call it has begun, the code has no
waiting in it. `WF` of starting an instance while none runs: the DaemonSet. `SF` of
the kubelet's calls per claim: its pod workers retry each claim with back-off until
it is answered, while calls for other claims come in between, so the call may be
disabled and enabled again without end. `WF(DestroyNetns)`: the runtime tears a
removed pod down. In `ResourcePublisher`: `WF(Start)` (the DaemonSet), `WF(Publish)` (main.go
goes on to it without waiting), `WF(Prepare)` per claim (the kubelet's retries) and
`WF(DestroyNetns)`. No fairness on failures, crashes, the scheduler, or the pods that come
and go. The safety runs and the refinement need none.

Every property of a passing run has a mutant: a one-line change of a mapped
definition (the reload that is skipped, the interface that is not deleted, the
tracker's entry that is not written, the flag that is inverted) under which TLC finds the
property violated.

## 4. Proofs

All theorems hold for every value of the constants and every bound, under the
assumptions named. Assumptions on constants are `ConstantAssumption` (`DraDriver`),
`NetnsAssumption`, `ShapeAssumption`, `AnnotationsAssumption` and `PublisherAssumption`; TLC
evaluates each on every run of its module.

**`DraDriverProofs`.** `TypeCorrect`, `InductiveHolds`, `ReleasedCleanHolds` and `RecordedOnceHolds`, with no
assumptions: any number of instances in any order, any claims, shared prefixes among them.
`ReleasedClean` speaks of one moment of a long exchange and is not inductive. `Inductive` says why it
is kept:

* `CallShape`: what the program points of a call imply of each other;
* `Tracked`: an interface that exists and has not escaped is recorded in its allocation file or is
  being prepared at this moment (the files are never behind the node);
* `Known`: the instance that serves a call has every recorded interface in its map
  (the reload at the start of a call, and that nobody else writes during it);
* `Clean`: what was or is about to be reported released has no interface;
* `Loaded`: a Prepare call has every recorded claim in its map, and not yet the one in hand,
  which is why LinkAdd never runs for a recorded claim (`RecordedOnce`).

An Unprepare whose lookup fails keeps `Clean` because it puts the claim among the `escaped` in the step that
leaves the interface; the theorem is that no other way to "released" does.

The proof first shows that `TypeOK /\ CallShape` (`Shape`) is preserved by every action, then,
from a `Shape` state, that each action preserves the other parts. They speak of `Distinct` claims
(`Exposed` does): where a file is written or removed, the file of a distinct claim is another one
(`FilesDistinct`, `MadeLinksDistinct`).

**`ClaimLifecycleProofs`.** `ImplementsLifecycleHolds`: `Spec => Lifecycle!Spec`, with no assumptions, by step simulation.
Every action of `DraDriver` maps to a step of `ClaimLifecycle` or to a stutter; the invariant
of `DraDriverProofs` is needed at `Return` ("released" is only said of what is gone) and at
`PickPrepared` (no interface is made for a released claim). `LifecycleKeepsPromise` proves, in
the abstract specification alone, that its edges add up to `ReleasedClean`.

**`DraGrantsProofs`.** Two assumptions, each of which the model needs. `Forward`: the kubelet never goes back to
an instance that a newer one had replaced, or there is one instance only; `driver_stale` is the counterexample.
`FilesRemoved`: no hand-over and no allocation file that outlives its claim, the two restrictions
described in section 3.

| theorem | assumes |
|---|---|
| `RememberedHolds`, `NeverRecreatedHolds`, `GrantKeptHolds` | `Forward` |
| `IntactHolds` | `FilesRemoved` |
| `GrantUsableHolds` | both |

`Remembered` ties answers, files and map together. Under `Forward` the map that matters is that of the newest
instance or the one that serves: an instance that registered during another one's call has an empty map
until its own first call (`Fresh`). `Intact` adds what the node has for each recorded claim that a pod
wants, and that a released claim has no file from which it could come back. `GrantKeptHolds` is an action property:
a step that deletes a CDI file (`CDIKept`) or an interface (`LinkKept`) works on a claim that is not held as
prepared (`NotAtWork`), because the kubelet unprepares what no pod wants, and Prepare's rollback works on
what is not recorded.

**`RdmaNetnsProofs`.** `TypeCorrect` and `TrackedAwayHolds`, for any pods, claims, devices, restarts,
failures and interleavings. `TrackedAway` needs two facts more. `ThreadShape`: the sandbox a thread
works on stays in the state it found it in, and between a move and its record the device is in
that pod or has gone back to the host; otherwise `MarkActive` could overwrite the only true
record. `InNamespace`: a device is in a namespace that exists, so `returnRDMAToHost`, which
falls back to the host when the pod's namespace cannot be opened, does find it.

**`RdmaClaimsProofs`.** `RunningHasDeviceHolds` without assumptions, from `Serving`: the kubelet's view
and `recorded` agree (`Answered`), the claim in the plugin's hands is unanswered (`BusyWith`), a device
has one pod at a time (`OneUser`), a move is registered until the sandbox is announced
unless a failure kept it from that (`Registered`) and then in hand or done (`Carried`). `GivenBackHolds` without assumptions, from `TrackedAway` and `Owned`:
whoever knows of a device in the pod is neither the tracker, which StopPodSandbox has emptied for the pod, nor
StopPodSandbox itself, when its list is done. `ReleasedInHostHolds` and `InductiveHolds` assuming
`OneHolder` (no two claims of a pod have the same device, which is what `HeldOnce` says of exclusive mode), from
`Releasing`: moves are made for the claim's own pod (`Owned`), the claim whose pod has the device is
the one that is known for it (`Held`), and every move registered, under way or done belongs to a
recorded claim that is not being undone, and none to an `unresolved` one, for which Unprepare does nothing (`Backed`).

**`DeviceLoansProofs`.** `ImplementsLoansHolds`: `Spec => Loans!Spec` assuming `OneHolder`, one lemma per part of the
abstract state. A device changes hands in `Move`, `GiveBack`, `ReturnRDMAToHost` and `DestroyNetns` only
(`DevicesLent`): `Move` needs `Owned` (it lends to the claim's own pod) and `Backed` (to an open claim);
`ReturnRDMAToHost` needs that the path in hand is the claim's pod (`Owned`) and that this pod is not wanted or has
no sandbox (`BusyWith`, `Answered`). However a sandbox comes to run, `RunningHasDevice` in the next state
is what `Run` asks for. A claim is opened by `PodAdded` alone (`OpenedByPod`); `ReleasedInHost` in the next state
is what `Close` asks for. `LoansKeepPromise` proves in the abstract specification alone that these
steps add up to `RunningHasDevice` and `ReleasedInHost`.

**`ClaimUIDsProofs`.** `TypeCorrect`, `EveryUidFoundHolds`, `ReportedOnceHolds`, for annotations of any length and
UUIDs of any shape. The strengthening `Behind` says that every such UUID that begins before
`i` has been collected; it is kept by a jump over a UUID because the place jumped over is preceded
by a character of that UUID, a digit or a dash.

**`ResourcePublisherProofs`.** `TypeCorrect`, `InductiveHolds`, `HeldOnceHolds`. `Offered`: no slice offers a VF,
or in exclusive mode an RDMA device, to many, unless `misread`. `GivenOnce`: such a device was
given once. `PreparedWith`: a claim keeps its device while it is prepared.

The properties that are proved avoid intersections of two enumerated sets (`{x, y} \cap {"a", "b"}`),
which the SMT encoding of the prover does not treat correctly: they are written as
disjunctions of memberships.

Only model-checked: liveness (`EventuallyReleased`, `EventuallyGranted`, `VfServed`), because the
prover handles neither fairness nor ENABLED (a proof of `EventuallyReleased` would need both); the tables of `Handlers`; and whatever would need
induction over data, which the installed provers cannot do (`ClaimUIDs` is a state machine with
an invariant for that reason). No module here declares a RECURSIVE operator.

## 5. Not modelled

* Interface attributes (MTU, up and down of a VF) and the contents of CDI files beyond the claim
  they describe: no property is about them. The name of an interface inside the container is modelled
  where it decides under which name an existing one comes back (`KeepsName`, `PodName`); that two
  interfaces of one pod may not have the same name, and that a pod may rename its interfaces itself, are not.
  Likewise the attributes of published devices that only selectors read.
* How sriov-vf and uverbs search for a device when the scheduler allocated none
  (`findAvailableVF`, `findAvailableUverbs`): every claim the kubelet passes on was allocated,
  `HostLink` and `Dev` give the result.
* An NRI connection that ends in the middle of a sandbox event, and the two trackers of a
  rolling update: `RdmaNetns` has one process.
* `isUUID` looks at the low byte of each character (plugin.go:275); annotations are taken as ASCII.
* The helper's background retries of writing the ResourceSlice, and slices of other drivers.
* The IB device's name that publisher.go:166 reads: it is an attribute only.
* The command line, the Kubernetes client, the images, manifests and build files.

## 6. Plan

1. `Forward` weakened to what a repair of `driver_stale` would have to satisfy: a reload that also drops
   entries, for two instances in any order.
2. The composition of `DraDriver` and `RdmaNetns` for RoCE, with the files of the claim in place of
   `recorded`, shown to implement `RdmaNetns`.
3. `RdmaNetns` with two processes in a rolling update: two trackers, of which the one that
   has a pod's move may not be the one that gets the sandbox event.
4. An abstract specification of the publisher and the scheduler (a device is held by one claim), and
   `ResourcePublisher` shown to implement it.
5. The search for a free VF (`findAvailableVF`), with two claims on one PF.
