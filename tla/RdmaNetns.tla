----------------------------- MODULE RdmaNetns ------------------------------
(***************************************************************************)
(* RDMA devices in exclusive network-namespace mode: the tracker shared by *)
(* the plugin's gRPC calls and the NRI plugin (pkg/nri/tracker.go), the    *)
(* uverbs handler that registers a move and takes the device back          *)
(* (pkg/handler/rdma/uverbs.go), the NRI handlers that perform the move    *)
(* when a pod's sandbox starts and stops (pkg/nri/plugin.go).              *)
(*                                                                         *)
(* Two threads run in the driver process: the plugin serves one claim at a *)
(* time, the runtime delivers one sandbox event at a time.  Each call of   *)
(* the tracker is atomic (its mutex); everything else interleaves.  What   *)
(* DraDriver.tla models of a claim, its files and its map entry, is here   *)
(* the set "recorded" and, of an allocation, whether it names an IB device.*)
(***************************************************************************)
EXTENDS Naturals, FiniteSets

CONSTANTS
  Claims, Pods, Devices,
  PodOf,      \* claim -> the pod that uses it
  Dev,        \* claim -> the device allocated to it
  Host, NoPod, NoClaim

CONSTANTS MaxDowns, MaxFaults, FaultKinds  \* bounds of the environment

ASSUME NetnsAssumption ==
  /\ PodOf \in [Claims -> Pods] /\ Dev \in [Claims -> Devices]
  /\ Host \notin Pods /\ NoPod \notin Pods /\ NoClaim \notin Claims /\ Host # NoPod
  /\ MaxDowns \in Nat /\ MaxFaults \in Nat

ClaimsOf(p) == {c \in Claims : PodOf[c] = p}

VARIABLES
  up,                       \* the driver process runs
  conn,                     \* its NRI plugin: "none" yet, "on", "exited", or "off" for good
  pending, active,          \* the tracker: claims to move; claim -> pod moved into
  recorded,                 \* claims with an allocation (durable)
  unresolved,               \* those whose allocation names no IB device (durable)
  dstep, dclaim, dpath,     \* plugin thread: next step, its claim, podNetnsPath
  nstep, npod, nmoves, nclaim,  \* NRI thread: next step, its pod, moves left, move in hand
  sandbox,                  \* pod -> state; its netns exists unless "none"
  loc,                      \* device -> Host or the pod whose netns holds it
  wanted, told,             \* kubelet: pods to run; last answer for each claim
  lost,                     \* history: claims whose move a named failure dropped, until released
  forgotten,                \* history: claims whose device a named failure left untracked
  raced,                    \* history: claims unprepared while the runtime was busy with their pod
  downs, faults

tracker == <<pending, active>>
durable == <<recorded, unresolved>>
plugin  == <<dstep, dclaim, dpath>>
nri     == <<nstep, npod, nmoves, nclaim>>
kubelet == <<wanted, told>>
process == <<up, conn>>
history == <<lost, forgotten, raced>>
vars == <<process, tracker, durable, plugin, nri, sandbox, loc, kubelet, history, downs, faults>>

TypeOK ==
  /\ up \in BOOLEAN /\ conn \in {"none", "on", "exited", "off"}
  /\ pending \subseteq Claims /\ recorded \subseteq Claims /\ unresolved \subseteq Claims
  /\ active \in [Claims -> Pods \cup {NoPod}]
  /\ dstep \in {"idle", "record", "removeActive", "return", "forget"}
  /\ dclaim \in Claims \cup {NoClaim} /\ dpath \in Pods \cup {NoPod}
  /\ nstep \in {"idle", "open", "move", "mark", "giveBack"}
  /\ npod \in Pods \cup {NoPod} /\ nmoves \subseteq Claims /\ nclaim \in Claims \cup {NoClaim}
  /\ sandbox \in [Pods -> {"none", "starting", "running", "stopping", "stopped"}]
  /\ loc \in [Devices -> Pods \cup {Host}]
  /\ wanted \subseteq Pods /\ told \in [Claims -> {"retry", "prepared", "released"}]
  /\ lost \subseteq Claims /\ forgotten \subseteq Claims /\ raced \subseteq Claims
  /\ downs \in 0..MaxDowns /\ faults \in 0..MaxFaults

Init ==
  /\ up = FALSE /\ conn = "none" /\ pending = {} /\ active = [c \in Claims |-> NoPod]
  /\ recorded = {} /\ unresolved = {}
  /\ dstep = "idle" /\ dclaim = NoClaim /\ dpath = NoPod
  /\ nstep = "idle" /\ npod = NoPod /\ nmoves = {} /\ nclaim = NoClaim
  /\ sandbox = [p \in Pods |-> "none"] /\ loc = [d \in Devices |-> Host]
  /\ wanted = {} /\ told = [c \in Claims |-> "released"]
  /\ lost = {} /\ forgotten = {} /\ raced = {} /\ downs = 0 /\ faults = 0

\* "mode": the netlink call for the namespace mode; "resolve": reading the name of the
\* IB device from sysfs; "record": createCDISpec, or the interface of a RoCE claim; "undo": deleting that
\* interface; "netns": opening the pod's namespace; "move": RdmaLinkSetNsFd into the
\* pod; "return": the way back; "reply": the kubelet times out on an answer; "nri":
\* the connection to the runtime ends; "sandbox": the sandbox of a live pod dies.
Fault(kind) ==
  /\ kind \in FaultKinds /\ faults < MaxFaults /\ faults' = faults + 1

Away(c) == loc[Dev[c]] # Host

PluginIdle == dstep' = "idle" /\ dclaim' = NoClaim /\ dpath' = NoPod
NriIdle    == nstep' = "idle" /\ npod' = NoPod /\ nmoves' = {} /\ nclaim' = NoClaim

-----------------------------------------------------------------------------
(* The process and the pods. *)

\* A process that cannot read the mode takes it for shared as long as it lives.
Start ==
  /\ ~up /\ up' = TRUE
  /\ \/ UNCHANGED <<conn, faults>>
     \/ Fault("mode") /\ conn' = "off"
  /\ UNCHANGED <<tracker, durable, plugin, nri, sandbox, loc, kubelet, history, downs>>

\* In exclusive mode the NRI plugin connects after the kubelet plugin has begun to
\* serve calls.
NriStart ==
  /\ up /\ conn = "none" /\ conn' = "on"
  /\ UNCHANGED <<up, tracker, durable, plugin, nri, sandbox, loc, kubelet, history, downs, faults>>

\* Run returns between two events; its goroutine logs that and ends, while the
\* process goes on serving the kubelet.
NriExited ==
  /\ conn = "on" /\ nstep = "idle" /\ Fault("nri") /\ conn' = "exited"
  /\ UNCHANGED <<up, tracker, durable, plugin, nri, sandbox, loc, kubelet, history, downs>>

\* The process stops or crashes: the tracker is lost.  A sandbox event in
\* flight goes on without the plugin.
Crash ==
  /\ up /\ up' = FALSE /\ conn' = "none" /\ downs < MaxDowns /\ downs' = downs + 1
  /\ pending' = {} /\ active' = [c \in Claims |-> NoPod]
  /\ PluginIdle /\ NriIdle
  /\ sandbox' = [p \in Pods |-> CASE p = npod /\ sandbox[p] = "starting" -> "running"
                                  [] p = npod /\ sandbox[p] = "stopping" -> "stopped"
                                  [] OTHER -> sandbox[p]]
  /\ lost' = lost \cup pending \cup nmoves \cup ({nclaim} \cap Claims)
  /\ forgotten' = forgotten \cup {c \in Claims : Away(c)}
  /\ unresolved' = unresolved \cap recorded
  /\ UNCHANGED <<recorded, loc, kubelet, raced, faults>>

\* The scheduler binds a pod whose devices no other claim holds.
PodAdded(p) ==
  /\ p \notin wanted /\ sandbox[p] = "none"
  /\ \A c \in ClaimsOf(p), e \in Claims :
       Dev[e] = Dev[c] => told[e] = "released" /\ PodOf[e] \notin wanted
  /\ wanted' = wanted \cup {p}
  /\ told' = [c \in Claims |-> IF c \in ClaimsOf(p) THEN "retry" ELSE told[c]]
  /\ UNCHANGED <<process, tracker, durable, plugin, nri, sandbox, loc, history, downs, faults>>

PodRemoved(p) ==
  /\ p \in wanted /\ wanted' = wanted \ {p}
  /\ UNCHANGED <<process, tracker, durable, plugin, nri, sandbox, loc, told, history, downs, faults>>

\* The kubelet has the sandbox created once all claims are prepared.
CreateSandbox(p) ==
  /\ p \in wanted /\ sandbox[p] = "none"
  /\ \A c \in ClaimsOf(p) : told[c] = "prepared"
  /\ sandbox' = [sandbox EXCEPT ![p] = "starting"]
  /\ UNCHANGED <<process, tracker, durable, plugin, nri, loc, kubelet, history, downs, faults>>

\* Without the plugin sandboxes start and stop all the same.
RunUnseen(p) ==
  /\ conn # "on" /\ sandbox[p] = "starting"
  /\ sandbox' = [sandbox EXCEPT ![p] = "running"] /\ lost' = lost \cup ClaimsOf(p)
  /\ UNCHANGED <<process, tracker, durable, plugin, nri, loc, kubelet, forgotten, raced, downs, faults>>

\* A sandbox stops when its pod is gone, or dies under a pod that lives on and
\* gets another one, for which no move is registered any more.
Stops(p) ==
  /\ sandbox[p] = "running"
  /\ \/ p \notin wanted /\ UNCHANGED <<lost, faults>>
     \/ p \in wanted /\ Fault("sandbox") /\ lost' = lost \cup ClaimsOf(p)

StopUnseen(p) ==
  /\ conn # "on" /\ Stops(p)
  /\ sandbox' = [sandbox EXCEPT ![p] = "stopped"]
  /\ UNCHANGED <<process, tracker, durable, plugin, nri, loc, kubelet, forgotten, raced, downs>>

\* The kernel returns the devices of a namespace that is destroyed.
DestroyNetns(p) ==
  /\ sandbox[p] = "stopped" /\ sandbox' = [sandbox EXCEPT ![p] = "none"]
  /\ loc' = [d \in Devices |-> IF loc[d] = p THEN Host ELSE loc[d]]
  /\ forgotten' = forgotten \ {c \in Claims : loc[Dev[c]] = p}
  /\ UNCHANGED <<process, tracker, durable, plugin, nri, kubelet, lost, raced, downs, faults>>

-----------------------------------------------------------------------------
(* The plugin thread. *)

Calls(c) == up /\ dstep = "idle" /\ told[c] = "retry"

\* UverbsHandler.Prepare registers the move before the claim is recorded; and none
\* in a process that takes the mode for shared, or for an IB device whose name it
\* could not read: that claim is prepared all the same.
Registers(c) ==
  /\ pending' = pending \cup {c} /\ lost' = lost \ {c} /\ raced' = raced \ {c}

RegistersNothing(c) == lost' = lost \cup {c} /\ UNCHANGED <<pending, raced>>

Prepare(c) ==
  /\ Calls(c) /\ PodOf[c] \in wanted /\ c \notin recorded
  /\ \/ /\ IF conn = "off" THEN RegistersNothing(c) ELSE Registers(c)
        /\ unresolved' = unresolved \ {c} /\ UNCHANGED faults
     \/ /\ Fault("resolve") /\ RegistersNothing(c)
        /\ unresolved' = unresolved \cup {c}
  /\ dstep' = "record" /\ dclaim' = c
  /\ UNCHANGED <<process, active, recorded, dpath, nri, sandbox, loc, kubelet, forgotten, downs>>

\* A recorded claim is answered without the handler.
PrepareCached(c) ==
  /\ Calls(c) /\ PodOf[c] \in wanted /\ c \in recorded
  /\ told' = [told EXCEPT ![c] = "prepared"]
  /\ UNCHANGED <<process, tracker, durable, plugin, nri, sandbox, loc, wanted, history, downs, faults>>

\* The answer of a call that did its work may be lost; the kubelet calls again.
Tell(c, answer) ==
  \/ told' = [told EXCEPT ![c] = answer] /\ UNCHANGED faults
  \/ Fault("reply") /\ UNCHANGED told

Record ==
  /\ dstep = "record" /\ PluginIdle
  /\ recorded' = recorded \cup {dclaim} /\ Tell(dclaim, "prepared")
  /\ UNCHANGED <<unresolved, process, tracker, nri, sandbox, loc, wanted, history, downs>>

\* UverbsHandler.Unprepare, which first withdraws the pending move; it does nothing
\* if there can be none.
TakeBack(c) ==
  /\ dclaim' = c /\ dpath' = NoPod
  /\ IF conn = "off" \/ c \in unresolved
     THEN dstep' = "forget" /\ UNCHANGED pending
     ELSE dstep' = "removeActive" /\ pending' = pending \ {c}

\* The CDI file cannot be written: what Prepare did is undone.
RecordFailed ==
  /\ dstep = "record" /\ Fault("record") /\ TakeBack(dclaim)
  /\ UNCHANGED <<process, active, durable, nri, sandbox, loc, kubelet, history, downs>>

\* The kubelet gives a claim up when its pod is gone; out of order, while the
\* runtime is still at work on the sandbox.
GivesUp(c) ==
  /\ up /\ dstep = "idle" /\ told[c] # "released" /\ PodOf[c] \notin wanted
  /\ raced' = IF sandbox[PodOf[c]] \in {"starting", "stopping"} THEN raced \cup {c} ELSE raced

Unprepare(c) ==
  /\ GivesUp(c) /\ c \in recorded /\ TakeBack(c)
  /\ told' = [told EXCEPT ![c] = "retry"]
  /\ UNCHANGED <<process, active, durable, nri, sandbox, loc, wanted, lost, forgotten, downs, faults>>

UnprepareUntracked(c) ==
  /\ GivesUp(c) /\ c \notin recorded
  /\ told' = [told EXCEPT ![c] = "released"] /\ lost' = lost \ {c}
  /\ UNCHANGED <<process, tracker, durable, plugin, nri, sandbox, loc, wanted, forgotten, downs, faults>>

RemoveActive ==
  /\ dstep = "removeActive" /\ dstep' = "return"
  /\ dpath' = active[dclaim] /\ active' = [active EXCEPT ![dclaim] = NoPod]
  /\ UNCHANGED <<process, pending, durable, dclaim, nri, sandbox, loc, kubelet, history, downs, faults>>

\* Mutant of Found: only the host's namespace is searched.
FoundInHost(c) == loc[Dev[c]] = Host

\* returnRDMAToHost looks for the device in the pod's namespace if it knows and
\* can open it, in the host's otherwise.
Found(c) ==
  loc[Dev[c]] = IF dpath # NoPod /\ sandbox[dpath] # "none" THEN dpath ELSE Host

ReturnRDMAToHost ==
  /\ dstep = "return" /\ dstep' = "forget"
  /\ \/ /\ loc' = IF Found(dclaim) THEN [loc EXCEPT ![Dev[dclaim]] = Host] ELSE loc
        /\ UNCHANGED <<forgotten, faults>>
     \/ /\ Fault("return") /\ UNCHANGED loc /\ forgotten' = forgotten \cup {dclaim}
  /\ UNCHANGED <<process, tracker, durable, dclaim, dpath, nri, sandbox, kubelet, lost, raced, downs>>

\* The files and the map entry go; a rollback has none to remove.
Forget ==
  /\ dstep = "forget" /\ PluginIdle
  /\ recorded' = recorded \ {dclaim} /\ unresolved' = unresolved \ {dclaim}
  /\ lost' = lost \ {dclaim}
  /\ IF dclaim \in recorded THEN Tell(dclaim, "released") ELSE UNCHANGED <<told, faults>>
  /\ UNCHANGED <<process, tracker, nri, sandbox, loc, wanted, forgotten, raced, downs>>

\* The other half of a RoCE claim fails: the claim stays, and is undone once more.
ForgetFailed ==
  /\ dstep = "forget" /\ dclaim \in recorded /\ Fault("undo") /\ PluginIdle
  /\ UNCHANGED <<process, tracker, durable, nri, sandbox, loc, kubelet, history, downs>>

-----------------------------------------------------------------------------
(* The NRI thread. *)

\* RunPodSandbox consumes the pending moves of the pod's claims.
RunPodSandbox(p) ==
  /\ conn = "on" /\ nstep = "idle" /\ sandbox[p] = "starting"
  /\ LET moves == pending \cap ClaimsOf(p) IN
       IF moves = {}
       THEN sandbox' = [sandbox EXCEPT ![p] = "running"] /\ UNCHANGED <<nri, pending>>
       ELSE /\ pending' = pending \ moves
            /\ nstep' = "open" /\ npod' = p /\ nmoves' = moves
            /\ UNCHANGED <<sandbox, nclaim>>
  /\ UNCHANGED <<process, active, durable, plugin, loc, kubelet, history, downs, faults>>

NetnsOpened ==
  /\ nstep = "open" /\ nstep' = "move"
  /\ UNCHANGED <<process, tracker, durable, plugin, npod, nmoves, nclaim, sandbox, loc, kubelet, history, downs, faults>>

\* Mutant of PutBack: the moves that were taken are dropped.
PutBackNothing(moves) == pending

PutBack(moves) == pending \cup moves

\* The moves are registered again.  With no path the pod runs without its
\* devices; with a path that does not open, its sandbox fails.
NetnsFailed ==
  /\ nstep = "open" /\ Fault("netns") /\ NriIdle
  /\ pending' = PutBack(nmoves)
  /\ \/ /\ sandbox' = [sandbox EXCEPT ![npod] = "running"] /\ lost' = lost \cup nmoves
     \/ /\ sandbox' = [sandbox EXCEPT ![npod] = "stopped"] /\ UNCHANGED lost
  /\ UNCHANGED <<process, active, durable, plugin, loc, kubelet, forgotten, raced, downs>>

Move(c) ==
  /\ nstep = "move" /\ c \in nmoves /\ ~Away(c)
  /\ loc' = [loc EXCEPT ![Dev[c]] = npod]
  /\ nmoves' = nmoves \ {c} /\ nclaim' = c /\ nstep' = "mark"
  /\ UNCHANGED <<process, tracker, durable, plugin, npod, sandbox, kubelet, history, downs, faults>>

\* The device is not in the host, or the move fails: the loop goes on.
MoveFailed(c) ==
  /\ nstep = "move" /\ c \in nmoves
  /\ IF Away(c) THEN UNCHANGED faults ELSE Fault("move")
  /\ nmoves' = nmoves \ {c} /\ lost' = lost \cup {c}
  /\ UNCHANGED <<process, tracker, durable, plugin, npod, nstep, nclaim, sandbox, loc, kubelet, forgotten, raced, downs>>

\* Mutants of Marked: the record is left out; the two UIDs are swapped.
MarkedNothing(c, p) == active
MarkedSwapped(c, p) == [active EXCEPT ![c] = c]

Marked(c, p) == [active EXCEPT ![c] = p]

\* The device is out of the host before the tracker records where it is.
MarkActive ==
  /\ nstep = "mark" /\ nstep' = "move" /\ nclaim' = NoClaim
  /\ active' = Marked(nclaim, npod)
  /\ UNCHANGED <<process, pending, durable, plugin, npod, nmoves, sandbox, loc, kubelet, history, downs, faults>>

RunDone ==
  /\ nstep = "move" /\ nmoves = {} /\ NriIdle
  /\ sandbox' = [sandbox EXCEPT ![npod] = "running"]
  /\ UNCHANGED <<process, tracker, durable, plugin, loc, kubelet, history, downs, faults>>

\* StopPodSandbox takes the active moves of the pod out of the tracker.
StopPodSandbox(p) ==
  /\ conn = "on" /\ nstep = "idle" /\ Stops(p)
  /\ raced' = IF dclaim \in ClaimsOf(p) THEN raced \cup {dclaim} ELSE raced
  /\ sandbox' = [sandbox EXCEPT ![p] = "stopping"]
  /\ nstep' = "giveBack" /\ npod' = p /\ nmoves' = {c \in Claims : active[c] = p}
  /\ active' = [c \in Claims |-> IF active[c] = p THEN NoPod ELSE active[c]]
  /\ UNCHANGED <<process, pending, durable, plugin, nclaim, loc, kubelet, forgotten, downs>>

GiveBack(c) ==
  /\ nstep = "giveBack" /\ c \in nmoves /\ nmoves' = nmoves \ {c}
  /\ loc' = IF loc[Dev[c]] = npod THEN [loc EXCEPT ![Dev[c]] = Host] ELSE loc
  /\ UNCHANGED <<process, tracker, durable, plugin, nstep, npod, nclaim, sandbox, kubelet, history, downs, faults>>

\* The host's or the pod's namespace cannot be opened, or the move back fails.
GiveBackFailed ==
  /\ nstep = "giveBack" /\ nmoves # {} /\ Fault("return")
  /\ \E dropped \in (SUBSET nmoves) \ {{}} :
       nmoves' = nmoves \ dropped /\ forgotten' = forgotten \cup dropped
  /\ UNCHANGED <<process, tracker, durable, plugin, nstep, npod, nclaim, sandbox, loc, kubelet, lost, raced, downs>>

StopDone ==
  /\ nstep = "giveBack" /\ nmoves = {} /\ NriIdle
  /\ sandbox' = [sandbox EXCEPT ![npod] = "stopped"]
  /\ UNCHANGED <<process, tracker, durable, plugin, loc, kubelet, history, downs, faults>>

-----------------------------------------------------------------------------
PluginThread ==
  \/ \E c \in Claims : Prepare(c) \/ PrepareCached(c) \/ Unprepare(c) \/ UnprepareUntracked(c)
  \/ Record \/ RecordFailed \/ RemoveActive \/ ReturnRDMAToHost \/ Forget \/ ForgetFailed

NriThread ==
  \/ \E p \in Pods : RunPodSandbox(p) \/ StopPodSandbox(p)
  \/ \E c \in Claims : Move(c) \/ MoveFailed(c) \/ GiveBack(c)
  \/ NetnsOpened \/ NetnsFailed \/ MarkActive \/ RunDone \/ GiveBackFailed \/ StopDone

Next ==
  \/ Start \/ NriStart \/ NriExited \/ Crash
  \/ \E p \in Pods : \/ PodAdded(p) \/ PodRemoved(p) \/ CreateSandbox(p)
                     \/ RunUnseen(p) \/ StopUnseen(p) \/ DestroyNetns(p)
  \/ PluginThread \/ NriThread

Spec == Init /\ [][Next]_vars

-----------------------------------------------------------------------------
(* Properties. *)

\* A device is never out of the host without somebody who knows where it is:
\* the tracker's record, or a handler that holds the record at this moment
\* (plugin.go:123, uverbs.go:154, plugin.go:142), unless a restart or a failed
\* return lost it.  Whatever the order in which the two threads run.
KnownBy(c, d) ==
  \/ c \in forgotten
  \/ active[c] = loc[d]
  \/ nstep = "mark" /\ nclaim = c /\ npod = loc[d]
  \/ nstep = "giveBack" /\ c \in nmoves /\ npod = loc[d]
  \/ dstep = "return" /\ dclaim = c /\ dpath = loc[d]

TrackedAway ==
  \A d \in Devices : loc[d] # Host => \E c \in Claims : Dev[c] = d /\ KnownBy(c, d)

\* Why TrackedAway is kept.  The claim and the pod that a thread works on, and
\* the state of the pod's sandbox meanwhile; until a move is recorded, nobody but
\* those who return devices touches the device;
ThreadShape ==
  /\ dclaim \in Claims <=> dstep # "idle"
  /\ ~up => conn = "none"
  /\ ~up \/ conn = "off" => pending = {} /\ \A c \in Claims : active[c] = NoPod
  /\ conn # "on" => nstep = "idle"
  /\ nstep # "idle" => npod \in Pods
  /\ nstep \in {"open", "move", "mark"} => sandbox[npod] = "starting"
  /\ nstep = "giveBack" => sandbox[npod] = "stopping"
  /\ nstep = "mark" => nclaim \in Claims /\ loc[Dev[nclaim]] \in {npod, Host}

\* and a device is only in a namespace that exists, so that whoever knows the
\* pod finds the device there.
InNamespace == \A d \in Devices : loc[d] # Host => sandbox[loc[d]] # "none"

Tracking == TypeOK /\ ThreadShape /\ InNamespace /\ TrackedAway

\* A pod that runs has the devices of its claims in its namespace, unless a
\* named failure dropped the move (plugin.go:64-66).
RunningHasDevice ==
  \A c \in Claims \ lost :
    sandbox[PodOf[c]] = "running" /\ PodOf[c] \in wanted => loc[Dev[c]] = PodOf[c]

\* Once a claim is reported unprepared, its device is not in its pod any more
\* and no move is registered for it, so that the next claim can have the device
\* (uverbs.go:144-159).
ReleasedInHost ==
  \A c \in Claims \ raced :
    told[c] = "released" => /\ c \notin pending
                            /\ c \notin forgotten => loc[Dev[c]] # PodOf[c]

\* Why RunningHasDevice is kept.  What the kubelet was told agrees with what is
\* recorded, and a sandbox exists only once all was prepared;
Answered ==
  \A c \in Claims :
    /\ told[c] = "prepared" => c \in recorded
    /\ told[c] = "released" => c \notin recorded
    /\ PodOf[c] \in wanted /\ told[c] # "prepared" => sandbox[PodOf[c]] = "none"

\* the claim in the hands of the plugin thread has no answer yet, and is undone
\* for a pod that is gone or because it could not be recorded;
BusyWith ==
  dstep # "idle" =>
    /\ told[dclaim] = "retry"
    /\ IF dstep = "record"
       THEN dclaim \in (pending \cup lost) \ recorded /\ sandbox[PodOf[dclaim]] = "none"
       ELSE dclaim \in recorded => PodOf[dclaim] \notin wanted

\* a device has one pod at a time;
OneUser ==
  \A c \in {b \in Claims : PodOf[b] \in wanted}, e \in Claims :
    Dev[e] = Dev[c] /\ PodOf[e] # PodOf[c] => told[e] = "released" /\ PodOf[e] \notin wanted

Running(p) == nstep \in {"open", "move", "mark"} /\ npod = p

\* until the sandbox is announced the move of a recorded claim is registered;
Registered ==
  \A c \in recorded :
    PodOf[c] \in wanted /\ sandbox[PodOf[c]] # "running" /\ ~Running(PodOf[c]) => c \in pending \cup lost

\* from then on it is in the hands of RunPodSandbox, or done.
Carried ==
  \A c \in Claims \ lost :
    Running(PodOf[c]) /\ PodOf[c] \in wanted =>
      c \in nmoves \/ (nstep # "open" /\ loc[Dev[c]] = npod)

Serving == Answered /\ BusyWith /\ OneUser /\ Registered /\ Carried /\ RunningHasDevice

\* When StopPodSandbox is done, no device is left in the pod that the tracker knew
\* of: only one that a named failure lost, or that the plugin thread is returning
\* at this moment (plugin.go:130-198).
GivenBack ==
  nstep = "giveBack" /\ nmoves = {} =>
    \A d \in Devices : loc[d] = npod =>
      \E c \in Claims : Dev[c] = d /\ (c \in forgotten \/ (dstep = "return" /\ dclaim = c))

\* Why ReleasedInHost is kept.  Moves are made for the pod of the claim, and
\* returned from there, once each;
Owned ==
  /\ dstep = "return" => dpath \in {NoPod, PodOf[dclaim]}
  /\ nstep = "giveBack" => \A c \in Claims : active[c] # npod
  /\ nstep # "idle" => nmoves \subseteq ClaimsOf(npod)
  /\ nstep = "mark" => PodOf[nclaim] = npod
  /\ \A c \in Claims : active[c] \in {NoPod, PodOf[c]}

\* the claim whose pod has the device is the one that is known for it;
Held == \A c \in Claims : loc[Dev[c]] = PodOf[c] => KnownBy(c, Dev[c])

Undone(c) == dclaim = c /\ dstep \in {"removeActive", "return", "forget"}

\* and a move that is registered, under way or done belongs to a recorded claim
\* that is not being undone, or to the one in the hands of the plugin thread, and
\* never to a claim that Unprepare takes to have none.
Backed ==
  \A c \in Claims \ raced :
    /\ c \in pending => \/ c \in recorded /\ ~Undone(c)
                        \/ dstep = "record" /\ dclaim = c
    /\ nstep # "idle" /\ c \in nmoves => c \in recorded /\ ~Undone(c)
    /\ nstep = "mark" /\ nclaim = c => c \in recorded /\ ~Undone(c)
    /\ active[c] # NoPod => \/ c \in recorded /\ ~Undone(c)
                            \/ dstep \in {"record", "removeActive"} /\ dclaim = c
    /\ c \in unresolved =>
         /\ c \notin pending /\ active[c] = NoPod
         /\ nstep # "idle" => c \notin nmoves
         /\ nstep = "mark" => nclaim # c

Releasing == Owned /\ Held /\ Backed

\* The inductive invariant behind TrackedAway, RunningHasDevice and ReleasedInHost
\* (uverbs.go:47-219, tracker.go:42-149, plugin.go:67-198).
Inductive == Tracking /\ Serving /\ Releasing

\* No two claims of a pod are allocated the same device.
OneHolder == \A c, e \in Claims : PodOf[c] = PodOf[e] /\ Dev[c] = Dev[e] => c = e

\* StopPodSandbox "catches edge cases: kubelet crash between container stop and
\* Unprepare, Unprepare failure with a later retry, or rolling driver updates
\* where in-memory state was lost" (plugin.go:135-137): after it, no device is
\* left in the pod.
StopReturns ==
  [][\A p \in Pods : StopDone /\ npod = p => \A d \in Devices : loc[d] # p]_vars

\* "On driver restart, allocations are restored from disk and
\* NodePrepareResources is idempotent" (README.md:58): when the sandbox of a pod
\* is announced, the moves of its claims, all of them prepared, are registered.
MovesRegistered ==
  [][\A p \in Pods : RunPodSandbox(p) => ClaimsOf(p) \subseteq pending]_vars
-----------------------------------------------------------------------------
(* The driver, the runtime and the kubelet together implement DeviceLoans.   *)

Loans == INSTANCE DeviceLoans WITH
  holder  <- loc,
  running <- {p \in wanted : sandbox[p] = "running"},
  open    <- {c \in Claims : told[c] # "released"} \cup raced,
  dropped <- lost,
  stray   <- forgotten

\* Whatever the order of the steps of the two threads and through every failure, a
\* device changes hands only as that specification allows (uverbs.go:47-219,
\* tracker.go:42-149, plugin.go:67-198).  A claim that is unprepared in the middle
\* of a sandbox event counts as open until it is prepared again.
ImplementsLoans == Loans!Spec

=============================================================================
