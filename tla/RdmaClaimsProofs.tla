-------------------------- MODULE RdmaClaimsProofs --------------------------
(* What RdmaNetns promises to the claims: a pod that runs has its devices,  *)
(* and a claim that is released leaves nothing behind.  Both need to know   *)
(* what the kubelet was told and what is recorded, on top of what           *)
(* RdmaNetnsProofs establishes of the threads (Shape).                      *)
EXTENDS RdmaNetnsProofs

-----------------------------------------------------------------------------
(* A pod that runs has its devices. *)

\* At first there is no pod and nothing is recorded.
LEMMA InitServing == ASSUME Init PROVE Serving
BY NetnsAssumption
DEF Init, Serving, Answered, BusyWith, OneUser, Registered, Running, Carried, RunningHasDevice

\* Restarts and sandboxes that come and go drop a move only together with a
\* mark in "lost".
LEMMA EnvironmentServes ==
  ASSUME Shape, Serving,
         \/ Start \/ NriStart \/ NriExited \/ Crash
         \/ \E p \in Pods : \/ PodAdded(p) \/ PodRemoved(p) \/ CreateSandbox(p)
                            \/ RunUnseen(p) \/ StopUnseen(p) \/ DestroyNetns(p)
  PROVE  Serving'
<1> USE NetnsAssumption
    DEF Shape, TypeOK, ThreadShape, InNamespace, Serving, Answered, BusyWith, OneUser, Registered,
        Running, Carried, RunningHasDevice, ClaimsOf, process, tracker, durable, plugin, nri, kubelet, history
<1>1. ASSUME Start PROVE Serving'
  BY <1>1 DEF Start
<1>2. ASSUME NriStart PROVE Serving'
  BY <1>2 DEF NriStart
<1>3. ASSUME NriExited PROVE Serving'
  BY <1>3 DEF NriExited
<1>4. ASSUME Crash PROVE Serving'
  \* The moves that were registered or in hand are lost; a move that was made stays.
  BY <1>4 DEF Crash, PluginIdle, NriIdle
<1>5. ASSUME NEW p \in Pods, PodAdded(p) PROVE Serving'
  \* No claim of the pod is recorded, and nobody else uses its devices.
  BY <1>5 DEF PodAdded
<1>6. ASSUME NEW p \in Pods, PodRemoved(p) PROVE Serving'
  BY <1>6 DEF PodRemoved
<1>7. ASSUME NEW p \in Pods, CreateSandbox(p) PROVE Serving'
  \* All claims were answered, so they are recorded and their moves registered.
  BY <1>7 DEF CreateSandbox
<1>8. ASSUME NEW p \in Pods, RunUnseen(p) PROVE Serving'
  BY <1>8 DEF RunUnseen
<1>9. ASSUME NEW p \in Pods, StopUnseen(p) PROVE Serving'
  BY <1>9 DEF StopUnseen, Stops
<1>10. ASSUME NEW p \in Pods, DestroyNetns(p) PROVE Serving'
  \* No sandbox that runs is affected.
  BY <1>10 DEF DestroyNetns
<1> QED BY <1>1, <1>2, <1>3, <1>4, <1>5, <1>6, <1>7, <1>8, <1>9, <1>10

\* The plugin thread registers moves before there is a sandbox, and takes back
\* devices of pods that are gone only.
LEMMA PluginServes == ASSUME Shape, Serving, PluginThread PROVE Serving'
<1> USE NetnsAssumption
    DEF Shape, TypeOK, ThreadShape, InNamespace, Serving, Answered, BusyWith, OneUser, Registered,
        Running, Carried, RunningHasDevice, ClaimsOf, process, tracker, durable, plugin, nri, kubelet, history
<1>1. ASSUME NEW c \in Claims, Prepare(c) PROVE Serving'
  \* Registers the move of a claim whose pod has no sandbox yet, or marks it as lost.
  BY <1>1 DEF Prepare, Calls, Registers, RegistersNothing
<1>2. ASSUME NEW c \in Claims, PrepareCached(c) PROVE Serving'
  BY <1>2 DEF PrepareCached, Calls
<1>3. ASSUME NEW c \in Claims, Unprepare(c) PROVE Serving'
  \* Only for a pod that is not wanted.
  BY <1>3 DEF Unprepare, GivesUp, TakeBack
<1>4. ASSUME NEW c \in Claims, UnprepareUntracked(c) PROVE Serving'
  BY <1>4 DEF UnprepareUntracked, GivesUp
<1>5. ASSUME Record PROVE Serving'
  BY <1>5 DEF Record, PluginIdle, Tell
<1>6. ASSUME RecordFailed PROVE Serving'
  \* Withdraws the move of a claim that is not recorded.
  BY <1>6 DEF RecordFailed, TakeBack
<1>7. ASSUME RemoveActive PROVE Serving'
  BY <1>7 DEF RemoveActive
<1>8. ASSUME ReturnRDMAToHost PROVE Serving'
  \* The claim in hand shares its device with no claim of a wanted pod with a sandbox.
  BY <1>8 DEF ReturnRDMAToHost, Found
<1>9. ASSUME Forget PROVE Serving'
  BY <1>9 DEF Forget, PluginIdle, Tell
<1>10. ASSUME ForgetFailed PROVE Serving'
  BY <1>10 DEF ForgetFailed, PluginIdle
<1> QED BY <1>1, <1>2, <1>3, <1>4, <1>5, <1>6, <1>7, <1>8, <1>9, <1>10 DEF PluginThread

\* The NRI thread carries each registered move to the end or counts it as lost.
LEMMA NriServes == ASSUME Shape, Serving, NriThread PROVE Serving'
<1> USE NetnsAssumption
    DEF Shape, TypeOK, ThreadShape, InNamespace, Serving, Answered, BusyWith, OneUser, Registered,
        Running, Carried, RunningHasDevice, ClaimsOf, process, tracker, durable, plugin, nri, kubelet, history
<1>1. ASSUME NEW p \in Pods, RunPodSandbox(p) PROVE Serving'
  \* With nothing registered, all moves of the pod were lost.
  BY <1>1 DEF RunPodSandbox
<1>2. ASSUME NEW p \in Pods, StopPodSandbox(p) PROVE Serving'
  \* Under a pod that lives on, the moves count as lost.
  BY <1>2 DEF StopPodSandbox, Stops
<1>3. ASSUME NEW c \in Claims, Move(c) PROVE Serving'
  BY <1>3 DEF Move, Away
<1>4. ASSUME NEW c \in Claims, MoveFailed(c) PROVE Serving'
  BY <1>4 DEF MoveFailed, Away
<1>5. ASSUME NEW c \in Claims, GiveBack(c) PROVE Serving'
  BY <1>5 DEF GiveBack
<1>6. ASSUME NetnsOpened PROVE Serving'
  BY <1>6 DEF NetnsOpened
<1>7. ASSUME NetnsFailed PROVE Serving'
  \* What was taken is registered again.
  BY <1>7 DEF NetnsFailed, NriIdle, PutBack
<1>8. ASSUME MarkActive PROVE Serving'
  BY <1>8 DEF MarkActive, Marked
<1>9. ASSUME RunDone PROVE Serving'
  \* No move is left, so each was made or lost.
  BY <1>9 DEF RunDone, NriIdle
<1>10. ASSUME GiveBackFailed PROVE Serving'
  BY <1>10 DEF GiveBackFailed
<1>11. ASSUME StopDone PROVE Serving'
  BY <1>11 DEF StopDone, NriIdle
<1> QED BY <1>1, <1>2, <1>3, <1>4, <1>5, <1>6, <1>7, <1>8, <1>9, <1>10, <1>11 DEF NriThread

LEMMA ServingHolds == Spec => [](Shape /\ Serving)
<1>1. Init => Shape /\ Serving
  BY InitTracking, InitServing DEF Tracking, Shape
<1>2. Shape /\ Serving /\ [Next]_vars => Shape' /\ Serving'
  <2>1. ASSUME Shape, Serving, Next PROVE Shape' /\ Serving'
    BY <2>1, NextShape, EnvironmentServes, PluginServes, NriServes DEF Next
  <2>2. ASSUME Shape, Serving, UNCHANGED vars PROVE Shape' /\ Serving'
    <3>1. Shape'
      BY <2>2 DEF Shape, TypeOK, ThreadShape, InNamespace, vars, process, tracker, durable, plugin, nri, kubelet, history
    <3>2. Serving'
      BY <2>2 DEF Serving, Answered, BusyWith, OneUser, Registered, Running, Carried,
                  RunningHasDevice, ClaimsOf, vars, process, tracker, durable, plugin, nri, kubelet, history
    <3> QED BY <3>1, <3>2
  <2> QED BY <2>1, <2>2
<1> QED BY <1>1, <1>2, PTL DEF Spec

\* For all pods, claims and devices and through every interleaving: a pod that
\* runs has the devices of its claims in its namespace, unless a restart, a failed
\* move or the end of the NRI plugin or of its sandbox dropped the move
\* (plugin.go:64-128, uverbs.go:117).
THEOREM RunningHasDeviceHolds == Spec => []RunningHasDevice
<1>1. Serving => RunningHasDevice
  BY DEF Serving
<1> QED BY <1>1, ServingHolds, PTL

-----------------------------------------------------------------------------
(* What StopPodSandbox gives back. *)

\* The plugin thread takes a record out of the tracker for the claim's own pod only.
LEMMA PluginOwned == ASSUME Shape, Owned, PluginThread PROVE Owned'
<1> USE NetnsAssumption DEF Shape, TypeOK, ThreadShape, Owned, ClaimsOf, tracker, durable, plugin, nri
<1>1. ASSUME NEW c \in Claims,
             Prepare(c) \/ PrepareCached(c) \/ Unprepare(c) \/ UnprepareUntracked(c)
      PROVE  Owned'
  BY <1>1 DEF Prepare, PrepareCached, Unprepare, UnprepareUntracked, Calls, GivesUp, TakeBack
<1>2. CASE Record \/ RecordFailed \/ Forget \/ ForgetFailed
  BY <1>2 DEF Record, RecordFailed, Forget, ForgetFailed, TakeBack, PluginIdle
<1>3. CASE RemoveActive
  \* The path that the handler gets is the record's.
  BY <1>3 DEF RemoveActive
<1>4. CASE ReturnRDMAToHost
  BY <1>4 DEF ReturnRDMAToHost
<1> QED BY <1>1, <1>2, <1>3, <1>4 DEF PluginThread

\* RunPodSandbox records moves of the pod it runs, StopPodSandbox leaves no record of
\* the pod it stops.
LEMMA NriOwned == ASSUME Shape, Owned, NriThread PROVE Owned'
<1> USE NetnsAssumption DEF Shape, TypeOK, ThreadShape, Owned, ClaimsOf, tracker, durable, plugin, nri
<1>1. ASSUME NEW p \in Pods, RunPodSandbox(p) PROVE Owned'
  BY <1>1 DEF RunPodSandbox
<1>2. ASSUME NEW p \in Pods, StopPodSandbox(p) PROVE Owned'
  BY <1>2 DEF StopPodSandbox
<1>3. ASSUME NEW c \in Claims, Move(c) \/ MoveFailed(c) \/ GiveBack(c) PROVE Owned'
  BY <1>3 DEF Move, MoveFailed, GiveBack
<1>4. CASE MarkActive
  BY <1>4 DEF MarkActive, Marked
<1>5. CASE NetnsOpened \/ NetnsFailed \/ RunDone \/ GiveBackFailed \/ StopDone
  BY <1>5 DEF NetnsOpened, NetnsFailed, RunDone, GiveBackFailed, StopDone, NriIdle
<1> QED BY <1>1, <1>2, <1>3, <1>4, <1>5 DEF NriThread

\* The rest of the system only ever empties the tracker.
LEMMA EnvironmentOwned ==
  ASSUME Shape, Owned,
         \/ Start \/ NriStart \/ NriExited \/ Crash
         \/ \E p \in Pods : \/ PodAdded(p) \/ PodRemoved(p) \/ CreateSandbox(p)
                            \/ RunUnseen(p) \/ StopUnseen(p) \/ DestroyNetns(p)
  PROVE  Owned'
<1> USE NetnsAssumption DEF Owned, ClaimsOf, tracker, durable, plugin, nri
<1>1. CASE Crash
  BY <1>1 DEF Crash, PluginIdle, NriIdle
<1>2. CASE \/ Start \/ NriStart \/ NriExited
           \/ \E p \in Pods : \/ PodAdded(p) \/ PodRemoved(p) \/ CreateSandbox(p)
                              \/ RunUnseen(p) \/ StopUnseen(p) \/ DestroyNetns(p)
  BY <1>2 DEF Start, NriStart, NriExited, PodAdded, PodRemoved, CreateSandbox, RunUnseen,
              StopUnseen, DestroyNetns
<1> QED BY <1>1, <1>2

\* For all pods, claims and devices, and whatever the plugin thread does meanwhile:
\* once StopPodSandbox has gone through the moves that it took out of the tracker, a
\* device that is still in the pod was lost by a restart or a failed return, or is in
\* the hands of Unprepare (plugin.go:130-198).
THEOREM GivenBackHolds == Spec => []GivenBack
<1>1. Init => Owned
  BY NetnsAssumption DEF Init, Owned
<1>2. Tracking /\ Owned /\ [Next]_vars => Owned'
  <2>1. ASSUME Tracking, Owned, Next PROVE Owned'
    BY <2>1, EnvironmentOwned, PluginOwned, NriOwned DEF Next, Tracking, Shape
  <2>2. ASSUME Owned, UNCHANGED vars PROVE Owned'
    BY <2>2 DEF Owned, ClaimsOf, vars, tracker, durable, plugin, nri
  <2> QED BY <2>1, <2>2
<1>3. Tracking /\ Owned => GivenBack
  \* Whoever knows of the device is not the tracker, and not StopPodSandbox any more.
  BY NetnsAssumption DEF Tracking, TypeOK, ThreadShape, TrackedAway, KnownBy, Owned, GivenBack
<1> QED BY <1>1, <1>2, <1>3, TrackingHolds, PTL DEF Spec

-----------------------------------------------------------------------------
(* A claim that is released leaves nothing behind. *)

LEMMA InitReleasing == ASSUME Init PROVE Releasing
BY NetnsAssumption DEF Init, Releasing, Owned, Held, KnownBy, Backed, Undone

LEMMA EnvironmentReleases ==
  ASSUME Shape, Serving, Releasing,
         \/ Start \/ NriStart \/ NriExited \/ Crash
         \/ \E p \in Pods : \/ PodAdded(p) \/ PodRemoved(p) \/ CreateSandbox(p)
                            \/ RunUnseen(p) \/ StopUnseen(p) \/ DestroyNetns(p)
  PROVE  Releasing'
<1> USE NetnsAssumption
    DEF Shape, TypeOK, ThreadShape, InNamespace, Serving, Answered, BusyWith, Running, Releasing,
        Owned, Held, KnownBy, Backed, Undone, ClaimsOf, process, tracker, durable, plugin, nri, kubelet, history
<1>1. ASSUME Start PROVE Releasing'
  BY <1>1 DEF Start
<1>2. ASSUME NriStart PROVE Releasing'
  BY <1>2 DEF NriStart
<1>3. ASSUME NriExited PROVE Releasing'
  BY <1>3 DEF NriExited
<1>4. ASSUME Crash PROVE Releasing'
  \* The tracker is empty, and all that is away is forgotten.
  BY <1>4 DEF Crash, PluginIdle, NriIdle, Away
<1>5. ASSUME NEW p \in Pods, PodAdded(p) PROVE Releasing'
  BY <1>5 DEF PodAdded
<1>6. ASSUME NEW p \in Pods, PodRemoved(p) PROVE Releasing'
  BY <1>6 DEF PodRemoved
<1>7. ASSUME NEW p \in Pods, CreateSandbox(p) PROVE Releasing'
  BY <1>7 DEF CreateSandbox
<1>8. ASSUME NEW p \in Pods, RunUnseen(p) PROVE Releasing'
  BY <1>8 DEF RunUnseen
<1>9. ASSUME NEW p \in Pods, StopUnseen(p) PROVE Releasing'
  BY <1>9 DEF StopUnseen, Stops
<1>10. ASSUME NEW p \in Pods, DestroyNetns(p) PROVE Releasing'
  \* What was known of the namespace is not needed any more.
  BY <1>10 DEF DestroyNetns
<1> QED BY <1>1, <1>2, <1>3, <1>4, <1>5, <1>6, <1>7, <1>8, <1>9, <1>10

\* The plugin thread withdraws the registered move and the record before it forgets
\* the claim; what it cannot withdraw is in the hands of the runtime.
LEMMA PluginReleases == ASSUME Shape, Serving, Releasing, PluginThread PROVE Releasing'
<1> USE NetnsAssumption
    DEF Shape, TypeOK, ThreadShape, InNamespace, Serving, Answered, BusyWith, Running, Releasing,
        Owned, Held, KnownBy, Backed, Undone, ClaimsOf, process, tracker, durable, plugin, nri, kubelet, history
<1>1. ASSUME NEW c \in Claims, Prepare(c) PROVE Releasing'
  \* The pod has no sandbox, so the device is not in it.
  BY <1>1 DEF Prepare, Calls, Registers, RegistersNothing
<1>2. ASSUME NEW c \in Claims, PrepareCached(c) PROVE Releasing'
  BY <1>2 DEF PrepareCached, Calls
<1>3. ASSUME NEW c \in Claims, Unprepare(c) PROVE Releasing'
  \* In the middle of a sandbox event the claim counts as raced.
  BY <1>3 DEF Unprepare, GivesUp, TakeBack
<1>4. ASSUME NEW c \in Claims, UnprepareUntracked(c) PROVE Releasing'
  BY <1>4 DEF UnprepareUntracked, GivesUp
<1>5. ASSUME Record PROVE Releasing'
  BY <1>5 DEF Record, PluginIdle, Tell
<1>6. ASSUME RecordFailed PROVE Releasing'
  BY <1>6 DEF RecordFailed, TakeBack
<1>7. ASSUME RemoveActive PROVE Releasing'
  BY <1>7 DEF RemoveActive
<1>8. ASSUME ReturnRDMAToHost PROVE Releasing'
  \* The device is found where the record says, or the return fails.
  BY <1>8 DEF ReturnRDMAToHost, Found
<1>9. ASSUME Forget PROVE Releasing'
  \* Nothing is registered or recorded for the claim any more.
  BY <1>9 DEF Forget, PluginIdle, Tell
<1>10. ASSUME ForgetFailed PROVE Releasing'
  BY <1>10 DEF ForgetFailed, PluginIdle
<1> QED BY <1>1, <1>2, <1>3, <1>4, <1>5, <1>6, <1>7, <1>8, <1>9, <1>10 DEF PluginThread

\* The NRI thread works for claims that are recorded, or raced by their release.
LEMMA NriReleases == ASSUME OneHolder, Shape, Serving, Releasing, NriThread PROVE Releasing'
<1> USE NetnsAssumption
    DEF Shape, TypeOK, ThreadShape, InNamespace, Serving, Answered, BusyWith, Running, Releasing,
        Owned, Held, KnownBy, Backed, Undone, ClaimsOf, process, tracker, durable, plugin, nri, kubelet, history
<1>1. ASSUME NEW p \in Pods, RunPodSandbox(p) PROVE Releasing'
  \* The claim that is being prepared has a pod without a sandbox.
  BY <1>1 DEF RunPodSandbox
<1>2. ASSUME NEW p \in Pods, StopPodSandbox(p) PROVE Releasing'
  \* The claim that is being undone counts as raced.
  BY <1>2 DEF StopPodSandbox, Stops
<1>3. ASSUME NEW c \in Claims, Move(c) PROVE Releasing'
  \* The device goes to the claim's pod, and no other claim of it waits for the device.
  BY <1>3, OneHolder DEF Move, Away, OneHolder
<1>4. ASSUME NEW c \in Claims, MoveFailed(c) PROVE Releasing'
  BY <1>4 DEF MoveFailed, Away
<1>5. ASSUME NEW c \in Claims, GiveBack(c) PROVE Releasing'
  BY <1>5 DEF GiveBack
<1>6. ASSUME NetnsOpened PROVE Releasing'
  BY <1>6 DEF NetnsOpened
<1>7. ASSUME NetnsFailed PROVE Releasing'
  BY <1>7 DEF NetnsFailed, NriIdle, PutBack
<1>8. ASSUME MarkActive PROVE Releasing'
  \* The device is still there, or back in the host.
  BY <1>8 DEF MarkActive, Marked
<1>9. ASSUME RunDone PROVE Releasing'
  BY <1>9 DEF RunDone, NriIdle
<1>10. ASSUME GiveBackFailed PROVE Releasing'
  BY <1>10 DEF GiveBackFailed
<1>11. ASSUME StopDone PROVE Releasing'
  BY <1>11 DEF StopDone, NriIdle
<1> QED BY <1>1, <1>2, <1>3, <1>4, <1>5, <1>6, <1>7, <1>8, <1>9, <1>10, <1>11 DEF NriThread

\* A released claim is not recorded, so no move of it is registered or made, and
\* its device is not in its pod without one.
LEMMA ReleasedAtRest == ASSUME Shape, Serving, Releasing PROVE ReleasedInHost
BY NetnsAssumption
DEF Shape, TypeOK, ThreadShape, Serving, Answered, BusyWith, Releasing, Held, KnownBy, Backed,
    Undone, ReleasedInHost

\* Who knows of a device, what the kubelet was told and what is registered for
\* whom agree in every reachable state, if no two claims of a pod have the same
\* device (uverbs.go:47-219, tracker.go:42-149, plugin.go:67-198).
THEOREM InductiveHolds == ASSUME OneHolder PROVE Spec => []Inductive
<1>1. Init => Releasing
  BY InitReleasing
<1>2. Shape /\ Serving /\ Releasing /\ [Next]_vars => Releasing'
  <2>1. ASSUME Shape, Serving, Releasing, Next PROVE Releasing'
    BY <2>1, OneHolder, EnvironmentReleases, PluginReleases, NriReleases DEF Next
  <2>2. ASSUME Releasing, UNCHANGED vars PROVE Releasing'
    BY <2>2 DEF Releasing, Owned, Held, KnownBy, Backed, Undone, ClaimsOf, vars, process, tracker, durable, plugin, nri, kubelet, history
  <2> QED BY <2>1, <2>2
<1>3. Tracking /\ Serving /\ Releasing => Inductive
  BY DEF Inductive
<1> QED BY <1>1, <1>2, <1>3, TrackingHolds, ServingHolds, PTL DEF Spec

\* A claim that was reported unprepared has no registered move and its device is
\* not in its pod, unless it was unprepared in the middle of a sandbox event or a
\* named failure left the device there (uverbs.go:144-159, plugin.go:130-198).
THEOREM ReleasedInHostHolds == ASSUME OneHolder PROVE Spec => []ReleasedInHost
<1>1. Inductive => ReleasedInHost
  BY ReleasedAtRest DEF Inductive, Tracking, Shape
<1> QED BY <1>1, InductiveHolds, PTL
=============================================================================
