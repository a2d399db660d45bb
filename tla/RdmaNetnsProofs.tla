-------------------------- MODULE RdmaNetnsProofs ---------------------------
(* What RdmaNetns promises for every set of pods, claims and devices, and    *)
(* any number of restarts and failures.                                      *)
EXTENDS RdmaNetns, TLAPS

-----------------------------------------------------------------------------
(* Types, and what the two threads work on. *)

Shape == TypeOK /\ ThreadShape /\ InNamespace

\* Initially nothing runs and every device is in the host's namespace.
LEMMA InitTracking == ASSUME Init PROVE Tracking
<1>1. TypeOK
  <2>1. downs \in 0..MaxDowns /\ faults \in 0..MaxFaults
    BY NetnsAssumption DEF Init
  <2>2. up \in BOOLEAN /\ conn \in {"none", "on", "exited"}
    BY DEF Init
  <2>3. /\ active \in [Claims -> Pods \cup {NoPod}] /\ loc \in [Devices -> Pods \cup {Host}]
        /\ sandbox \in [Pods -> {"none", "starting", "running", "stopping", "stopped"}]
        /\ told \in [Claims -> {"retry", "prepared", "released"}]
    BY DEF Init
  <2> QED BY <2>1, <2>2, <2>3 DEF Init, TypeOK
<1>2. \A d \in Devices : loc[d] = Host
  BY DEF Init
<1>3. ThreadShape
  BY NetnsAssumption DEF Init, ThreadShape
<1> QED BY <1>1, <1>2, <1>3 DEF Tracking, InNamespace, TrackedAway

\* The process and the pods keep types and thread shape: while a thread works on a
\* pod, its sandbox is neither started nor destroyed by anybody else.
LEMMA EnvironmentShape ==
  ASSUME Shape,
         \/ Start \/ NriStart \/ NriExited \/ Crash
         \/ \E p \in Pods : \/ PodAdded(p) \/ PodRemoved(p) \/ CreateSandbox(p)
                            \/ RunUnseen(p) \/ StopUnseen(p) \/ DestroyNetns(p)
  PROVE  Shape'
<1> USE NetnsAssumption
    DEF Shape, TypeOK, ThreadShape, InNamespace, process, tracker, durable, plugin, nri, kubelet, history
<1>1. ASSUME Start PROVE Shape'
  BY <1>1 DEF Start, Fault
<1>2. ASSUME Crash PROVE Shape'
  <2>1. /\ sandbox' \in [Pods -> {"none", "starting", "running", "stopping", "stopped"}]
        /\ \A p \in Pods : sandbox[p] # "none" => sandbox'[p] # "none"
    BY <1>2 DEF Crash
  <2>2. active' \in [Claims -> Pods \cup {NoPod}]
    BY <1>2 DEF Crash
  <2>3. lost' \subseteq Claims /\ forgotten' \subseteq Claims /\ downs' \in 0..MaxDowns
    BY <1>2 DEF Crash
  <2> QED BY <1>2, <2>1, <2>2, <2>3 DEF Crash, PluginIdle, NriIdle
<1>3. ASSUME NEW p \in Pods, PodAdded(p) PROVE Shape'
  BY <1>3 DEF PodAdded
<1>4. ASSUME NEW p \in Pods, PodRemoved(p) PROVE Shape'
  BY <1>4 DEF PodRemoved
<1>5. ASSUME NEW p \in Pods, CreateSandbox(p) PROVE Shape'
  BY <1>5 DEF CreateSandbox
<1>6. ASSUME NEW p \in Pods, RunUnseen(p) PROVE Shape'
  BY <1>6 DEF RunUnseen, ClaimsOf
<1>7. ASSUME NEW p \in Pods, StopUnseen(p) PROVE Shape'
  BY <1>7 DEF StopUnseen, Stops, ClaimsOf, Fault
<1>8. ASSUME NEW p \in Pods, DestroyNetns(p) PROVE Shape'
  BY <1>8 DEF DestroyNetns
<1>9. ASSUME NriStart PROVE Shape'
  BY <1>9 DEF NriStart
<1>10. ASSUME NriExited PROVE Shape'
  BY <1>10 DEF NriExited, Fault
<1> QED BY <1>1, <1>2, <1>3, <1>4, <1>5, <1>6, <1>7, <1>8, <1>9, <1>10

\* So does the plugin thread, which works on claims and moves devices to the host.
LEMMA PluginShape == ASSUME Shape, PluginThread PROVE Shape'
<1> USE NetnsAssumption
    DEF Shape, TypeOK, ThreadShape, InNamespace, process, tracker, durable, plugin, nri, kubelet, history
<1>1. ASSUME NEW c \in Claims, Prepare(c) PROVE Shape'
  BY <1>1 DEF Prepare, Calls, Registers, RegistersNothing, Fault
<1>2. ASSUME NEW c \in Claims, PrepareCached(c) PROVE Shape'
  BY <1>2 DEF PrepareCached, Calls
<1>3. ASSUME NEW c \in Claims, Unprepare(c) PROVE Shape'
  BY <1>3 DEF Unprepare, TakeBack, GivesUp
<1>4. ASSUME NEW c \in Claims, UnprepareUntracked(c) PROVE Shape'
  BY <1>4 DEF UnprepareUntracked, GivesUp
<1>5. ASSUME Record PROVE Shape'
  BY <1>5 DEF Record, Tell, PluginIdle, Fault
<1>6. ASSUME RecordFailed PROVE Shape'
  BY <1>6 DEF RecordFailed, TakeBack, Fault
<1>7. ASSUME RemoveActive PROVE Shape'
  BY <1>7 DEF RemoveActive
<1>8. ASSUME ReturnRDMAToHost PROVE Shape'
  BY <1>8 DEF ReturnRDMAToHost, Fault
<1>9. ASSUME Forget PROVE Shape'
  BY <1>9 DEF Forget, Tell, PluginIdle, Fault
<1>10. ASSUME ForgetFailed PROVE Shape'
  BY <1>10 DEF ForgetFailed, PluginIdle, Fault
<1> QED BY <1>1, <1>2, <1>3, <1>4, <1>5, <1>6, <1>7, <1>8, <1>9, <1>10 DEF PluginThread

\* So does the NRI thread, which carries a sandbox through its start or its stop.
LEMMA NriShape == ASSUME Shape, NriThread PROVE Shape'
<1> USE NetnsAssumption
    DEF Shape, TypeOK, ThreadShape, InNamespace, process, tracker, durable, plugin, nri, kubelet, history
<1>1. ASSUME NEW p \in Pods, RunPodSandbox(p) PROVE Shape'
  BY <1>1 DEF RunPodSandbox, ClaimsOf
<1>2. ASSUME NEW p \in Pods, StopPodSandbox(p) PROVE Shape'
  BY <1>2 DEF StopPodSandbox, Stops, ClaimsOf, Fault
<1>3. ASSUME NEW c \in Claims, Move(c) PROVE Shape'
  BY <1>3 DEF Move, Away
<1>4. ASSUME NEW c \in Claims, MoveFailed(c) PROVE Shape'
  BY <1>4 DEF MoveFailed, Fault
<1>5. ASSUME NEW c \in Claims, GiveBack(c) PROVE Shape'
  BY <1>5 DEF GiveBack
<1>6. ASSUME NetnsOpened PROVE Shape'
  BY <1>6 DEF NetnsOpened
<1>7. ASSUME NetnsFailed PROVE Shape'
  BY <1>7 DEF NetnsFailed, NriIdle, PutBack, Fault
<1>8. ASSUME MarkActive PROVE Shape'
  BY <1>8 DEF MarkActive, Marked
<1>9. ASSUME RunDone PROVE Shape'
  BY <1>9 DEF RunDone, NriIdle
<1>10. ASSUME GiveBackFailed PROVE Shape'
  BY <1>10 DEF GiveBackFailed, Fault
<1>11. ASSUME StopDone PROVE Shape'
  BY <1>11 DEF StopDone, NriIdle
<1> QED BY <1>1, <1>2, <1>3, <1>4, <1>5, <1>6, <1>7, <1>8, <1>9, <1>10, <1>11 DEF NriThread

\* Every step keeps types and thread shape.
LEMMA NextShape == ASSUME Shape, Next PROVE Shape'
BY EnvironmentShape, PluginShape, NriShape DEF Next

\* Every reachable state of the tracker, the two threads and the pods is well
\* typed (tracker.go:42-52), and the threads hold what their steps rely on.
THEOREM TypeCorrect == Spec => []TypeOK
<1>1. Init => Shape
  BY InitTracking DEF Tracking, Shape
<1>2. Shape /\ [Next]_vars => Shape'
  <2>1. ASSUME Shape, Next PROVE Shape'
    BY <2>1, NextShape
  <2>2. ASSUME Shape, UNCHANGED vars PROVE Shape'
    BY <2>2 DEF Shape, TypeOK, ThreadShape, InNamespace, vars, process, tracker, durable, plugin, nri, kubelet, history
  <2> QED BY <2>1, <2>2
<1>3. Shape => TypeOK
  BY DEF Shape
<1> QED BY <1>1, <1>2, <1>3, PTL DEF Spec

-----------------------------------------------------------------------------
(* Who knows where a device is. *)

\* A step that neither moves devices out nor takes knowledge away.
LEMMA StillKnown ==
  ASSUME TrackedAway, UNCHANGED <<loc, active>>, forgotten \subseteq forgotten',
         nstep \in {"mark", "giveBack"} => UNCHANGED nri,
         dstep = "return" => UNCHANGED plugin
  PROVE  TrackedAway'
BY DEF TrackedAway, KnownBy, nri, plugin

\* Restarts, sandboxes that come and go, namespaces that are destroyed.
LEMMA EnvironmentTracked ==
  ASSUME Tracking,
         \/ Start \/ NriStart \/ NriExited \/ Crash
         \/ \E p \in Pods : \/ PodAdded(p) \/ PodRemoved(p) \/ CreateSandbox(p)
                            \/ RunUnseen(p) \/ StopUnseen(p) \/ DestroyNetns(p)
  PROVE  TrackedAway'
<1> USE NetnsAssumption DEF Tracking
<1>1. CASE Crash
  \* The claim that knew, or any other on the device, is now forgotten.
  <2> SUFFICES ASSUME NEW d \in Devices, loc[d] # Host
               PROVE  \E c \in Claims : Dev[c] = d /\ c \in forgotten'
    BY <1>1 DEF Crash, TrackedAway, KnownBy
  <2> PICK c \in Claims : Dev[c] = d
    BY DEF TrackedAway
  <2> QED BY <1>1 DEF Crash, Away
<1>2. ASSUME NEW p \in Pods, DestroyNetns(p) PROVE TrackedAway'
  <2> SUFFICES ASSUME NEW d \in Devices, loc'[d] # Host
               PROVE  \E c \in Claims : Dev[c] = d /\ KnownBy(c, d)'
    BY DEF TrackedAway
  <2>1. loc[d] # p /\ loc'[d] = loc[d]
    BY <1>2 DEF DestroyNetns
  <2> PICK c \in Claims : Dev[c] = d /\ KnownBy(c, d)
    BY <2>1 DEF TrackedAway
  <2>2. c \in forgotten => c \in forgotten'
    BY <1>2, <2>1 DEF DestroyNetns
  <2> QED BY <1>2, <2>1, <2>2 DEF DestroyNetns, KnownBy, tracker, durable, plugin, nri
<1>3. CASE \/ Start \/ NriStart \/ NriExited
           \/ \E p \in Pods : \/ PodAdded(p) \/ PodRemoved(p) \/ CreateSandbox(p)
                              \/ RunUnseen(p) \/ StopUnseen(p)
  BY <1>3, StillKnown
     DEF Start, NriStart, NriExited, PodAdded, PodRemoved, CreateSandbox, RunUnseen, StopUnseen, tracker, history, nri, plugin
<1> QED BY <1>1, <1>2, <1>3

\* Prepare and Unprepare: what is taken out of the tracker is in the handler's
\* hands until the device is back.
LEMMA PluginTracked == ASSUME Tracking, PluginThread PROVE TrackedAway'
<1> USE NetnsAssumption DEF Tracking
<1>1. ASSUME NEW c \in Claims,
             Prepare(c) \/ PrepareCached(c) \/ Unprepare(c) \/ UnprepareUntracked(c)
      PROVE  TrackedAway'
  BY <1>1, StillKnown
     DEF Prepare, PrepareCached, Unprepare, UnprepareUntracked, Calls, GivesUp, TakeBack,
         tracker, history, nri, plugin
<1>2. CASE Record \/ RecordFailed \/ Forget \/ ForgetFailed
  BY <1>2, StillKnown
     DEF Record, RecordFailed, Forget, ForgetFailed, TakeBack, PluginIdle, tracker, history, nri, plugin
<1>3. CASE RemoveActive
  \* The pod goes from the tracker into the handler's hands.
  <2> SUFFICES ASSUME NEW d \in Devices, loc[d] # Host
               PROVE  \E c \in Claims : Dev[c] = d /\ KnownBy(c, d)'
    BY <1>3 DEF RemoveActive, TrackedAway
  <2> PICK c \in Claims : Dev[c] = d /\ KnownBy(c, d)
    BY DEF TrackedAway
  <2> QED BY <1>3 DEF RemoveActive, KnownBy, TypeOK, nri, history
<1>4. CASE ReturnRDMAToHost
  <2> SUFFICES ASSUME NEW d \in Devices, loc'[d] # Host
               PROVE  \E c \in Claims : Dev[c] = d /\ KnownBy(c, d)'
    BY DEF TrackedAway
  <2>1. dclaim \in Claims /\ loc'[d] = loc[d]
    BY <1>4 DEF ReturnRDMAToHost, TypeOK, ThreadShape
  <2> PICK c \in Claims : Dev[c] = d /\ KnownBy(c, d)
    BY <2>1 DEF TrackedAway
  <2>2. CASE dclaim = c /\ dpath = loc[d]
    \* The device is where the handler looks for it, so the return failed.
    <3>1. Found(c)
      BY <2>1, <2>2 DEF Found, InNamespace, TypeOK
    <3>2. c \in forgotten'
      BY <1>4, <2>1, <2>2, <3>1 DEF ReturnRDMAToHost, TypeOK
    <3> QED BY <3>2 DEF KnownBy
  <2>3. CASE ~(dclaim = c /\ dpath = loc[d])
    BY <1>4, <2>1, <2>3 DEF ReturnRDMAToHost, KnownBy, tracker, nri
  <2> QED BY <2>2, <2>3
<1> QED BY <1>1, <1>2, <1>3, <1>4 DEF PluginThread

\* The sandbox events: what is moved is in the handler's hands until it is recorded,
\* and what is taken out of the tracker until it is given back.
LEMMA NriTracked == ASSUME Tracking, NriThread PROVE TrackedAway'
<1> USE NetnsAssumption DEF Tracking
<1>1. CASE (\E p \in Pods : RunPodSandbox(p)) \/ (\E c \in Claims : MoveFailed(c))
           \/ NetnsOpened \/ NetnsFailed \/ RunDone
  BY <1>1, StillKnown
     DEF RunPodSandbox, MoveFailed, NetnsOpened, NetnsFailed, RunDone, tracker, history, nri, plugin
<1>2. ASSUME NEW p \in Pods, StopPodSandbox(p) PROVE TrackedAway'
  \* The pod's moves go from the tracker into the handler's hands.
  <2> SUFFICES ASSUME NEW d \in Devices, loc[d] # Host
               PROVE  \E c \in Claims : Dev[c] = d /\ KnownBy(c, d)'
    BY <1>2 DEF StopPodSandbox, TrackedAway
  <2> PICK c \in Claims : Dev[c] = d /\ KnownBy(c, d)
    BY DEF TrackedAway
  <2> QED BY <1>2 DEF StopPodSandbox, KnownBy, TypeOK, plugin, history
<1>3. ASSUME NEW c \in Claims, Move(c) PROVE TrackedAway'
  <2> SUFFICES ASSUME NEW d \in Devices, loc'[d] # Host
               PROVE  \E e \in Claims : Dev[e] = d /\ KnownBy(e, d)'
    BY DEF TrackedAway
  <2>1. CASE d = Dev[c]
    BY <1>3, <2>1 DEF Move, KnownBy, TypeOK
  <2>2. CASE d # Dev[c]
    <3>1. loc'[d] = loc[d]
      BY <1>3, <2>2 DEF Move, TypeOK
    <3> PICK e \in Claims : Dev[e] = d /\ KnownBy(e, d)
      BY <3>1 DEF TrackedAway
    <3> QED BY <1>3, <3>1 DEF Move, KnownBy, tracker, plugin, history
  <2> QED BY <2>1, <2>2
<1>4. CASE MarkActive
  <2> SUFFICES ASSUME NEW d \in Devices, loc[d] # Host
               PROVE  \E c \in Claims : Dev[c] = d /\ KnownBy(c, d)'
    BY <1>4 DEF MarkActive, TrackedAway
  <2>1. nclaim \in Claims /\ loc[Dev[nclaim]] \in {npod, Host}
    BY <1>4 DEF MarkActive, ThreadShape
  <2>2. CASE d = Dev[nclaim]
    \* The device has not gone elsewhere since it was moved.
    BY <1>4, <2>1, <2>2 DEF MarkActive, Marked, KnownBy, TypeOK
  <2>3. CASE d # Dev[nclaim]
    <3> PICK c \in Claims : Dev[c] = d /\ KnownBy(c, d)
      BY DEF TrackedAway
    <3> QED BY <1>4, <2>1, <2>3 DEF MarkActive, Marked, KnownBy, TypeOK, plugin, history
  <2> QED BY <2>2, <2>3
<1>5. ASSUME NEW c \in Claims, GiveBack(c) PROVE TrackedAway'
  <2> SUFFICES ASSUME NEW d \in Devices, loc'[d] # Host
               PROVE  \E e \in Claims : Dev[e] = d /\ KnownBy(e, d)'
    BY DEF TrackedAway
  <2>1. loc'[d] = loc[d]
    BY <1>5 DEF GiveBack, TypeOK
  <2> PICK e \in Claims : Dev[e] = d /\ KnownBy(e, d)
    BY <2>1 DEF TrackedAway
  <2>2. ~(e = c /\ npod = loc[d])
    BY <1>5, <2>1 DEF GiveBack, TypeOK
  <2> QED BY <1>5, <2>1, <2>2 DEF GiveBack, KnownBy, tracker, plugin, history
<1>6. CASE GiveBackFailed
  <2> SUFFICES ASSUME NEW d \in Devices, loc[d] # Host
               PROVE  \E c \in Claims : Dev[c] = d /\ KnownBy(c, d)'
    BY <1>6 DEF GiveBackFailed, TrackedAway
  <2> PICK c \in Claims : Dev[c] = d /\ KnownBy(c, d)
    BY DEF TrackedAway
  <2> QED BY <1>6 DEF GiveBackFailed, KnownBy, tracker, plugin
<1>7. CASE StopDone
  <2> SUFFICES ASSUME NEW d \in Devices, loc[d] # Host
               PROVE  \E c \in Claims : Dev[c] = d /\ KnownBy(c, d)'
    BY <1>7 DEF StopDone, TrackedAway
  <2> PICK c \in Claims : Dev[c] = d /\ KnownBy(c, d)
    BY DEF TrackedAway
  <2> QED BY <1>7 DEF StopDone, KnownBy, tracker, plugin, history
<1> QED BY <1>1, <1>2, <1>3, <1>4, <1>5, <1>6, <1>7 DEF NriThread

\* In every interleaving the threads hold what their steps rely on, devices are
\* only in namespaces that exist, and somebody knows where each of them is
\* (uverbs.go:140-219, plugin.go:67-198).
LEMMA TrackingHolds == Spec => []Tracking
<1>1. Init => Tracking
  BY InitTracking
<1>2. Tracking /\ [Next]_vars => Tracking'
  <2>1. ASSUME Tracking, Next PROVE Tracking'
    <3>1. Shape'
      BY <2>1, NextShape DEF Tracking, Shape
    <3>2. TrackedAway'
      BY <2>1, EnvironmentTracked, PluginTracked, NriTracked DEF Next
    <3> QED BY <3>1, <3>2 DEF Tracking, Shape
  <2>2. ASSUME Tracking, UNCHANGED vars PROVE Tracking'
    BY <2>2 DEF Tracking, TypeOK, ThreadShape, InNamespace, TrackedAway, KnownBy,
                vars, process, tracker, durable, plugin, nri, kubelet, history
  <2> QED BY <2>1, <2>2
<1> QED BY <1>1, <1>2, PTL DEF Spec

\* Whatever the plugin thread and the NRI thread do and in whatever order,
\* restarts and failures included, a device that is in a pod's namespace is known
\* to the tracker or to a handler, unless a restart or a failed return is to blame
\* (plugin.go:123, plugin.go:142, uverbs.go:154).
THEOREM TrackedAwayHolds == Spec => []TrackedAway
<1>1. Tracking => TrackedAway
  BY DEF Tracking
<1> QED BY <1>1, TrackingHolds, PTL

=============================================================================
