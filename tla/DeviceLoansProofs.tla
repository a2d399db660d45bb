-------------------------- MODULE DeviceLoansProofs --------------------------
(* RdmaNetns implements DeviceLoans, part by part of the abstract state, and *)
(* what DeviceLoans allows adds up to its promise.                           *)
EXTENDS RdmaClaimsProofs

-----------------------------------------------------------------------------
(* Every step is a step of DeviceLoans. *)

\* The inductive invariant holds in both states of every step.
LEMMA StepInductive == ASSUME OneHolder, Inductive, Next PROVE Inductive'
<1>1. Shape'
  BY NextShape DEF Inductive, Tracking, Shape
<1>2. TrackedAway'
  BY EnvironmentTracked, PluginTracked, NriTracked DEF Next, Inductive
<1>3. Serving'
  BY EnvironmentServes, PluginServes, NriServes DEF Next, Inductive, Tracking, Shape
<1>4. Releasing'
  BY OneHolder, EnvironmentReleases, PluginReleases, NriReleases
     DEF Next, Inductive, Tracking, Shape
<1> QED BY <1>1, <1>2, <1>3, <1>4 DEF Inductive, Tracking, Shape

\* A device goes from the host to the pod of an open claim that does not run, and
\* leaves only a pod that does not run.
LEMMA DevicesLent ==
  ASSUME Inductive, Next, NEW d \in Devices
  PROVE  loc'[d] = loc[d] \/ Loans!Lend(d) \/ Loans!Return(d)
<1> USE NetnsAssumption
    DEF Inductive, Tracking, TypeOK, ThreadShape, Loans!Lend, Loans!Return
<1>1. ASSUME NEW c \in Claims, Move(c) PROVE loc'[d] = loc[d] \/ Loans!Lend(d)
  \* The move belongs to a recorded claim, or to one that was released too early.
  <2>1. PodOf[c] = npod /\ sandbox[npod] = "starting"
    BY <1>1 DEF Move, Releasing, Owned, ClaimsOf
  <2>2. told[c] # "released" \/ c \in raced
    BY <1>1 DEF Move, Releasing, Backed, Serving, Answered
  <2>3. loc' = [loc EXCEPT ![Dev[c]] = npod] /\ loc[Dev[c]] = Host
    BY <1>1 DEF Move, Away
  <2> QED BY <2>1, <2>2, <2>3
<1>2. ASSUME NEW c \in Claims, GiveBack(c) PROVE loc'[d] = loc[d] \/ Loans!Return(d)
  BY <1>2 DEF GiveBack
<1>3. ASSUME NEW p \in Pods, DestroyNetns(p) PROVE loc'[d] = loc[d] \/ Loans!Return(d)
  BY <1>3 DEF DestroyNetns
<1>4. ASSUME ReturnRDMAToHost PROVE loc'[d] = loc[d] \/ Loans!Return(d)
  \* The pod of a claim that is undone is not wanted, or has no sandbox yet.
  <2>1. dclaim \in Claims /\ dstep = "return"
    BY <1>4 DEF ReturnRDMAToHost
  <2>2. PodOf[dclaim] \notin wanted \/ sandbox[PodOf[dclaim]] = "none"
    BY <2>1 DEF Serving, BusyWith, Answered
  <2>3. CASE Found(dclaim) /\ d = Dev[dclaim]
    <3>1. loc[d] \in {PodOf[dclaim], Host}
      BY <2>1, <2>3 DEF Found, Releasing, Owned
    <3>2. loc' = loc \/ loc' = [loc EXCEPT ![d] = Host]
      BY <1>4, <2>3 DEF ReturnRDMAToHost
    <3> QED BY <2>1, <2>2, <3>1, <3>2
  <2>4. CASE ~(Found(dclaim) /\ d = Dev[dclaim])
    BY <1>4, <2>1, <2>4 DEF ReturnRDMAToHost
  <2> QED BY <2>3, <2>4
<1>5. CASE UNCHANGED loc
  BY <1>5
<1> QED
  BY <1>1, <1>2, <1>3, <1>4, <1>5
  DEF Next, PluginThread, NriThread, Start, NriStart, NriExited, Crash, PodAdded, PodRemoved,
      CreateSandbox, RunUnseen, StopUnseen, Prepare, PrepareCached, Unprepare, UnprepareUntracked,
      Record, RecordFailed, RemoveActive, Forget, ForgetFailed, RunPodSandbox, StopPodSandbox,
      MoveFailed, NetnsOpened, NetnsFailed, MarkActive, RunDone, GiveBackFailed, StopDone

\* A claim is opened by the pod that comes to use its device; whatever else counts it
\* as raced found it open.
LEMMA OpenedByPod ==
  ASSUME Inductive, Next, NEW c \in Claims,
         told[c] = "released", c \notin raced, told'[c] # "released" \/ c \in raced'
  PROVE  PodAdded(PodOf[c])
<1> USE NetnsAssumption DEF Inductive, Tracking, TypeOK, ThreadShape
<1>1. ASSUME NEW p \in Pods, PodAdded(p) PROVE p = PodOf[c]
  BY <1>1 DEF PodAdded, ClaimsOf, history
<1>2. ~PluginThread
  <2>1. ASSUME NEW e \in Claims,
               Prepare(e) \/ PrepareCached(e) \/ Unprepare(e) \/ UnprepareUntracked(e)
        PROVE  FALSE
    BY <2>1 DEF Prepare, Registers, RegistersNothing, PrepareCached, Unprepare,
                UnprepareUntracked, Calls, GivesUp, kubelet, history
  <2>2. ASSUME Record \/ RecordFailed \/ RemoveActive \/ ReturnRDMAToHost \/ Forget \/ ForgetFailed
        PROVE  FALSE
    BY <2>2 DEF Record, RecordFailed, RemoveActive, ReturnRDMAToHost, Forget, ForgetFailed, Tell,
                Serving, BusyWith, kubelet, history
  <2> QED BY <2>1, <2>2 DEF PluginThread
<1>3. ~NriThread
  <2>1. ASSUME NEW p \in Pods, StopPodSandbox(p) PROVE FALSE
    BY <2>1 DEF StopPodSandbox, ClaimsOf, Serving, BusyWith, kubelet
  <2> QED
    BY <2>1 DEF NriThread, RunPodSandbox, Move, MoveFailed, GiveBack, NetnsOpened, NetnsFailed,
                MarkActive, RunDone, GiveBackFailed, StopDone, kubelet, history
<1> QED
  BY <1>1, <1>2, <1>3
  DEF Next, Start, NriStart, NriExited, Crash, PodRemoved, CreateSandbox, RunUnseen, StopUnseen,
      DestroyNetns, kubelet, history

\* A dropped move is made good by Prepare, for a pod without a sandbox, or does not
\* matter any more once the claim of a pod that is gone is released.
LEMMA RedeemedAtRest ==
  ASSUME Inductive, Next, NEW c \in lost, c \notin lost'
  PROVE  PodOf[c] \notin wanted' \/ sandbox'[PodOf[c]] = "none"
<1> USE NetnsAssumption DEF Inductive, Tracking, TypeOK, ThreadShape
<1>1. ASSUME NEW e \in Claims, Prepare(e) PROVE sandbox'[PodOf[c]] = "none"
  BY <1>1 DEF Prepare, Calls, Registers, RegistersNothing, Serving, Answered
<1>2. ASSUME NEW e \in Claims, UnprepareUntracked(e) PROVE PodOf[c] \notin wanted'
  BY <1>2 DEF UnprepareUntracked, GivesUp
<1>3. ASSUME Forget PROVE PodOf[c] \notin wanted' \/ sandbox'[PodOf[c]] = "none"
  BY <1>3 DEF Forget, Serving, Answered, BusyWith
<1>4. ~(Forget \/ \E e \in Claims : Prepare(e) \/ UnprepareUntracked(e)) => lost \subseteq lost'
  BY DEF Next, PluginThread, NriThread, Start, NriStart, NriExited, Crash, PodAdded, PodRemoved,
      CreateSandbox, RunUnseen, StopUnseen, Stops, DestroyNetns, PrepareCached, Unprepare,
      Record, RecordFailed, RemoveActive, ReturnRDMAToHost, ForgetFailed,
      RunPodSandbox, StopPodSandbox, Move, MoveFailed, GiveBack, NetnsOpened, NetnsFailed,
      MarkActive, RunDone, GiveBackFailed, StopDone, history
<1> QED BY <1>1, <1>2, <1>3, <1>4

\* A device that a failure left in a pod comes home when the namespace is destroyed.
LEMMA FoundInTheEnd ==
  ASSUME Inductive, Next, NEW c \in forgotten, c \notin forgotten'
  PROVE  loc'[Dev[c]] = Host
<1> USE NetnsAssumption DEF Inductive, Tracking, TypeOK, ThreadShape
<1>1. ASSUME NEW p \in Pods, DestroyNetns(p) PROVE loc'[Dev[c]] = Host
  BY <1>1 DEF DestroyNetns
<1>2. ~(\E p \in Pods : DestroyNetns(p)) => forgotten \subseteq forgotten'
  BY DEF Next, PluginThread, NriThread, Start, NriStart, NriExited, Crash, PodAdded, PodRemoved,
      CreateSandbox, RunUnseen, StopUnseen, Prepare, PrepareCached, Unprepare,
      UnprepareUntracked, Record, RecordFailed, RemoveActive, ReturnRDMAToHost, Forget, ForgetFailed,
      RunPodSandbox, StopPodSandbox, Move, MoveFailed, GiveBack, NetnsOpened, NetnsFailed,
      MarkActive, RunDone, GiveBackFailed, StopDone, history
<1> QED BY <1>1, <1>2

\* The three marks of a claim change as DeviceLoans has it.
LEMMA ClaimsStep ==
  ASSUME Inductive, Inductive', Next, NEW c \in Claims
  PROVE  Loans!ClaimStep(c)
<1> USE NetnsAssumption DEF Inductive, Tracking, TypeOK
<1> DEFINE open == {e \in Claims : told[e] # "released"} \cup raced
<1>1. ASSUME c \notin open, c \in open' PROVE Loans!Open(c)
  \* The pod is new, and nobody uses the devices of its claims.
  <2>1. PodAdded(PodOf[c])
    BY <1>1, OpenedByPod
  <2> QED BY <1>1, <2>1 DEF PodAdded, ClaimsOf, Loans!Open
<1>2. ASSUME c \in open, c \notin open' PROVE Loans!Close(c)
  <2>1. ReleasedInHost'
    BY ReleasedAtRest, PTL DEF Shape
  <2> QED BY <1>2, <2>1 DEF ReleasedInHost, Loans!Close
<1>3. ASSUME c \in lost, c \notin lost' PROVE Loans!Redeem(c)
  BY <1>3, RedeemedAtRest DEF Loans!Redeem
<1>4. ASSUME c \in forgotten, c \notin forgotten' PROVE Loans!Find(c)
  BY <1>4, FoundInTheEnd DEF Loans!Find
<1> QED BY <1>1, <1>2, <1>3, <1>4 DEF Loans!ClaimStep, Loans!Drop, Loans!Leave

\* Every step of the two threads, the pods and the process is a step of DeviceLoans,
\* or does not touch what DeviceLoans sees.
LEMMA StepLends == ASSUME Inductive, Inductive', Next PROVE Loans!Next
<1> USE DEF Inductive, Tracking
<1>1. /\ loc' \in [Devices -> Pods \cup {Host}] /\ lost' \subseteq Claims
      /\ forgotten' \subseteq Claims /\ raced' \subseteq Claims /\ wanted' \subseteq Pods
  BY DEF TypeOK
<1>2. ASSUME NEW p \in Pods, p \notin {q \in wanted : sandbox[q] = "running"},
             p \in {q \in wanted' : sandbox'[q] = "running"}
      PROVE  Loans!Run(p)
  \* However a sandbox comes to run, RunningHasDevice holds then.
  BY <1>2 DEF Serving, RunningHasDevice, Loans!Run
<1>3. \A d \in Devices : loc'[d] = loc[d] \/ Loans!Lend(d) \/ Loans!Return(d)
  BY DevicesLent
<1>4. \A c \in Claims : Loans!ClaimStep(c)
  BY ClaimsStep
<1> QED BY <1>1, <1>2, <1>3, <1>4 DEF Loans!Next, Loans!End

\* For all pods, claims and devices, through every interleaving of the plugin's calls
\* with the sandbox events and through every restart and failure, the devices change
\* hands as DeviceLoans allows, if no two claims of a pod have the same device
\* (uverbs.go:47-219, tracker.go:42-149, plugin.go:67-198).
THEOREM ImplementsLoansHolds == ASSUME OneHolder PROVE Spec => ImplementsLoans
<1>1. Init => Loans!Init
  BY DEF Init, Loans!Init
<1>2. Init => Inductive
  BY InitTracking, InitServing, InitReleasing DEF Inductive
<1>3. Inductive /\ [Next]_vars => Inductive' /\ [Loans!Next]_(Loans!vars)
  <2>1. ASSUME Inductive, Next PROVE Inductive' /\ Loans!Next
    BY <2>1, OneHolder, StepInductive, StepLends
  <2>2. ASSUME UNCHANGED vars PROVE UNCHANGED Loans!vars
    BY <2>2 DEF vars, kubelet, history, Loans!vars
  <2>3. ASSUME Inductive, UNCHANGED vars PROVE Inductive'
    BY <2>3
    DEF Inductive, Tracking, TypeOK, ThreadShape, InNamespace, TrackedAway, Serving, Answered,
        BusyWith, OneUser, Registered, Running, Carried, RunningHasDevice, Releasing, Owned, Held,
        KnownBy, Backed, Undone, ClaimsOf, vars, process, tracker, durable, plugin, nri, kubelet, history
  <2> QED BY <2>1, <2>2, <2>3
<1> QED BY <1>1, <1>2, <1>3, PTL DEF Spec, ImplementsLoans, Loans!Spec

-----------------------------------------------------------------------------
(* What the steps of DeviceLoans add up to. *)

Kept == raced \subseteq Claims /\ Loans!Promise

\* A running pod is not lent anything new and nothing is taken from it, and the pod of
\* a claim that is closed cannot be lent the device for another claim.
LEMMA StepKeepsPromise ==
  ASSUME OneHolder, Kept, Loans!Next PROVE Kept'
<1> USE NetnsAssumption DEF Kept, Loans!Next, Loans!Promise, Loans!ClaimStep
<1> DEFINE running == {p \in wanted : sandbox[p] = "running"}
           open    == {e \in Claims : told[e] # "released"} \cup raced
<1>1. ASSUME NEW c \in Claims, PodOf[c] \in running', c \notin lost'
      PROVE  loc'[Dev[c]] = PodOf[c]
  <2>1. CASE PodOf[c] \notin running
    BY <1>1, <2>1 DEF Loans!Run, Loans!End
  <2>2. CASE PodOf[c] \in running
    <3>1. loc[Dev[c]] = PodOf[c]
      BY <1>1, <2>2 DEF Loans!Drop, Loans!Redeem
    <3> QED BY <2>2, <3>1 DEF Loans!Lend, Loans!Return
  <2> QED BY <2>1, <2>2
<1>2. ASSUME NEW c \in Claims, c \notin open', c \notin forgotten'
      PROVE  loc'[Dev[c]] # PodOf[c]
  <2>1. CASE c \in open
    BY <1>2, <2>1 DEF Loans!Open, Loans!Close
  <2>2. CASE c \in forgotten
    BY <1>2, <2>2 DEF Loans!Leave, Loans!Find
  <2>3. CASE c \notin open /\ c \notin forgotten
    \* Nobody but this claim borrows this device for this pod.
    <3>1. loc[Dev[c]] # PodOf[c]
      BY <2>3
    <3>2. ~(Loans!Lend(Dev[c]) /\ loc'[Dev[c]] = PodOf[c])
      BY <2>3, OneHolder DEF Loans!Lend, OneHolder
    <3> QED BY <3>1, <3>2 DEF Loans!Return
  <2> QED BY <2>1, <2>2, <2>3
<1> QED BY <1>1, <1>2

\* In every behaviour that DeviceLoans allows, those of RdmaNetns among them, a pod
\* that runs has the devices of its claims unless a failure dropped the loan, and a
\* claim that is closed has left none in its pod (plugin.go:64-128, uverbs.go:144-159).
THEOREM LoansKeepPromise == ASSUME OneHolder PROVE Loans!Spec => []Loans!Promise
<1>1. Loans!Init => Kept
  BY NetnsAssumption DEF Loans!Init, Loans!Promise, Kept
<1>2. Kept /\ [Loans!Next]_(Loans!vars) => Kept'
  <2>1. ASSUME Kept, UNCHANGED Loans!vars PROVE Kept'
    <3>1. UNCHANGED <<loc, lost, forgotten>>
      BY <2>1 DEF Loans!vars
    <3>2. /\ {p \in wanted : sandbox[p] = "running"} = {p \in wanted' : sandbox'[p] = "running"}
          /\ {c \in Claims : told[c] # "released"} \cup raced
             = {c \in Claims : told'[c] # "released"} \cup raced'
      BY <2>1 DEF Loans!vars
    <3> QED BY <2>1, <3>1, <3>2 DEF Kept, Loans!Promise
  <2> QED BY <2>1, OneHolder, StepKeepsPromise
<1>3. Kept => Loans!Promise
  BY DEF Kept
<1> QED BY <1>1, <1>2, <1>3, PTL DEF Loans!Spec
=============================================================================
