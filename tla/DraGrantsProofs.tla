-------------------------- MODULE DraGrantsProofs ---------------------------
(* What the kubelet was told about a claim stays true: for every set of      *)
(* claims, any number of restarts, failures, crashes and rolling updates.    *)
EXTENDS DraDriverProofs

\* A rolling update (main.go:122) goes forward, or there is none: the kubelet does
\* not go back to an instance that a newer one had replaced.
Forward == GoBack = FALSE \/ \A i, j \in Instances : i = j

\* Claims do not pass from pod to pod (driver.go:64), and the allocation file of a
\* claim goes with it (driver.go:335).
FilesRemoved == HandOver = FALSE /\ "rmalloc" \notin FaultKinds

-----------------------------------------------------------------------------
(* What was answered is in the file, and known in every call. *)

\* Initially nothing was answered and there is no file.
LEMMA InitRemembered == ASSUME Init PROVE Remembered
BY ConstantAssumption, FilesDistinct DEF Init, Remembered, Fresh, Prepared, Removing, Prefixes

\* The environment writes no file and answers nothing.
LEMMA EnvironmentRemembers ==
  ASSUME Forward, Shape, Remembered,
         \/ \E i \in Instances : Start(i) \/ Stop(i)
         \/ \E c \in Claims : PodAdded(c) \/ PodRemoved(c) \/ Inject(c) \/ DestroyNetns(c)
         \/ Crash \/ Return
  PROVE  Remembered'
<1> USE ConstantAssumption, LinksTyped, FilesDistinct
        DEF Shape, TypeOK, CallShape, Remembered, Fresh, Prepared, Removing, Untracked,
            Forward, NoFault, call, files, kubelet, node, procs
<1>1. ASSUME NEW i \in Instances, Start(i) PROVE Remembered'
  BY <1>1 DEF Start
<1>2. ASSUME NEW i \in Instances, Stop(i) PROVE Remembered'
  BY <1>2 DEF Stop, Down
<1>3. ASSUME NEW c \in Claims, PodAdded(c) PROVE Remembered'
  BY <1>3 DEF PodAdded
<1>4. ASSUME NEW c \in Claims, PodRemoved(c) PROVE Remembered'
  BY <1>4 DEF PodRemoved
<1>5. ASSUME NEW c \in Claims, Inject(c) PROVE Remembered'
  BY <1>5 DEF Inject
<1>6. ASSUME NEW c \in Claims, DestroyNetns(c) PROVE Remembered'
  BY <1>6 DEF DestroyNetns
<1>7. ASSUME Crash PROVE Remembered'
  BY <1>7 DEF Crash, Down, CutShort, Idle
<1>8. ASSUME Return PROVE Remembered'
  BY <1>8 DEF Return, Idle
<1> QED BY <1>1, <1>2, <1>3, <1>4, <1>5, <1>6, <1>7, <1>8

\* A call begins with every readable file merged into the map; what could not be
\* read escapes.
LEMMA BeginRemembers ==
  ASSUME Forward, Shape, Remembered, NEW batch \in SUBSET Claims,
         BeginPrepare(batch) \/ BeginUnprepare(batch)
  PROVE  Remembered'
<1> PICK kind \in {"prepare", "unprepare"} :
      Begin(kind, batch) /\ (kind = "unprepare" => \A c \in batch : c \notin wanted)
  BY DEF BeginPrepare, BeginUnprepare
<1> QED
  BY ConstantAssumption, LinksTyped, FilesDistinct
  DEF Begin, Restored, Fault, Shape, TypeOK, CallShape, Remembered, Fresh, Prepared, Removing, Untracked,
            Forward, NoFault, call, files, kubelet, node, procs

\* Taking up a claim.
LEMMA PickRemembers ==
  ASSUME Forward, Shape, Remembered,
         \E c \in Claims : PrepareSteps(c) \/ UnprepareSteps(c)
  PROVE  Remembered'
<1> USE ConstantAssumption, LinksTyped, FilesDistinct
        DEF Shape, TypeOK, CallShape, Remembered, Fresh, Prepared, Removing, Untracked,
            Forward, NoFault, call, files, kubelet, node, procs
<1>1. ASSUME NEW c \in Claims, PickCached(c) PROVE Remembered'
  BY <1>1 DEF PickCached, Picks, Answer, CachedAnswer
<1>2. ASSUME NEW c \in Claims, PickRejected(c) PROVE Remembered'
  BY <1>2 DEF PickRejected, Picks, Answer
<1>3. ASSUME NEW c \in Claims, PickPrepared(c) PROVE Remembered'
  BY <1>3 DEF PickPrepared, Picks, Proceed
<1>4. ASSUME NEW c \in Claims, UnprepareUntracked(c) PROVE Remembered'
  BY <1>4 DEF UnprepareUntracked, Picks, Answer, UnknownAnswer
<1>5. ASSUME NEW c \in Claims, UnprepareFailed(c) PROVE Remembered'
  BY <1>5 DEF UnprepareFailed, Picks, Answer
<1>6. ASSUME NEW c \in Claims, UnprepareDone(c) PROVE Remembered'
  BY <1>6 DEF UnprepareDone, Picks, Proceed, Undone, NotUndone, HostWithout, PodnsWithout
<1> QED BY <1>1, <1>2, <1>3, <1>4, <1>5, <1>6 DEF PrepareSteps, UnprepareSteps

\* SaveAlloc writes the file before it answers; RemoveAlloc removes it only for a
\* claim that the kubelet gave up.
LEMMA InHandRemembers ==
  ASSUME Forward, Shape, Remembered,
         \/ LinkUp \/ LinkUpFailed \/ WriteCDI \/ WriteCDIFailed \/ Rollback
         \/ SaveAlloc \/ RemoveCDI \/ RemoveAlloc
  PROVE  Remembered'
<1> USE ConstantAssumption, LinksTyped, FilesDistinct
        DEF Shape, TypeOK, CallShape, Remembered, Fresh, Prepared, Removing, Untracked,
            Forward, NoFault, call, files, kubelet, node, procs
<1>1. ASSUME LinkUp PROVE Remembered'
  BY <1>1 DEF LinkUp, Proceed
<1>2. ASSUME LinkUpFailed PROVE Remembered'
  BY <1>2 DEF LinkUpFailed, Answer
<1>3. ASSUME WriteCDI PROVE Remembered'
  BY <1>3 DEF WriteCDI, Proceed
<1>4. ASSUME WriteCDIFailed PROVE Remembered'
  BY <1>4 DEF WriteCDIFailed, Proceed
<1>5. ASSUME Rollback PROVE Remembered'
  BY <1>5 DEF Rollback, Answer, Undone, NotUndone, HostWithout, PodnsWithout
<1>6. ASSUME SaveAlloc PROVE Remembered'
  BY <1>6 DEF SaveAlloc, Answer
<1>7. ASSUME RemoveCDI PROVE Remembered'
  BY <1>7 DEF RemoveCDI, Proceed
<1>8. ASSUME RemoveAlloc PROVE Remembered'
  BY <1>8 DEF RemoveAlloc, Answer, Forget
<1> QED BY <1>1, <1>2, <1>3, <1>4, <1>5, <1>6, <1>7, <1>8

\* Every step keeps it.
LEMMA StepRemembers ==
  ASSUME Forward, Shape, Remembered, [Next]_vars
  PROVE  Remembered'
<1>1. CASE Next
  BY <1>1, EnvironmentRemembers, BeginRemembers, PickRemembers, InHandRemembers
  DEF Next, Serve
<1>2. CASE UNCHANGED vars
  BY <1>2 DEF vars, procs, call, files, kubelet, Remembered, Fresh, Prepared, Removing
<1> QED BY <1>1, <1>2

\* What the kubelet was told about a claim is in the claim's allocation file, and
\* every call knows it (driver.go:59-98, 285-372), unless a failure left it
\* untracked.
THEOREM RememberedHolds ==
  ASSUME Forward
  PROVE  Spec => [](Shape /\ Remembered)
<1>1. Init => Shape /\ Remembered
  BY InitShape, InitRemembered DEF Shape
<1>2. Shape /\ Remembered /\ [Next]_vars => Shape' /\ Remembered'
  BY StepShape, StepRemembers
<1> QED BY <1>1, <1>2, PTL DEF Spec

-----------------------------------------------------------------------------
(* No interface is created twice for a claim the kubelet holds. *)

\* While the kubelet holds a claim as prepared, no call creates its interface a
\* second time (README.md:58, driver.go:59-69): at any number of restarts, crashes
\* and retries, and through every rolling update that goes forward.
THEOREM NeverRecreatedHolds ==
  ASSUME Forward
  PROVE  Spec => NeverRecreated
<1> DEFINE Kept == \A c \in Distinct :
                     Granted(c) /\ c \notin escaped => MadeLink(c) \cap (host' \ host) = {}
<1>1. Shape /\ Remembered /\ [Next]_vars => [Kept]_vars
  <2> SUFFICES ASSUME Shape, Remembered, Next, NEW c \in Distinct, Granted(c), c \notin escaped,
                      Makes(c), LinkOf(c) \notin host, LinkOf(c) \in host'
               PROVE  FALSE
    BY DEF MadeLink
  <2>1. op = "prepare" /\ c \notin mem[inst]
    BY OnlyPreparedMakes
  <2>2. Prepared(c)
    BY DEF Granted, Prepared
  <2> QED BY <2>1, <2>2 DEF Remembered
<1>2. Spec => [](Shape /\ Remembered)
  BY RememberedHolds
<1> QED BY <1>1, <1>2, PTL DEF Spec, NeverRecreated

-----------------------------------------------------------------------------
(* What the kubelet holds is usable. *)

\* Initially nothing is recorded.
LEMMA InitIntact == ASSUME Init PROVE Intact
BY ConstantAssumption, FilesDistinct DEF Init, Intact, InHand, Removing, Prefixes, Untracked

\* Nothing but a pod that goes takes an interface away, and its claim is not
\* wanted any more.
LEMMA EnvironmentIntact ==
  ASSUME FilesRemoved, Shape, Intact,
         \/ \E i \in Instances : Start(i) \/ Stop(i)
         \/ \E c \in Claims : PodAdded(c) \/ PodRemoved(c) \/ Inject(c) \/ DestroyNetns(c)
         \/ Crash \/ Return
  PROVE  Intact'
<1> USE ConstantAssumption, LinksTyped, FilesDistinct, TakesMakesNothing, MadeLinksDistinct
        DEF Shape, TypeOK, CallShape, Intact, UsableNow, Reachable, InHand, Removing,
            Untracked, MadeLink, FilesRemoved, NoFault,
            call, files, kubelet, node, procs
<1>1. ASSUME NEW i \in Instances, Start(i) PROVE Intact'
  BY <1>1 DEF Start
<1>2. ASSUME NEW i \in Instances, Stop(i) PROVE Intact'
  BY <1>2 DEF Stop, Down
<1>3. ASSUME NEW c \in Claims, PodAdded(c) PROVE Intact'
  BY <1>3 DEF PodAdded
<1>4. ASSUME NEW c \in Claims, PodRemoved(c) PROVE Intact'
  BY <1>4 DEF PodRemoved
<1>5. ASSUME NEW c \in Claims, Inject(c) PROVE Intact'
  BY <1>5 DEF Inject
<1>6. ASSUME NEW c \in Claims, DestroyNetns(c) PROVE Intact'
  BY <1>6 DEF DestroyNetns
<1>7. ASSUME Crash PROVE Intact'
  BY <1>7 DEF Crash, Down, CutShort, Idle
<1>8. ASSUME Return PROVE Intact'
  BY <1>8 DEF Return, Idle
<1> QED BY <1>1, <1>2, <1>3, <1>4, <1>5, <1>6, <1>7, <1>8

\* A call begins.
LEMMA BeginIntact ==
  ASSUME FilesRemoved, Shape, Intact, NEW batch \in SUBSET Claims,
         BeginPrepare(batch) \/ BeginUnprepare(batch)
  PROVE  Intact'
<1> PICK kind \in {"prepare", "unprepare"} :
      Begin(kind, batch) /\ (kind = "unprepare" => \A c \in batch : c \notin wanted)
  BY DEF BeginPrepare, BeginUnprepare
<1> QED
  BY ConstantAssumption, LinksTyped, FilesDistinct
  DEF Begin, Restored, Fault, Shape, TypeOK, CallShape, Intact, UsableNow, Reachable, InHand, Removing,
            Untracked, MadeLink, FilesRemoved, NoFault,
            call, files, kubelet, node, procs

\* Taking up a claim: Unprepare undoes only what no pod wants.
LEMMA PickIntact ==
  ASSUME FilesRemoved, Shape, Intact,
         \E c \in Claims : PrepareSteps(c) \/ UnprepareSteps(c)
  PROVE  Intact'
<1> USE ConstantAssumption, LinksTyped, FilesDistinct, TakesMakesNothing, MadeLinksDistinct
        DEF Shape, TypeOK, CallShape, Intact, UsableNow, Reachable, InHand, Removing,
            Untracked, MadeLink, FilesRemoved, NoFault,
            call, files, kubelet, node, procs
<1>1. ASSUME NEW c \in Claims, PickCached(c) PROVE Intact'
  BY <1>1 DEF PickCached, Picks, Answer, CachedAnswer
<1>2. ASSUME NEW c \in Claims, PickRejected(c) PROVE Intact'
  BY <1>2 DEF PickRejected, Picks, Answer
<1>3. ASSUME NEW c \in Claims, PickPrepared(c) PROVE Intact'
  BY <1>3 DEF PickPrepared, Picks, Proceed
<1>4. ASSUME NEW c \in Claims, UnprepareUntracked(c) PROVE Intact'
  BY <1>4 DEF UnprepareUntracked, Picks, Answer, UnknownAnswer
<1>5. ASSUME NEW c \in Claims, UnprepareFailed(c) PROVE Intact'
  BY <1>5 DEF UnprepareFailed, Picks, Answer
<1>6. ASSUME NEW c \in Claims, UnprepareDone(c) PROVE Intact'
  BY <1>6 DEF UnprepareDone, Picks, Proceed, Undone, NotUndone, HostWithout, PodnsWithout
<1> QED BY <1>1, <1>2, <1>3, <1>4, <1>5, <1>6 DEF PrepareSteps, UnprepareSteps

\* The claim in hand: its CDI file is written before its allocation file, and is
\* removed only with it.
LEMMA InHandIntact ==
  ASSUME FilesRemoved, Shape, Intact,
         \/ LinkUp \/ LinkUpFailed \/ WriteCDI \/ WriteCDIFailed \/ Rollback
         \/ SaveAlloc \/ RemoveCDI \/ RemoveAlloc
  PROVE  Intact'
<1> USE ConstantAssumption, LinksTyped, FilesDistinct, TakesMakesNothing, MadeLinksDistinct
        DEF Shape, TypeOK, CallShape, Intact, UsableNow, Reachable, InHand, Removing,
            Untracked, MadeLink, FilesRemoved, NoFault,
            call, files, kubelet, node, procs
<1>1. ASSUME LinkUp PROVE Intact'
  BY <1>1 DEF LinkUp, Proceed
<1>2. ASSUME LinkUpFailed PROVE Intact'
  BY <1>2 DEF LinkUpFailed, Answer
<1>3. ASSUME WriteCDI PROVE Intact'
  BY <1>3 DEF WriteCDI, Proceed
<1>4. ASSUME WriteCDIFailed PROVE Intact'
  BY <1>4 DEF WriteCDIFailed, Proceed
<1>5. ASSUME Rollback PROVE Intact'
  BY <1>5 DEF Rollback, Answer, Undone, NotUndone, HostWithout, PodnsWithout
<1>6. ASSUME SaveAlloc PROVE Intact'
  BY <1>6 DEF SaveAlloc, Answer
<1>7. ASSUME RemoveCDI PROVE Intact'
  BY <1>7 DEF RemoveCDI, Proceed
<1>8. ASSUME RemoveAlloc PROVE Intact'
  <2>1. /\ cur \in Claims /\ inst \in Instances /\ op # "idle"
        /\ alloc' = [alloc EXCEPT ![Prefix[cur]] = Absent]
        /\ mem'[inst] = mem[inst] \ {cur}
    BY <1>8 DEF RemoveAlloc, Fault, Forget
  <2>2. /\ op' = op /\ inst' = inst /\ todo' = todo \ {cur} /\ cur' = NoClaim
        /\ pc' = "pick" /\ reply' = [reply EXCEPT ![cur] = "released"]
        /\ UNCHANGED <<wanted, answer, host, podns, cdi, escaped>>
    BY <1>8 DEF RemoveAlloc, Answer
  <2>3. ASSUME NEW c \in Distinct, alloc'[Prefix[c]] = c
        PROVE  /\ c # cur /\ alloc[Prefix[c]] = c /\ reply'[c] = reply[c]
               /\ op = "idle" \/ c \in mem[inst] => c \in mem'[inst]
    <3>1. c # cur
      BY <2>1, <2>3
    <3>2. alloc[Prefix[c]] = c
      BY <2>1, <2>3, <3>1
    <3> QED BY <3>1, <3>2, <2>1, <2>2
  <2>4. \A c \in Distinct \ escaped : alloc'[Prefix[c]] = c =>
          /\ "released" \notin {answer[c], reply'[c]}
          /\ op = "idle" \/ c \in mem'[inst]
          /\ c \notin wanted \/ UsableNow(c)
    BY <2>3
  <2>5. \A c \in Claims : op = "unprepare" /\ c \in todo \ {cur} =>
          c \notin wanted /\ answer[c] = "retry" /\ reply'[c] = "none"
    BY <2>1, <2>2
  <2> QED BY <2>2, <2>4, <2>5
<1> QED BY <1>1, <1>2, <1>3, <1>4, <1>5, <1>6, <1>7, <1>8

\* Every step keeps it.
LEMMA StepIntact ==
  ASSUME FilesRemoved, Shape, Intact, [Next]_vars
  PROVE  Intact'
<1>1. CASE Next
  BY <1>1, EnvironmentIntact, BeginIntact, PickIntact, InHandIntact DEF Next, Serve
<1>2. CASE UNCHANGED vars
  BY <1>2 DEF vars, procs, call, files, node, kubelet, Intact, UsableNow, Reachable, InHand, Removing
<1> QED BY <1>1, <1>2

\* A claim that is recorded, and that a pod wants, has its CDI file and its
\* interface (driver.go:59-139), with any number of instances, if no claim is handed
\* over and no allocation file outlives its claim.
THEOREM IntactHolds ==
  ASSUME FilesRemoved
  PROVE  Spec => []Intact
<1>1. Init => Shape /\ Intact
  BY InitShape, InitIntact DEF Shape
<1>2. Shape /\ Intact /\ [Next]_vars => Shape' /\ Intact'
  BY StepShape, StepIntact
<1> QED BY <1>1, <1>2, PTL DEF Spec

\* A claim that the kubelet holds as prepared is usable although Prepare answers
\* from the map without looking at the node (driver.go:63-69): its CDI file
\* describes it and its interface exists, through any number of restarts, crashes,
\* failures and rolling updates that go forward, if no claim is handed over and no
\* allocation file outlives its claim.
THEOREM GrantUsableHolds ==
  ASSUME Forward, FilesRemoved
  PROVE  Spec => []GrantUsable
<1>1. Remembered /\ Intact => GrantUsable
  BY FilesDistinct DEF GrantUsable, Remembered, Intact, Granted, Prepared
<1> QED BY <1>1, RememberedHolds, IntactHolds, PTL

-----------------------------------------------------------------------------
(* What the kubelet holds, and is usable, stays usable. *)

\* The claim that a call works on is none that the kubelet holds as prepared.
LEMMA NotAtWork ==
  ASSUME Shape, Remembered, Loaded, NEW c \in Distinct \ escaped, Granted(c)
  PROVE  ~InHand(c) /\ ~Removing(c) /\ (op = "unprepare" => c \notin todo)
<1>1. Prepared(c) /\ c \in Claims
  BY FilesDistinct DEF Granted, Prepared
<1>2. op # "idle" => c \in mem[inst]
  BY <1>1 DEF Remembered
<1>3. ~InHand(c)
  BY <1>1, <1>2 DEF InHand, Loaded, Shape, CallShape
<1>4. op = "unprepare" => c \notin todo /\ ~Removing(c)
  BY <1>1 DEF Remembered
<1> QED BY <1>3, <1>4 DEF Removing, Shape, CallShape

\* So no step touches its CDI file,
LEMMA CDIKept ==
  ASSUME Shape, Remembered, Loaded, Next, NEW c \in Distinct \ escaped, Granted(c),
         cdi[Prefix[c]] = c
  PROVE  cdi'[Prefix[c]] = c
<1> USE FilesDistinct, NotAtWork
        DEF Shape, TypeOK, CallShape, InHand, Removing, Untracked, files
<1>1. CASE UNCHANGED cdi
  BY <1>1
<1>2. ASSUME Crash PROVE cdi'[Prefix[c]] = c
  BY <1>2, LinksTyped DEF Crash, CutShort
<1>3. ASSUME WriteCDI \/ WriteCDIFailed PROVE cdi'[Prefix[c]] = c
  BY <1>3, LinksTyped DEF WriteCDI, WriteCDIFailed
<1>4. ASSUME RemoveCDI PROVE cdi'[Prefix[c]] = c
  BY <1>4, LinksTyped DEF RemoveCDI
<1>5. Crash \/ WriteCDI \/ WriteCDIFailed \/ RemoveCDI \/ UNCHANGED cdi
  BY DEF Next, Serve, Start, Stop, PodAdded, PodRemoved, Inject, DestroyNetns, BeginPrepare,
     BeginUnprepare, Begin, PrepareSteps, UnprepareSteps, PickCached, PickRejected,
     PickPrepared, UnprepareUntracked, UnprepareFailed, UnprepareDone, LinkUp, LinkUpFailed,
     Rollback, SaveAlloc, RemoveAlloc, Return
<1> QED BY <1>1, <1>2, <1>3, <1>4, <1>5

\* nor takes its interface away: a pod that goes takes only what no pod wants.
LEMMA LinkKept ==
  ASSUME Shape, Remembered, Loaded, Next, NEW c \in Distinct \ escaped, Granted(c),
         Reachable(c)
  PROVE  Reachable(c)'
<1> USE FilesDistinct, NotAtWork, MadeLinksDistinct
        DEF Shape, CallShape, InHand, Removing, Untracked, Reachable, MadeLink, node
<1>1. CASE UNCHANGED node
  BY <1>1
<1>2. ASSUME NEW d \in Claims, Inject(d) PROVE Reachable(c)'
  BY <1>2 DEF Inject
<1>3. ASSUME NEW d \in Claims, DestroyNetns(d) PROVE Reachable(c)'
  BY <1>3 DEF DestroyNetns, Granted
<1>4. ASSUME NEW d \in Claims, PickPrepared(d) PROVE Reachable(c)'
  BY <1>4 DEF PickPrepared
<1>5. ASSUME LinkUpFailed \/ Rollback PROVE Reachable(c)'
  BY <1>5 DEF LinkUpFailed, Rollback, Undone, NotUndone, HostWithout, PodnsWithout, TypeOK
<1>6. ASSUME NEW d \in Claims, UnprepareDone(d) PROVE Reachable(c)'
  BY <1>6 DEF UnprepareDone, Picks, Undone, NotUndone, HostWithout, PodnsWithout
<1>7. \/ \E d \in Claims : Inject(d) \/ DestroyNetns(d) \/ PickPrepared(d) \/ UnprepareDone(d)
      \/ LinkUpFailed \/ Rollback \/ UNCHANGED node
  BY DEF Next, Serve, Start, Stop, Crash, PodAdded, PodRemoved, BeginPrepare, BeginUnprepare,
     Begin, PrepareSteps, UnprepareSteps, PickCached, PickRejected, UnprepareUntracked,
     UnprepareFailed, LinkUp, WriteCDI, WriteCDIFailed, SaveAlloc, RemoveCDI, RemoveAlloc, Return
<1> QED BY <1>1, <1>2, <1>3, <1>4, <1>5, <1>6, <1>7

\* While the kubelet holds a claim as prepared, its CDI file and its interface are
\* not taken away (driver.go:43-139), through any restarts, crashes, failures and
\* rolling updates that go forward, even if pods pass the claim on to each other
\* (driver.go:64).
THEOREM GrantKeptHolds ==
  ASSUME Forward
  PROVE  Spec => GrantKept
<1> DEFINE Kept == \A c \in Distinct \ escaped :
                     Granted(c) /\ UsableNow(c) => UsableNow(c)'
<1>1. Inductive /\ Remembered /\ [Next]_vars => [Kept]_vars
  BY CDIKept, LinkKept DEF UsableNow, Inductive, Shape
<1> QED BY <1>1, InductiveHolds, RememberedHolds, PTL DEF Spec, GrantKept
=============================================================================
