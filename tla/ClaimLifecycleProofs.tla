------------------------ MODULE ClaimLifecycleProofs -------------------------
(* The plugin of DraDriver.tla implements ClaimLifecycle.tla, for every set  *)
(* of claims, any number of instances and any bounds.                        *)
EXTENDS DraDriverProofs

-----------------------------------------------------------------------------
(* What the kubelet was last told about the claims of a batch while the      *)
(* batch is served.                                                          *)

Batched(c) == c \in todo \/ c = cur \/ reply[c] # "none"

Replies ==
  /\ op = "prepare" => \A c \in Claims : Batched(c) => answer[c] # "released"
  /\ op = "unprepare" =>
       \A c \in Claims : /\ Batched(c) => answer[c] = "retry"
                         /\ reply[c] \in {"none", "released", "retry"}

\* Between calls nothing is said of Replies.
LEMMA InitReplies == ASSUME Init PROVE Replies
BY DEF Init, Replies

\* Only the two ends of a call change what the kubelet knows.
LEMMA QuietReplies ==
  ASSUME Shape, Replies,
         \/ UNCHANGED vars
         \/ \E i \in Instances : Start(i) \/ Stop(i)
         \/ \E c \in Claims : PodAdded(c) \/ PodRemoved(c) \/ Inject(c) \/ DestroyNetns(c)
  PROVE  Replies' /\ UNCHANGED answer
<1>1. UNCHANGED <<call, answer>>
  BY DEF vars, procs, call, files, node, kubelet, Start, Stop, PodAdded, PodRemoved,
         Inject, DestroyNetns
<1> QED BY <1>1 DEF Replies, Batched, call

\* A crash or a return ends the call.
LEMMA EndReplies == ASSUME Crash \/ Return PROVE Replies'
BY DEF Crash, Return, Idle, Replies

\* A call begins with no reply.
LEMMA BeginReplies ==
  ASSUME Shape, NEW batch \in SUBSET Claims,
         BeginPrepare(batch) \/ BeginUnprepare(batch)
  PROVE  Replies'
<1> PICK kind \in {"prepare", "unprepare"} : Begin(kind, batch)
  BY DEF BeginPrepare, BeginUnprepare
<1>1. /\ op' = kind /\ todo' = batch /\ cur' = NoClaim
      /\ \A c \in Claims : reply'[c] = "none"
      /\ answer' = [c \in Claims |->
                      IF c \in batch /\ (kind = "unprepare" \/ answer[c] = "released")
                      THEN "retry" ELSE answer[c]]
  BY DEF Begin, Shape, CallShape
<1>2. \A c \in Claims : Batched(c)' => c \in batch
  BY <1>1, ConstantAssumption DEF Batched
<1> QED BY <1>1, <1>2 DEF Replies

\* A step on a claim of the batch keeps it in the batch.
LEMMA ServeReplies ==
  ASSUME Shape, Replies,
         \/ \E c \in Claims : PrepareSteps(c) \/ UnprepareSteps(c)
         \/ LinkUp \/ LinkUpFailed \/ WriteCDI \/ WriteCDIFailed \/ Rollback
         \/ SaveAlloc \/ RemoveCDI \/ RemoveAlloc
  PROVE  Replies' /\ UNCHANGED answer
<1>1. UNCHANGED <<answer, op>>
  BY DEF PrepareSteps, UnprepareSteps, PickCached, PickRejected, PickPrepared,
     UnprepareUntracked, UnprepareFailed, UnprepareDone, LinkUp, LinkUpFailed, WriteCDI,
     WriteCDIFailed, Rollback, SaveAlloc, RemoveCDI, RemoveAlloc, Answer, Proceed, kubelet
<1>2. PICK c \in Claims :
        /\ c \in todo \/ c = cur
        /\ \/ \E point \in Points : Proceed(c, point)
           \/ \E result \in Answers : Answer(c, result)
        /\ op = "unprepare" => ~\E result \in {"named", "blank"} : Answer(c, result)
  <2>1. ASSUME NEW c \in Claims, PrepareSteps(c) \/ UnprepareSteps(c)
        PROVE  /\ c \in todo
               /\ \/ \E point \in Points : Proceed(c, point)
                  \/ op = "prepare" /\ \E result \in Answers : Answer(c, result)
                  \/ op = "unprepare" /\ \E result \in {"released", "retry"} : Answer(c, result)
    BY <2>1 DEF PrepareSteps, UnprepareSteps, PickCached, PickRejected, PickPrepared,
       UnprepareUntracked, UnprepareFailed, UnprepareDone, Picks, Points, Untracked,
       Answers, CachedAnswer, UnknownAnswer
  <2>2. ASSUME \/ LinkUp \/ LinkUpFailed \/ WriteCDI \/ WriteCDIFailed \/ Rollback
               \/ SaveAlloc \/ RemoveCDI \/ RemoveAlloc
        PROVE  /\ cur \in Claims
               /\ \/ \E point \in Points : Proceed(cur, point)
                  \/ op = "prepare" /\ \E result \in Answers : Answer(cur, result)
                  \/ op = "unprepare" /\ Answer(cur, "released")
    <3>1. cur \in Claims
      BY <2>2 DEF LinkUp, LinkUpFailed, WriteCDI, WriteCDIFailed, Rollback, SaveAlloc,
         RemoveCDI, RemoveAlloc, Shape, TypeOK, CallShape
    <3>2. CASE LinkUp \/ WriteCDI \/ WriteCDIFailed \/ RemoveCDI
      BY <3>1, <3>2 DEF LinkUp, WriteCDI, WriteCDIFailed, RemoveCDI, Points, Untracked
    <3>3. CASE LinkUpFailed \/ Rollback \/ SaveAlloc
      BY <3>1, <3>3 DEF LinkUpFailed, Rollback, SaveAlloc, Shape, CallShape, Untracked, Answers
    <3>4. CASE RemoveAlloc
      BY <3>1, <3>4 DEF RemoveAlloc, Shape, CallShape
    <3> QED BY <2>2, <3>2, <3>3, <3>4
  <2>3. \A c, r, s : reply \in [Claims -> Answers \cup {"none"}] /\ c \in Claims
          /\ Answer(c, r) /\ Answer(c, s) => r = s
    BY DEF Answer
  <2>4. \A c, r, p : p \in Points /\ c \in Claims /\ Proceed(c, p) /\ Answer(c, r) => FALSE
    BY ConstantAssumption DEF Answer, Proceed
  <2> QED BY <2>1, <2>2, <2>3, <2>4 DEF Shape, TypeOK, Answers
<1>3. \A d \in Claims : Batched(d)' => Batched(d)
  BY <1>2, ConstantAssumption DEF Batched, Proceed, Answer, Shape, TypeOK
<1>4. op = "unprepare" => \A d \in Claims : reply'[d] \in {"none", "released", "retry"}
  BY <1>2 DEF Replies, Proceed, Answer, Shape, TypeOK, Answers
<1> QED BY <1>1, <1>3, <1>4 DEF Replies

-----------------------------------------------------------------------------
(* The refinement, one part of the abstract state at a time. *)

\* The interface of a claim, as the abstract specification sees it.
Present(c) == Makes(c) /\ LinkOf(c) \in host

LEMMA PresentMade ==
  ASSUME NEW c \in Claims
  PROVE  (MadeLink(c) \cap host # {} <=> Present(c)) /\ (MadeLink(c) \cap host' # {} <=> Present(c)')
BY DEF MadeLink, Present, Makes, HandlerOf, LinkOf

\* The kubelet's view of a claim moves only along the edges of ClaimLifecycle.
LEMMA PhaseStep ==
  ASSUME Shape, Safe, Replies, [Next]_vars, NEW c \in Distinct
  PROVE  \/ PhaseOf(c)' = PhaseOf(c)
         \/ PhaseOf(c)' = "busy"
         \/ PhaseOf(c) = "busy" /\ PhaseOf(c)' = "granted"
         \/ /\ PhaseOf(c) = "busy" /\ PhaseOf(c)' = "released"
            /\ ~Present(c)' \/ c \in escaped'
<1> USE FilesDistinct DEF PhaseOf
<1>1. CASE UNCHANGED answer
  BY <1>1
<1>2. ASSUME NEW batch \in SUBSET Claims, BeginPrepare(batch) \/ BeginUnprepare(batch)
      PROVE  answer'[c] \in {"retry", answer[c]}
  BY <1>2 DEF BeginPrepare, BeginUnprepare, Begin
<1>3. CASE Return
  <2>1. answer'[c] \in {answer[c], reply[c]} /\ (answer'[c] = answer[c] \/ reply[c] # "none")
    BY <1>3 DEF Return
  <2>2. CASE answer'[c] = answer[c]
    BY <2>2
  <2>3. CASE answer'[c] = reply[c] /\ reply[c] # "none" /\ op = "prepare"
    BY <2>3 DEF Shape, TypeOK, CallShape, Replies, Batched, Answers
  <2>4. CASE answer'[c] = reply[c] /\ reply[c] # "none" /\ op = "unprepare"
    BY <1>3, <2>4 DEF Return, node, Safe, Clean, Exposed, Present, Replies, Batched
  <2> QED BY <1>3, <2>1, <2>2, <2>3, <2>4 DEF Return, Shape, TypeOK
<1>4. CASE Crash
  BY <1>4 DEF Crash, kubelet
<1> QED BY <1>1, <1>2, <1>3, <1>4, QuietReplies, ServeReplies DEF Next, Serve

\* An interface appears only while its claim is being prepared.
LEMMA MadeStep ==
  ASSUME Shape, [Next]_vars, NEW c \in Distinct, Present(c)', ~Present(c)
  PROVE  answer[c] # "released"
<1> USE DEF Present
<1>1. ~(host' \subseteq host)
  OBVIOUS
<1>2. CASE \E d \in Claims : PickPrepared(d)
  <2>1. PICK d \in Claims : PickPrepared(d)
    BY <1>2
  <2>2. LinkOf(c) \in MadeLink(d) /\ d \in todo /\ op = "prepare"
    BY <2>1 DEF PickPrepared, Picks
  <2>3. c = d
    BY <2>2, MadeLinksDistinct DEF MadeLink
  <2> QED BY <2>2, <2>3 DEF Shape, CallShape
<1>3. CASE \E d \in Claims : DestroyNetns(d)
  <2>1. PICK d \in Claims : DestroyNetns(d)
    BY <1>3
  <2>2. Takes(d) /\ LinkOf(c) = LinkOf(d)
    BY <2>1 DEF DestroyNetns
  <2>3. ~Makes(d)
    BY <2>2, TakesMakesNothing
  <2> QED BY <2>2, <2>3 DEF LinkOf, Makes
<1>4. CASE UNCHANGED vars \/ Crash \/ Return \/ \E i \in Instances : Start(i) \/ Stop(i)
  BY <1>1, <1>4 DEF vars, node, Crash, Return, Start, Stop
<1>5. CASE \E d \in Claims : PodAdded(d) \/ PodRemoved(d) \/ Inject(d)
  BY <1>1, <1>5 DEF PodAdded, PodRemoved, Inject, node
<1>6. CASE \E batch \in SUBSET Claims : BeginPrepare(batch) \/ BeginUnprepare(batch)
  BY <1>1, <1>6 DEF BeginPrepare, BeginUnprepare, Begin, node
<1>7. CASE \E d \in Claims : PickCached(d) \/ PickRejected(d) \/ UnprepareSteps(d)
  BY <1>1, <1>7 DEF PickCached, PickRejected, UnprepareSteps, UnprepareUntracked,
     UnprepareFailed, UnprepareDone, Undone, NotUndone, HostWithout, node
<1>8. CASE \/ LinkUp \/ LinkUpFailed \/ WriteCDI \/ WriteCDIFailed \/ Rollback
           \/ SaveAlloc \/ RemoveCDI \/ RemoveAlloc
  BY <1>1, <1>8 DEF LinkUp, LinkUpFailed, WriteCDI, WriteCDIFailed, Rollback, SaveAlloc,
     RemoveCDI, RemoveAlloc, Undone, NotUndone, HostWithout, node
<1> QED BY <1>2, <1>3, <1>4, <1>5, <1>6, <1>7, <1>8 DEF Next, Serve, PrepareSteps

\* An interface that was lost track of is found again only by undoing it.
LEMMA LeakStep ==
  ASSUME Shape, [Next]_vars, NEW c \in Claims, c \in escaped, c \notin escaped'
  PROVE  ~Present(c)'
<1>1. CASE \E d \in Claims : UnprepareDone(d)
  <2>1. PICK d \in Claims : UnprepareDone(d)
    BY <1>1
  <2>2. c = d /\ host' = host \ MadeLink(c)
    BY <2>1 DEF UnprepareDone, Undone, NotUndone, HostWithout
  <2> QED BY <2>2 DEF MadeLink, Present
<1>2. CASE UNCHANGED vars \/ Crash \/ Return \/ \E i \in Instances : Start(i) \/ Stop(i)
  BY <1>2 DEF vars, Crash, Return, Start, Stop
<1>3. CASE \E d \in Claims : PodAdded(d) \/ PodRemoved(d) \/ Inject(d) \/ DestroyNetns(d)
  BY <1>3 DEF PodAdded, PodRemoved, Inject, DestroyNetns
<1>4. CASE \E batch \in SUBSET Claims : BeginPrepare(batch) \/ BeginUnprepare(batch)
  BY <1>4 DEF BeginPrepare, BeginUnprepare, Begin
<1>5. CASE \E d \in Claims : PrepareSteps(d) \/ UnprepareUntracked(d) \/ UnprepareFailed(d)
  BY <1>5 DEF PrepareSteps, PickCached, PickRejected, PickPrepared, UnprepareUntracked,
     UnprepareFailed
<1>6. CASE \/ LinkUp \/ LinkUpFailed \/ WriteCDI \/ WriteCDIFailed \/ Rollback
           \/ SaveAlloc \/ RemoveCDI \/ RemoveAlloc
  BY <1>6 DEF LinkUp, LinkUpFailed, WriteCDI, WriteCDIFailed, Rollback, NotUndone, SaveAlloc,
     RemoveCDI, RemoveAlloc
<1> QED BY <1>1, <1>2, <1>3, <1>4, <1>5, <1>6 DEF Next, Serve, UnprepareSteps

\* The initial states are initial states of ClaimLifecycle.
LEMMA LifecycleInit == ASSUME Init PROVE Lifecycle!Init
<1>1. \A c \in Claims : ~Exposed(c) /\ c \notin escaped
  BY InitSafe DEF Init, Safe, Clean
<1>2. \A c \in Distinct : MadeLink(c) \cap host = {}
  BY <1>1, FilesDistinct DEF Exposed, MadeLink
<1>3. \A c \in Distinct : PhaseOf(c) = "released"
  BY FilesDistinct DEF Init, PhaseOf
<1> QED BY <1>2, <1>3 DEF Init, Lifecycle!Init

\* Every step of the plugin is a step of ClaimLifecycle.
LEMMA LifecycleStep ==
  ASSUME Shape, Safe, Replies, [Next]_vars
  PROVE  Lifecycle!Next
<1> DEFINE phase  == [c \in Distinct |-> PhaseOf(c)]
           made   == {c \in Distinct : MadeLink(c) \cap host # {}}
           leaked == escaped \cap Distinct
<1>1. phase' \in [Distinct -> {"released", "busy", "granted"}]
  BY DEF PhaseOf
<1>2. made' \subseteq Distinct /\ leaked' \subseteq Distinct
  OBVIOUS
<1>3. ASSUME NEW c \in Distinct PROVE Lifecycle!Step(c)
  <2>1. /\ c \in made <=> Present(c)
        /\ c \in made' <=> Present(c)'
    BY PresentMade, FilesDistinct
  <2>2. phase[c] = PhaseOf(c) /\ phase'[c] = PhaseOf(c)'
    OBVIOUS
  <2>3. phase'[c] = phase[c] \/ Lifecycle!Call(c) \/ Lifecycle!Grant(c) \/ Lifecycle!Release(c)
    BY PhaseStep, <2>1, <2>2 DEF Lifecycle!Call, Lifecycle!Grant, Lifecycle!Release
  <2>4. (c \in made' <=> c \in made) \/ Lifecycle!Build(c) \/ Lifecycle!Tear(c)
    <3>1. CASE c \in made' /\ c \notin made
      <4>1. PhaseOf(c) # "released"
        BY <2>1, <3>1, MadeStep DEF PhaseOf
      <4> QED BY <2>1, <2>2, <3>1, <4>1 DEF Lifecycle!Build
    <3> QED BY <3>1 DEF Lifecycle!Tear
  <2>5. (c \in leaked' <=> c \in leaked) \/ Lifecycle!Leak(c) \/ Lifecycle!Mend(c)
    BY LeakStep, FilesDistinct, <2>1 DEF Lifecycle!Leak, Lifecycle!Mend
  <2> QED BY <2>3, <2>4, <2>5 DEF Lifecycle!Step
<1> QED BY <1>1, <1>2, <1>3 DEF Lifecycle!Next

\* Every behaviour of the plugin (driver.go:43-139), with any claims, instances,
\* crashes, failures and bounds, is for the claims with a prefix of their own a
\* behaviour of ClaimLifecycle.
THEOREM ImplementsLifecycleHolds == Spec => ImplementsLifecycle
<1> DEFINE Inv == Shape /\ Safe /\ Replies
<1>1. Init => Inv /\ Lifecycle!Init
  BY InitShape, InitSafe, InitReplies, LifecycleInit DEF Shape
<1>2. Inv /\ [Next]_vars => Inv'
  BY StepShape, StepSafe, QuietReplies, EndReplies, BeginReplies, ServeReplies
     DEF Next, Serve
<1>3. Inv /\ [Next]_vars => [Lifecycle!Next]_(Lifecycle!vars)
  BY LifecycleStep
<1> QED BY <1>1, <1>2, <1>3, PTL DEF Spec, ImplementsLifecycle, Lifecycle!Spec

-----------------------------------------------------------------------------
\* The edges of ClaimLifecycle keep its promise: a claim that is released in the
\* kubelet's view has no interface left, unless it was lost track of
\* (driver.go:103-139). With the refinement, so does the plugin.
THEOREM LifecycleKeepsPromise == Lifecycle!Spec => []Lifecycle!ReleasedClean
<1> DEFINE phase  == [c \in Distinct |-> PhaseOf(c)]
           made   == {c \in Distinct : MadeLink(c) \cap host # {}}
           leaked == escaped \cap Distinct
<1>1. Lifecycle!Init => Lifecycle!ReleasedClean
  BY DEF Lifecycle!Init, Lifecycle!ReleasedClean
<1>2. ASSUME Lifecycle!ReleasedClean, [Lifecycle!Next]_(Lifecycle!vars)
      PROVE  Lifecycle!ReleasedClean'
  <2>1. CASE UNCHANGED Lifecycle!vars
    BY <1>2, <2>1 DEF Lifecycle!vars, Lifecycle!ReleasedClean
  <2>2. CASE Lifecycle!Next
    <3> SUFFICES ASSUME NEW c \in Distinct, phase'[c] = "released", c \notin leaked', c \in made'
                 PROVE  FALSE
      BY DEF Lifecycle!ReleasedClean
    <3>1. Lifecycle!Step(c)
      BY <2>2 DEF Lifecycle!Next
    <3>2. phase[c] = "released"
      BY <3>1 DEF Lifecycle!Step, Lifecycle!Call, Lifecycle!Grant, Lifecycle!Release
    <3>3. c \in made
      BY <3>1, <3>2 DEF Lifecycle!Step, Lifecycle!Build, Lifecycle!Tear
    <3>4. c \notin leaked
      BY <3>1 DEF Lifecycle!Step, Lifecycle!Leak, Lifecycle!Mend
    <3> QED BY <1>2, <3>2, <3>3, <3>4 DEF Lifecycle!ReleasedClean
  <2> QED BY <1>2, <2>1, <2>2
<1> QED BY <1>1, <1>2, PTL DEF Lifecycle!Spec

=============================================================================
