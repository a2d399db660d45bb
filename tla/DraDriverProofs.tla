-------------------------- MODULE DraDriverProofs ---------------------------
(* What DraDriver promises for every set of claims, any number of driver     *)
(* instances and any bounds.                                                 *)
EXTENDS DraDriver, TLAPS

-----------------------------------------------------------------------------
(* Interfaces. *)

\* No handler both creates an interface and takes an existing one.
LEMMA TakesMakesNothing ==
  ASSUME NEW c \in Claims, Takes(c)
  PROVE  ~Makes(c)
<1>1. \A h \in HandlerRegistry \cup {NoHandler} : h.takes => h.makes = ""
  <2>1. /\ SriovVfHandler.makes = "" /\ HostDeviceHandler.makes = ""
        /\ UverbsHandler.makes = "" /\ NoHandler.makes = ""
    BY DEF Plain, SriovVfHandler, HostDeviceHandler, UverbsHandler, NoHandler
  <2>2. ~DummyHandler.takes /\ ~MacvlanHandler.takes /\ ~IpvlanHandler.takes
    BY DEF Plain, DummyHandler, MacvlanHandler, IpvlanHandler
  <2>3. ~VethHandler.takes /\ ~IpoibHandler.takes /\ ~RoCEHandler.takes
    BY DEF Plain, VethHandler, IpoibHandler, RoCEHandler
  <2> QED BY <2>1, <2>2, <2>3 DEF HandlerRegistry
<1>2. HandlerOf(c) \in HandlerRegistry \cup {NoHandler}
  <2> DEFINE t == Cfg(c).type
             k == GetKind(Cfg(c))
  <2>1. CASE \E h \in HandlerRegistry : h.type = t /\ h.kind = k
    BY <2>1 DEF HandlerOf, HandlerTable, Get
  <2>2. CASE ~\E h \in HandlerRegistry : h.type = t /\ h.kind = k
    BY <2>2 DEF HandlerOf, HandlerTable, Get
  <2> QED BY <2>1, <2>2
<1> QED BY <1>1, <1>2 DEF Takes, Makes

\* The interface name that a handler generates for a claim with a prefix of its
\* own is the name of no other claim's interface, made or taken.
LEMMA MadeLinksDistinct ==
  ASSUME NEW c \in Distinct, NEW d \in Claims, Makes(c), LinkOf(c) = LinkOf(d)
  PROVE  c = d
BY DEF Distinct, LinkOf, Makes

\* Nor does another claim write its files.
LEMMA FilesDistinct ==
  ASSUME NEW c \in Distinct
  PROVE  c \in Claims /\ \A d \in Claims : d # c => Prefix[d] # Prefix[c]
BY DEF Distinct

\* The interfaces and the file prefix of a claim are among those of the node.
LEMMA LinksTyped ==
  ASSUME NEW c \in Claims
  PROVE  /\ LinkOf(c) \in Links /\ MadeLink(c) \subseteq Links
         /\ Prefix[c] \in Prefixes
BY DEF Links, MadeLink, Prefixes

-----------------------------------------------------------------------------
(* Types and the shape of a call. *)

\* Initially no call is served.
LEMMA InitShape == ASSUME Init PROVE TypeOK /\ CallShape
BY ConstantAssumption DEF Init, TypeOK, CallShape, Links, Prefixes, Answers, Points, Untracked

Shape == TypeOK /\ CallShape

\* Between calls, or in a call: what a step of the environment leaves alone.
LEMMA EnvironmentShape ==
  ASSUME Shape,
         \/ \E i \in Instances : Start(i) \/ Stop(i)
         \/ \E c \in Claims : PodAdded(c) \/ PodRemoved(c) \/ Inject(c) \/ DestroyNetns(c)
  PROVE  Shape'
<1> USE ConstantAssumption DEF Shape, TypeOK, CallShape, call, files, kubelet, node, procs
<1>1. ASSUME NEW i \in Instances, Start(i) PROVE Shape'
  BY <1>1 DEF Start
<1>2. ASSUME NEW i \in Instances, Stop(i) PROVE Shape'
  BY <1>2 DEF Stop, Down
<1>3. ASSUME NEW c \in Claims, PodAdded(c) PROVE Shape'
  BY <1>3 DEF PodAdded
<1>4. ASSUME NEW c \in Claims, PodRemoved(c) PROVE Shape'
  BY <1>4 DEF PodRemoved
<1>5. ASSUME NEW c \in Claims, Inject(c) PROVE Shape'
  BY <1>5, LinksTyped DEF Inject
<1>6. ASSUME NEW c \in Claims, DestroyNetns(c) PROVE Shape'
  BY <1>6, LinksTyped DEF DestroyNetns
<1> QED BY <1>1, <1>2, <1>3, <1>4, <1>5, <1>6

\* A crash ends the call, and may leave a torn file.
LEMMA CrashShape == ASSUME Shape, Crash PROVE Shape'
<1> USE ConstantAssumption DEF Shape, TypeOK, CallShape, files, kubelet, node
<1>1. cur # NoClaim => Prefix[cur] \in Prefixes
  BY LinksTyped
<1>2. /\ cdi' \in [Prefixes -> Claims \cup {Absent, Torn}]
      /\ alloc' \in [Prefixes -> Claims \cup {Absent, Torn}]
  BY <1>1 DEF Crash, CutShort
<1>3. escaped' \subseteq Claims
  BY DEF Crash, Untracked
<1>4. mem' \in [Instances -> SUBSET Claims]
  BY DEF Crash, Down
<1>5. up' \subseteq Instances /\ newest' \in Instances \cup {NoInst}
  BY DEF Crash, Down
<1>6. downs' \in 0..MaxDowns
  BY DEF Crash, Down
<1>7. TypeOK'
  BY <1>2, <1>3, <1>4, <1>5, <1>6 DEF Crash, Idle, Points
<1>8. CallShape'
  BY DEF Crash, Idle, Untracked
<1> QED BY <1>7, <1>8

\* The two ends of a call.
LEMMA BeginShape ==
  ASSUME Shape, NEW batch \in SUBSET Claims,
         BeginPrepare(batch) \/ BeginUnprepare(batch)
  PROVE  Shape'
<1> USE ConstantAssumption DEF Shape, TypeOK, CallShape, files, node
<1> PICK kind \in {"prepare", "unprepare"} : Begin(kind, batch)
  BY DEF BeginPrepare, BeginUnprepare
<1>1. /\ mem' \in [Instances -> SUBSET Claims] /\ escaped' \subseteq Claims
      /\ faults' \in 0..MaxFaults
  BY DEF Begin, Restored, Fault, NoFault
<1>2. answer' \in [Claims -> Answers]
  BY DEF Begin, Answers
<1>3. TypeOK'
  BY <1>1, <1>2 DEF Begin
<1>4. CallShape'
  <2>1. \A c \in batch : answer'[c] # "released"
    BY DEF Begin
  <2> QED BY <2>1 DEF Begin, Untracked
<1> QED BY <1>3, <1>4

\* The results reach the kubelet, or get lost with the call.
LEMMA ReturnShape == ASSUME Shape, Return PROVE Shape'
<1> USE ConstantAssumption DEF Shape, TypeOK, CallShape, files, node, procs
<1>1. answer' \in [Claims -> Answers] /\ faults' \in 0..MaxFaults
  BY DEF Return, NoFault, Fault
<1>2. TypeOK'
  BY <1>1 DEF Return, Idle, Points
<1>3. CallShape'
  BY DEF Return, Idle, Untracked
<1> QED BY <1>2, <1>3

\* A result for the claim in hand, or for one just picked.
LEMMA AnswerShape ==
  ASSUME Shape, NEW c \in Claims, NEW result \in Answers, Answer(c, result),
         op # "idle", c \in todo \/ c = cur, UNCHANGED answer,
         op = "prepare" => result # "released"
  PROVE  /\ CallShape'
         /\ todo' \subseteq Claims /\ cur' = NoClaim /\ pc' \in Points
         /\ reply' \in [Claims -> Answers \cup {"none"}]
         /\ op' = op /\ inst' = inst
BY ConstantAssumption DEF Shape, TypeOK, CallShape, Answer, Points, Untracked

\* A claim goes from one program point to the next.
LEMMA ProceedShape ==
  ASSUME Shape, NEW c \in Claims, NEW point \in Points, Proceed(c, point),
         op # "idle", c \in todo \/ c = cur, UNCHANGED answer,
         point # "pick", point \in Untracked <=> op = "prepare"
  PROVE  /\ CallShape'
         /\ todo' \subseteq Claims /\ cur' = c /\ pc' \in Points
         /\ UNCHANGED <<reply, op, inst>>
BY ConstantAssumption DEF Shape, TypeOK, CallShape, Proceed, Points, Untracked

\* The first step on a claim of the batch.
LEMMA PickShape ==
  ASSUME Shape, NEW c \in Claims, PrepareSteps(c) \/ UnprepareSteps(c)
  PROVE  Shape'
<1> USE ConstantAssumption DEF Shape, files, node, procs, kubelet
<1> /\ MadeLink(c) \subseteq Links /\ TypeOK /\ CallShape
  BY LinksTyped
<1>1. CASE PickCached(c)
  <2>1. CachedAnswer(c) \in {"named", "blank"}
    BY DEF CachedAnswer
  <2>2. /\ Answer(c, CachedAnswer(c)) /\ op = "prepare" /\ c \in todo
        /\ UNCHANGED <<procs, files, node, kubelet, escaped, downs, faults>>
    BY <1>1 DEF PickCached, Picks
  <2> QED BY <2>1, <2>2, AnswerShape DEF TypeOK, Answers
<1>2. CASE PickRejected(c)
  <2>1. /\ Answer(c, "retry") /\ op = "prepare" /\ c \in todo
        /\ UNCHANGED <<procs, files, node, kubelet, escaped, downs>>
        /\ faults' \in 0..MaxFaults
    BY <1>2 DEF PickRejected, Picks, Fault, NoFault, TypeOK
  <2> QED BY <2>1, AnswerShape DEF TypeOK, Answers
<1>3. CASE PickPrepared(c)
  <2>1. PICK point \in {"linkUp", "writeCDI"} : Proceed(c, point)
    BY <1>3 DEF PickPrepared
  <2>2. /\ op = "prepare" /\ c \in todo /\ host' \subseteq Links
        /\ UNCHANGED <<procs, files, podns, kubelet, escaped, downs, faults>>
    BY <1>3 DEF PickPrepared, Picks, TypeOK
  <2> QED BY <2>1, <2>2, ProceedShape DEF TypeOK, Points, Untracked
<1>4. CASE UnprepareUntracked(c)
  <2>1. /\ Answer(c, "released") /\ op = "unprepare" /\ c \in todo
        /\ UNCHANGED <<procs, files, node, kubelet, escaped, downs, faults>>
    BY <1>4 DEF UnprepareUntracked, UnknownAnswer, Picks
  <2> QED BY <2>1, AnswerShape DEF TypeOK, Answers
<1>5. CASE UnprepareFailed(c)
  <2>1. /\ Answer(c, "retry") /\ op = "unprepare" /\ c \in todo
        /\ UNCHANGED <<procs, files, node, kubelet, escaped, downs>>
        /\ faults' \in 0..MaxFaults
    BY <1>5 DEF UnprepareFailed, Picks, Fault, TypeOK
  <2> QED BY <2>1, AnswerShape DEF TypeOK, Answers
<1>6. CASE UnprepareDone(c)
  <2>1. /\ Proceed(c, "rmCDI") /\ op = "unprepare" /\ c \in todo
        /\ host' \subseteq Links /\ podns' \subseteq Links
        /\ escaped' \subseteq Claims /\ faults' \in 0..MaxFaults
        /\ UNCHANGED <<procs, files, kubelet, downs>>
    BY <1>6 DEF UnprepareDone, Undone, NotUndone, HostWithout, PodnsWithout, Picks, Fault,
       NoFault, node, TypeOK
  <2> QED BY <2>1, ProceedShape DEF TypeOK, Points, Untracked
<1> QED BY <1>1, <1>2, <1>3, <1>4, <1>5, <1>6 DEF PrepareSteps, UnprepareSteps

\* The later steps on it.
LEMMA InHandShape ==
  ASSUME Shape,
         \/ LinkUp \/ LinkUpFailed \/ WriteCDI \/ WriteCDIFailed \/ Rollback
         \/ SaveAlloc \/ RemoveCDI \/ RemoveAlloc
  PROVE  Shape'
<1> USE ConstantAssumption DEF Shape, files, node, procs, kubelet
<1>a. pc # "pick"
  BY DEF LinkUp, LinkUpFailed, WriteCDI, WriteCDIFailed, Rollback, SaveAlloc,
         RemoveCDI, RemoveAlloc
<1> /\ cur \in Claims /\ MadeLink(cur) \subseteq Links /\ Prefix[cur] \in Prefixes
    /\ TypeOK /\ CallShape /\ op # "idle"
  BY <1>a, LinksTyped DEF TypeOK, CallShape
<1>1. CASE LinkUp
  <2>1. /\ Proceed(cur, "writeCDI") /\ op = "prepare"
        /\ UNCHANGED <<procs, files, node, kubelet, escaped, downs, faults>>
    BY <1>1 DEF LinkUp, CallShape, Untracked
  <2> QED BY <2>1, ProceedShape DEF TypeOK, Points, Untracked
<1>2. CASE LinkUpFailed
  <2>1. /\ Answer(cur, "retry") /\ host' \subseteq Links
        /\ escaped' \subseteq Claims /\ faults' \in 0..MaxFaults
        /\ UNCHANGED <<procs, files, podns, kubelet, downs>>
    BY <1>2 DEF LinkUpFailed, Fault, TypeOK
  <2> QED BY <2>1, AnswerShape DEF TypeOK, Answers
<1>3. CASE WriteCDI
  <2>1. /\ Proceed(cur, "saveAlloc") /\ op = "prepare"
        /\ cdi' \in [Prefixes -> Claims \cup {Absent, Torn}]
        /\ UNCHANGED <<procs, alloc, node, kubelet, escaped, downs, faults>>
    BY <1>3 DEF WriteCDI, TypeOK, CallShape, Untracked
  <2> QED BY <2>1, ProceedShape DEF TypeOK, Points, Untracked
<1>4. CASE WriteCDIFailed
  <2>1. /\ Proceed(cur, "rollback") /\ op = "prepare"
        /\ cdi' \in [Prefixes -> Claims \cup {Absent, Torn}]
        /\ faults' \in 0..MaxFaults
        /\ UNCHANGED <<procs, alloc, node, kubelet, escaped, downs>>
    BY <1>4 DEF WriteCDIFailed, TypeOK, CallShape, Untracked, Fault
  <2> QED BY <2>1, ProceedShape DEF TypeOK, Points, Untracked
<1>5. CASE Rollback
  <2>1. /\ Answer(cur, "retry") /\ host' \subseteq Links /\ podns' \subseteq Links
        /\ escaped' \subseteq Claims /\ faults' \in 0..MaxFaults
        /\ UNCHANGED <<procs, files, kubelet, downs>>
    BY <1>5 DEF Rollback, Undone, NotUndone, HostWithout, PodnsWithout, Fault, NoFault, TypeOK
  <2> QED BY <2>1, AnswerShape DEF TypeOK, Answers
<1>6. CASE SaveAlloc
  <2>1. /\ Answer(cur, "named")
        /\ alloc' \in [Prefixes -> Claims \cup {Absent, Torn}]
        /\ escaped' \subseteq Claims /\ faults' \in 0..MaxFaults
        /\ mem' \in [Instances -> SUBSET Claims]
        /\ UNCHANGED <<up, newest, cdi, node, kubelet, downs>>
    <3>1. alloc' = [alloc EXCEPT ![Prefix[cur]] = cur] \/ alloc' = alloc
          \/ alloc' = [alloc EXCEPT ![Prefix[cur]] = Torn]
      BY <1>6 DEF SaveAlloc
    <3>2. alloc' \in [Prefixes -> Claims \cup {Absent, Torn}]
      BY <3>1 DEF TypeOK
    <3>3. mem' \in [Instances -> SUBSET Claims]
      BY <1>6 DEF SaveAlloc, TypeOK
    <3> QED BY <1>6, <3>2, <3>3 DEF SaveAlloc, Fault, NoFault, TypeOK
  <2> QED BY <2>1, AnswerShape DEF TypeOK, Answers
<1>7. CASE RemoveCDI
  <2>1. /\ Proceed(cur, "rmAlloc") /\ op = "unprepare"
        /\ cdi' \in [Prefixes -> Claims \cup {Absent, Torn}]
        /\ faults' \in 0..MaxFaults
        /\ UNCHANGED <<procs, alloc, node, kubelet, escaped, downs>>
    BY <1>7 DEF RemoveCDI, TypeOK, CallShape, Fault, NoFault
  <2> QED BY <2>1, ProceedShape DEF TypeOK, Points, Untracked
<1>8. CASE RemoveAlloc
  <2>1. /\ Answer(cur, "released") /\ op = "unprepare"
        /\ alloc' \in [Prefixes -> Claims \cup {Absent, Torn}]
        /\ mem' \in [Instances -> SUBSET Claims]
        /\ faults' \in 0..MaxFaults
        /\ UNCHANGED <<up, newest, cdi, node, kubelet, escaped, downs>>
    BY <1>8 DEF RemoveAlloc, Forget, TypeOK, CallShape, Fault, NoFault
  <2> QED BY <2>1, AnswerShape DEF TypeOK, Answers
<1> QED BY <1>1, <1>2, <1>3, <1>4, <1>5, <1>6, <1>7, <1>8

\* Every step keeps types and the shape of a call.
LEMMA StepShape == ASSUME Shape, [Next]_vars PROVE Shape'
<1>1. CASE Next
  BY <1>1, EnvironmentShape, CrashShape, BeginShape, PickShape, InHandShape, ReturnShape
     DEF Next, Serve
<1>2. CASE UNCHANGED vars
  BY <1>2 DEF vars, procs, call, files, node, kubelet, Shape, TypeOK, CallShape
<1> QED BY <1>1, <1>2

\* Every reachable state is typed (the variables are declared in DraDriver.tla
\* with the Go data they stand for).
THEOREM TypeCorrect == Spec => []TypeOK
<1>1. Init => Shape
  BY InitShape DEF Shape
<1>2. Shape /\ [Next]_vars => Shape'
  BY StepShape
<1>3. Shape => TypeOK
  BY DEF Shape
<1> QED BY <1>1, <1>2, <1>3, PTL DEF Spec

-----------------------------------------------------------------------------
(* A released claim leaves no interface. *)

Safe == Tracked /\ Known /\ Clean

\* Initially no created interface exists.
LEMMA InitSafe == ASSUME Init PROVE Safe
<1>1. \A c \in Claims : ~Exposed(c)
  <2> SUFFICES ASSUME NEW c \in Claims, Makes(c), LinkOf(c) \in host PROVE FALSE
    BY DEF Exposed
  <2>1. PICK d \in Claims : Takes(d) /\ LinkOf(c) = LinkOf(d)
    BY DEF Init
  <2>2. ~Makes(d)
    BY <2>1, TakesMakesNothing
  <2> QED BY <2>1, <2>2 DEF LinkOf, Makes
<1> QED BY <1>1 DEF Init, Safe, Tracked, Known, Clean

\* Instances that start and stop, pods, the runtime and the kernel create no
\* interface in the host and touch no file.
LEMMA EnvironmentSafe ==
  ASSUME Shape, Safe,
         \/ \E i \in Instances : Start(i) \/ Stop(i)
         \/ \E c \in Claims : PodAdded(c) \/ PodRemoved(c) \/ Inject(c) \/ DestroyNetns(c)
  PROVE  Safe'
<1> USE DEF Safe, Tracked, Known, Clean, Exposed, InHand, call, files, kubelet, node, procs
<1>1. ASSUME NEW i \in Instances, Start(i) PROVE Safe'
  BY <1>1 DEF Start
<1>2. ASSUME NEW i \in Instances, Stop(i) PROVE Safe'
  <2>1. op # "idle" => mem'[inst] = mem[inst]
    BY <1>2 DEF Stop, Down, Shape, TypeOK, CallShape
  <2> QED BY <1>2, <2>1 DEF Stop
<1>3. ASSUME NEW c \in Claims, PodAdded(c) \/ PodRemoved(c) PROVE Safe'
  BY <1>3 DEF PodAdded, PodRemoved
<1>4. ASSUME NEW c \in Claims, Inject(c) PROVE Safe'
  <2>1. host' \subseteq host
    BY <1>4 DEF Inject
  <2> QED BY <1>4, <2>1 DEF Inject
<1>5. ASSUME NEW c \in Claims, DestroyNetns(c) PROVE Safe'
  <2>1. \A d \in Claims : Makes(d) /\ LinkOf(d) \in host' => LinkOf(d) \in host
    <3> SUFFICES ASSUME NEW d \in Claims, Makes(d), LinkOf(d) \in host',
                        LinkOf(d) \notin host
                 PROVE  FALSE
      OBVIOUS
    <3>1. Takes(c) /\ LinkOf(d) = LinkOf(c)
      BY <1>5 DEF DestroyNetns
    <3>2. ~Makes(c)
      BY <3>1, TakesMakesNothing
    <3> QED BY <3>1, <3>2 DEF LinkOf, Makes
  <2>2. pc \in {"rmCDI", "rmAlloc"} => cur \in Claims
    BY DEF Shape, TypeOK, CallShape
  <2> QED BY <1>5, <2>1, <2>2 DEF DestroyNetns
<1> QED BY <1>1, <1>2, <1>3, <1>4, <1>5

\* A crash loses the map and the results: what was in hand has escaped.
LEMMA CrashSafe == ASSUME Shape, Safe, Crash PROVE Safe'
<1> USE DEF Safe, Tracked, Known, Clean, Exposed, InHand, files, kubelet, node
<1>1. ASSUME NEW c \in Claims, Exposed(c)' PROVE alloc'[Prefix[c]] = c
  <2>1. Exposed(c) /\ ~InHand(c)
    BY <1>1 DEF Crash
  <2>2. alloc[Prefix[c]] = c
    BY <2>1
  <2>3. CASE alloc' = alloc
    BY <2>2, <2>3
  <2>4. CASE cur # NoClaim /\ pc = "saveAlloc" /\ alloc' = [alloc EXCEPT ![Prefix[cur]] = Torn]
    <3>1. c # cur
      BY <1>1, <2>4 DEF Crash, Untracked
    <3>2. Prefix[c] # Prefix[cur]
      BY <2>1, <3>1, <2>4, FilesDistinct DEF Shape, TypeOK
    <3> QED BY <2>2, <2>4, <3>2, LinksTyped DEF Shape, TypeOK
  <2> QED BY <2>3, <2>4 DEF Crash, CutShort
<1> QED BY <1>1 DEF Crash, Idle, Untracked, Shape, TypeOK

\* The reload gives the serving instance all that is recorded.
LEMMA BeginSafe ==
  ASSUME Shape, Safe, NEW batch \in SUBSET Claims,
         BeginPrepare(batch) \/ BeginUnprepare(batch)
  PROVE  Safe'
<1> USE DEF Safe, Tracked, Known, Clean, Exposed, InHand, files, node
<1> PICK kind \in {"prepare", "unprepare"} : Begin(kind, batch)
  BY DEF BeginPrepare, BeginUnprepare
<1>1. \A c \in Claims : Exposed(c)' => Exposed(c)
  BY DEF Begin
<1>2. op = "idle" /\ pc = "pick" /\ pc' = pc /\ cur' = cur /\ ~(pc \in Untracked)
  BY DEF Begin, Shape, CallShape, Untracked
<1>3. ASSUME NEW c \in Claims, Exposed(c)' PROVE c \in mem'[inst']
  <2>1. alloc[Prefix[c]] = c /\ Prefix[c] \in Prefixes
    BY <1>1, <1>2, <1>3, LinksTyped
  <2>2. PICK missed \in SUBSET Prefixes :
          /\ mem' = [mem EXCEPT ![newest] = @ \cup Restored(missed)]
          /\ escaped' = escaped \cup {d \in Claims \ mem[newest] : \E p \in missed : alloc[p] = d}
    BY DEF Begin
  <2>3. newest \in Instances /\ inst' = newest
    BY DEF Begin, Shape, TypeOK
  <2>4. mem'[inst'] = mem[newest] \cup Restored(missed)
    BY <2>2, <2>3 DEF Shape, TypeOK
  <2> QED BY <1>3, <2>1, <2>2, <2>4 DEF Restored
<1>4. \A c \in Claims : answer'[c] = "released" => answer[c] = "released"
  BY DEF Begin
<1> QED BY <1>1, <1>2, <1>3, <1>4 DEF Begin

\* A result that is reported was true when it was computed, and still is.
LEMMA ReturnSafe == ASSUME Shape, Safe, Return PROVE Safe'
<1> USE DEF Safe, Tracked, Known, Clean, Exposed, InHand, files, node, procs
<1>1. \A c \in Claims : answer'[c] = "released" =>
        answer[c] = "released" \/ reply[c] = "released"
  BY DEF Return
<1> QED BY <1>1 DEF Return, Idle, Untracked

\* A claim just picked: its interface appears, or goes.
LEMMA PickSafe ==
  ASSUME Shape, Safe, NEW c \in Claims,
         PrepareSteps(c) \/ UnprepareSteps(c)
  PROVE  Safe'
<1> USE DEF Safe, Tracked, Known, Clean, Exposed, InHand, files, node, procs, kubelet
<1>a. op # "idle" /\ pc = "pick" /\ cur = NoClaim /\ c \in todo /\ pc \notin Untracked
  BY DEF PrepareSteps, PickCached, PickRejected, PickPrepared, UnprepareSteps,
         UnprepareUntracked, UnprepareFailed, UnprepareDone, Picks, Shape,
         CallShape, Untracked
<1>1. CASE PickCached(c) \/ PickRejected(c) \/ UnprepareFailed(c)
  <2>1. PICK result \in {"named", "blank", "retry"} : Answer(c, result)
    BY <1>1 DEF PickCached, PickRejected, UnprepareFailed, CachedAnswer
  <2>2. UNCHANGED <<procs, files, node, kubelet, escaped>>
    BY <1>1 DEF PickCached, PickRejected, UnprepareFailed
  <2>3. \A d \in Claims : reply'[d] = "released" => reply[d] = "released"
    BY <2>1 DEF Answer, Shape, TypeOK
  <2> QED BY <1>a, <2>1, <2>2, <2>3 DEF Answer
<1>2. CASE PickPrepared(c)
  <2>1. /\ pc' \in {"linkUp", "writeCDI"} /\ cur' = c /\ op' = "prepare"
        /\ host' = host \cup MadeLink(c)
        /\ UNCHANGED <<procs, files, kubelet, escaped, inst, reply>>
    BY <1>2 DEF PickPrepared, Picks, Proceed
  <2>2. \A d \in Claims : Exposed(d)' => Exposed(d) \/ d = c
    BY <2>1, MadeLinksDistinct DEF MadeLink
  <2>3. answer[c] # "released" /\ reply[c] # "released"
    BY <1>2, <1>a DEF PickPrepared, Picks, Shape, CallShape
  <2> QED BY <1>a, <2>1, <2>2, <2>3 DEF Untracked
<1>3. CASE UnprepareUntracked(c)
  <2>1. ~Exposed(c)
    BY <1>3, <1>a DEF UnprepareUntracked
  <2>2. /\ Answer(c, "released")
        /\ UNCHANGED <<procs, files, node, kubelet, escaped>>
    BY <1>3 DEF UnprepareUntracked, UnknownAnswer
  <2>3. \A d \in Claims : reply'[d] = "released" => reply[d] = "released" \/ d = c
    BY <2>2 DEF Answer, Shape, TypeOK
  <2> QED BY <1>a, <2>1, <2>2, <2>3 DEF Answer
<1>4. CASE UnprepareDone(c)
  <2>1. /\ pc' = "rmCDI" /\ cur' = c /\ op' = "unprepare"
        /\ UNCHANGED <<procs, files, kubelet, inst, reply>>
    BY <1>4 DEF UnprepareDone, Picks, Proceed
  <2>2. \/ host' = host \ MadeLink(c) /\ escaped' = escaped \ {c}
        \/ host' = host /\ escaped' = escaped \cup {c}
    BY <1>4 DEF UnprepareDone, Undone, NotUndone, HostWithout, node
  \* It was deleted, or its lookup failed and it is lost track of.
  <2>3. \A d \in Claims : Exposed(d)' => Exposed(d) /\ d # c
    BY <2>2 DEF MadeLink
  <2> QED BY <1>a, <2>1, <2>3 DEF Untracked
<1> QED BY <1>1, <1>2, <1>3, <1>4 DEF PrepareSteps, UnprepareSteps

\* A step on the claim in hand.
LEMMA InHandSafe ==
  ASSUME Shape, Safe,
         \/ LinkUp \/ LinkUpFailed \/ WriteCDI \/ WriteCDIFailed \/ Rollback
         \/ SaveAlloc \/ RemoveCDI \/ RemoveAlloc
  PROVE  Safe'
<1> USE DEF Safe, Tracked, Known, Clean, Exposed, InHand, files, node, procs, kubelet
<1>a. pc # "pick" /\ cur \in Claims /\ op # "idle" /\ inst \in Instances
      /\ Prefix[cur] \in Prefixes
  BY LinksTyped DEF LinkUp, LinkUpFailed, WriteCDI, WriteCDIFailed, Rollback,
     SaveAlloc, RemoveCDI, RemoveAlloc, Shape, TypeOK, CallShape
<1>b. \A d \in Distinct : d # cur => Prefix[d] # Prefix[cur]
  BY <1>a, FilesDistinct
<1>c. \A d \in Claims : Prefix[d] \in Prefixes
  BY LinksTyped
<1>1. CASE LinkUp \/ WriteCDI \/ WriteCDIFailed
  <2>1. /\ pc \in Untracked /\ pc' \in Untracked /\ cur' = cur
        /\ pc' \notin {"rmCDI", "rmAlloc"}
        /\ UNCHANGED <<procs, alloc, node, kubelet, escaped, op, inst, reply>>
    BY <1>1 DEF LinkUp, WriteCDI, WriteCDIFailed, Proceed, Untracked
  <2> QED BY <2>1
<1>2. CASE LinkUpFailed \/ Rollback
  <2>1. /\ Answer(cur, "retry")
        /\ UNCHANGED <<procs, files, kubelet>>
    BY <1>2 DEF LinkUpFailed, Rollback
  <2>2. \A d \in Claims : Exposed(d)' => Exposed(d) /\ d # cur
    BY <1>2, <1>a DEF LinkUpFailed, Rollback, Undone, NotUndone, HostWithout, MadeLink
  <2>3. \A d \in Claims : reply'[d] = "released" => reply[d] = "released"
    BY <2>1 DEF Answer, Shape, TypeOK
  <2> QED BY <2>1, <2>2, <2>3 DEF Answer
<1>3. CASE SaveAlloc
  <2>1. /\ Answer(cur, "named") /\ host' = host /\ answer' = answer
        /\ mem' = [mem EXCEPT ![inst] = @ \cup {cur}]
    BY <1>3 DEF SaveAlloc
  <2>2. \A d \in Claims : Exposed(d)' => Exposed(d)
    BY <1>3 DEF SaveAlloc
  <2>3. \A d \in Claims : reply'[d] = "released" => reply[d] = "released"
    BY <2>1 DEF Answer, Shape, TypeOK
  <2>4. cur \in mem'[inst] /\ mem[inst] \subseteq mem'[inst]
    BY <1>a, <2>1 DEF Shape, TypeOK
  <2>5. ASSUME NEW d \in Claims, Exposed(d)' PROVE alloc'[Prefix[d]] = d
    <3>1. CASE d = cur
      BY <1>3, <1>a, <2>5, <3>1 DEF SaveAlloc, Shape, TypeOK
    <3>2. CASE d # cur
      <4>1. alloc'[Prefix[d]] = alloc[Prefix[d]]
        BY <1>3, <1>b, <1>c, <2>5, <3>2 DEF SaveAlloc, Shape, TypeOK
      <4> QED BY <2>2, <2>5, <3>2, <4>1
    <3> QED BY <3>1, <3>2
  <2> QED BY <1>a, <2>1, <2>2, <2>3, <2>4, <2>5 DEF Answer
<1>4. CASE RemoveCDI
  <2>1. /\ pc = "rmCDI" /\ pc' = "rmAlloc" /\ cur' = cur
        /\ UNCHANGED <<procs, alloc, node, kubelet, escaped, op, inst, reply>>
    BY <1>4 DEF RemoveCDI, Proceed
  <2> QED BY <2>1 DEF Untracked
<1>5. CASE RemoveAlloc
  <2>1. /\ pc = "rmAlloc" /\ ~Exposed(cur) /\ pc \notin Untracked
        /\ Answer(cur, "released")
        /\ mem' = [mem EXCEPT ![inst] = @ \ {cur}]
        /\ UNCHANGED <<host, escaped, answer>>
    BY <1>5 DEF RemoveAlloc, Forget, Untracked
  <2>2. \A d \in Claims : reply'[d] = "released" => reply[d] = "released" \/ d = cur
    BY <2>1 DEF Answer, Shape, TypeOK
  <2>3. \A d \in Claims : d # cur => (d \in mem'[inst] <=> d \in mem[inst])
    BY <1>a, <2>1 DEF Shape, TypeOK
  <2>4. \A d \in Distinct : d # cur => alloc'[Prefix[d]] = alloc[Prefix[d]]
    BY <1>5, <1>b, <1>c, FilesDistinct DEF RemoveAlloc, Shape, TypeOK
  <2> QED BY <1>a, <2>1, <2>2, <2>3, <2>4 DEF Answer
<1> QED BY <1>1, <1>2, <1>3, <1>4, <1>5

\* Every step keeps the files level with the node.
LEMMA StepSafe ==
  ASSUME Shape, Safe, [Next]_vars
  PROVE  Safe'
<1>1. CASE Next
  BY <1>1, EnvironmentSafe, CrashSafe, BeginSafe, PickSafe, InHandSafe, ReturnSafe
     DEF Next, Serve
<1>2. CASE UNCHANGED vars
  BY <1>2 DEF vars, procs, call, files, node, kubelet, Safe, Tracked, Known,
              Clean, Exposed, InHand
<1> QED BY <1>1, <1>2

\* A Prepare call begins with every readable file; it writes the file of a claim
\* together with the entry in the map, and takes up only what has no entry.
LEMMA StepLoaded == ASSUME Shape, Loaded, [Next]_vars PROVE Loaded'
<1> USE ConstantAssumption, LinksTyped, FilesDistinct
        DEF Shape, TypeOK, CallShape, Loaded, InHand, Untracked, NoFault,
            call, files, kubelet, node, procs
<1>1. ASSUME \/ \E i \in Instances : Start(i)
             \/ \E c \in Claims : PodAdded(c) \/ PodRemoved(c) \/ Inject(c) \/ DestroyNetns(c)
             \/ UNCHANGED vars
      PROVE  Loaded'
  BY <1>1 DEF Start, PodAdded, PodRemoved, Inject, DestroyNetns, vars
<1>2. ASSUME NEW i \in Instances, Stop(i) PROVE Loaded'
  BY <1>2 DEF Stop, Down
<1>3. ASSUME Crash \/ Return PROVE Loaded'
  BY <1>3 DEF Crash, Return, Idle
<1>4. ASSUME NEW batch \in SUBSET Claims, BeginPrepare(batch) \/ BeginUnprepare(batch)
      PROVE  Loaded'
  BY <1>4 DEF BeginPrepare, BeginUnprepare, Begin, Restored
<1>5. ASSUME NEW c \in Claims, PickCached(c) \/ PickRejected(c) PROVE Loaded'
  BY <1>5 DEF PickCached, PickRejected, Picks, Answer
<1>6. ASSUME NEW c \in Claims, PickPrepared(c) PROVE Loaded'
  BY <1>6 DEF PickPrepared, Picks, Proceed
<1>7. ASSUME NEW c \in Claims, UnprepareSteps(c) PROVE Loaded'
  BY <1>7 DEF UnprepareSteps, UnprepareUntracked, UnprepareFailed, UnprepareDone, NotUndone,
     Picks, Answer, Proceed
<1>8. ASSUME LinkUp \/ WriteCDI \/ WriteCDIFailed PROVE Loaded'
  BY <1>8 DEF LinkUp, WriteCDI, WriteCDIFailed, Proceed
<1>9. ASSUME LinkUpFailed \/ Rollback PROVE Loaded'
  BY <1>9 DEF LinkUpFailed, Rollback, NotUndone, Answer
<1>10. ASSUME SaveAlloc PROVE Loaded'
  BY <1>10 DEF SaveAlloc, Answer
<1>11. ASSUME RemoveCDI \/ RemoveAlloc PROVE Loaded'
  BY <1>11 DEF RemoveCDI, RemoveAlloc, Proceed, Answer
<1> QED BY <1>1, <1>2, <1>3, <1>4, <1>5, <1>6, <1>7, <1>8, <1>9, <1>10, <1>11
        DEF Next, Serve, PrepareSteps

\* Between any two steps of a call: whatever interface exists for a claim with a
\* prefix of its own is recorded in its file or in hand, known to the instance
\* that serves, and not reported released; Prepare knows what is recorded
\* (driver.go:50-139).
THEOREM InductiveHolds == Spec => []Inductive
<1>1. Init => Shape /\ Safe /\ Loaded
  BY InitShape, InitSafe DEF Shape, Init, Loaded
<1>2. Shape /\ Safe /\ Loaded /\ [Next]_vars => Shape' /\ Safe' /\ Loaded'
  BY StepShape, StepSafe, StepLoaded
<1>3. Shape /\ Safe /\ Loaded => Inductive
  BY DEF Shape, Safe, Inductive
<1> QED BY <1>1, <1>2, <1>3, PTL DEF Spec

\* Once the kubelet has been told that a claim is unprepared, the interface the
\* driver created for it is gone from the host, whatever crashes, restarts,
\* rolling updates, retries and lost answers came in between, unless one of the
\* named failures left it untracked (driver.go:106-139).  So it is for every claim
\* with a prefix of its own, whatever the other claims of the node do.
THEOREM ReleasedCleanHolds == Spec => []ReleasedClean
<1>1. Inductive => ReleasedClean
  BY FilesDistinct DEF Inductive, Clean, Exposed, ReleasedClean, MadeLink
<1> QED BY <1>1, InductiveHolds, PTL

-----------------------------------------------------------------------------
(* What is recorded is not created again. *)

\* Only PickPrepared adds an interface that a handler makes, and it does so for a
\* claim that the map does not know.
LEMMA OnlyPreparedMakes ==
  ASSUME Shape, Next, NEW c \in Distinct, Makes(c),
         LinkOf(c) \notin host, LinkOf(c) \in host'
  PROVE  op = "prepare" /\ c \notin mem[inst]
<1> USE DEF Shape, files, node, procs, kubelet
<1>1. ASSUME NEW d \in Claims, PickPrepared(d) PROVE op = "prepare" /\ c \notin mem[inst]
  BY <1>1, MadeLinksDistinct DEF PickPrepared, Picks, MadeLink
<1>2. ASSUME NEW d \in Claims, DestroyNetns(d) PROVE FALSE
  BY <1>2, MadeLinksDistinct, TakesMakesNothing DEF DestroyNetns
<1>3. ASSUME NEW d \in Claims, UnprepareDone(d) PROVE FALSE
  BY <1>3 DEF UnprepareDone, Undone, NotUndone, HostWithout
<1>4. ASSUME LinkUpFailed \/ Rollback PROVE FALSE
  BY <1>4 DEF LinkUpFailed, Rollback, Undone, NotUndone, HostWithout
<1>5. ASSUME NEW d \in Claims,
             PodAdded(d) \/ PodRemoved(d) \/ Inject(d) \/ PickCached(d) \/ PickRejected(d)
               \/ UnprepareUntracked(d) \/ UnprepareFailed(d)
      PROVE  FALSE
  BY <1>5 DEF PodAdded, PodRemoved, Inject, PickCached, PickRejected,
              UnprepareUntracked, UnprepareFailed
<1>6. ASSUME NEW i \in Instances, Start(i) \/ Stop(i) PROVE FALSE
  BY <1>6 DEF Start, Stop
<1>7. ASSUME NEW batch \in SUBSET Claims, BeginPrepare(batch) \/ BeginUnprepare(batch)
      PROVE  FALSE
  BY <1>7 DEF BeginPrepare, BeginUnprepare, Begin
<1>8. ASSUME \/ Crash \/ LinkUp \/ WriteCDI \/ WriteCDIFailed \/ SaveAlloc
             \/ RemoveCDI \/ RemoveAlloc \/ Return
      PROVE  FALSE
  BY <1>8 DEF Crash, LinkUp, WriteCDI, WriteCDIFailed, SaveAlloc, RemoveCDI, RemoveAlloc,
              Return
<1> QED BY <1>1, <1>2, <1>3, <1>4, <1>5, <1>6, <1>7, <1>8
        DEF Next, Serve, PrepareSteps, UnprepareSteps

\* No call creates the interface of a claim that its allocation file records,
\* whichever instance serves, through any crashes, restarts, rolling updates and lost
\* answers, unless a named failure, such as a file that cannot be read, left the
\* interface untracked (driver.go:59-69, 285-327).
THEOREM RecordedOnceHolds == Spec => RecordedOnce
<1> DEFINE Kept == \A c \in Distinct :
                     alloc[Prefix[c]] = c /\ c \notin escaped =>
                       MadeLink(c) \cap (host' \ host) = {}
<1>1. Inductive /\ [Next]_vars => [Kept]_vars
  <2> SUFFICES ASSUME Inductive, Next, NEW c \in Distinct,
                      alloc[Prefix[c]] = c, c \notin escaped,
                      Makes(c), LinkOf(c) \notin host, LinkOf(c) \in host'
               PROVE  FALSE
    BY DEF MadeLink
  <2>1. op = "prepare" /\ c \notin mem[inst]
    BY OnlyPreparedMakes DEF Inductive, Shape
  <2> QED BY <2>1 DEF Inductive, Loaded
<1> QED BY <1>1, InductiveHolds, PTL DEF Spec, RecordedOnce

=============================================================================
