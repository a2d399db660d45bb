----------------------------- MODULE DraDriver ------------------------------
(***************************************************************************)
(* The kubelet plugin of one node (pkg/driver/driver.go): what             *)
(* PrepareResourceClaims and UnprepareResourceClaims do, step by step, to  *)
(* the node's interfaces, to the CDI specification and the allocation file *)
(* of each claim and to the in-memory allocations map, while driver        *)
(* instances start, stop and crash and the kubelet retries.                *)
(*                                                                         *)
(* Environment, modelled from how the code uses it: the kubelet (which     *)
(* claims its pods want, what it was last told about each), the container  *)
(* runtime that moves an interface into a pod, the kernel that empties a   *)
(* pod's network namespace when it goes.  The plugin helper runs one call  *)
(* at a time, across instances too (main.go:122), and the kubelet calls    *)
(* the instance that registered last.                                      *)
(***************************************************************************)
EXTENDS Handlers, FiniteSets

CONSTANTS
  Claims,     \* claims that pods of this node may use
  Instances,  \* driver pods: two of them overlap in a rolling update
  Prefix,     \* claim -> claimUID[:8]
  Config,     \* claim -> its configuration entries (see ParseConfig)
  HostLink,   \* claim -> the existing interface it names or was assigned
  NoClaim, NoInst, Absent, Torn

CONSTANTS     \* bounds of the environment
  MaxDowns,   \* instances that stop or crash
  MaxFaults,  \* operations that fail
  FaultKinds, \* which of them may: see Fault
  CrashAt,    \* the program points at which an instance may crash
  HandOver,   \* a pod may take a claim over before it is unprepared
  GoBack      \* a newer instance may go while an older one runs

ASSUME ConstantAssumption ==
  /\ NoClaim \notin Claims /\ NoInst \notin Instances
  /\ Absent \notin Claims /\ Torn \notin Claims /\ Absent # Torn
  /\ MaxDowns \in Nat /\ MaxFaults \in Nat

Prefixes == {Prefix[c] : c \in Claims}

\* The configuration of a claim and the handler for it: the same every time they
\* are looked up.
ParsedConfig == [c \in Claims |-> ParseConfig(Config[c])]
Cfg(c)       == ParsedConfig[c]
HandlerTable == [c \in Claims |-> Get(Cfg(c).type, GetKind(Cfg(c)))]
HandlerOf(c) == HandlerTable[c]
Makes(c)     == HandlerOf(c).makes # ""
Takes(c)     == HandlerOf(c).takes
Pair(c)      == HandlerOf(c).pair

\* The interface of a claim, under its host name: the one its handler creates,
\* or the existing one.
LinkOf(c) == <<HandlerOf(c).makes, IF Makes(c) THEN Prefix[c] ELSE HostLink[c]>>
Links     == {LinkOf(c) : c \in Claims}
MadeLink(c) == IF Makes(c) THEN {LinkOf(c)} ELSE {}

\* Whether an existing interface bears its own name inside the pod as well.
KeepsName(c) == HandlerOf(c).keeps /\ "interfaceName" \notin Cfg(c).fields

\* Claims whose UID no other one matches in the first eight characters: no other
\* claim writes their files or bears the name of their interface.
Distinct == {c \in Claims : \A d \in Claims : Prefix[d] = Prefix[c] => d = c}

VARIABLES
  \* driver instances
  up,       \* those that run
  newest,   \* the one the kubelet calls
  mem,      \* Driver.allocations of each
  \* the call being served
  op,       \* "prepare" or "unprepare"; "idle" between calls
  inst,     \* the instance serving it
  todo,     \* claims of the batch not handled yet
  cur, pc,  \* the claim in hand and the next step on it
  reply,    \* results so far
  \* the node
  cdi,      \* <prefix>.json: the claim it was written for, Absent, or Torn
  alloc,    \* <prefix>.alloc.json, likewise
  host,     \* interfaces present in the host's network namespace
  podns,    \* interfaces (for a pair: the container's end) inside a pod
  \* the kubelet
  wanted,   \* claims of the pods now on the node
  answer,   \* what the driver last told the kubelet about a claim
  \* history and bounds
  escaped,  \* claims whose interface a named failure left untracked
  downs, faults

procs   == <<up, newest, mem>>
call    == <<op, inst, todo, cur, pc, reply>>
files   == <<cdi, alloc>>
node    == <<host, podns>>
kubelet == <<wanted, answer>>
vars    == <<procs, call, files, node, kubelet, escaped, downs, faults>>

\* "named": a CDI device id that CDI can resolve; "blank": one without a
\* device name; "retry": no usable answer, the kubelet will call again.
Answers == {"named", "blank", "retry", "released"}
\* Program points at which an interface exists that no file records.
Untracked == {"linkUp", "writeCDI", "rollback", "saveAlloc"}
Points    == Untracked \cup {"pick", "rmCDI", "rmAlloc"}

TypeOK ==
  /\ up \subseteq Instances /\ newest \in Instances \cup {NoInst}
  /\ mem \in [Instances -> SUBSET Claims]
  /\ op \in {"idle", "prepare", "unprepare"}
  /\ inst \in Instances \cup {NoInst}
  /\ todo \subseteq Claims /\ cur \in Claims \cup {NoClaim} /\ pc \in Points
  /\ reply \in [Claims -> Answers \cup {"none"}]
  /\ cdi \in [Prefixes -> Claims \cup {Absent, Torn}]
  /\ alloc \in [Prefixes -> Claims \cup {Absent, Torn}]
  /\ host \subseteq Links /\ podns \subseteq Links
  /\ wanted \subseteq Claims /\ answer \in [Claims -> Answers]
  /\ escaped \subseteq Claims
  /\ downs \in 0..MaxDowns /\ faults \in 0..MaxFaults

Init ==
  /\ up = {} /\ newest = NoInst /\ mem = [i \in Instances |-> {}]
  /\ op = "idle" /\ inst = NoInst /\ todo = {} /\ cur = NoClaim /\ pc = "pick"
  /\ reply = [c \in Claims |-> "none"]
  /\ cdi = [p \in Prefixes |-> Absent] /\ alloc = [p \in Prefixes |-> Absent]
  /\ host = {LinkOf(c) : c \in {d \in Claims : Takes(d)}} /\ podns = {}
  /\ wanted = {} /\ answer = [c \in Claims |-> "released"]
  /\ escaped = {} /\ downs = 0 /\ faults = 0

(***************************************************************************)
(* Failures.  "add", "setup", "del": LinkAdd or the checks before it,      *)
(* LinkSetUp after it, LinkDel; "find": the LinkByName of an interface     *)
(* that exists; "cdi", "alloc", "rmcdi", "rmalloc", "read": writing,       *)
(* removing and reading the files; "reply": the kubelet times out on an    *)
(* answer.                                                                 *)
(***************************************************************************)
Fault(kind) ==
  /\ kind \in FaultKinds /\ faults < MaxFaults /\ faults' = faults + 1

NoFault == UNCHANGED faults

-----------------------------------------------------------------------------
(* Driver instances. *)

\* New and kubeletplugin.Start: an empty map; nothing is restored yet.
Start(i) ==
  /\ i \notin up
  /\ up' = up \cup {i} /\ newest' = i
  /\ UNCHANGED <<mem, call, files, node, kubelet, escaped, downs, faults>>

\* Of the instances that still run the kubelet calls one: with GoBack it may be
\* one that a newer instance had replaced, and whose map is behind.
Down(i) ==
  /\ downs < MaxDowns /\ downs' = downs + 1
  /\ GoBack \/ newest # i \/ up = {i}
  /\ up' = up \ {i}
  /\ newest' \in CASE newest # i  -> {newest}
                   [] up = {i}    -> {NoInst}
                   [] OTHER       -> up \ {i}
  /\ mem' = [mem EXCEPT ![i] = {}]

\* SIGTERM: helper.Stop between two calls.
Stop(i) ==
  /\ i \in up /\ (op = "idle" \/ inst # i)
  /\ Down(i)
  /\ UNCHANGED <<call, files, node, kubelet, escaped, faults>>

Idle ==
  /\ op' = "idle" /\ inst' = NoInst /\ todo' = {} /\ cur' = NoClaim
  /\ pc' = "pick" /\ reply' = [c \in Claims |-> "none"]

\* What a crash may leave of a file that was being written.
CutShort(file, p, point) == {file} \cup (IF pc = point THEN {[file EXCEPT ![p] = Torn]} ELSE {})

\* The serving instance dies in the middle of the call.  The results of the
\* batch are lost with it; an interface in hand stays behind.
Crash ==
  /\ op # "idle" /\ pc \in CrashAt
  /\ Down(inst)
  /\ cdi' \in IF cur = NoClaim THEN {cdi} ELSE CutShort(cdi, Prefix[cur], "writeCDI")
  /\ alloc' \in IF cur = NoClaim THEN {alloc} ELSE CutShort(alloc, Prefix[cur], "saveAlloc")
  /\ escaped' = IF pc \in Untracked THEN escaped \cup {cur} ELSE escaped
  /\ Idle
  /\ UNCHANGED <<node, kubelet, faults>>

-----------------------------------------------------------------------------
(* Kubelet, container runtime and kernel. *)

\* A claim made for one pod is not wanted again; a shared one passes from pod
\* to pod, and with HandOver it stays prepared when it does.
PodAdded(c) ==
  /\ c \notin wanted /\ wanted' = wanted \cup {c}
  /\ HandOver \/ (answer[c] = "released" /\ LinkOf(c) \notin podns)
  /\ UNCHANGED <<procs, call, files, node, answer, escaped, downs, faults>>

PodRemoved(c) ==
  /\ c \in wanted /\ wanted' = wanted \ {c}
  /\ UNCHANGED <<procs, call, files, node, answer, escaped, downs, faults>>

\* The runtime resolves the CDI device of a prepared claim and moves its
\* interface into the pod; of a pair the container's end moves.
Inject(c) ==
  /\ c \in wanted /\ answer[c] = "named" /\ cdi[Prefix[c]] = c
  /\ LinkOf(c) \in host \ podns /\ (Makes(c) \/ Takes(c))
  /\ podns' = podns \cup {LinkOf(c)}
  /\ host' = IF Pair(c) THEN host ELSE host \ {LinkOf(c)}
  /\ UNCHANGED <<procs, call, files, kubelet, escaped, downs, faults>>

\* The pod's namespace is destroyed: the kernel deletes the virtual interfaces
\* in it (with one end of a pair, the other) and returns the existing ones, under
\* the name they had there: another one is no claim's.
DestroyNetns(c) ==
  /\ c \notin wanted /\ LinkOf(c) \in podns
  /\ podns' = podns \ {LinkOf(c)}
  /\ host' = CASE Takes(c) /\ KeepsName(c) -> host \cup {LinkOf(c)}
               [] Pair(c)                   -> host \ {LinkOf(c)}
               [] OTHER                     -> host
  /\ UNCHANGED <<procs, call, files, kubelet, escaped, downs, faults>>

-----------------------------------------------------------------------------
(* A call. *)

\* Mutant of Restored: no reload when a call begins.
RestoredNone(missed) == {}

\* restoreAllocations: the claims found in the allocation files, except those
\* whose file could not be read.  A torn file does not parse and is skipped.
Restored(missed) ==
  {c \in Claims : \E p \in Prefixes \ missed : alloc[p] = c}

\* Both calls first merge the files into the map: nothing is dropped from it.
Begin(kind, batch) ==
  /\ op = "idle" /\ newest # NoInst /\ batch # {}
  /\ op' = kind /\ inst' = newest /\ todo' = batch
  /\ \E missed \in SUBSET Prefixes :
       /\ IF missed = {} THEN NoFault ELSE Fault("read")
       /\ mem' = [mem EXCEPT ![newest] = @ \cup Restored(missed)]
       /\ escaped' = escaped \cup {c \in Claims \ mem[newest] : \E p \in missed : alloc[p] = c}
  /\ answer' = [c \in Claims |->
                  IF c \in batch /\ (kind = "unprepare" \/ answer[c] = "released")
                  THEN "retry" ELSE answer[c]]
  /\ UNCHANGED <<up, newest, cur, pc, reply, files, node, wanted, downs>>

\* The kubelet asks for the claims of admitted pods, again after a failure and
\* after its own restart.
BeginPrepare(batch) == batch \subseteq wanted /\ Begin("prepare", batch)

\* It gives up claims that no pod wants, until it is told they are released.
BeginUnprepare(batch) ==
  /\ \A c \in batch : c \notin wanted /\ answer[c] # "released"
  /\ Begin("unprepare", batch)

Picks(kind, c) == op = kind /\ pc = "pick" /\ c \in todo

\* The claim is done with; the loop goes on to the next one.
Answer(c, result) ==
  /\ reply' = [reply EXCEPT ![c] = result]
  /\ todo' = todo \ {c} /\ cur' = NoClaim /\ pc' = "pick"
  /\ UNCHANGED <<op, inst>>

\* The claim is in hand and goes on at another point.
Proceed(c, point) ==
  /\ todo' = todo \ {c} /\ cur' = c /\ pc' = point
  /\ UNCHANGED <<op, inst, reply>>

\* All results are in.  The kubelet may have timed out on them.
Return ==
  /\ op # "idle" /\ pc = "pick" /\ todo = {}
  /\ \/ /\ answer' = [c \in Claims |-> IF reply[c] = "none" THEN answer[c] ELSE reply[c]]
        /\ NoFault
     \/ /\ Fault("reply") /\ UNCHANGED answer
  /\ Idle
  /\ UNCHANGED <<procs, files, node, wanted, escaped, downs>>

-----------------------------------------------------------------------------
(* PrepareResourceClaims, one claim. *)

\* Mutant of CachedAnswer: the id ends at the type.
CachedType(c) == HandlerOf(c).type

\* The id of a prepared claim is rebuilt from the allocation, whose DeviceName
\* may be empty.
CachedAnswer(c) == IF HandlerOf(c).names THEN "named" ELSE "blank"

PickCached(c) ==
  /\ Picks("prepare", c) /\ c \in mem[inst]
  /\ Answer(c, CachedAnswer(c))
  /\ UNCHANGED <<procs, files, node, kubelet, escaped, downs, faults>>

\* LinkAdd refuses a name that is taken; LinkByName wants one that exists.
Feasible(c) ==
  /\ Accepts(Cfg(c))
  /\ Makes(c) => LinkOf(c) \notin host
  /\ Takes(c) => LinkOf(c) \in host

PickRejected(c) ==
  /\ Picks("prepare", c) /\ c \notin mem[inst]
  /\ IF Feasible(c) THEN Fault("add") ELSE NoFault
  /\ Answer(c, "retry")
  /\ UNCHANGED <<procs, files, node, kubelet, escaped, downs>>

PickPrepared(c) ==
  /\ Picks("prepare", c) /\ c \notin mem[inst] /\ Feasible(c)
  /\ Proceed(c, IF Makes(c) THEN "linkUp" ELSE "writeCDI")
  /\ host' = host \cup MadeLink(c)
  /\ UNCHANGED <<procs, files, podns, kubelet, escaped, downs, faults>>

LinkUp ==
  /\ pc = "linkUp" /\ Proceed(cur, "writeCDI")
  /\ UNCHANGED <<procs, files, node, kubelet, escaped, downs, faults>>

\* The handler deletes what it added.  The result of that LinkDel, which looks the
\* interface up itself, is ignored: the second failure.
LinkUpFailed ==
  /\ pc = "linkUp" /\ (Fault("setup") \/ Fault("find"))
  /\ \/ host' = host \ MadeLink(cur) /\ UNCHANGED escaped
     \/ UNCHANGED host /\ escaped' = escaped \cup {cur}
  /\ Answer(cur, "retry")
  /\ UNCHANGED <<procs, files, podns, kubelet, downs>>

WriteCDI ==
  /\ pc = "writeCDI" /\ Proceed(cur, "saveAlloc")
  /\ cdi' = [cdi EXCEPT ![Prefix[cur]] = cur]
  /\ UNCHANGED <<procs, alloc, node, kubelet, escaped, downs, faults>>

WriteCDIFailed ==
  /\ pc = "writeCDI" /\ Fault("cdi") /\ Proceed(cur, "rollback")
  /\ cdi' \in {cdi, [cdi EXCEPT ![Prefix[cur]] = Torn]}
  /\ UNCHANGED <<procs, alloc, node, kubelet, escaped, downs>>

\* Mutant of HostWithout: the interface is looked up but never deleted.
HostWith(c) == host

\* What LinkDel leaves of the host's interfaces, and of those inside pods:
\* deleting one end of a pair deletes the other.
HostWithout(c)  == host \ MadeLink(c)
PodnsWithout(c) == IF Pair(c) /\ LinkOf(c) \in host THEN podns \ {LinkOf(c)} ELSE podns

\* The handler's Unprepare succeeds: the interface is deleted, or was gone.
Undone(c) == host' = HostWithout(c) /\ podns' = PodnsWithout(c)

\* What failed, if it failed to, with the interface still there.
NotUndone(c, kind) ==
  /\ MadeLink(c) \cap host # {} /\ Fault(kind)
  /\ UNCHANGED node /\ escaped' = escaped \cup {c}

\* unprepareAllocation after a failed createCDISpec; its error is dropped and
\* a torn CDI file stays.
Rollback ==
  /\ pc = "rollback"
  /\ \/ Undone(cur) /\ NoFault /\ UNCHANGED escaped
     \/ NotUndone(cur, "del") \/ NotUndone(cur, "find")
  /\ Answer(cur, "retry")
  /\ UNCHANGED <<procs, files, kubelet, downs>>

\* saveAllocation, whose failure is only logged, and the entry in the map.
SaveAlloc ==
  /\ pc = "saveAlloc"
  /\ \/ /\ alloc' = [alloc EXCEPT ![Prefix[cur]] = cur]
        /\ NoFault /\ UNCHANGED escaped
     \/ /\ alloc' \in {alloc, [alloc EXCEPT ![Prefix[cur]] = Torn]}
        /\ Fault("alloc") /\ escaped' = escaped \cup {cur}
  /\ mem' = [mem EXCEPT ![inst] = @ \cup {cur}]
  /\ Answer(cur, "named")
  /\ UNCHANGED <<up, newest, cdi, node, kubelet, downs>>

-----------------------------------------------------------------------------
(* UnprepareResourceClaims, one claim. *)

\* Mutant of UnknownAnswer: an unknown claim is an error.
UnknownError == "retry"

\* A claim that nothing is known of is taken for cleaned up already.
UnknownAnswer == "released"

UnprepareUntracked(c) ==
  /\ Picks("unprepare", c) /\ c \notin mem[inst]
  /\ Answer(c, UnknownAnswer)
  /\ UNCHANGED <<procs, files, node, kubelet, escaped, downs, faults>>

UnprepareFailed(c) ==
  /\ Picks("unprepare", c) /\ c \in mem[inst]
  /\ MadeLink(c) \cap host # {} /\ Fault("del")
  /\ Answer(c, "retry")
  /\ UNCHANGED <<procs, files, node, kubelet, escaped, downs>>

\* Whatever the lookup of the interface fails with, the handler takes it for gone
\* and returns no error.
UnprepareDone(c) ==
  /\ Picks("unprepare", c) /\ c \in mem[inst]
  /\ \/ Undone(c) /\ NoFault /\ escaped' = escaped \ {c}
     \/ NotUndone(c, "find")
  /\ Proceed(c, "rmCDI")
  /\ UNCHANGED <<procs, files, kubelet, downs>>

RemoveCDI ==
  /\ pc = "rmCDI" /\ Proceed(cur, "rmAlloc")
  /\ \/ cdi' = [cdi EXCEPT ![Prefix[cur]] = Absent] /\ NoFault
     \/ Fault("rmcdi") /\ UNCHANGED cdi
  /\ UNCHANGED <<procs, alloc, node, kubelet, escaped, downs>>

\* Mutant of Forget: the entry stays in the map.
ForgetNothing(c) == mem

Forget(c) == [mem EXCEPT ![inst] = @ \ {c}]

\* A file that could not be removed is only logged; the map forgets the claim.
RemoveAlloc ==
  /\ pc = "rmAlloc" /\ Answer(cur, "released")
  /\ \/ alloc' = [alloc EXCEPT ![Prefix[cur]] = Absent] /\ NoFault
     \/ Fault("rmalloc") /\ UNCHANGED alloc
  /\ mem' = Forget(cur)
  /\ UNCHANGED <<up, newest, cdi, node, kubelet, escaped, downs>>

-----------------------------------------------------------------------------
PrepareSteps(c)   == PickCached(c) \/ PickRejected(c) \/ PickPrepared(c)
UnprepareSteps(c) == UnprepareUntracked(c) \/ UnprepareFailed(c) \/ UnprepareDone(c)

Serve ==
  \/ \E c \in Claims : PrepareSteps(c) \/ UnprepareSteps(c)
  \/ LinkUp \/ LinkUpFailed \/ WriteCDI \/ WriteCDIFailed \/ Rollback \/ SaveAlloc
  \/ RemoveCDI \/ RemoveAlloc \/ Return

Next ==
  \/ \E i \in Instances : Start(i) \/ Stop(i)
  \/ Crash
  \/ \E c \in Claims : PodAdded(c) \/ PodRemoved(c) \/ Inject(c) \/ DestroyNetns(c)
  \/ \E batch \in SUBSET Claims : BeginPrepare(batch) \/ BeginUnprepare(batch)
  \/ Serve

Spec == Init /\ [][Next]_vars

-----------------------------------------------------------------------------
(* Scheduling.  The process takes the steps of a call it serves; a DaemonSet *)
(* starts a driver pod while none runs; the kubelet's pod workers retry each *)
(* claim, whatever other calls they make in between; a pod that is gone has  *)
(* its namespace destroyed.                                                  *)

Prepares(c)   == \E batch \in SUBSET Claims : c \in batch /\ BeginPrepare(batch)
Unprepares(c) == \E batch \in SUBSET Claims : c \in batch /\ BeginUnprepare(batch)

Fairness ==
  /\ WF_vars(Serve)
  /\ WF_vars(up = {} /\ \E i \in Instances : Start(i))
  /\ \A c \in Claims :
       /\ SF_vars(answer[c] \notin {"named", "blank"} /\ Prepares(c))
       /\ SF_vars(Unprepares(c))
       /\ WF_vars(DestroyNetns(c))

FairSpec == Spec /\ Fairness

-----------------------------------------------------------------------------
(* Properties. *)

Granted(c) == c \in wanted /\ answer[c] \in {"named", "blank"}

\* Once the kubelet has been told that a claim is unprepared
\* (driver.go:106-139), the interface created for the claim is gone from the
\* host, whatever was lost, retried, restarted or handed to another instance in
\* between: unless one of the named failures (driver.go:81, 291, 351, a lookup
\* that fails at dummy.go:99, a crash between LinkAdd and the allocation file) left
\* it behind.  Claims that
\* share a prefix (driver.go:261) promise nothing, and harm only each other.
ReleasedClean ==
  \A c \in Distinct :
    answer[c] = "released" /\ c \notin escaped => MadeLink(c) \cap host = {}

\* Why ReleasedClean is kept.  The shape of a call:
CallShape ==
  /\ op = "idle" => pc = "pick" /\ todo = {} /\ \A c \in Claims : reply[c] = "none"
  /\ op # "idle" => inst \in Instances
  /\ pc = "pick" <=> cur = NoClaim
  /\ pc \in Untracked => op = "prepare"
  /\ pc \in {"rmCDI", "rmAlloc"} => op = "unprepare"
  /\ op = "prepare" => /\ \A c \in todo \cup {cur} : c \in Claims => answer[c] # "released"
                       /\ \A c \in Claims : reply[c] # "released"

\* an interface that exists is recorded in its allocation file, or is being
\* prepared at this very moment;
Exposed(c)  == c \in Distinct /\ Makes(c) /\ LinkOf(c) \in host /\ c \notin escaped
InHand(c)   == cur = c /\ pc \in Untracked
Tracked     == \A c \in Claims : Exposed(c) => alloc[Prefix[c]] = c \/ InHand(c)

\* the instance that serves a call knows every interface that is recorded;
Known ==
  op # "idle" => \A c \in Claims : Exposed(c) => c \in mem[inst] \/ InHand(c)

\* and what a claim was, or is about to be, reported released for is gone, as
\* is the interface whose files are being removed.
Clean ==
  /\ \A c \in Claims : answer[c] = "released" \/ reply[c] = "released" => ~Exposed(c)
  /\ pc \in {"rmCDI", "rmAlloc"} => ~Exposed(cur)

\* A Prepare call knows what is recorded, and not yet what is in its hands.
Loaded ==
  op = "prepare" =>
    /\ \A c \in Distinct \ escaped : alloc[Prefix[c]] = c => c \in mem[inst]
    /\ \A c \in Claims : InHand(c) => c \notin mem[inst]

\* The inductive invariant behind ReleasedClean and RecordedOnce (driver.go:50-139):
\* what must hold between any two steps of a call for Unprepare to find what it
\* undoes, and for Prepare to leave alone what exists.
Inductive == TypeOK /\ CallShape /\ Tracked /\ Known /\ Clean /\ Loaded

\* A claim that the kubelet holds as prepared is usable: its CDI file describes
\* it, and the interface created for it exists, in the host or in the pod,
\* unless a named failure left it untracked (driver.go:63-69, where Prepare
\* answers without looking at the node).
Reachable(c) == MadeLink(c) \subseteq host \cup podns
UsableNow(c) == cdi[Prefix[c]] = c /\ Reachable(c)

GrantUsable ==
  \A c \in Distinct : Granted(c) /\ c \notin escaped => UsableNow(c)

\* Nothing takes it away from a claim that the kubelet holds as prepared, not
\* even if the claim passes from pod to pod (driver.go:64) and its allocation
\* file outlives it (driver.go:335).
GrantKept ==
  [][\A c \in Distinct \ escaped :
       Granted(c) /\ UsableNow(c) => UsableNow(c)']_vars

\* The answer to a repeated Prepare is as good as the first one: the kubelet
\* never holds a device id without a device name (driver.go:64-68, README.md:58).
AnswersNameDevice == \A c \in Claims : answer[c] # "blank"

\* While the kubelet holds a claim as prepared, no Prepare creates its
\* interface a second time (README.md:58, "instead of re-creating devices"),
\* unless a named failure left it untracked.
NeverRecreated ==
  [][\A c \in Distinct :
       Granted(c) /\ c \notin escaped => MadeLink(c) \cap (host' \ host) = {}]_vars

\* What is recorded is not created again, whichever instance serves, whatever
\* became of the answers, of the map and of other claims (driver.go:59-69,
\* 285-327), unless a named failure, such as a file that cannot be read, left it
\* untracked.
RecordedOnce ==
  [][\A c \in Distinct :
       alloc[Prefix[c]] = c /\ c \notin escaped => MadeLink(c) \cap (host' \ host) = {}]_vars

\* Why GrantKept and NeverRecreated are kept, as long as the kubelet never goes
\* back to an instance that a newer one had replaced.  Nobody but the instance
\* that serves, or served last, knows of a claim; what was answered, or is about
\* to be, is in the file, and known in every call;
Prepared(c) == answer[c] \in {"named", "blank"} \/ reply[c] \in {"named", "blank"}
Removing(c) == cur = c /\ pc \in {"rmCDI", "rmAlloc"}

Fresh(i) == i \notin up \/ (op # "idle" /\ i = newest /\ i # inst)

Remembered ==
  /\ newest \in up \cup {NoInst} /\ (op # "idle" => inst \in up)
  /\ \A i \in Instances : Fresh(i) => mem[i] = {}
  /\ \A p \in Prefixes : alloc[p] \in Claims => Prefix[alloc[p]] = p
  /\ \A c \in Distinct \ escaped :
       /\ Prepared(c) => alloc[Prefix[c]] = c /\ (op # "idle" => c \in mem[inst])
       /\ \A i \in Instances \cap {newest, inst} : c \in mem[i] => alloc[Prefix[c]] = c \/ Removing(c)
  /\ op = "unprepare" => \A c \in Claims : c \in todo \/ Removing(c) => ~Prepared(c)
  /\ op = "unprepare" => \A c \in Claims : reply[c] \notin {"named", "blank"}

\* and why GrantUsable is, if no claim is handed over and its file is removed with
\* it: a claim in a pod that is recorded or in hand has its interface and, once
\* recorded, its CDI file; a released one has no allocation file.
Intact ==
  /\ \A c \in Distinct \ escaped : alloc[Prefix[c]] = c =>
       /\ "released" \notin {answer[c], reply[c]}
       /\ op = "idle" \/ c \in mem[inst]
       /\ c \notin wanted \/ UsableNow(c)
  /\ \A c \in (wanted \cap Distinct) \ escaped : InHand(c) =>
       Reachable(c) /\ (pc = "saveAlloc" => cdi[Prefix[c]] = c)
  /\ \A c \in Claims : /\ InHand(c) => c \notin mem[inst]
                       /\ op = "unprepare" /\ (c \in todo \/ Removing(c)) =>
                            c \notin wanted /\ answer[c] = "retry" /\ reply[c] = "none"

\* A claim that no pod wants any more is eventually released, or wanted again.
EventuallyReleased ==
  \A c \in Claims : c \notin wanted ~> (answer[c] = "released" \/ c \in wanted)

\* A claim that a pod wants and whose configuration is accepted is eventually
\* prepared, or no longer wanted, whatever is retried, restarted or handed over
\* (driver.go:59-98), unless a named failure left its interface behind.
EventuallyGranted ==
  \A c \in Claims :
    (c \in wanted /\ Accepts(Cfg(c))) ~> (Granted(c) \/ c \notin wanted \/ c \in escaped)

\* The same with no exception: Prepare is "idempotent across restarts and rolling
\* updates" (driver.go:53).
AlwaysGranted ==
  \A c \in Claims : (c \in wanted /\ Accepts(Cfg(c))) ~> (Granted(c) \/ c \notin wanted)

-----------------------------------------------------------------------------
(* The plugin implements ClaimLifecycle: what is left of its state when only *)
(* the kubelet's view of a claim and its interface are kept.                 *)

PhaseOf(c) ==
  CASE answer[c] = "released" -> "released"
    [] answer[c] = "retry"    -> "busy"
    [] OTHER                  -> "granted"

Lifecycle == INSTANCE ClaimLifecycle WITH
  Claims <- Distinct,
  phase  <- [c \in Distinct |-> PhaseOf(c)],
  made   <- {c \in Distinct : MadeLink(c) \cap host # {}},
  leaked <- escaped \cap Distinct

\* Every behaviour of the plugin, seen by the kubelet (driver.go:43-139), is one
\* of ClaimLifecycle: through batches, retries, crashes, failures and rolling
\* updates a claim changes hands only as that specification allows.
ImplementsLifecycle == Lifecycle!Spec

=============================================================================
