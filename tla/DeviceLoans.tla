----------------------------- MODULE DeviceLoans -----------------------------
(***************************************************************************)
(* What the pods of a node may rely on, in exclusive mode, whatever the    *)
(* two threads of the driver do: a device is lent to one pod at a time,    *)
(* for a claim of that pod, before the pod runs, and is not taken away     *)
(* while it runs.  No tracker, no steps of the handlers, no events;        *)
(* RdmaNetns.tla is shown to implement it.                                 *)
(***************************************************************************)
CONSTANTS Claims, Pods, Devices, PodOf, Dev, Host

VARIABLES
  holder,   \* device -> Host, or the pod in whose namespace it is
  running,  \* pods that run and are wanted
  open,     \* claims that are not released
  dropped,  \* claims whose loan a failure dropped before it was made
  stray     \* claims whose device a failure left where it was

vars == <<holder, running, open, dropped, stray>>

Init ==
  /\ holder = [d \in Devices |-> Host]
  /\ running = {} /\ open = {} /\ dropped = {} /\ stray = {}

\* A device is lent from the host, and comes back to the host.
Lend(d) ==
  /\ holder[d] = Host
  /\ \E c \in open : Dev[c] = d /\ PodOf[c] \notin running /\ holder'[d] = PodOf[c]
Return(d) == holder[d] \notin running /\ holder'[d] = Host

\* A pod runs once it has its devices; it may end at any time.
Run(p) ==
  /\ p \notin running /\ p \in running'
  /\ \A c \in Claims \ dropped' : PodOf[c] = p => holder'[Dev[c]] = p
End(p) == p \in running /\ p \notin running'

\* A claim is opened when nobody uses its device, and closed when its pod does
\* not have the device any more.
Open(c) ==
  /\ c \notin open /\ c \in open'
  /\ \A e \in Claims : Dev[e] = Dev[c] => PodOf[e] \notin running
Close(c) ==
  /\ c \in open /\ c \notin open'
  /\ holder'[Dev[c]] # PodOf[c] \/ c \in stray'

\* A failure is made good when the claim is prepared for a pod that does not run
\* yet, and no longer counts once the pod is gone; a device that was left comes
\* home in the end.
Drop(c)   == c \notin dropped /\ c \in dropped'
Redeem(c) == c \in dropped /\ c \notin dropped' /\ PodOf[c] \notin running'
Leave(c)  == c \notin stray /\ c \in stray'
Find(c)   == c \in stray /\ c \notin stray' /\ holder'[Dev[c]] # PodOf[c]

ClaimStep(c) ==
  /\ (c \in open' <=> c \in open) \/ Open(c) \/ Close(c)
  /\ (c \in dropped' <=> c \in dropped) \/ Drop(c) \/ Redeem(c)
  /\ (c \in stray' <=> c \in stray) \/ Leave(c) \/ Find(c)

Next ==
  /\ holder' \in [Devices -> Pods \cup {Host}] /\ running' \subseteq Pods
  /\ open' \subseteq Claims /\ dropped' \subseteq Claims /\ stray' \subseteq Claims
  /\ \A d \in Devices : holder'[d] = holder[d] \/ Lend(d) \/ Return(d)
  /\ \A p \in Pods : (p \in running' <=> p \in running) \/ Run(p) \/ End(p)
  /\ \A c \in Claims : ClaimStep(c)

Spec == Init /\ [][Next]_vars

\* What that adds up to: a pod that runs has its devices, and a released claim
\* has left none in its pod (plugin.go:64-128, uverbs.go:144-159).
Promise ==
  \A c \in Claims :
    /\ PodOf[c] \in running /\ c \notin dropped => holder[Dev[c]] = PodOf[c]
    /\ c \notin open /\ c \notin stray => holder[Dev[c]] # PodOf[c]
=============================================================================
