--------------------------- MODULE ClaimLifecycle ---------------------------
(***************************************************************************)
(* What the kubelet may rely on, whatever happens inside the driver: the   *)
(* life of each claim as the answers to NodePrepareResources and           *)
(* NodeUnprepareResources tell it, and the interface created for it.  No   *)
(* files, no maps, no instances, no order of steps; DraDriver.tla is shown *)
(* to implement it.  A step may concern any number of claims, because a    *)
(* call answers for a batch.                                               *)
(***************************************************************************)
CONSTANT Claims

VARIABLES
  phase,   \* claim -> what the kubelet knows: "released", "busy", "granted"
  made,    \* claims whose interface exists on the host
  leaked   \* claims whose interface the driver has lost track of

vars == <<phase, made, leaked>>

Init ==
  /\ phase = [c \in Claims |-> "released"]
  /\ made = {} /\ leaked = {}

\* A call is made for the claim, or comes back without a usable answer; it
\* succeeds; it undoes the claim.  There is no other way between "released" and
\* "granted", and "released" is only said of a claim whose interface is gone,
\* or has been lost track of.
Call(c)    == phase'[c] = "busy"
Grant(c)   == phase[c] = "busy" /\ phase'[c] = "granted"
Release(c) ==
  /\ phase[c] = "busy" /\ phase'[c] = "released"
  /\ c \notin made' \/ c \in leaked'

\* An interface is created only for a claim that is not released.  It may go at
\* any time: undone, moved into a pod, destroyed with the pod's namespace.
Build(c) == c \notin made /\ c \in made' /\ phase[c] # "released"
Tear(c)  == c \in made /\ c \notin made'

\* The driver may lose track of an interface while it works on the claim or when
\* it begins a call, and finds it again only by undoing it.
Leak(c) == c \notin leaked /\ c \in leaked'
Mend(c) == c \in leaked /\ c \notin leaked' /\ c \notin made'

Step(c) ==
  /\ phase'[c] = phase[c] \/ Call(c) \/ Grant(c) \/ Release(c)
  /\ (c \in made' <=> c \in made) \/ Build(c) \/ Tear(c)
  /\ (c \in leaked' <=> c \in leaked) \/ Leak(c) \/ Mend(c)

Next ==
  /\ phase' \in [Claims -> {"released", "busy", "granted"}]
  /\ made' \subseteq Claims /\ leaked' \subseteq Claims
  /\ \A c \in Claims : Step(c)

Spec == Init /\ [][Next]_vars

\* What the edges above add up to: a released claim has left no interface on
\* the host, unless it was lost track of (driver.go:103-139).
ReleasedClean == \A c \in Claims : phase[c] = "released" /\ c \notin leaked => c \notin made
=============================================================================
