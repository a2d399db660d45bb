---------------------------- MODULE MCRdmaNetns -----------------------------
(* Instances of RdmaNetns for TLC: a pod with two claims, and another pod    *)
(* whose claim gets a device that the first one had.                         *)
EXTENDS RdmaNetns, TLC

CONSTANTS a, b, c, p, q, d, e

MCPodOf == (a :> p) @@ (b :> p) @@ (c :> q)
MCDev   == (a :> d) @@ (b :> e) @@ (c :> d)

\* The two claims on one device, without the second device.
HandedOver == (a :> p) @@ (c :> q)
OneDevice  == (a :> d) @@ (c :> d)
=============================================================================
