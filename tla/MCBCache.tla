----------------------------- MODULE MCBCache -----------------------------
(* Instances of BCache for TLC. *)
EXTENDS BCache, TLC

CONSTANTS d1, d2, v1, v2

MCDev == {d1, d2}
MCData == {v1, v2}

(* One device with two sectors, and one with a single sector. *)
MCSectorCount == (d1 :> 2) @@ (d2 :> 1)
===========================================================================
