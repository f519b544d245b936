------------------------------ MODULE MCRotation ------------------------------
(* Rotation with one to three instances, a few backups and short retentions. *)
EXTENDS Rotation, TLC

CONSTANTS i1, i2, i3

Mixed   == (i1 :> 1) @@ (i2 :> Empty) @@ (i3 :> Unset)
Shorter == i1 :> 0
Longer  == i1 :> 2
Own     == (i1 :> 1) @@ (i2 :> 0)
Nothing == i1 :> Empty
=============================================================================
