------------------------------ MODULE MCRegistry ------------------------------
(* TLC instances of Registry: an old build and two new ones. *)
EXTENDS Registry, TLC

CONSTANTS c1, c2, c3

MCCommands == {c1, c2, c3}
MCBuild == (c1 :> 1) @@ (c2 :> 2) @@ (c3 :> 2)
=============================================================================
