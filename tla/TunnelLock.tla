------------------------------ MODULE TunnelLock ------------------------------
(***************************************************************************)
(* What the lease promises the rest of the system: a tunnel has at most    *)
(* one owner, and it never passes from one agent process to another        *)
(* directly: it is given up, taken away or runs out first.                 *)
(***************************************************************************)
CONSTANTS Instances, NoOwner

VARIABLE owner

Free == owner = NoOwner

Init == Free

Take(i) == Free /\ owner' = i
Lose    == ~Free /\ owner' = NoOwner

Next == (\E i \in Instances : Take(i)) \/ Lose

Spec == Init /\ [][Next]_owner
=============================================================================
