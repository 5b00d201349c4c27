-------------------------------- MODULE MCPipe --------------------------------
(* TLC instances of Pipe: visitor, node, agent and backend. *)
EXTENDS Pipe

\* One end writes two messages, the other none.
MCSent == [e \in Ends |-> IF e = 1 THEN 2 ELSE 0]
=============================================================================
