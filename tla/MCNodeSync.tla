------------------------------ MODULE MCNodeSync ------------------------------
(* TLC instances of NodeSync. *)
EXTENDS NodeSync

CONSTANTS x1, x2

MCTxts == {x1, x2}
MCTxtTables == {{}, {x1, x2}}
=============================================================================
