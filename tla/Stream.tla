------------------------------- MODULE Stream -------------------------------
(***************************************************************************)
(* What one direction of a joined connection promises: the reader gets     *)
(* what the writer wrote, in order and once, and hears the end only after  *)
(* all of it, unless the connection has been cut.                          *)
(***************************************************************************)
EXTENDS Naturals, Sequences

VARIABLES
    sent,    \* how much the writer wrote
    ended,   \* it will write no more
    got,     \* what the reader read
    heard,   \* the reader was told that there is no more
    cut      \* something between the two broke, or one of them left early

vars == <<sent, ended, got, heard, cut>>

Init == sent = 0 /\ ~ended /\ got = <<>> /\ ~heard /\ ~cut

\* After a cut, writing may be what tells the writer.
Write == /\ ~ended /\ sent' = sent + 1
         /\ ended' \in {FALSE, cut}
         /\ UNCHANGED <<got, heard, cut>>

End == ended' /\ UNCHANGED <<sent, got, heard, cut>>

Read == /\ ~heard /\ Len(got) < sent
        /\ got' = Append(got, Len(got) + 1)
        /\ UNCHANGED <<sent, ended, heard, cut>>

Hear == /\ cut \/ (ended /\ Len(got) = sent)
        /\ heard' /\ UNCHANGED <<sent, ended, got, cut>>

Cut == cut' /\ ended' \in {ended, TRUE} /\ UNCHANGED <<sent, got, heard>>

Next == Write \/ End \/ Read \/ Hear \/ Cut

Spec == Init /\ [][Next]_vars
=============================================================================
