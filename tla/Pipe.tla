-------------------------------- MODULE Pipe --------------------------------
(***************************************************************************)
(* A visitor and a backend joined by a chain of pipe.Join (internal/pipe): *)
(* the node's between the visitor and the tunnel, the agent's between the  *)
(* tunnel and the backend.  Every Join is two copies that know nothing of  *)
(* each other but the sockets they share.  Relay has the handlers around   *)
(* them, and ends a Join as a whole.                                       *)
(*                                                                         *)
(* The hosts of the chain are numbered; 1 and Last are the ends, whose     *)
(* programs are not ours: they read what comes, and write, shut or close   *)
(* as they like.  TCP is external: a socket that is closed with data       *)
(* unread, or written to, answers with a reset, and a reset may destroy    *)
(* what its peer has not read yet.  Every connection the program joins has *)
(* a CloseWrite below its wrappers.                                        *)
(***************************************************************************)
EXTENDS Naturals, Sequences

CONSTANTS
    Last,      \* hosts in the chain: 4 is visitor, node, agent, backend
    MaxSent,   \* what each end writes at most
    Room       \* what a connection holds in each direction

ASSUME ChainAssumption == Last \in Nat /\ Last > 2

Hosts == 1 .. Last
Ends  == {1, Last}

ASSUME RoomAssumption  == MaxSent \in [Ends -> Nat] /\ Room \in Nat \ {0}

\* <<i, j>> is the socket host i has to its neighbour j.
Sockets == {s \in Hosts \X Hosts : s[1] = s[2] + 1 \/ s[2] = s[1] + 1}
Peer(s) == <<s[2], s[1]>>
Own(e)  == CHOOSE s \in Sockets : s[1] = e

\* A copy is named by the socket it reads; Dst is the one it writes.
Copies == {s \in Sockets : s[1] \notin Ends}
Dst(s) == <<s[1], 2 * s[1] - s[2]>>

VARIABLES
    sock,   \* open, shut (CloseWrite), reset, closed
    inbox,  \* what each socket still has to read, in order
    copy,   \* where each copyAndClose is, and the data it holds
    sent, got, heard,  \* of each end: see Stream
    cut     \* a connection broke, or an end left before it heard the end

ends == <<sent, got, heard>>
vars == <<sock, inbox, copy, ends, cut>>

FIN  == 0   \* in an inbox, the end of what the peer writes

CopyAt == {"read", "write", "eof", "closedst", "closesrc", "done"}

TypeOK ==
    /\ sock  \in [Sockets -> {"open", "shut", "reset", "closed"}]
    /\ inbox \in [Sockets -> Seq(Nat)]
    /\ copy  \in [Copies -> [at : CopyAt, data : Nat]]
    /\ sent  \in [Ends -> Nat] /\ \A e \in Ends : sent[e] <= MaxSent[e]
    /\ got   \in [Ends -> Seq(Nat)]
    /\ heard \in [Ends -> BOOLEAN]
    /\ cut   \in BOOLEAN

Init ==
    /\ sock  = [s \in Sockets |-> "open"]
    /\ inbox = [s \in Sockets |-> <<>>]
    /\ copy  = [s \in Copies |-> [at |-> "read", data |-> FIN]]
    /\ sent  = [e \in Ends |-> 0]
    /\ got   = [e \in Ends |-> <<>>]
    /\ heard = [e \in Ends |-> FALSE]
    /\ cut   = FALSE

-----------------------------------------------------------------------------
(* TCP, as the net package shows it. *)

Live(s) == sock[s] \in {"open", "shut"}

\* A reset arrives at the sockets of S: what survives of their inboxes is a
\* prefix.  The other sockets become as the caller says.
Resets(S, socks, boxes) ==
    \E keep \in [S -> 0 .. Room + 1] :
        /\ \A s \in S : keep[s] <= Len(boxes[s])
        /\ sock'  = [s \in Sockets |-> IF s \in S THEN "reset" ELSE socks[s]]
        /\ inbox' = [s \in Sockets |-> IF s \in S THEN SubSeq(boxes[s], 1, keep[s])
                                                  ELSE boxes[s]]

CanRead(s)   == sock[s] # "closed" /\ inbox[s] # <<>>
ReadFails(s) == sock[s] = "closed" \/ (sock[s] = "reset" /\ inbox[s] = <<>>)
CanWrite(s)  == sock[s] = "open" /\ (sock[Peer(s)] = "closed" \/ Len(inbox[Peer(s)]) < Room)

Write(s, x) ==
    IF sock[Peer(s)] = "closed"
       THEN Resets({s}, sock, inbox)
       ELSE inbox' = [inbox EXCEPT ![Peer(s)] = Append(@, x)] /\ UNCHANGED sock

\* FIN needs no room.
Finish(s, socks, boxes) ==
    /\ sock'  = socks
    /\ inbox' = IF sock[s] = "open" /\ Live(Peer(s))
                THEN [boxes EXCEPT ![Peer(s)] = Append(@, FIN)] ELSE boxes

CloseWrite(s) ==
    Finish(s, [sock EXCEPT ![s] = IF @ = "open" THEN "shut" ELSE @], inbox)

Close(s) ==
    LET socks == [sock EXCEPT ![s] = "closed"]
        boxes == [inbox EXCEPT ![s] = <<>>]
    IN  IF Live(s) /\ Live(Peer(s)) /\ \E i \in DOMAIN inbox[s] : inbox[s][i] # FIN
           THEN Resets({Peer(s)}, socks, boxes)
           ELSE Finish(s, socks, boxes)

\* The connection of s breaks, and both of its sockets see it.  At most one
\* does, and none after an end left early.  A host that vanishes takes no more
\* steps, which Spec allows; FairSpec has the others learn of it, as they do
\* only when they write: TCP connections inside the tunnel have no keepalive.
Break(s) ==
    /\ ~cut
    /\ Live(s) /\ Live(Peer(s))
    /\ Resets({s, Peer(s)}, sock, inbox)
    /\ cut' = TRUE
    /\ UNCHANGED <<copy, ends>>

-----------------------------------------------------------------------------
(* The visitor and the backend. *)

EndWrites(e) ==
    /\ CanWrite(Own(e)) /\ sent[e] < MaxSent[e]
    /\ sent' = [sent EXCEPT ![e] = @ + 1]
    /\ Write(Own(e), sent'[e])
    /\ UNCHANGED <<copy, got, heard, cut>>

EndShuts(e) ==
    /\ sock[Own(e)] = "open"
    /\ CloseWrite(Own(e))
    /\ UNCHANGED <<copy, ends, cut>>

EndReads(e) ==
    /\ CanRead(Own(e)) /\ ~heard[e]
    /\ inbox' = [inbox EXCEPT ![Own(e)] = Tail(@)]
    /\ IF Head(inbox[Own(e)]) = FIN
          THEN heard' = [heard EXCEPT ![e] = TRUE] /\ UNCHANGED got
          ELSE got' = [got EXCEPT ![e] = Append(@, Head(inbox[Own(e)]))] /\ UNCHANGED heard
    /\ UNCHANGED <<sock, copy, sent, cut>>

EndHearsError(e) ==
    /\ ReadFails(Own(e)) /\ ~heard[e]
    /\ heard' = [heard EXCEPT ![e] = TRUE]
    /\ UNCHANGED <<sock, inbox, copy, sent, got, cut>>

EndCloses(e) ==
    /\ sock[Own(e)] # "closed"
    /\ Close(Own(e))
    /\ cut' = (cut \/ ~heard[e])
    /\ UNCHANGED <<copy, ends>>

-----------------------------------------------------------------------------
(* copyAndClose. *)

At(s, at) == copy[s].at = at
Goto(s, at, data) == copy' = [copy EXCEPT ![s] = [at |-> at, data |-> data]]

\* io.Copy reads, and stops without an error at the end.
CopyReads(s) ==
    /\ At(s, "read") /\ CanRead(s)
    /\ inbox' = [inbox EXCEPT ![s] = Tail(@)]
    /\ Goto(s, IF Head(inbox[s]) = FIN THEN "eof" ELSE "write", Head(inbox[s]))
    /\ UNCHANGED <<sock, ends, cut>>

CopyWrites(s) ==
    /\ At(s, "write") /\ CanWrite(Dst(s))
    /\ Write(Dst(s), copy[s].data)
    /\ Goto(s, "read", FIN)
    /\ UNCHANGED <<ends, cut>>

Failed(s) == \/ At(s, "read") /\ ReadFails(s)
             \/ At(s, "write") /\ sock[Dst(s)] # "open"

\* Mutant of CopyFails: the error is the copy's own affair.
CopyFailsAlone(s) ==
    /\ Failed(s)
    /\ Goto(s, "done", FIN)
    /\ UNCHANGED <<sock, inbox, ends, cut>>

\* The data it holds is lost.
CopyFails(s) ==
    /\ Failed(s)
    /\ Goto(s, "closedst", FIN)
    /\ UNCHANGED <<sock, inbox, ends, cut>>

CloseDst(s) ==
    /\ At(s, "closedst")
    /\ Close(Dst(s))
    /\ Goto(s, "closesrc", FIN)
    /\ UNCHANGED <<ends, cut>>

CloseSrc(s) ==
    /\ At(s, "closesrc")
    /\ Close(s)
    /\ Goto(s, "done", FIN)
    /\ UNCHANGED <<ends, cut>>

\* Mutant of CopyEnds: CloseWrite is not found below the wrapper.
CopyEndsWrapped(s) ==
    /\ At(s, "eof")
    /\ Close(Dst(s))
    /\ Goto(s, "done", FIN)
    /\ UNCHANGED <<ends, cut>>

\* The end goes on as a FIN; the other direction stays open.
CopyEnds(s) ==
    /\ At(s, "eof")
    /\ CloseWrite(Dst(s))
    /\ Goto(s, "done", FIN)
    /\ UNCHANGED <<ends, cut>>

\* Join, once both copies are done: first the side of the visitor.
JoinCloses(s) ==
    /\ At(s, "done") /\ At(Dst(s), "done")
    /\ s[2] < s[1] \/ sock[Dst(s)] = "closed"
    /\ sock[s] # "closed"
    /\ Close(s)
    /\ UNCHANGED <<copy, ends, cut>>

-----------------------------------------------------------------------------
Copy(s) == \/ CopyReads(s) \/ CopyWrites(s) \/ CopyFails(s) \/ CloseDst(s)
           \/ CloseSrc(s) \/ CopyEnds(s) \/ JoinCloses(s)

Listens(e) == EndReads(e) \/ EndHearsError(e)

Next ==
    \/ \E s \in Copies : Copy(s)
    \/ \E e \in Ends : Listens(e) \/ EndWrites(e) \/ EndShuts(e) \/ EndCloses(e)
    \/ \E s \in Sockets : Break(s)

Spec == Init /\ [][Next]_vars

\* Goroutines run and the ends read; that they shut or close is not assumed.
FairSpec ==
    /\ Spec
    /\ \A s \in Copies : WF_vars(Copy(s))
    /\ \A e \in Ends : WF_vars(Listens(e))

-----------------------------------------------------------------------------
(* Properties. *)

\* To the end that reads, the chain is one stream: nothing is lost, doubled or
\* out of order, and a half-close overtakes nothing, in neither direction
\* ("protocolos que cierran la escritura y siguen leyendo", pipe.go:13-14).
Up   == INSTANCE Stream WITH sent <- sent[1], ended <- sock[Own(1)] # "open",
                             got <- got[Last], heard <- heard[Last]
Down == INSTANCE Stream WITH sent <- sent[Last], ended <- sock[Own(Last)] # "open",
                             got <- got[1], heard <- heard[1]
ImplementsStreams == Up!Spec /\ Down!Spec

\* A break anywhere, or an end that leaves, is heard at both ends; and once
\* neither end writes any more every Join returns, with its sockets closed,
\* whichever copies failed ("para no dejar la otra mitad colgada").
ConnectionsEnd ==
    /\ cut ~> \A e \in Ends : heard[e] \/ sock[Own(e)] = "closed"
    /\ (\A e \in Ends : sock[Own(e)] # "open") ~>
          \A s \in Copies : At(s, "done") /\ sock[s] = "closed"
=============================================================================
