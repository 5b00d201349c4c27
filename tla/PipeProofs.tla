------------------------------ MODULE PipeProofs ------------------------------
(* What TLAPS proves of Pipe, for chains of any length, any amount of data and  *)
(* any room in the connections.                                                *)
EXTENDS Pipe, SequenceTheorems, TLAPS

USE ChainAssumption, RoomAssumption

-----------------------------------------------------------------------------
(* The chain.                                                                *)

Other(e) == IF e = 1 THEN Last ELSE 1

\* The end whose data come in at a socket, and the socket that a copy and an
\* end fill.
Source(s) == IF s[2] < s[1] THEN 1 ELSE Last
Onward(s) == Peer(Dst(s))
First(e)  == Peer(Own(e))

\* A socket is a pair of neighbours.
LEMMA SocketShape ==
    ASSUME NEW s \in Sockets
    PROVE  /\ s = <<s[1], s[2]>> /\ s[1] \in Hosts /\ s[2] \in Hosts
           /\ s[1] \in Int /\ s[2] \in Int
           /\ s[1] = s[2] + 1 \/ s[2] = s[1] + 1
BY DEF Sockets, Hosts

\* Every socket has another one at the far end of its connection.
LEMMA PeerFacts ==
    ASSUME NEW s \in Sockets
    PROVE  Peer(s) \in Sockets /\ Peer(Peer(s)) = s /\ Peer(s) # s
<1>1. Peer(s) = <<s[2], s[1]>> /\ Peer(s)[1] = s[2] /\ Peer(s)[2] = s[1]
      BY DEF Peer
<1>2. Peer(s) \in Sockets
      BY <1>1, SocketShape DEF Sockets
<1>3. Peer(Peer(s)) = s
      BY <1>1, SocketShape DEF Peer
<1>4. Peer(s) # s
      BY <1>1, SocketShape
<1> QED BY <1>2, <1>3, <1>4

\* Each end has one socket.
LEMMA OwnFacts ==
    /\ Own(1) = <<1, 2>> /\ Own(Last) = <<Last, Last - 1>>
    /\ Own(1) \in Sockets /\ Own(Last) \in Sockets
<1>1. <<1, 2>> \in Sockets /\ <<Last, Last - 1>> \in Sockets
      BY DEF Sockets, Hosts
<1>2. \A s \in Sockets : (s[1] = 1 => s = <<1, 2>>) /\ (s[1] = Last => s = <<Last, Last - 1>>)
  <2> SUFFICES ASSUME NEW s \in Sockets
               PROVE (s[1] = 1 => s = <<1, 2>>) /\ (s[1] = Last => s = <<Last, Last - 1>>)
      OBVIOUS
  <2>1. /\ s = <<s[1], s[2]>> /\ s[1] \in 1 .. Last /\ s[2] \in 1 .. Last
        /\ s[1] = s[2] + 1 \/ s[2] = s[1] + 1
        BY SocketShape DEF Hosts
  <2>2. s[1] = 1 => s[2] = 2
        BY <2>1
  <2>3. s[1] = Last => s[2] = Last - 1
        BY <2>1
  <2> QED BY <2>1, <2>2, <2>3
<1>3. <<1, 2>>[1] = 1 /\ <<Last, Last - 1>>[1] = Last
      OBVIOUS
<1>4. Own(1) \in Sockets /\ Own(1)[1] = 1
      BY <1>1, <1>3 DEF Own
<1>5. Own(Last) \in Sockets /\ Own(Last)[1] = Last
      BY <1>1, <1>3 DEF Own
<1> QED BY <1>2, <1>4, <1>5

\* What an end writes comes in at a copy first, and an end reads what the other wrote.
LEMMA EndFacts ==
    ASSUME NEW e \in Ends
    PROVE  /\ Own(e) \in Sockets /\ Own(e) \notin Copies /\ Own(e)[1] = e
           /\ Other(e) \in Ends /\ Other(e) # e /\ Other(Other(e)) = e
           /\ Source(Own(e)) = Other(e)
           /\ First(e) \in Copies /\ Source(First(e)) = e
           /\ \A d \in Ends : Own(d) = Own(e) => d = e
<1> USE OwnFacts DEF Ends
<1>1. /\ Own(1)[1] = 1 /\ Own(1)[2] = 2 /\ Own(Last)[1] = Last /\ Own(Last)[2] = Last - 1
      BY OwnFacts
<1>2. First(1) = <<2, 1>> /\ First(Last) = <<Last - 1, Last>>
      BY <1>1 DEF First, Peer
<1>3. First(e) \in Sockets
      BY PeerFacts DEF First
<1>4. First(e) \in Copies /\ Source(First(e)) = e
      BY <1>2, <1>3 DEF Copies, Source
<1> QED BY <1>1, <1>4 DEF Copies, Other, Source

\* What a copy writes comes in at a socket with the same source.
LEMMA CopyFacts ==
    ASSUME NEW s \in Copies
    PROVE  /\ s \in Sockets /\ Dst(s) \in Copies /\ Dst(Dst(s)) = s /\ Dst(s) # s
           /\ Onward(s) \in Sockets /\ Source(Onward(s)) = Source(s)
           /\ Peer(Onward(s)) = Dst(s) /\ Onward(s) # s
<1>1. /\ s \in Sockets /\ s = <<s[1], s[2]>> /\ s[1] \in 1 .. Last /\ s[2] \in 1 .. Last
      /\ s[1] = s[2] + 1 \/ s[2] = s[1] + 1
      /\ s[1] # 1 /\ s[1] # Last
      BY SocketShape DEF Copies, Hosts, Ends
<1> DEFINE a == s[1]
           b == s[2]
           c == 2 * s[1] - s[2]
<1>2. c \in 1 .. Last /\ (a = c + 1 \/ c = a + 1) /\ c # b
      BY <1>1
<1>3. Dst(s) = <<a, c>> /\ Dst(s)[1] = a /\ Dst(s)[2] = c
      BY DEF Dst
<1>4. Dst(s) \in Sockets /\ Dst(s) \in Copies
      BY <1>1, <1>2, <1>3 DEF Sockets, Hosts, Copies, Ends
<1>5. Dst(Dst(s)) = s
  <2>1. 2 * a - c = b
        BY <1>1
  <2> QED BY <1>1, <1>3, <2>1 DEF Dst
<1>6. Dst(s) # s
      BY <1>2, <1>3
<1>7. Onward(s) \in Sockets /\ Peer(Onward(s)) = Dst(s)
      BY <1>4, PeerFacts DEF Onward
<1>8. Onward(s) = <<c, a>> /\ Onward(s)[1] = c /\ Onward(s)[2] = a
      BY <1>3 DEF Onward, Peer
<1>9. (a < c) <=> (b < a)
      BY <1>1
<1>10. Source(Onward(s)) = Source(s)
      BY <1>8, <1>9 DEF Source
<1>11. Onward(s) # s
      BY <1>1, <1>2, <1>8
<1> QED BY <1>1, <1>4, <1>5, <1>6, <1>7, <1>10, <1>11

\* Every socket is a copy's or an end's, and is filled by a copy or an end.
LEMMA SocketKinds ==
    ASSUME NEW s \in Sockets
    PROVE  /\ s \in Copies \/ \E e \in Ends : s = Own(e)
           /\ (\E u \in Copies : s = Onward(u)) \/ (\E e \in Ends : s = First(e))
           /\ Source(s) \in Ends
<1>1. ASSUME NEW t \in Sockets
      PROVE  t \in Copies \/ \E e \in Ends : t = Own(e)
  <2>1. ASSUME NEW e \in Ends, t[1] = e
        PROVE  t = Own(e)
    <3>1. /\ t = <<t[1], t[2]>> /\ t[1] \in 1 .. Last /\ t[2] \in 1 .. Last
          /\ t[1] = t[2] + 1 \/ t[2] = t[1] + 1
          BY SocketShape DEF Hosts
    <3>2. e = 1 \/ e = Last
          BY DEF Ends
    <3>3. CASE e = 1
      <4>1. t[2] = 2
            BY <2>1, <3>1, <3>3
      <4> QED BY <2>1, <3>1, <3>3, <4>1, OwnFacts
    <3>4. CASE e = Last
      <4>1. t[2] = Last - 1
            BY <2>1, <3>1, <3>4
      <4> QED BY <2>1, <3>1, <3>4, <4>1, OwnFacts
    <3> QED BY <3>2, <3>3, <3>4
  <2> QED BY <2>1 DEF Copies
<1>2. Peer(s) \in Sockets /\ Peer(Peer(s)) = s
      BY PeerFacts
<1>3. CASE Peer(s) \in Copies
  <2>1. Dst(Peer(s)) \in Copies /\ Dst(Dst(Peer(s))) = Peer(s)
        BY <1>3, CopyFacts
  <2> QED BY <1>1, <1>2, <2>1 DEF Onward, Source, Ends
<1>4. CASE \E e \in Ends : Peer(s) = Own(e)
      BY <1>1, <1>2, <1>4 DEF First, Source, Ends
<1> QED BY <1>1, <1>2, <1>3, <1>4

-----------------------------------------------------------------------------
(* The inductive invariant.                                                  *)

\* f[s] is the number of the last message that was taken from the inbox of s.
\* What is in an inbox follows it without a gap.
InOrder(f, s) ==
    /\ f[s] <= sent[Source(s)]
    /\ \A i \in 1 .. Len(inbox[s]) :
          /\ inbox[s][i] <= sent[Source(s)]
          /\ \/ inbox[s][i] = f[s] + i
             \/ inbox[s][i] = FIN /\ i = Len(inbox[s])
    /\ sock[Peer(s)] = "open" /\ sock[s] # "closed" =>
          \A i \in 1 .. Len(inbox[s]) : inbox[s][i] # FIN

\* A copy that still can write has filled the next inbox up to what it took;
\* what does not fill an inbox any more may have lost the rest.
CopyKeepsUp(f, u) ==
    /\ At(u, "write") => copy[u].data = f[u]
    /\ sock[Dst(u)] = "open" /\ sock[Onward(u)] # "closed" =>
          /\ copy[u].at \in {"read", "eof"} => f[Onward(u)] + Len(inbox[Onward(u)]) = f[u]
          /\ At(u, "write") => f[Onward(u)] + Len(inbox[Onward(u)]) + 1 = f[u]

EndKeepsUp(f, e) ==
    /\ f[Own(e)] = Len(got[e])
    /\ sock[Own(e)] = "open" /\ sock[First(e)] # "closed" =>
          f[First(e)] + Len(inbox[First(e)]) = sent[e]

\* A socket is reset with its peer, or after it closed.
Broken == \A s \in Sockets : sock[s] = "reset" => sock[Peer(s)] \in {"reset", "closed"}

OrderInv(f) == /\ Broken
               /\ \A s \in Sockets : InOrder(f, s)
               /\ \A u \in Copies : CopyKeepsUp(f, u)
               /\ \A e \in Ends : EndKeepsUp(f, e)

\* The reader of s has heard the end.
Over(s) == IF s \in Copies THEN copy[s].at \in {"eof", "done"} ELSE heard[s[1]]

\* Before the cut nothing fails: a FIN follows the last message of its source,
\* a host stops writing only after it, and closes only what is over both ways.
CalmSocket(f, s) ==
    /\ sock[s] # "reset"
    /\ Over(s) => sock[Peer(s)] # "open" /\ inbox[s] = <<>> /\ f[s] = sent[Source(s)]
    /\ sock[s] = "closed" => Over(s)
    /\ sock[Peer(s)] # "open" =>
          /\ sock[Own(Source(s))] # "open"
          /\ ~Over(s) => /\ inbox[s] # <<>> /\ inbox[s][Len(inbox[s])] = FIN
                         /\ f[s] + Len(inbox[s]) = sent[Source(s)] + 1

CalmCopy(u) ==
    /\ copy[u].at \in {"read", "write", "eof", "done"}
    /\ sock[Dst(u)] = "open" <=> copy[u].at # "done"

CalmInv(f) == /\ \A s \in Sockets : CalmSocket(f, s)
              /\ \A u \in Copies : CalmCopy(u)

Counts(f) == OrderInv(f) /\ (~cut => CalmInv(f))

Inv == TypeOK /\ \E f \in [Sockets -> Nat] : Counts(f)

-----------------------------------------------------------------------------
(* What the operators of TCP do.                                             *)

Status == {"open", "shut", "reset", "closed"}

\* What becomes of sockets and inboxes where nothing is sent on: a socket goes
\* down and stays down; an inbox stays, ends with a FIN, or loses its tail for
\* good.
Sinks ==
    /\ sock' \in [Sockets -> Status] /\ inbox' \in [Sockets -> Seq(Nat)]
    /\ \A s \in Sockets :
          /\ sock'[s] = "open" => sock[s] = "open"
          /\ sock[s] = "closed" => sock'[s] = "closed"
          /\ sock'[s] = "reset" => sock'[Peer(s)] \in {"reset", "closed"}
          /\ \/ inbox'[s] = inbox[s]
             \/ /\ inbox'[s] = Append(inbox[s], FIN)
                /\ sock[Peer(s)] = "open" /\ sock[s] # "closed" /\ sock'[Peer(s)] # "open"
             \/ /\ sock'[Peer(s)] # "open" \/ sock'[s] = "closed"
                /\ \E k \in 0 .. Len(inbox[s]) : inbox'[s] = SubSeq(inbox[s], 1, k)

\* What a reset leaves of an inbox.
LEMMA PrefixFacts ==
    ASSUME NEW q \in Seq(Nat), NEW k \in 0 .. Len(q)
    PROVE  /\ SubSeq(q, 1, k) \in Seq(Nat) /\ Len(SubSeq(q, 1, k)) = k
           /\ \A i \in 1 .. k : SubSeq(q, 1, k)[i] = q[i]
<1>1. Len(q) \in Nat /\ k \in Nat /\ k <= Len(q)
      BY LenProperties
<1>2. \A i \in 1 .. k : q[i] \in Nat
      BY <1>1, ElementOfSeq
<1> QED BY <1>1, <1>2, SubSeqProperties

\* A prefix that is everything or nothing.
LEMMA PrefixEnds ==
    ASSUME NEW q \in Seq(Nat)
    PROVE  SubSeq(q, 1, 0) = <<>> /\ 0 \in 0 .. Len(q)
<1>1. 0 \in 0 .. Len(q)
      BY LenProperties
<1> QED BY <1>1, PrefixFacts, EmptySeq

\* TypeOK, of one socket.
LEMMA Types ==
    ASSUME TypeOK, NEW s \in Sockets
    PROVE  /\ sock \in [Sockets -> Status] /\ inbox \in [Sockets -> Seq(Nat)]
           /\ inbox[s] \in Seq(Nat) /\ Len(inbox[s]) \in Nat
           /\ Peer(s) \in Sockets /\ Peer(Peer(s)) = s /\ Peer(s) # s
           /\ inbox[Peer(s)] \in Seq(Nat) /\ FIN \in Nat
BY PeerFacts, LenProperties DEF TypeOK, Status, FIN

\* A write to a connection nobody closed is an append.
LEMMA WriteGoes ==
    ASSUME TypeOK, NEW s \in Sockets, NEW x \in Nat, Write(s, x), sock[Peer(s)] # "closed"
    PROVE  /\ sock' = sock /\ inbox' = [inbox EXCEPT ![Peer(s)] = Append(inbox[Peer(s)], x)]
           /\ inbox' \in [Sockets -> Seq(Nat)]
<1>1. sock' = sock /\ inbox' = [inbox EXCEPT ![Peer(s)] = Append(inbox[Peer(s)], x)]
      BY Types DEF Write
<1>2. Append(inbox[Peer(s)], x) \in Seq(Nat)
      BY Types, AppendProperties
<1> QED BY <1>1, <1>2, Types

\* One socket goes down, and its inbox is cut short.
LEMMA OneResets ==
    ASSUME TypeOK, Broken, NEW s \in Sockets,
           sock' = [t \in Sockets |-> IF t = s THEN "reset" ELSE sock[t]],
           sock[s] # "closed", sock[Peer(s)] = "closed",
           NEW k \in 0 .. Len(inbox[s]),
           inbox' = [t \in Sockets |-> IF t = s THEN SubSeq(inbox[s], 1, k) ELSE inbox[t]]
    PROVE  Sinks
<1>1. Peer(s) \in Sockets /\ Peer(s) # s /\ Peer(Peer(s)) = s
      BY PeerFacts
<1>2. sock \in [Sockets -> Status] /\ inbox \in [Sockets -> Seq(Nat)]
      BY Types
<1>3. SubSeq(inbox[s], 1, k) \in Seq(Nat)
      BY <1>2, PrefixFacts
<1>4. sock' \in [Sockets -> Status] /\ inbox' \in [Sockets -> Seq(Nat)]
      BY <1>2, <1>3 DEF Status
<1>5. ASSUME NEW t \in Sockets
      PROVE  sock'[t] = "reset" => sock'[Peer(t)] \in {"reset", "closed"}
  <2>1. CASE t = s
        BY <1>1, <2>1
  <2>2. CASE t # s
        BY <2>2, PeerFacts DEF Broken
  <2> QED BY <2>1, <2>2
<1>6. \A t \in Sockets : t # s => sock'[t] = sock[t] /\ inbox'[t] = inbox[t]
      OBVIOUS
<1>7. sock'[s] = "reset" /\ sock'[Peer(s)] # "open" /\ inbox'[s] = SubSeq(inbox[s], 1, k)
      BY <1>1
<1> QED BY <1>4, <1>5, <1>6, <1>7 DEF Sinks

\* A write to a socket that closed resets the one it was written at.
LEMMA WriteFails ==
    ASSUME TypeOK, Broken, NEW s \in Sockets, NEW x \in Nat, CanWrite(s), Write(s, x),
           sock[Peer(s)] = "closed"
    PROVE  /\ Sinks /\ sock'[s] = "reset"
           /\ \A t \in Sockets : t # s => sock'[t] = sock[t]
<1>1. Resets({s}, sock, inbox)
      BY DEF Write
<1>2. PICK keep \in [{s} -> 0 .. Room + 1] :
         /\ keep[s] <= Len(inbox[s])
         /\ sock'  = [t \in Sockets |-> IF t \in {s} THEN "reset" ELSE sock[t]]
         /\ inbox' = [t \in Sockets |-> IF t \in {s} THEN SubSeq(inbox[t], 1, keep[t]) ELSE inbox[t]]
      BY <1>1 DEF Resets
<1>3. keep[s] \in 0 .. Len(inbox[s])
      BY <1>2, Types
<1>4. /\ sock'  = [t \in Sockets |-> IF t = s THEN "reset" ELSE sock[t]]
      /\ inbox' = [t \in Sockets |-> IF t = s THEN SubSeq(inbox[s], 1, keep[s]) ELSE inbox[t]]
      BY <1>2
<1>5. Sinks
      BY <1>3, <1>4, OneResets DEF CanWrite
<1> QED BY <1>4, <1>5

\* CloseWrite and the orderly Close: a FIN, where there is somebody to get it.
LEMMA FinishSinks ==
    ASSUME TypeOK, Broken, NEW s \in Sockets, NEW to \in {"shut", "closed"},
           NEW box \in {inbox[s], <<>>}, box # inbox[s] => to = "closed",
           to = "shut" => sock[s] = "open",
           Finish(s, [sock EXCEPT ![s] = to], [inbox EXCEPT ![s] = box])
    PROVE  Sinks
<1>1. Peer(s) \in Sockets /\ Peer(s) # s /\ Peer(Peer(s)) = s
      BY PeerFacts
<1>2. sock \in [Sockets -> Status] /\ inbox \in [Sockets -> Seq(Nat)] /\ FIN \in Nat
      BY Types
<1>3. box \in Seq(Nat) /\ Append(inbox[Peer(s)], FIN) \in Seq(Nat)
  <2>1. inbox[s] \in Seq(Nat) /\ inbox[Peer(s)] \in Seq(Nat)
        BY <1>1, <1>2
  <2>2. <<>> \in Seq(Nat)
        OBVIOUS
  <2>3. Append(inbox[Peer(s)], FIN) \in Seq(Nat)
        BY <1>2, <2>1, AppendProperties
  <2> QED BY <2>1, <2>2, <2>3
<1> DEFINE fin == sock[s] = "open" /\ Live(Peer(s))
<1>4. /\ sock' = [sock EXCEPT ![s] = to]
      /\ fin => inbox' = [[inbox EXCEPT ![s] = box] EXCEPT ![Peer(s)] = Append(inbox[Peer(s)], FIN)]
      /\ ~fin => inbox' = [inbox EXCEPT ![s] = box]
      BY <1>1, <1>2 DEF Finish
<1>5. sock' \in [Sockets -> Status] /\ inbox' \in [Sockets -> Seq(Nat)]
      BY <1>1, <1>2, <1>3, <1>4 DEF Status
<1>6. sock'[s] = to /\ \A t \in Sockets : t # s => sock'[t] = sock[t]
      BY <1>2, <1>4
<1>7. /\ inbox'[s] = box
      /\ fin => inbox'[Peer(s)] = Append(inbox[Peer(s)], FIN)
      /\ ~fin => inbox'[Peer(s)] = inbox[Peer(s)]
      /\ \A t \in Sockets : t # s /\ t # Peer(s) => inbox'[t] = inbox[t]
      BY <1>1, <1>2, <1>4
<1>8. ASSUME NEW t \in Sockets
      PROVE  sock'[t] = "reset" => sock'[Peer(t)] \in {"reset", "closed"}
  <2>1. sock'[t] = "reset" => t # s /\ sock[t] = "reset" /\ sock[Peer(t)] \in {"reset", "closed"}
        BY <1>6 DEF Broken
  <2>2. sock'[t] = "reset" /\ Peer(t) = s => to = "closed"
        BY <2>1
  <2> QED BY <1>6, <2>1, <2>2, PeerFacts
<1>9. \A t \in Sockets : (sock'[t] = "open" => sock[t] = "open") /\ (sock[t] = "closed" => sock'[t] = "closed")
      BY <1>6
<1>10. ASSUME NEW t \in Sockets
       PROVE  \/ inbox'[t] = inbox[t]
              \/ /\ inbox'[t] = Append(inbox[t], FIN)
                 /\ sock[Peer(t)] = "open" /\ sock[t] # "closed" /\ sock'[Peer(t)] # "open"
              \/ /\ sock'[Peer(t)] # "open" \/ sock'[t] = "closed"
                 /\ \E k \in 0 .. Len(inbox[t]) : inbox'[t] = SubSeq(inbox[t], 1, k)
  <2>1. CASE t = s /\ box = inbox[s]
        BY <1>7, <2>1
  <2>2. CASE t = s /\ box # inbox[s]
    <3>1. sock'[t] = "closed" /\ inbox'[t] = <<>>
          BY <1>6, <1>7, <2>2
    <3>2. SubSeq(inbox[t], 1, 0) = <<>> /\ 0 \in 0 .. Len(inbox[t])
          BY <1>2, PrefixEnds
    <3> QED BY <3>1, <3>2
  <2>3. CASE t = Peer(s) /\ fin
        BY <1>1, <1>6, <1>7, <2>3 DEF Live
  <2>4. CASE t # s /\ (t = Peer(s) => ~fin)
        BY <1>7, <2>4
  <2> QED BY <2>1, <2>2, <2>3, <2>4
<1> QED BY <1>5, <1>8, <1>9, <1>10 DEF Sinks

\* CloseWrite sends on nothing but a FIN.
LEMMA CloseWriteSinks ==
    ASSUME TypeOK, Broken, NEW s \in Sockets, CloseWrite(s)
    PROVE  /\ Sinks /\ sock' = [sock EXCEPT ![s] = IF @ = "open" THEN "shut" ELSE @]
           /\ inbox' = IF sock[s] = "open" /\ Live(Peer(s))
                       THEN [inbox EXCEPT ![Peer(s)] = Append(inbox[Peer(s)], FIN)] ELSE inbox
<1>1. sock \in [Sockets -> Status] /\ inbox \in [Sockets -> Seq(Nat)] /\ Peer(s) \in Sockets
      BY Types
<1>2. /\ sock' = [sock EXCEPT ![s] = IF @ = "open" THEN "shut" ELSE @]
      /\ inbox' = IF sock[s] = "open" /\ Live(Peer(s))
                  THEN [inbox EXCEPT ![Peer(s)] = Append(inbox[Peer(s)], FIN)] ELSE inbox
      BY <1>1 DEF CloseWrite, Finish
<1>3. CASE sock[s] = "open"
  <2>1. Finish(s, [sock EXCEPT ![s] = "shut"], [inbox EXCEPT ![s] = inbox[s]])
    <3>1. [inbox EXCEPT ![s] = inbox[s]] = inbox
          BY <1>1
    <3>2. [sock EXCEPT ![s] = "shut"] = [sock EXCEPT ![s] = IF @ = "open" THEN "shut" ELSE @]
          BY <1>1, <1>3
    <3> QED BY <3>1, <3>2 DEF CloseWrite
  <2>2. Sinks
        BY <1>3, <2>1, FinishSinks
  <2> QED BY <1>2, <2>2
<1>4. CASE sock[s] # "open"
  <2>1. sock' = sock /\ inbox' = inbox
        BY <1>1, <1>2, <1>4
  <2>2. Sinks
        BY <1>1, <2>1 DEF Sinks, Broken
  <2> QED BY <1>2, <2>2
<1> QED BY <1>3, <1>4

\* Nor does Close, which may reset the peer instead.
LEMMA CloseSinks ==
    ASSUME TypeOK, Broken, NEW s \in Sockets, Close(s)
    PROVE  Sinks
<1> DEFINE socks == [sock EXCEPT ![s] = "closed"]
           boxes == [inbox EXCEPT ![s] = <<>>]
<1>1. Peer(s) \in Sockets /\ Peer(s) # s /\ Peer(Peer(s)) = s
      BY PeerFacts
<1>2. sock \in [Sockets -> Status] /\ inbox \in [Sockets -> Seq(Nat)]
      BY Types
<1>3. (Resets({Peer(s)}, socks, boxes) /\ sock[Peer(s)] # "closed") \/ Finish(s, socks, boxes)
      BY DEF Close, Live
<1>4. CASE Finish(s, socks, boxes)
  <2>1. <<>> # inbox[s] => "closed" = "closed"
        OBVIOUS
  <2> QED BY <1>4, FinishSinks
<1>5. CASE Resets({Peer(s)}, socks, boxes) /\ sock[Peer(s)] # "closed"
  <2>1. PICK keep \in [{Peer(s)} -> 0 .. Room + 1] :
           /\ keep[Peer(s)] <= Len(boxes[Peer(s)])
           /\ sock'  = [t \in Sockets |-> IF t \in {Peer(s)} THEN "reset" ELSE socks[t]]
           /\ inbox' = [t \in Sockets |-> IF t \in {Peer(s)} THEN SubSeq(boxes[t], 1, keep[t]) ELSE boxes[t]]
        BY <1>5 DEF Resets
  <2>2. boxes[Peer(s)] = inbox[Peer(s)] /\ boxes[s] = <<>> /\ socks[s] = "closed"
        BY <1>1, <1>2
  <2>3. keep[Peer(s)] \in 0 .. Len(inbox[Peer(s)])
        BY <1>1, <2>1, <2>2, Types
  <2>4. /\ sock'[Peer(s)] = "reset" /\ sock'[s] = "closed"
        /\ inbox'[Peer(s)] = SubSeq(inbox[Peer(s)], 1, keep[Peer(s)]) /\ inbox'[s] = <<>>
        BY <1>1, <2>1, <2>2
  <2>5. \A t \in Sockets : t # s /\ t # Peer(s) => sock'[t] = sock[t] /\ inbox'[t] = inbox[t]
        BY <1>2, <2>1
  <2>6. SubSeq(inbox[Peer(s)], 1, keep[Peer(s)]) \in Seq(Nat)
    <3>1. inbox[Peer(s)] \in Seq(Nat)
          BY <1>1, <1>2
    <3> QED BY <2>3, <3>1, PrefixFacts
  <2>7. \A t \in Sockets : sock'[t] \in Status /\ inbox'[t] \in Seq(Nat)
    <3>1. \A t \in Sockets : sock[t] \in Status /\ inbox[t] \in Seq(Nat)
          BY <1>2
    <3>2. <<>> \in Seq(Nat) /\ "reset" \in Status /\ "closed" \in Status
          BY DEF Status
    <3> QED BY <2>4, <2>5, <2>6, <3>1, <3>2
  <2>8. sock' \in [Sockets -> Status] /\ inbox' \in [Sockets -> Seq(Nat)]
    <3>1. sock' = [t \in Sockets |-> sock'[t]] /\ inbox' = [t \in Sockets |-> inbox'[t]]
          BY <2>1
    <3> QED BY <2>7, <3>1
  <2>9. ASSUME NEW t \in Sockets
        PROVE  sock'[t] = "reset" => sock'[Peer(t)] \in {"reset", "closed"}
    <3>1. CASE t = s \/ t = Peer(s)
          BY <1>1, <2>4, <3>1
    <3>2. CASE t # s /\ t # Peer(s)
      <4>1. Peer(t) \in Sockets /\ Peer(t) # s /\ Peer(t) # Peer(s)
            BY <1>1, <3>2, PeerFacts
      <4> QED BY <2>5, <3>2, <4>1 DEF Broken
    <3> QED BY <3>1, <3>2
  <2>10. /\ SubSeq(inbox[s], 1, 0) = <<>> /\ 0 \in 0 .. Len(inbox[s])
         BY <1>2, PrefixEnds
  <2>11. ASSUME NEW t \in Sockets
         PROVE  \/ inbox'[t] = inbox[t]
                \/ /\ sock'[Peer(t)] # "open" \/ sock'[t] = "closed"
                   /\ \E k \in 0 .. Len(inbox[t]) : inbox'[t] = SubSeq(inbox[t], 1, k)
         BY <1>1, <2>3, <2>4, <2>5, <2>10
  <2>12. \A t \in Sockets : (sock'[t] = "open" => sock[t] = "open") /\ (sock[t] = "closed" => sock'[t] = "closed")
         BY <1>1, <1>5, <2>4, <2>5
  <2> QED BY <2>8, <2>9, <2>11, <2>12 DEF Sinks
<1> QED BY <1>3, <1>4, <1>5

\* A break resets both sockets of a connection.
LEMMA BreakSinks ==
    ASSUME TypeOK, Broken, NEW s \in Sockets, Break(s)
    PROVE  Sinks
<1> DEFINE S == {s, Peer(s)}
<1>1. Peer(s) \in Sockets /\ Peer(s) # s /\ Peer(Peer(s)) = s
      BY PeerFacts
<1>2. sock \in [Sockets -> Status] /\ inbox \in [Sockets -> Seq(Nat)]
      BY Types
<1>3. PICK keep \in [S -> 0 .. Room + 1] :
         /\ \A t \in S : keep[t] <= Len(inbox[t])
         /\ sock'  = [t \in Sockets |-> IF t \in S THEN "reset" ELSE sock[t]]
         /\ inbox' = [t \in Sockets |-> IF t \in S THEN SubSeq(inbox[t], 1, keep[t]) ELSE inbox[t]]
      BY DEF Break, Resets
<1>4. sock[s] # "closed" /\ sock[Peer(s)] # "closed"
      BY DEF Break, Live
<1>5. \A t \in S : sock'[t] = "reset" /\ inbox'[t] = SubSeq(inbox[t], 1, keep[t])
                  /\ t \in Sockets /\ Peer(t) \in S /\ sock[t] # "closed"
      BY <1>1, <1>3, <1>4
<1>6. \A t \in Sockets : t \notin S => sock'[t] = sock[t] /\ inbox'[t] = inbox[t] /\ Peer(t) \notin S
      BY <1>1, <1>3, PeerFacts
<1> HIDE DEF S
<1>7. \A t \in S : keep[t] \in 0 .. Len(inbox[t])
  <2> TAKE t \in S
  <2>1. keep[t] \in 0 .. Room + 1 /\ keep[t] <= Len(inbox[t])
        BY <1>3
  <2>2. Len(inbox[t]) \in Nat
        BY <1>5, Types
  <2> QED BY <2>1, <2>2
<1>8. sock' \in [Sockets -> Status]
      BY <1>2, <1>3 DEF Status
<1>9. inbox' \in [Sockets -> Seq(Nat)]
  <2>1. \A t \in S : SubSeq(inbox[t], 1, keep[t]) \in Seq(Nat)
    <3> TAKE t \in S
    <3>1. inbox[t] \in Seq(Nat)
          BY <1>2, <1>5
    <3> QED BY <1>7, <3>1, PrefixFacts
  <2> QED BY <1>2, <1>3, <2>1
<1>10. ASSUME NEW t \in Sockets
       PROVE  sock'[t] = "reset" => sock'[Peer(t)] \in {"reset", "closed"}
  <2>1. CASE t \in S
        BY <1>5, <2>1
  <2>2. CASE t \notin S
        BY <1>6, <2>2, PeerFacts DEF Broken
  <2> QED BY <2>1, <2>2
<1>11. ASSUME NEW t \in Sockets
       PROVE  \/ inbox'[t] = inbox[t]
              \/ /\ sock'[Peer(t)] # "open" \/ sock'[t] = "closed"
                 /\ \E k \in 0 .. Len(inbox[t]) : inbox'[t] = SubSeq(inbox[t], 1, k)
  <2>1. CASE t \in S
        BY <1>5, <1>7, <2>1
  <2>2. CASE t \notin S
        BY <1>6, <2>2
  <2> QED BY <2>1, <2>2
<1>12. \A t \in Sockets : (sock'[t] = "open" => sock[t] = "open") /\ (sock[t] = "closed" => sock'[t] = "closed")
       BY <1>5, <1>6
<1> QED BY <1>8, <1>9, <1>10, <1>11, <1>12 DEF Sinks

-----------------------------------------------------------------------------
(* What keeps OrderInv.                                                      *)

\* Sockets go down, copies leave the way they serve.
LEMMA Decline ==
    ASSUME TypeOK, NEW f \in [Sockets -> Nat], OrderInv(f), Sinks,
           sent' \in [Ends -> Nat], got' = got,
           \A e \in Ends : sent'[e] = sent[e] \/ (sent'[e] = sent[e] + 1 /\ sock'[Own(e)] # "open"),
           \A u \in Copies : \/ copy'[u] = copy[u]
                             \/ copy'[u].at \in {"closedst", "closesrc", "done"}
                             \/ copy'[u].at = "read" /\ sock'[Dst(u)] # "open"
    PROVE  OrderInv(f)'
<1>1. \A e \in Ends : sent[e] \in Nat /\ sent'[e] \in Nat /\ sent[e] <= sent'[e]
  <2> TAKE e \in Ends
  <2>1. sent[e] \in Nat /\ sent'[e] \in Nat
        BY DEF TypeOK
  <2>2. sent'[e] = sent[e] \/ sent'[e] = sent[e] + 1
        OBVIOUS
  <2> QED BY <2>1, <2>2
<1>2. ASSUME NEW s \in Sockets
      PROVE  InOrder(f, s)'
  <2>1. /\ inbox[s] \in Seq(Nat) /\ Len(inbox[s]) \in Nat /\ Source(s) \in Ends /\ f[s] \in Nat
        /\ \A i \in 1 .. Len(inbox[s]) : inbox[s][i] \in Nat
    <3>1. inbox[s] \in Seq(Nat)
          BY Types
    <3> QED BY <3>1, Types, SocketKinds, ElementOfSeq
  <2>2. InOrder(f, s)
        BY DEF OrderInv
  <2>3. f[s] <= sent'[Source(s)]
        BY <1>1, <2>1, <2>2 DEF InOrder
  <2>4. \A i \in 1 .. Len(inbox[s]) :
           /\ inbox[s][i] <= sent'[Source(s)]
           /\ inbox[s][i] = f[s] + i \/ (inbox[s][i] = FIN /\ i = Len(inbox[s]))
        BY <1>1, <2>1, <2>2 DEF InOrder
  <2>5. sock'[Peer(s)] = "open" /\ sock'[s] # "closed" => sock[Peer(s)] = "open" /\ sock[s] # "closed"
        BY PeerFacts DEF Sinks
  <2>6. CASE inbox'[s] = inbox[s]
        BY <2>2, <2>3, <2>4, <2>5, <2>6 DEF InOrder
  <2>7. CASE /\ inbox'[s] = Append(inbox[s], FIN)
             /\ sock[Peer(s)] = "open" /\ sock[s] # "closed" /\ sock'[Peer(s)] # "open"
    <3>1. /\ Len(inbox'[s]) = Len(inbox[s]) + 1
          /\ inbox'[s][Len(inbox[s]) + 1] = FIN
          /\ \A i \in 1 .. Len(inbox[s]) : inbox'[s][i] = inbox[s][i]
          BY <2>1, <2>7, Types, AppendProperties
    <3>2. \A i \in 1 .. Len(inbox[s]) : inbox[s][i] # FIN
          BY <2>2, <2>7 DEF InOrder
    <3>3. \A i \in 1 .. Len(inbox'[s]) : i \in 1 .. Len(inbox[s]) \/ i = Len(inbox'[s])
          BY <2>1, <3>1
    <3>4. FIN <= sent'[Source(s)]
          BY <1>1, <2>1 DEF FIN
    <3> QED BY <2>3, <2>4, <2>7, <3>1, <3>2, <3>3, <3>4 DEF InOrder
  <2>8. CASE /\ sock'[Peer(s)] # "open" \/ sock'[s] = "closed"
             /\ \E k \in 0 .. Len(inbox[s]) : inbox'[s] = SubSeq(inbox[s], 1, k)
    <3>1. PICK k \in 0 .. Len(inbox[s]) : inbox'[s] = SubSeq(inbox[s], 1, k)
          BY <2>8
    <3>2. Len(inbox'[s]) = k /\ \A i \in 1 .. k : inbox'[s][i] = inbox[s][i]
          BY <2>1, <3>1, PrefixFacts
    <3>3. \A i \in 1 .. k : i \in 1 .. Len(inbox[s]) /\ (i = Len(inbox[s]) => i = k)
          BY <2>1
    <3> QED BY <2>3, <2>4, <2>8, <3>2, <3>3 DEF InOrder
  <2> QED BY <2>6, <2>7, <2>8 DEF Sinks
<1>3. ASSUME NEW s \in Sockets, sock'[Peer(s)] = "open", sock'[s] # "closed"
      PROVE  sock[Peer(s)] = "open" /\ sock[s] # "closed" /\ inbox'[s] = inbox[s]
      BY <1>3, PeerFacts DEF Sinks
<1>4. ASSUME NEW u \in Copies
      PROVE  CopyKeepsUp(f, u)'
  <2>1. CopyKeepsUp(f, u)
        BY DEF OrderInv
  <2>2. Onward(u) \in Sockets /\ Peer(Onward(u)) = Dst(u)
        BY CopyFacts
  <2>3. sock'[Dst(u)] = "open" /\ sock'[Onward(u)] # "closed" =>
           sock[Dst(u)] = "open" /\ sock[Onward(u)] # "closed" /\ inbox'[Onward(u)] = inbox[Onward(u)]
        BY <1>3, <2>2
  <2>4. CASE copy'[u] = copy[u]
        BY <2>1, <2>3, <2>4 DEF CopyKeepsUp, At
  <2>5. CASE copy'[u].at \in {"closedst", "closesrc", "done"}
        BY <2>5 DEF CopyKeepsUp, At
  <2>6. CASE copy'[u].at = "read" /\ sock'[Dst(u)] # "open"
        BY <2>6 DEF CopyKeepsUp, At
  <2> QED BY <2>4, <2>5, <2>6
<1>5. ASSUME NEW e \in Ends
      PROVE  EndKeepsUp(f, e)'
  <2>1. EndKeepsUp(f, e)
        BY DEF OrderInv
  <2>2. First(e) \in Sockets /\ Peer(First(e)) = Own(e)
        BY EndFacts, PeerFacts DEF First
  <2>3. sock'[Own(e)] = "open" /\ sock'[First(e)] # "closed" =>
           sock[Own(e)] = "open" /\ sock[First(e)] # "closed" /\ inbox'[First(e)] = inbox[First(e)]
        BY <1>3, <2>2
  <2> QED BY <2>1, <2>3 DEF EndKeepsUp
<1>6. Broken'
      BY DEF Sinks, Broken
<1> QED BY <1>2, <1>4, <1>5, <1>6 DEF OrderInv

\* A message goes into the inbox it follows in.
LEMMA PushInOrder ==
    ASSUME TypeOK, NEW f \in [Sockets -> Nat], OrderInv(f), NEW r \in Sockets, NEW x \in Nat,
           sock[Peer(r)] = "open", sock[r] # "closed", sock' = sock,
           inbox' = [inbox EXCEPT ![r] = Append(inbox[r], x)],
           sent' \in [Ends -> Nat], \A e \in Ends : sent[e] <= sent'[e],
           x = f[r] + Len(inbox[r]) + 1, x <= sent'[Source(r)]
    PROVE  /\ Broken' /\ \A t \in Sockets : InOrder(f, t)'
           /\ Len(inbox'[r]) = Len(inbox[r]) + 1 /\ inbox'[r] # <<>>
           /\ \A t \in Sockets : t # r => inbox'[t] = inbox[t]
<1>1. /\ inbox \in [Sockets -> Seq(Nat)] /\ inbox[r] \in Seq(Nat) /\ Len(inbox[r]) \in Nat
      /\ \A i \in 1 .. Len(inbox[r]) : inbox[r][i] \in Nat
  <2>1. inbox \in [Sockets -> Seq(Nat)] /\ inbox[r] \in Seq(Nat) /\ Len(inbox[r]) \in Nat
        BY Types
  <2> QED BY <2>1, ElementOfSeq
<1>2. inbox'[r] = Append(inbox[r], x) /\ \A t \in Sockets : t # r => inbox'[t] = inbox[t]
      BY <1>1
<1>3. /\ Len(inbox'[r]) = Len(inbox[r]) + 1 /\ inbox'[r][Len(inbox[r]) + 1] = x
      /\ \A i \in 1 .. Len(inbox[r]) : inbox'[r][i] = inbox[r][i]
      BY <1>1, <1>2, AppendProperties
<1>4. inbox'[r] # <<>>
      BY <1>1, <1>2, AppendProperties
<1>5. \A e \in Ends : sent[e] \in Nat /\ sent'[e] \in Nat
      BY DEF TypeOK
<1>6. ASSUME NEW t \in Sockets
      PROVE  InOrder(f, t)'
  <2>1. InOrder(f, t)
        BY DEF OrderInv
  <2>2. /\ Source(t) \in Ends /\ f[t] \in Nat /\ inbox[t] \in Seq(Nat)
        /\ \A i \in 1 .. Len(inbox[t]) : inbox[t][i] \in Nat
    <3>1. inbox[t] \in Seq(Nat)
          BY <1>1
    <3> QED BY <3>1, SocketKinds, ElementOfSeq
  <2>3. /\ f[t] <= sent'[Source(t)]
        /\ \A i \in 1 .. Len(inbox[t]) : inbox[t][i] <= sent'[Source(t)]
    <3>1. /\ sent[Source(t)] \in Nat /\ sent'[Source(t)] \in Nat
          /\ sent[Source(t)] <= sent'[Source(t)]
          BY <1>5, <2>2
    <3>2. /\ f[t] <= sent[Source(t)]
          /\ \A i \in 1 .. Len(inbox[t]) : inbox[t][i] <= sent[Source(t)]
          BY <2>1 DEF InOrder
    <3> QED BY ONLY <2>2, <3>1, <3>2
  <2>4. CASE t # r
        BY <1>2, <2>1, <2>3, <2>4 DEF InOrder
  <2>5. CASE t = r
    <3>1. /\ \A i \in 1 .. Len(inbox[r]) : inbox[r][i] # FIN
          /\ \A i \in 1 .. Len(inbox[r]) : inbox[r][i] = f[r] + i
          BY <2>1, <2>5 DEF InOrder
    <3>2. \A i \in 1 .. Len(inbox'[r]) : i \in 1 .. Len(inbox[r]) \/ i = Len(inbox[r]) + 1
          BY <1>1, <1>3
    <3>3. x # FIN /\ x = f[r] + (Len(inbox[r]) + 1)
          BY <1>1, <2>2, <2>5 DEF FIN
    <3>4. \A i \in 1 .. Len(inbox'[r]) : /\ inbox'[r][i] <= sent'[Source(r)]
                                         /\ inbox'[r][i] = f[r] + i /\ inbox'[r][i] # FIN
          BY <1>3, <2>3, <2>5, <3>1, <3>2, <3>3
    <3> QED BY <2>3, <2>5, <3>4 DEF InOrder
  <2> QED BY <2>4, <2>5
<1>7. Broken'
      BY DEF OrderInv, Broken
<1> QED BY <1>2, <1>3, <1>4, <1>6, <1>7

\* Nobody else fills the inbox a copy or an end fills.
LEMMA OneFills ==
    /\ \A u, v \in Copies : Onward(u) = Onward(v) => u = v
    /\ \A u \in Copies, e \in Ends : Onward(u) # First(e)
    /\ \A d, e \in Ends : First(d) = First(e) => d = e
<1>1. ASSUME NEW u \in Copies, NEW v \in Copies, Onward(u) = Onward(v)
      PROVE  u = v
  <2>1. Dst(u) = Dst(v)
        BY <1>1, CopyFacts
  <2> QED BY <2>1, CopyFacts
<1>2. ASSUME NEW u \in Copies, NEW e \in Ends, Onward(u) = First(e)
      PROVE  FALSE
  <2>1. Peer(Onward(u)) \in Copies
        BY CopyFacts
  <2>2. Peer(First(e)) = Own(e)
        BY EndFacts, PeerFacts DEF First
  <2> QED BY <1>2, <2>1, <2>2, EndFacts
<1>3. ASSUME NEW d \in Ends, NEW e \in Ends, First(d) = First(e)
      PROVE  d = e
  <2>1. Source(First(d)) = d /\ Source(First(e)) = e
        BY EndFacts
  <2> QED BY <1>3, <2>1
<1> QED BY <1>1, <1>2, <1>3

\* A copy writes the message it holds, which is the next.
LEMMA CopyPush ==
    ASSUME TypeOK, NEW f \in [Sockets -> Nat], OrderInv(f), NEW u \in Copies,
           CopyWrites(u), sock[Onward(u)] # "closed"
    PROVE  /\ OrderInv(f)' /\ sock' = sock /\ inbox' \in [Sockets -> Seq(Nat)]
           /\ \A t \in Sockets : t # Onward(u) => inbox'[t] = inbox[t]
<1> DEFINE r == Onward(u)
<1>1. /\ r \in Sockets /\ Peer(r) = Dst(u) /\ Dst(u) \in Sockets /\ Source(r) = Source(u)
      /\ u \in Sockets /\ Peer(Dst(u)) = r /\ Source(u) \in Ends
      BY CopyFacts, SocketKinds DEF Onward, Copies
<1>2. /\ At(u, "write") /\ CanWrite(Dst(u)) /\ Write(Dst(u), copy[u].data)
      /\ copy' = [copy EXCEPT ![u] = [at |-> "read", data |-> FIN]]
      /\ sent' = sent /\ got' = got
      BY DEF CopyWrites, Goto, ends
<1>3. copy[u].data \in Nat /\ copy \in [Copies -> [at : CopyAt, data : Nat]]
      BY DEF TypeOK
<1>4. sock[Dst(u)] = "open"
      BY <1>2 DEF CanWrite
<1>5. /\ sock' = sock /\ inbox' = [inbox EXCEPT ![r] = Append(inbox[r], copy[u].data)]
      /\ inbox' \in [Sockets -> Seq(Nat)]
      BY <1>1, <1>2, <1>3, WriteGoes
<1>6. copy[u].data = f[u] /\ f[r] + Len(inbox[r]) + 1 = f[u]
  <2>1. CopyKeepsUp(f, u)
        BY DEF OrderInv
  <2> QED BY <1>2, <1>4, <2>1 DEF CopyKeepsUp
<1>7. f[u] <= sent[Source(r)]
  <2>1. InOrder(f, u)
        BY <1>1 DEF OrderInv
  <2> QED BY <1>1, <2>1 DEF InOrder
<1>8. sent' \in [Ends -> Nat] /\ \A e \in Ends : sent[e] <= sent'[e]
      BY <1>2 DEF TypeOK
<1> HIDE DEF r
<1>9. /\ Broken' /\ \A t \in Sockets : InOrder(f, t)'
      /\ Len(inbox'[r]) = Len(inbox[r]) + 1
      /\ \A t \in Sockets : t # r => inbox'[t] = inbox[t]
  <2>1. copy[u].data = f[r] + Len(inbox[r]) + 1 /\ copy[u].data <= sent'[Source(r)]
        BY <1>2, <1>6, <1>7
  <2>2. sock[Peer(r)] = "open" /\ sock[r] # "closed"
        BY <1>1, <1>4 DEF r
  <2> QED BY <1>1, <1>3, <1>5, <1>8, <2>1, <2>2, PushInOrder
<1>10. ASSUME NEW v \in Copies
       PROVE  CopyKeepsUp(f, v)'
  <2>1. CopyKeepsUp(f, v)
        BY DEF OrderInv
  <2>2. CASE v # u
    <3>1. Onward(v) # r /\ Onward(v) \in Sockets
          BY <2>2, OneFills, CopyFacts DEF r
    <3>2. copy'[v] = copy[v] /\ inbox'[Onward(v)] = inbox[Onward(v)]
          BY <1>2, <1>3, <1>9, <2>2, <3>1
    <3> QED BY <1>5, <2>1, <3>2 DEF CopyKeepsUp, At
  <2>3. CASE v = u
    <3>1. copy'[u].at = "read"
          BY <1>2, <1>3
    <3>2. f[r] + Len(inbox'[r]) = f[u]
      <4>1. f[r] \in Nat /\ Len(inbox[r]) \in Nat
            BY <1>1, Types
      <4> QED BY <1>6, <1>9, <4>1
    <3> QED BY <2>3, <3>1, <3>2 DEF CopyKeepsUp, At, r
  <2> QED BY <2>2, <2>3
<1>11. ASSUME NEW e \in Ends
       PROVE  EndKeepsUp(f, e)'
  <2>1. EndKeepsUp(f, e)
        BY DEF OrderInv
  <2>2. First(e) # r /\ First(e) \in Sockets
        BY OneFills, EndFacts DEF r, Copies
  <2>3. inbox'[First(e)] = inbox[First(e)]
        BY <1>9, <2>2
  <2> QED BY <1>2, <1>5, <2>1, <2>3 DEF EndKeepsUp
<1>12. OrderInv(f)'
       BY <1>9, <1>10, <1>11 DEF OrderInv
<1> QED BY <1>5, <1>9, <1>12 DEF r

\* An end writes its next message.
LEMMA EndPush ==
    ASSUME TypeOK, NEW f \in [Sockets -> Nat], OrderInv(f), NEW e \in Ends,
           EndWrites(e), sock[First(e)] # "closed"
    PROVE  /\ OrderInv(f)' /\ sock' = sock /\ inbox' \in [Sockets -> Seq(Nat)]
           /\ \A t \in Sockets : t # First(e) => inbox'[t] = inbox[t]
<1> DEFINE r == First(e)
<1>1. /\ r \in Sockets /\ Peer(r) = Own(e) /\ Own(e) \in Sockets /\ Source(r) = e
      /\ Peer(Own(e)) = r
      BY EndFacts, PeerFacts DEF First
<1>2. /\ CanWrite(Own(e)) /\ sent' = [sent EXCEPT ![e] = @ + 1] /\ Write(Own(e), sent'[e])
      /\ copy' = copy /\ got' = got
      BY DEF EndWrites
<1>3. sent \in [Ends -> Nat] /\ sent[e] \in Nat
      BY DEF TypeOK
<1>4. sent'[e] = sent[e] + 1 /\ sent'[e] \in Nat /\ \A d \in Ends : d # e => sent'[d] = sent[d]
      BY <1>2, <1>3
<1>5. sock[Own(e)] = "open"
      BY <1>2 DEF CanWrite
<1>6. /\ sock' = sock /\ inbox' = [inbox EXCEPT ![r] = Append(inbox[r], sent'[e])]
      /\ inbox' \in [Sockets -> Seq(Nat)]
  <2>1. Own(e) \in Sockets /\ sock[Peer(Own(e))] # "closed"
        BY <1>1
  <2>2. Write(Own(e), sent'[e]) /\ sent'[e] \in Nat
        BY <1>2, <1>4
  <2>3. Peer(Own(e)) = r
        BY <1>1
  <2> HIDE DEF r
  <2> QED BY ONLY TypeOK, <2>1, <2>2, <2>3, WriteGoes
<1>7. f[r] + Len(inbox[r]) = sent[e]
  <2>1. EndKeepsUp(f, e)
        BY DEF OrderInv
  <2> QED BY <1>5, <2>1 DEF EndKeepsUp
<1>8. sent' \in [Ends -> Nat] /\ \A d \in Ends : sent[d] <= sent'[d]
  <2>1. sent' \in [Ends -> Nat]
        BY <1>2, <1>3
  <2>2. \A d \in Ends : sent[d] \in Nat /\ (d = e \/ d # e)
        BY <1>3
  <2> QED BY <1>4, <2>1, <2>2
<1> HIDE DEF r
<1>9. /\ Broken' /\ \A t \in Sockets : InOrder(f, t)'
      /\ Len(inbox'[r]) = Len(inbox[r]) + 1
      /\ \A t \in Sockets : t # r => inbox'[t] = inbox[t]
  <2>1. sent'[e] = f[r] + Len(inbox[r]) + 1 /\ sent'[e] <= sent'[Source(r)]
        BY <1>1, <1>4, <1>7
  <2>2. sock[Peer(r)] = "open" /\ sock[r] # "closed"
        BY <1>1, <1>5 DEF r
  <2> QED BY <1>1, <1>4, <1>6, <1>8, <2>1, <2>2, PushInOrder
<1>10. ASSUME NEW v \in Copies
       PROVE  CopyKeepsUp(f, v)'
  <2>1. CopyKeepsUp(f, v)
        BY DEF OrderInv
  <2>2. Onward(v) # r /\ Onward(v) \in Sockets
        BY OneFills, CopyFacts DEF r
  <2>3. inbox'[Onward(v)] = inbox[Onward(v)]
        BY <1>9, <2>2
  <2> QED BY <1>2, <1>6, <2>1, <2>3 DEF CopyKeepsUp, At
<1>11. ASSUME NEW d \in Ends
       PROVE  EndKeepsUp(f, d)'
  <2>1. EndKeepsUp(f, d)
        BY DEF OrderInv
  <2>2. CASE d # e
    <3>1. First(d) # r /\ First(d) \in Sockets
          BY <2>2, OneFills, EndFacts DEF r, Copies
    <3>2. inbox'[First(d)] = inbox[First(d)]
          BY <1>9, <3>1
    <3> QED BY <1>2, <1>4, <1>6, <2>1, <2>2, <3>2 DEF EndKeepsUp
  <2>3. CASE d = e
    <3>1. f[r] + Len(inbox'[r]) = sent'[e]
      <4>1. f[r] \in Nat /\ Len(inbox[r]) \in Nat
            BY <1>1, Types
      <4> QED BY <1>4, <1>7, <1>9, <4>1
    <3> QED BY <1>2, <2>1, <2>3, <3>1 DEF EndKeepsUp, r
  <2> QED BY <2>2, <2>3
<1>12. OrderInv(f)'
       BY <1>9, <1>10, <1>11 DEF OrderInv
<1> QED BY <1>6, <1>9, <1>12 DEF r

\* What the reader of s took counts, a FIN does not.
Took(f, s) == IF Head(inbox[s]) = FIN THEN f ELSE [f EXCEPT ![s] = @ + 1]

\* The head of an inbox is the next message, or a FIN that is alone.
LEMMA HeadIsNext ==
    ASSUME TypeOK, NEW f \in [Sockets -> Nat], OrderInv(f), NEW s \in Sockets, inbox[s] # <<>>
    PROVE  /\ inbox[s] \in Seq(Nat) /\ Len(inbox[s]) \in Nat /\ Len(inbox[s]) >= 1
           /\ Head(inbox[s]) = inbox[s][1] /\ Head(inbox[s]) \in Nat /\ Tail(inbox[s]) \in Seq(Nat)
           /\ Len(Tail(inbox[s])) = Len(inbox[s]) - 1
           /\ \A i \in 1 .. Len(Tail(inbox[s])) : Tail(inbox[s])[i] = inbox[s][i + 1]
           /\ Head(inbox[s]) <= sent[Source(s)]
           /\ Head(inbox[s]) # FIN => Head(inbox[s]) = f[s] + 1
           /\ Head(inbox[s]) = FIN => Len(inbox[s]) = 1 /\ Tail(inbox[s]) = <<>>
           /\ Took(f, s) \in [Sockets -> Nat]
           /\ Head(inbox[s]) # FIN => Took(f, s)[s] = f[s] + 1
           /\ Head(inbox[s]) = FIN => Took(f, s)[s] = f[s]
           /\ \A t \in Sockets : t # s => Took(f, s)[t] = f[t]
<1>1. inbox[s] \in Seq(Nat)
      BY Types
<1>2. Len(inbox[s]) \in Nat /\ Len(inbox[s]) >= 1
      BY <1>1, EmptySeq
<1>3. /\ Head(inbox[s]) \in Nat /\ Tail(inbox[s]) \in Seq(Nat)
      /\ Len(Tail(inbox[s])) = Len(inbox[s]) - 1
      /\ \A i \in 1 .. Len(Tail(inbox[s])) : Tail(inbox[s])[i] = inbox[s][i + 1]
      BY <1>1, HeadTailProperties
<1>4. Head(inbox[s]) = inbox[s][1]
      BY <1>1
<1>5. InOrder(f, s)
      BY DEF OrderInv
<1>6. /\ inbox[s][1] <= sent[Source(s)]
      /\ inbox[s][1] = f[s] + 1 \/ (inbox[s][1] = FIN /\ 1 = Len(inbox[s]))
  <2>1. 1 \in 1 .. Len(inbox[s])
        BY <1>2
  <2> QED BY <1>5, <2>1 DEF InOrder
<1>7. f[s] \in Nat /\ f[s] + 1 # FIN
      BY DEF FIN
<1>8. Head(inbox[s]) = FIN => Len(inbox[s]) = 1
      BY <1>4, <1>6, <1>7
<1>9. Len(Tail(inbox[s])) = 0 => Tail(inbox[s]) = <<>>
      BY <1>3, EmptySeq
<1>10. Head(inbox[s]) = FIN => Tail(inbox[s]) = <<>>
       BY <1>3, <1>8, <1>9
<1>11. /\ Took(f, s) \in [Sockets -> Nat]
       /\ Head(inbox[s]) # FIN => Took(f, s)[s] = f[s] + 1
       /\ Head(inbox[s]) = FIN => Took(f, s)[s] = f[s]
       /\ \A t \in Sockets : t # s => Took(f, s)[t] = f[t]
       BY <1>7 DEF Took
<1> QED BY <1>1, <1>2, <1>3, <1>4, <1>6, <1>8, <1>10, <1>11

\* A message is taken: what is left still follows.
LEMMA PopInOrder ==
    ASSUME TypeOK, NEW f \in [Sockets -> Nat], OrderInv(f), NEW s \in Sockets, CanRead(s),
           sock' = sock, sent' = sent, inbox' = [inbox EXCEPT ![s] = Tail(inbox[s])],
           NEW g, g = Took(f, s)
    PROVE  /\ Broken' /\ \A t \in Sockets : InOrder(g, t)'
           /\ inbox' \in [Sockets -> Seq(Nat)]
           /\ inbox'[s] = Tail(inbox[s]) /\ \A t \in Sockets : t # s => inbox'[t] = inbox[t]
           /\ sock[Peer(s)] = "open" => /\ Head(inbox[s]) # FIN
                                        /\ g[s] + Len(inbox'[s]) = f[s] + Len(inbox[s])
<1>1. inbox[s] # <<>> /\ sock[s] # "closed"
      BY DEF CanRead
<1>2. inbox \in [Sockets -> Seq(Nat)] /\ f[s] \in Nat
      BY Types
<1>3. Tail(inbox[s]) \in Seq(Nat)
      BY <1>1, HeadIsNext
<1>4. /\ inbox' \in [Sockets -> Seq(Nat)]
      /\ inbox'[s] = Tail(inbox[s]) /\ \A t \in Sockets : t # s => inbox'[t] = inbox[t]
      BY <1>2, <1>3
<1>5. ASSUME NEW t \in Sockets
      PROVE  InOrder(g, t)'
  <2>1. InOrder(f, t)
        BY DEF OrderInv
  <2>2. CASE t # s
    <3>1. inbox'[t] = inbox[t] /\ g[t] = f[t]
          BY <1>1, <1>4, <2>2, HeadIsNext
    <3> QED BY <2>1, <3>1 DEF InOrder
  <2>3. CASE t = s /\ Head(inbox[s]) = FIN
    <3>1. inbox'[s] = <<>> /\ g[s] = f[s]
          BY <1>1, <1>4, <2>3, HeadIsNext
    <3>2. \A i \in 1 .. Len(<<>>) : FALSE
          OBVIOUS
    <3> QED BY <2>1, <2>3, <3>1, <3>2 DEF InOrder
  <2>4. CASE t = s /\ Head(inbox[s]) # FIN
    <3>1. /\ g[s] = f[s] + 1 /\ Head(inbox[s]) = f[s] + 1 /\ Head(inbox[s]) <= sent[Source(s)]
          /\ Len(inbox[s]) \in Nat /\ Len(inbox'[s]) = Len(inbox[s]) - 1
          /\ \A i \in 1 .. Len(inbox'[s]) : inbox'[s][i] = inbox[s][i + 1]
          BY <1>1, <1>4, <2>4, HeadIsNext
    <3>2. \A i \in 1 .. Len(inbox'[s]) : /\ i + 1 \in 1 .. Len(inbox[s])
                                         /\ i + 1 = Len(inbox[s]) => i = Len(inbox'[s])
                                         /\ g[s] + i = f[s] + (i + 1)
          BY <1>2, <3>1
    <3>3. g[s] <= sent[Source(s)]
          BY <3>1
    <3>4. \A i \in 1 .. Len(inbox'[s]) :
             /\ inbox'[s][i] <= sent[Source(s)]
             /\ inbox'[s][i] = g[s] + i \/ (inbox'[s][i] = FIN /\ i = Len(inbox'[s]))
      <4> TAKE i \in 1 .. Len(inbox'[s])
      <4> DEFINE j == i + 1
      <4>1. j \in 1 .. Len(inbox[s]) /\ inbox'[s][i] = inbox[s][j]
            BY <3>1, <3>2
      <4>2. /\ inbox[s][j] <= sent[Source(s)]
            /\ inbox[s][j] = f[s] + j \/ (inbox[s][j] = FIN /\ j = Len(inbox[s]))
            BY <2>1, <2>4, <4>1 DEF InOrder
      <4> QED BY <3>2, <4>1, <4>2
    <3>5. sock[Peer(s)] = "open" => \A i \in 1 .. Len(inbox'[s]) : inbox'[s][i] # FIN
      <4> SUFFICES ASSUME sock[Peer(s)] = "open", NEW i \in 1 .. Len(inbox'[s])
                   PROVE  inbox'[s][i] # FIN
          OBVIOUS
      <4>1. i + 1 \in 1 .. Len(inbox[s]) /\ inbox'[s][i] = inbox[s][i + 1]
            BY <3>1, <3>2
      <4> QED BY <1>1, <2>1, <2>4, <4>1 DEF InOrder
    <3> QED BY <2>4, <3>3, <3>4, <3>5 DEF InOrder
  <2> QED BY <2>2, <2>3, <2>4
<1>6. Broken'
      BY DEF OrderInv, Broken
<1>7. sock[Peer(s)] = "open" => /\ Head(inbox[s]) # FIN
                                /\ g[s] + Len(inbox'[s]) = f[s] + Len(inbox[s])
  <2> SUFFICES ASSUME sock[Peer(s)] = "open"
               PROVE  Head(inbox[s]) # FIN /\ g[s] + Len(inbox'[s]) = f[s] + Len(inbox[s])
      OBVIOUS
  <2>1. InOrder(f, s) /\ 1 \in 1 .. Len(inbox[s])
        BY <1>1, HeadIsNext DEF OrderInv
  <2>2. Head(inbox[s]) # FIN
        BY <1>1, <2>1, HeadIsNext DEF InOrder
  <2>3. g[s] = f[s] + 1 /\ Len(inbox'[s]) = Len(inbox[s]) - 1 /\ Len(inbox[s]) \in Nat
        BY <1>1, <1>4, <2>2, HeadIsNext
  <2> QED BY <1>2, <2>2, <2>3
<1> QED BY <1>4, <1>5, <1>6, <1>7

\* A copy takes the next message or the FIN.
LEMMA CopyPop ==
    ASSUME TypeOK, NEW f \in [Sockets -> Nat], OrderInv(f), NEW s \in Copies, CopyReads(s),
           NEW g, g = Took(f, s)
    PROVE  OrderInv(g)'
<1>1. s \in Sockets /\ Onward(s) \in Sockets /\ Onward(s) # s /\ inbox[s] # <<>>
      BY CopyFacts DEF CopyReads, CanRead
<1>2. /\ At(s, "read") /\ CanRead(s) /\ inbox' = [inbox EXCEPT ![s] = Tail(inbox[s])]
      /\ copy' = [copy EXCEPT ![s] = [at |-> IF Head(inbox[s]) = FIN THEN "eof" ELSE "write",
                                      data |-> Head(inbox[s])]]
      /\ sock' = sock /\ sent' = sent /\ got' = got
      BY <1>1, Types DEF CopyReads, Goto, ends
<1>3. copy \in [Copies -> [at : CopyAt, data : Nat]] /\ f[s] \in Nat
      BY <1>1 DEF TypeOK
<1>4. /\ Broken' /\ \A t \in Sockets : InOrder(g, t)'
      /\ inbox'[s] = Tail(inbox[s]) /\ \A t \in Sockets : t # s => inbox'[t] = inbox[t]
      /\ sock[Peer(s)] = "open" => g[s] + Len(inbox'[s]) = f[s] + Len(inbox[s])
  <2>1. s \in Sockets /\ CanRead(s) /\ inbox' = [inbox EXCEPT ![s] = Tail(inbox[s])]
        BY <1>1, <1>2
  <2>2. sock' = sock /\ sent' = sent
        BY <1>2
  <2>3. /\ Broken' /\ \A t \in Sockets : InOrder(g, t)'
        /\ inbox' \in [Sockets -> Seq(Nat)]
        /\ inbox'[s] = Tail(inbox[s]) /\ \A t \in Sockets : t # s => inbox'[t] = inbox[t]
        /\ sock[Peer(s)] = "open" => /\ Head(inbox[s]) # FIN
                                     /\ g[s] + Len(inbox'[s]) = f[s] + Len(inbox[s])
        BY ONLY TypeOK, f \in [Sockets -> Nat], OrderInv(f), g = Took(f, s), <2>1, <2>2, PopInOrder, ZenonT(40)
  <2> QED BY ONLY <2>3
<1>5. \A t \in Sockets : t # s => g[t] = f[t]
      BY <1>1, HeadIsNext
<1>6. ASSUME NEW u \in Copies
      PROVE  CopyKeepsUp(g, u)'
  <2>1. CopyKeepsUp(f, u)
        BY DEF OrderInv
  <2>2. u \in Sockets /\ Onward(u) \in Sockets /\ Peer(Onward(u)) = Dst(u)
        BY CopyFacts
  <2>3. CASE u = s
    <3>1. g[Onward(s)] = f[Onward(s)] /\ inbox'[Onward(s)] = inbox[Onward(s)]
          BY <1>1, <1>4, <1>5
    <3>2. CASE Head(inbox[s]) = FIN
      <4>1. copy'[s].at = "eof" /\ g[s] = f[s]
            BY <1>1, <1>2, <1>3, <3>2, HeadIsNext
      <4> QED BY <1>2, <2>1, <2>3, <3>1, <4>1 DEF CopyKeepsUp, At
    <3>3. CASE Head(inbox[s]) # FIN
      <4>1. copy'[s].at = "write" /\ copy'[s].data = Head(inbox[s])
            BY <1>2, <1>3, <3>3
      <4>2. g[s] = f[s] + 1 /\ Head(inbox[s]) = f[s] + 1
            BY <1>1, <3>3, HeadIsNext
      <4> QED BY <1>2, <2>1, <2>3, <3>1, <4>1, <4>2 DEF CopyKeepsUp, At
    <3> QED BY <3>2, <3>3
  <2>4. CASE u # s
    <3>1. copy'[u] = copy[u] /\ g[u] = f[u]
          BY <1>2, <1>3, <1>5, <2>2, <2>4
    <3>2. sock[Dst(u)] = "open" => g[Onward(u)] + Len(inbox'[Onward(u)]) = f[Onward(u)] + Len(inbox[Onward(u)])
      <4>1. CASE Onward(u) = s
            BY <1>4, <2>2, <4>1
      <4>2. CASE Onward(u) # s
            BY <1>4, <1>5, <2>2, <4>2
      <4> QED BY <4>1, <4>2
    <3> QED BY <1>2, <2>1, <3>1, <3>2 DEF CopyKeepsUp, At
  <2> QED BY <2>3, <2>4
<1>7. ASSUME NEW e \in Ends
      PROVE  EndKeepsUp(g, e)'
  <2>1. EndKeepsUp(f, e)
        BY DEF OrderInv
  <2>2. /\ Own(e) \in Sockets /\ Own(e) # s
        /\ First(e) \in Sockets /\ Peer(First(e)) = Own(e)
        BY EndFacts, PeerFacts DEF First, Copies
  <2>3. g[Own(e)] = f[Own(e)]
        BY <1>5, <2>2
  <2>4. sock[Own(e)] = "open" => g[First(e)] + Len(inbox'[First(e)]) = f[First(e)] + Len(inbox[First(e)])
    <3>1. CASE First(e) = s
          BY <1>4, <2>2, <3>1
    <3>2. CASE First(e) # s
          BY <1>4, <1>5, <2>2, <3>2
    <3> QED BY <3>1, <3>2
  <2> QED BY <1>2, <2>1, <2>3, <2>4 DEF EndKeepsUp
<1> QED BY <1>4, <1>6, <1>7 DEF OrderInv

\* An end reads the next message or the FIN.
LEMMA EndPop ==
    ASSUME TypeOK, NEW f \in [Sockets -> Nat], OrderInv(f), NEW e \in Ends, EndReads(e),
           NEW g, g = Took(f, Own(e))
    PROVE  /\ OrderInv(g)' /\ got' \in [Ends -> Seq(Nat)]
           /\ Head(inbox[Own(e)]) = FIN => got' = got
           /\ Head(inbox[Own(e)]) # FIN =>
                 /\ got'[e] = Append(got[e], Len(got[e]) + 1) /\ Len(got[e]) < sent[Other(e)]
                 /\ \A d \in Ends : d # e => got'[d] = got[d]
<1> DEFINE s == Own(e)
<1>1. s \in Sockets /\ s \notin Copies /\ inbox[s] # <<>> /\ Source(s) = Other(e)
      BY EndFacts DEF EndReads, CanRead
<1>2. /\ CanRead(s) /\ inbox' = [inbox EXCEPT ![s] = Tail(inbox[s])]
      /\ Head(inbox[s]) = FIN => got' = got
      /\ Head(inbox[s]) # FIN => got' = [got EXCEPT ![e] = Append(@, Head(inbox[s]))]
      /\ sock' = sock /\ sent' = sent /\ copy' = copy
      BY <1>1, Types DEF EndReads
<1>3. got \in [Ends -> Seq(Nat)] /\ got[e] \in Seq(Nat) /\ f[s] \in Nat /\ Len(got[e]) \in Nat
  <2>1. got \in [Ends -> Seq(Nat)] /\ got[e] \in Seq(Nat) /\ f[s] \in Nat
        BY <1>1 DEF TypeOK
  <2> QED BY <2>1, LenProperties
<1>4. /\ Broken' /\ \A t \in Sockets : InOrder(g, t)'
      /\ inbox'[s] = Tail(inbox[s]) /\ \A t \in Sockets : t # s => inbox'[t] = inbox[t]
      /\ sock[Peer(s)] = "open" => g[s] + Len(inbox'[s]) = f[s] + Len(inbox[s])
  <2>1. s \in Sockets /\ CanRead(s) /\ inbox' = [inbox EXCEPT ![s] = Tail(inbox[s])]
        BY <1>1, <1>2
  <2>2. sock' = sock /\ sent' = sent
        BY <1>2
  <2>3. /\ Broken' /\ \A t \in Sockets : InOrder(g, t)'
        /\ inbox' \in [Sockets -> Seq(Nat)]
        /\ inbox'[s] = Tail(inbox[s]) /\ \A t \in Sockets : t # s => inbox'[t] = inbox[t]
        /\ sock[Peer(s)] = "open" => /\ Head(inbox[s]) # FIN
                                     /\ g[s] + Len(inbox'[s]) = f[s] + Len(inbox[s])
        BY ONLY TypeOK, f \in [Sockets -> Nat], OrderInv(f), g = Took(f, s), <2>1, <2>2, PopInOrder, ZenonT(40)
  <2> QED BY ONLY <2>3
<1>5. \A t \in Sockets : t # s => g[t] = f[t]
      BY <1>1, HeadIsNext
<1>6. Len(got[e]) = f[s]
  <2>1. EndKeepsUp(f, e)
        BY DEF OrderInv
  <2> QED BY <2>1 DEF EndKeepsUp
<1>7. Head(inbox[s]) # FIN => Head(inbox[s]) = Len(got[e]) + 1 /\ Len(got[e]) < sent[Other(e)]
  <2>1. sent[Other(e)] \in Nat
        BY EndFacts DEF TypeOK
  <2>2. Head(inbox[s]) # FIN => Head(inbox[s]) = f[s] + 1 /\ Head(inbox[s]) <= sent[Other(e)]
        BY <1>1, HeadIsNext
  <2> QED BY <1>3, <1>6, <2>1, <2>2
<1>8. Head(inbox[s]) # FIN =>
         /\ got'[e] = Append(got[e], Len(got[e]) + 1)
         /\ \A d \in Ends : d # e => got'[d] = got[d]
      BY <1>2, <1>3, <1>7
<1>9. /\ Append(got[e], Len(got[e]) + 1) \in Seq(Nat)
      /\ Len(Append(got[e], Len(got[e]) + 1)) = Len(got[e]) + 1
  <2>1. Len(got[e]) + 1 \in Nat
        BY <1>3
  <2> QED BY <1>3, <2>1, AppendProperties
<1>10. got' \in [Ends -> Seq(Nat)]
  <2>1. CASE Head(inbox[s]) = FIN
        BY <1>2, <1>3, <2>1
  <2>2. CASE Head(inbox[s]) # FIN
    <3>1. got' = [got EXCEPT ![e] = Append(got[e], Len(got[e]) + 1)]
          BY <1>2, <1>3, <1>7, <2>2
    <3> QED BY <1>3, <1>9, <3>1
  <2> QED BY <2>1, <2>2
<1>11. ASSUME NEW u \in Copies
       PROVE  CopyKeepsUp(g, u)'
  <2>1. CopyKeepsUp(f, u)
        BY DEF OrderInv
  <2>2. u \in Sockets /\ Onward(u) \in Sockets /\ Peer(Onward(u)) = Dst(u)
        BY CopyFacts
  <2>3. g[u] = f[u]
        BY <1>1, <1>5, <2>2
  <2>4. sock[Dst(u)] = "open" => g[Onward(u)] + Len(inbox'[Onward(u)]) = f[Onward(u)] + Len(inbox[Onward(u)])
    <3>1. CASE Onward(u) = s
          BY <1>4, <2>2, <3>1
    <3>2. CASE Onward(u) # s
          BY <1>4, <1>5, <2>2, <3>2
    <3> QED BY <3>1, <3>2
  <2> QED BY <1>2, <2>1, <2>3, <2>4 DEF CopyKeepsUp, At
<1>12. ASSUME NEW d \in Ends
       PROVE  EndKeepsUp(g, d)'
  <2>1. EndKeepsUp(f, d)
        BY DEF OrderInv
  <2>2. /\ Own(d) \in Sockets /\ First(d) \in Sockets /\ First(d) # s /\ (Own(d) = s => d = e)
        BY <1>1, EndFacts DEF Copies
  <2>3. g[First(d)] = f[First(d)] /\ inbox'[First(d)] = inbox[First(d)]
        BY <1>4, <1>5, <2>2
  <2>4. g[Own(d)] = Len(got'[d])
    <3>1. CASE d # e
      <4>1. Own(d) # s /\ got'[d] = got[d]
            BY <1>2, <1>8, <2>2, <3>1
      <4> QED BY <1>5, <2>1, <2>2, <4>1 DEF EndKeepsUp
    <3>2. CASE d = e /\ Head(inbox[s]) = FIN
      <4>1. g[s] = f[s] /\ got' = got
            BY <1>1, <1>2, <3>2, HeadIsNext
      <4> QED BY <1>6, <3>2, <4>1
    <3>3. CASE d = e /\ Head(inbox[s]) # FIN
      <4>1. g[s] = f[s] + 1
            BY <1>1, <3>3, HeadIsNext
      <4>2. Len(got'[e]) = Len(got[e]) + 1
            BY <1>8, <1>9, <3>3
      <4> QED BY <1>6, <3>3, <4>1, <4>2
    <3> QED BY <3>1, <3>2, <3>3
  <2> QED BY <1>2, <2>1, <2>3, <2>4 DEF EndKeepsUp
<1>13. OrderInv(g)'
       BY <1>4, <1>11, <1>12 DEF OrderInv
<1> QED BY <1>2, <1>7, <1>8, <1>10, <1>13

\* Sockets that nobody touches.
LEMMA SameSinks ==
    ASSUME TypeOK, Broken, sock' = sock, inbox' = inbox
    PROVE  Sinks
<1>1. sock \in [Sockets -> Status] /\ inbox \in [Sockets -> Seq(Nat)]
      BY DEF TypeOK, Status
<1> QED BY <1>1 DEF Sinks, Broken

\* Decline where the ends do nothing but close.
LEMMA DeclineEnds ==
    ASSUME TypeOK, NEW f \in [Sockets -> Nat], OrderInv(f), Sinks, ends' = ends,
           \A u \in Copies : \/ copy'[u] = copy[u]
                             \/ copy'[u].at \in {"closedst", "closesrc", "done"}
                             \/ copy'[u].at = "read" /\ sock'[Dst(u)] # "open"
    PROVE  OrderInv(f)'
<1>1. sent' = sent /\ got' = got
      BY DEF ends
<1>2. sent' \in [Ends -> Nat] /\ \A e \in Ends : sent'[e] = sent[e]
      BY <1>1 DEF TypeOK
<1> QED BY <1>1, <1>2, Decline

-----------------------------------------------------------------------------
(* What keeps CalmInv.                                                       *)

\* A socket that is open has a live peer.
LEMMA CalmPeers ==
    ASSUME NEW f \in [Sockets -> Nat], CalmInv(f), NEW s \in Sockets, sock[s] = "open"
    PROVE  sock[Peer(s)] # "closed" /\ sock[Peer(s)] # "reset" /\ ~Over(Peer(s))
<1>1. Peer(s) \in Sockets /\ Peer(Peer(s)) = s
      BY PeerFacts
<1>2. CalmSocket(f, Peer(s))
      BY <1>1 DEF CalmInv
<1> QED BY <1>1, <1>2 DEF CalmSocket

\* Before the cut a socket closes with an empty inbox, so with a FIN and no reset.
LEMMA CalmClose ==
    ASSUME TypeOK, NEW f \in [Sockets -> Nat], CalmInv(f), NEW s \in Sockets, Close(s), Over(s)
    PROVE  /\ sock' = [sock EXCEPT ![s] = "closed"]
           /\ inbox' = IF sock[s] = "open" THEN [inbox EXCEPT ![Peer(s)] = Append(inbox[Peer(s)], FIN)]
                                           ELSE inbox
<1>1. inbox[s] = <<>>
      BY DEF CalmInv, CalmSocket
<1>2. inbox \in [Sockets -> Seq(Nat)] /\ Peer(s) \in Sockets
           /\ sock \in [Sockets -> Status]
      BY Types
<1>3. [inbox EXCEPT ![s] = <<>>] = inbox
      BY <1>1, <1>2
<1>4. DOMAIN inbox[s] = {}
      BY <1>1
<1>5. Finish(s, [sock EXCEPT ![s] = "closed"], inbox)
      BY <1>3, <1>4 DEF Close
<1>6. sock[s] = "open" => Live(Peer(s))
  <2>1. sock[Peer(s)] \in Status
        BY <1>2
  <2> QED BY <2>1, CalmPeers DEF Live, Status
<1> QED BY <1>2, <1>5, <1>6 DEF Finish

\* A socket is shut or closed in order, and its FIN is behind all that was sent.
LEMMA CalmDown ==
    ASSUME TypeOK, NEW f \in [Sockets -> Nat], CalmInv(f), NEW s \in Sockets,
           NEW to \in {"shut", "closed"},
           sock' = [sock EXCEPT ![s] = to], sent' = sent,
           inbox' = IF sock[s] = "open" THEN [inbox EXCEPT ![Peer(s)] = Append(inbox[Peer(s)], FIN)]
                                        ELSE inbox,
           \A t \in Sockets : Over(t)' = Over(t),
           to = "closed" => Over(s),
           sock[s] = "open" =>
              /\ Own(Source(Peer(s))) = s \/ sock[Own(Source(Peer(s)))] # "open"
              /\ f[Peer(s)] + Len(inbox[Peer(s)]) = sent[Source(Peer(s))],
           \A u \in Copies : CalmCopy(u)'
    PROVE  CalmInv(f)'
<1>1. Peer(s) \in Sockets /\ Peer(s) # s /\ Peer(Peer(s)) = s
      BY PeerFacts
<1>2. sock \in [Sockets -> Status] /\ inbox \in [Sockets -> Seq(Nat)]
      BY Types
<1>3. sock'[s] = to /\ \A t \in Sockets : t # s => sock'[t] = sock[t]
      BY <1>2
<1>4. ASSUME NEW t \in Sockets
      PROVE  CalmSocket(f, t)'
  <2>1. CalmSocket(f, t)
        BY DEF CalmInv
  <2>2. Peer(t) \in Sockets /\ Peer(Peer(t)) = t /\ Own(Source(t)) \in Sockets
        BY PeerFacts, SocketKinds, EndFacts
  <2>3. sock'[t] # "reset" /\ (sock'[t] = "closed" => Over(t)')
        BY <1>3, <2>1 DEF CalmSocket
  <2>4. \A p \in Sockets : sock[p] # "open" => sock'[p] # "open"
        BY <1>3
  <2>5. CASE t = Peer(s) /\ sock[s] = "open"
    <3>1. ~Over(t) /\ ~Over(t)'
          BY <2>1, <2>5, <1>1 DEF CalmSocket
    <3>2. inbox'[t] = Append(inbox[t], FIN) /\ inbox[t] \in Seq(Nat) /\ FIN \in Nat
          BY <1>1, <1>2, <2>5 DEF FIN
    <3>3. inbox'[t] # <<>> /\ Len(inbox'[t]) = Len(inbox[t]) + 1 /\ inbox'[t][Len(inbox'[t])] = FIN
      <4>1. /\ Append(inbox[t], FIN) # <<>> /\ Len(Append(inbox[t], FIN)) = Len(inbox[t]) + 1
            /\ Append(inbox[t], FIN)[Len(inbox[t]) + 1] = FIN
            BY <3>2, AppendProperties
      <4> QED BY <3>2, <4>1
    <3>4. sock'[Own(Source(t))] # "open"
          BY <1>3, <2>2, <2>4, <2>5
    <3>5. f[t] \in Nat /\ Len(inbox[t]) \in Nat /\ f[t] + Len(inbox[t]) = sent[Source(t)]
      <4>1. Len(inbox[t]) \in Nat
            BY <3>2, LenProperties
      <4> QED BY <2>5, <4>1
    <3>6. f[t] + Len(inbox'[t]) = sent'[Source(t)] + 1
          BY <3>3, <3>5
    <3> QED BY <2>3, <3>1, <3>3, <3>4, <3>6 DEF CalmSocket
  <2>6. CASE ~(t = Peer(s) /\ sock[s] = "open")
    <3>1. inbox'[t] = inbox[t]
          BY <1>1, <1>2, <2>6
    <3>2. sock'[Peer(t)] # "open" => sock[Peer(t)] # "open"
          BY <1>3, <2>2, <2>6
    <3>3. Over(t)' = Over(t)
          OBVIOUS
    <3> QED BY <2>1, <2>2, <2>3, <2>4, <3>1, <3>2, <3>3 DEF CalmSocket
  <2> QED BY <2>5, <2>6
<1> QED BY <1>4 DEF CalmInv

\* A message goes into an inbox whose end was not heard.
LEMMA CalmPush ==
    ASSUME NEW f \in [Sockets -> Nat], CalmInv(f), NEW r \in Sockets,
           sock[Peer(r)] = "open", sock' = sock,
           \A t \in Sockets : t # r => inbox'[t] = inbox[t],
           \A e \in Ends : sent'[e] = sent[e] \/ sock[Own(e)] = "open",
           \A t \in Sockets : Over(t)' = Over(t),
           \A u \in Copies : CalmCopy(u)'
    PROVE  CalmInv(f)'
<1>1. ASSUME NEW t \in Sockets
      PROVE  CalmSocket(f, t)'
  <2>1. CalmSocket(f, t) /\ Over(t)' = Over(t) /\ Source(t) \in Ends
        BY SocketKinds DEF CalmInv
  <2>2. CASE sock[Peer(t)] = "open"
    <3>1. ~Over(t)
          BY <2>1, <2>2 DEF CalmSocket
    <3> QED BY <2>1, <2>2, <3>1 DEF CalmSocket
  <2>3. CASE sock[Peer(t)] # "open"
    <3>1. t # r /\ inbox'[t] = inbox[t]
          BY <2>3
    <3>2. sent'[Source(t)] = sent[Source(t)]
          BY <2>1, <2>3 DEF CalmSocket
    <3> QED BY <2>1, <3>1, <3>2 DEF CalmSocket
  <2> QED BY <2>2, <2>3
<1> QED BY <1>1 DEF CalmInv

\* A message is taken, or the FIN: then all that was sent has been.
LEMMA CalmPop ==
    ASSUME TypeOK, NEW f \in [Sockets -> Nat], OrderInv(f), CalmInv(f), NEW s \in Sockets, CanRead(s),
           sock' = sock, sent' = sent, inbox' = [inbox EXCEPT ![s] = Tail(inbox[s])],
           ~Over(s), Over(s)' = (Head(inbox[s]) = FIN),
           \A t \in Sockets : t # s => Over(t)' = Over(t),
           \A u \in Copies : CalmCopy(u)',
           NEW g, g = Took(f, s)
    PROVE  CalmInv(g)'
<1>1. inbox[s] # <<>> /\ sock[s] # "closed"
      BY DEF CanRead
<1>2. /\ inbox'[s] = Tail(inbox[s]) /\ \A t \in Sockets : t # s => inbox'[t] = inbox[t]
      /\ sock[Peer(s)] = "open" => Head(inbox[s]) # FIN
      BY PopInOrder
<1>3. \A t \in Sockets : t # s => g[t] = f[t]
      BY <1>1, HeadIsNext
<1>4. ASSUME NEW t \in Sockets, t # s
      PROVE  CalmSocket(g, t)'
  <2>1. CalmSocket(f, t)
        BY DEF CalmInv
  <2>2. inbox'[t] = inbox[t] /\ g[t] = f[t] /\ Over(t)' = Over(t)
        BY <1>2, <1>3, <1>4
  <2> QED BY <2>1, <2>2 DEF CalmSocket
<1>5. CalmSocket(g, s)'
  <2>1. CalmSocket(f, s)
        BY DEF CalmInv
  <2>2. sent[Source(s)] \in Nat /\ f[s] \in Nat /\ Len(inbox[s]) \in Nat
    <3>1. sent[Source(s)] \in Nat
          BY SocketKinds DEF TypeOK
    <3> QED BY <3>1, Types
  <2>3. CASE Head(inbox[s]) = FIN
    <3>1. inbox'[s] = <<>> /\ g[s] = f[s] /\ Len(inbox[s]) = 1
          BY <1>1, <1>2, <2>3, HeadIsNext
    <3>2. sock[Peer(s)] # "open"
          BY <1>2, <2>3
    <3>3. f[s] = sent[Source(s)]
          BY <2>1, <2>2, <3>1, <3>2 DEF CalmSocket
    <3> QED BY <1>1, <2>1, <2>3, <3>1, <3>2, <3>3 DEF CalmSocket
  <2>4. CASE Head(inbox[s]) # FIN
    <3>1. ~Over(s)'
          BY <2>4
    <3>2. CASE sock[Peer(s)] = "open"
          BY <1>1, <2>1, <3>1, <3>2 DEF CalmSocket
    <3>3. CASE sock[Peer(s)] # "open"
      <4>1. /\ g[s] = f[s] + 1 /\ Len(inbox'[s]) = Len(inbox[s]) - 1 /\ inbox'[s] \in Seq(Nat)
            /\ \A i \in 1 .. Len(inbox'[s]) : inbox'[s][i] = inbox[s][i + 1]
            /\ Head(inbox[s]) = inbox[s][1] /\ Len(inbox[s]) >= 1
        <5>1. g[s] = f[s] + 1 /\ inbox'[s] = Tail(inbox[s])
              BY <1>1, <1>2, <2>4, HeadIsNext
        <5>2. /\ Len(Tail(inbox[s])) = Len(inbox[s]) - 1 /\ Tail(inbox[s]) \in Seq(Nat)
              /\ \A i \in 1 .. Len(Tail(inbox[s])) : Tail(inbox[s])[i] = inbox[s][i + 1]
              /\ Head(inbox[s]) = inbox[s][1] /\ Len(inbox[s]) >= 1
              BY <1>1, HeadIsNext
        <5> QED BY <5>1, <5>2
      <4>2. inbox[s][Len(inbox[s])] = FIN /\ f[s] + Len(inbox[s]) = sent[Source(s)] + 1
            BY <2>1, <3>3 DEF CalmSocket
      <4>3. Len(inbox[s]) # 1
            BY <2>4, <4>1, <4>2
      <4>4. Len(inbox'[s]) >= 1 /\ Len(inbox'[s]) + 1 = Len(inbox[s])
        <5>1. Len(inbox[s]) >= 2
          <6>1. Len(inbox[s]) \in Nat /\ Len(inbox[s]) >= 1 /\ Len(inbox[s]) # 1
                BY <2>2, <4>1, <4>3
          <6>2. \A n \in Nat : n >= 1 /\ n # 1 => n >= 2
                OBVIOUS
          <6> QED BY <6>1, <6>2
        <5>2. Len(inbox'[s]) = Len(inbox[s]) - 1
              BY <4>1
        <5> QED BY <2>2, <5>1, <5>2
      <4>5. inbox'[s] # <<>>
        <5>1. Len(<<>>) = 0
              OBVIOUS
        <5>2. Len(inbox'[s]) \in Nat /\ Len(inbox'[s]) >= 1
              BY <2>2, <4>4
        <5> QED BY ONLY <5>1, <5>2
      <4>6. inbox'[s][Len(inbox'[s])] = FIN
        <5>1. Len(inbox'[s]) \in 1 .. Len(inbox'[s])
              BY <2>2, <4>4
        <5> QED BY <4>1, <4>2, <4>4, <5>1
      <4>7. g[s] + Len(inbox'[s]) = sent[Source(s)] + 1
            BY <2>2, <4>1, <4>2
      <4> QED BY <1>1, <2>1, <3>1, <3>3, <4>5, <4>6, <4>7 DEF CalmSocket
    <3> QED BY <3>2, <3>3
  <2> QED BY <2>3, <2>4
<1> QED BY <1>4, <1>5 DEF CalmInv

-----------------------------------------------------------------------------
(* Every step keeps the invariant: the ends.                                 *)

\* EndWrites fails only after the cut.
LEMMA EndWritesKeeps ==
    ASSUME TypeOK, NEW f \in [Sockets -> Nat], Counts(f), NEW e \in Ends, EndWrites(e)
    PROVE  Counts(f)' /\ ((Sinks /\ cut) \/ (sock' = sock /\ inbox' \in [Sockets -> Seq(Nat)]))
<1>1. /\ CanWrite(Own(e)) /\ sent' = [sent EXCEPT ![e] = @ + 1] /\ Write(Own(e), sent'[e])
      /\ copy' = copy /\ got' = got /\ heard' = heard /\ cut' = cut
      BY DEF EndWrites
<1>2. /\ Own(e) \in Sockets /\ First(e) \in Sockets /\ Peer(Own(e)) = First(e)
      /\ sock[Own(e)] = "open" /\ Peer(First(e)) = Own(e)
      BY <1>1, EndFacts, PeerFacts DEF CanWrite, First
<1>3. /\ sent \in [Ends -> Nat] /\ sent'[e] = sent[e] + 1 /\ sent'[e] \in Nat
      /\ \A d \in Ends : d # e => sent'[d] = sent[d]
      BY <1>1 DEF TypeOK
<1>4. OrderInv(f)
      BY DEF Counts
<1>5. CASE sock[First(e)] = "closed"
  <2>1. Sinks /\ sock'[Own(e)] = "reset"
        BY <1>1, <1>2, <1>3, <1>4, <1>5, WriteFails DEF OrderInv
  <2>2. \A d \in Ends : sent'[d] = sent[d] \/ (sent'[d] = sent[d] + 1 /\ sock'[Own(d)] # "open")
        BY <1>3, <2>1
  <2>3. sent' \in [Ends -> Nat]
        BY <1>1, <1>3
  <2>4. OrderInv(f)'
        BY <1>1, <1>4, <2>1, <2>2, <2>3, Decline
  <2>5. cut
    <3>1. ~cut => CalmInv(f)
          BY DEF Counts
    <3> QED BY <1>2, <1>5, <3>1, CalmPeers
  <2> QED BY <1>1, <2>1, <2>4, <2>5 DEF Counts
<1>6. CASE sock[First(e)] # "closed"
  <2>1. /\ OrderInv(f)' /\ sock' = sock /\ inbox' \in [Sockets -> Seq(Nat)]
        /\ \A t \in Sockets : t # First(e) => inbox'[t] = inbox[t]
        BY <1>4, <1>6, EndPush
  <2>2. ASSUME ~cut
        PROVE  CalmInv(f)'
    <3>1. CalmInv(f)
          BY <2>2 DEF Counts
    <3>2. \A d \in Ends : sent'[d] = sent[d] \/ sock[Own(d)] = "open"
          BY <1>2, <1>3
    <3>3. \A t \in Sockets : Over(t)' = Over(t)
          BY <1>1 DEF Over
    <3>4. \A u \in Copies : CalmCopy(u)'
          BY <1>1, <2>1, <3>1 DEF CalmInv, CalmCopy
    <3> QED BY <1>2, <2>1, <3>1, <3>2, <3>3, <3>4, CalmPush
  <2> QED BY <1>1, <2>1, <2>2 DEF Counts
<1> QED BY <1>5, <1>6

\* EndShuts puts a FIN behind the last message.
LEMMA EndShutsKeeps ==
    ASSUME TypeOK, NEW f \in [Sockets -> Nat], Counts(f), NEW e \in Ends, EndShuts(e)
    PROVE  Counts(f)' /\ Sinks
<1>1. sock[Own(e)] = "open" /\ CloseWrite(Own(e)) /\ copy' = copy /\ ends' = ends /\ cut' = cut
      BY DEF EndShuts
<1>2. /\ Own(e) \in Sockets /\ Peer(Own(e)) = First(e) /\ Source(First(e)) = e /\ sock \in [Sockets -> Status]
      BY EndFacts, Types DEF First
<1>3. OrderInv(f)
      BY DEF Counts
<1>4. /\ Sinks /\ sock' = [sock EXCEPT ![Own(e)] = IF @ = "open" THEN "shut" ELSE @]
      /\ inbox' = IF sock[Own(e)] = "open" /\ Live(Peer(Own(e)))
                  THEN [inbox EXCEPT ![Peer(Own(e))] = Append(inbox[Peer(Own(e))], FIN)] ELSE inbox
      BY <1>1, <1>2, <1>3, CloseWriteSinks DEF OrderInv
<1>5. OrderInv(f)'
      BY <1>1, <1>3, <1>4, DeclineEnds
<1>6. ASSUME ~cut
      PROVE  CalmInv(f)'
  <2>1. CalmInv(f)
        BY <1>6 DEF Counts
  <2>2. Live(Peer(Own(e)))
    <3>1. sock[Peer(Own(e))] \in Status
          BY <1>2, PeerFacts
    <3> QED BY <1>1, <1>2, <2>1, <3>1, CalmPeers DEF Live, Status
  <2>3. sock' = [sock EXCEPT ![Own(e)] = "shut"]
        BY <1>1, <1>2, <1>4
  <2>4. \A t \in Sockets : Over(t)' = Over(t)
        BY <1>1 DEF Over, ends
  <2>5. f[Peer(Own(e))] + Len(inbox[Peer(Own(e))]) = sent[Source(Peer(Own(e)))]
    <3>1. EndKeepsUp(f, e)
          BY <1>3 DEF OrderInv
    <3> QED BY <1>1, <1>2, <2>2, <3>1 DEF EndKeepsUp, Live
  <2>6. \A u \in Copies : CalmCopy(u)'
    <3> TAKE u \in Copies
    <3>1. CalmCopy(u) /\ Dst(u) \in Sockets /\ Dst(u) # Own(e)
          BY <2>1, CopyFacts, EndFacts DEF CalmInv, Copies
    <3>2. sock'[Dst(u)] = sock[Dst(u)]
          BY <1>2, <2>3, <3>1
    <3> QED BY <1>1, <3>1, <3>2 DEF CalmCopy
  <2> QED BY <1>1, <1>2, <1>4, <2>1, <2>2, <2>3, <2>4, <2>5, <2>6, CalmDown DEF ends
<1> QED BY <1>1, <1>4, <1>5, <1>6 DEF Counts

\* EndReads.
LEMMA EndReadsKeeps ==
    ASSUME TypeOK, NEW f \in [Sockets -> Nat], Counts(f), NEW e \in Ends, EndReads(e)
    PROVE  (\E g \in [Sockets -> Nat] : Counts(g)') /\ inbox' \in [Sockets -> Seq(Nat)]
<1> DEFINE s == Own(e)
<1>1. s \in Sockets /\ s \notin Copies /\ s[1] = e /\ inbox[s] # <<>>
      BY EndFacts DEF EndReads, CanRead
<1>2. /\ CanRead(s) /\ ~heard[e] /\ inbox' = [inbox EXCEPT ![s] = Tail(inbox[s])]
      /\ Head(inbox[s]) = FIN => heard' = [heard EXCEPT ![e] = TRUE]
      /\ Head(inbox[s]) # FIN => heard' = heard
      /\ sock' = sock /\ sent' = sent /\ copy' = copy /\ cut' = cut
      BY <1>1, Types DEF EndReads
<1>3. heard \in [Ends -> BOOLEAN]
      BY DEF TypeOK
<1>4. PICK g : g = Took(f, s)
      OBVIOUS
<1>5. g \in [Sockets -> Nat]
      BY <1>1, <1>4, HeadIsNext DEF Counts
<1>6. OrderInv(g)' /\ inbox' \in [Sockets -> Seq(Nat)]
      BY <1>1, <1>2, <1>4, EndPop, PopInOrder DEF Counts
<1>7. ASSUME ~cut
      PROVE  CalmInv(g)'
  <2>1. CalmInv(f) /\ OrderInv(f)
        BY <1>7 DEF Counts
  <2>2. ~Over(s) /\ Over(s)' = (Head(inbox[s]) = FIN)
    <3>1. ~Over(s) /\ Over(s)' = heard'[e]
          BY <1>1, <1>2 DEF Over
    <3>2. CASE Head(inbox[s]) = FIN
          BY <1>2, <1>3, <3>1, <3>2
    <3>3. CASE Head(inbox[s]) # FIN
      <4>1. heard'[e] = FALSE
            BY <1>2, <1>3, <3>3
      <4> QED BY <3>1, <3>3, <4>1
    <3> QED BY <3>1, <3>2, <3>3
  <2>3. \A t \in Sockets : t # s => Over(t)' = Over(t)
    <3> SUFFICES ASSUME NEW t \in Sockets, t # s
                 PROVE  Over(t)' = Over(t)
        OBVIOUS
    <3>1. CASE t \in Copies
          BY <1>2, <3>1 DEF Over
    <3>2. CASE t \notin Copies
      <4>1. PICK d \in Ends : t = Own(d)
            BY <3>2, SocketKinds
      <4>2. d # e /\ t[1] = d
            BY <4>1, EndFacts
      <4>3. heard'[d] = heard[d]
            BY <1>2, <1>3, <4>2
      <4> QED BY <3>2, <4>2, <4>3 DEF Over
    <3> QED BY <3>1, <3>2
  <2>4. \A u \in Copies : CalmCopy(u)'
        BY <1>2, <2>1 DEF CalmInv, CalmCopy
  <2> HIDE DEF s
  <2> QED BY <1>1, <1>2, <1>4, <2>1, <2>2, <2>3, <2>4, CalmPop
<1> QED BY <1>2, <1>4, <1>5, <1>6, <1>7 DEF Counts

\* A step that leaves the connections and the copies alone.
LEMMA StillCounts ==
    ASSUME NEW f \in [Sockets -> Nat], OrderInv(f),
           sock' = sock, inbox' = inbox, copy' = copy, sent' = sent, got' = got
    PROVE  OrderInv(f)'
<1>1. \A s \in Sockets : InOrder(f, s)'
      BY DEF OrderInv, InOrder
<1>2. \A u \in Copies : CopyKeepsUp(f, u)'
      BY DEF OrderInv, CopyKeepsUp, At
<1>3. \A e \in Ends : EndKeepsUp(f, e)'
      BY DEF OrderInv, EndKeepsUp
<1>4. Broken'
      BY DEF OrderInv, Broken
<1> QED BY <1>1, <1>2, <1>3, <1>4 DEF OrderInv

\* There is no error to hear before the cut.
LEMMA EndHearsErrorKeeps ==
    ASSUME TypeOK, NEW f \in [Sockets -> Nat], Counts(f), NEW e \in Ends, EndHearsError(e)
    PROVE  Counts(f)' /\ cut
<1>1. /\ ReadFails(Own(e)) /\ ~heard[e] /\ sock' = sock /\ inbox' = inbox /\ copy' = copy
      /\ sent' = sent /\ got' = got /\ cut' = cut
      BY DEF EndHearsError
<1>2. OrderInv(f)'
      BY <1>1, StillCounts DEF Counts
<1>3. ASSUME ~cut
      PROVE  FALSE
  <2>1. Own(e) \in Sockets /\ Own(e) \notin Copies /\ Own(e)[1] = e
        BY EndFacts
  <2>2. CalmSocket(f, Own(e))
        BY <1>3, <2>1 DEF Counts, CalmInv
  <2>3. ~Over(Own(e))
        BY <1>1, <2>1 DEF Over
  <2> QED BY <1>1, <2>2, <2>3 DEF CalmSocket, ReadFails
<1> QED BY <1>1, <1>2, <1>3 DEF Counts

\* An end that closes has heard the end, or cuts.
LEMMA EndClosesKeeps ==
    ASSUME TypeOK, NEW f \in [Sockets -> Nat], Counts(f), NEW e \in Ends, EndCloses(e)
    PROVE  Counts(f)' /\ Sinks
<1>1. Close(Own(e)) /\ copy' = copy /\ ends' = ends /\ cut' = (cut \/ ~heard[e])
      BY DEF EndCloses
<1>2. /\ Own(e) \in Sockets /\ Own(e) \notin Copies /\ Own(e)[1] = e
      /\ Peer(Own(e)) = First(e) /\ Source(First(e)) = e /\ sock \in [Sockets -> Status]
      BY EndFacts, Types DEF First
<1>3. OrderInv(f)
      BY DEF Counts
<1>4. Sinks
      BY <1>1, <1>2, <1>3, CloseSinks DEF OrderInv
<1>5. OrderInv(f)'
      BY <1>1, <1>3, <1>4, DeclineEnds
<1>6. ASSUME ~cut, heard[e]
      PROVE  CalmInv(f)'
  <2>1. CalmInv(f)
        BY <1>6 DEF Counts
  <2>2. Over(Own(e))
        BY <1>2, <1>6 DEF Over
  <2>3. /\ sock' = [sock EXCEPT ![Own(e)] = "closed"]
        /\ inbox' = IF sock[Own(e)] = "open"
                    THEN [inbox EXCEPT ![Peer(Own(e))] = Append(inbox[Peer(Own(e))], FIN)] ELSE inbox
        BY <1>1, <1>2, <2>1, <2>2, CalmClose
  <2>4. \A t \in Sockets : Over(t)' = Over(t)
        BY <1>1 DEF Over, ends
  <2>5. sock[Own(e)] = "open" => f[Peer(Own(e))] + Len(inbox[Peer(Own(e))]) = sent[Source(Peer(Own(e)))]
    <3>1. EndKeepsUp(f, e)
          BY <1>3 DEF OrderInv
    <3> QED BY <1>2, <2>1, <3>1, CalmPeers DEF EndKeepsUp
  <2>6. \A u \in Copies : CalmCopy(u)'
    <3> TAKE u \in Copies
    <3>1. CalmCopy(u) /\ Dst(u) \in Sockets /\ Dst(u) # Own(e)
          BY <2>1, CopyFacts, EndFacts DEF CalmInv, Copies
    <3>2. sock'[Dst(u)] = sock[Dst(u)]
          BY <1>2, <2>3, <3>1
    <3> QED BY <1>1, <3>1, <3>2 DEF CalmCopy
  <2> QED BY <1>1, <1>2, <2>1, <2>2, <2>3, <2>4, <2>5, <2>6, CalmDown DEF ends
<1> QED BY <1>1, <1>4, <1>5, <1>6 DEF Counts

\* Break is the cut.
LEMMA BreakKeeps ==
    ASSUME TypeOK, NEW f \in [Sockets -> Nat], Counts(f), NEW s \in Sockets, Break(s)
    PROVE  Counts(f)' /\ Sinks
<1>1. copy' = copy /\ ends' = ends /\ cut'
      BY DEF Break
<1>2. Sinks
      BY BreakSinks DEF Counts, OrderInv
<1> QED BY <1>1, <1>2, DeclineEnds DEF Counts

-----------------------------------------------------------------------------
(* Every step keeps the invariant: the copies.                               *)

\* CopyReads.
LEMMA CopyReadsKeeps ==
    ASSUME TypeOK, NEW f \in [Sockets -> Nat], Counts(f), NEW s \in Copies, CopyReads(s)
    PROVE  (\E g \in [Sockets -> Nat] : Counts(g)') /\ sock' = sock /\ inbox' \in [Sockets -> Seq(Nat)]
<1>1. s \in Sockets /\ inbox[s] # <<>>
      BY CopyFacts DEF CopyReads, CanRead
<1>2. /\ At(s, "read") /\ CanRead(s) /\ inbox' = [inbox EXCEPT ![s] = Tail(inbox[s])]
      /\ copy' = [copy EXCEPT ![s] = [at |-> IF Head(inbox[s]) = FIN THEN "eof" ELSE "write",
                                      data |-> Head(inbox[s])]]
      /\ sock' = sock /\ sent' = sent /\ heard' = heard /\ cut' = cut
      BY <1>1, Types DEF CopyReads, Goto, ends
<1>3. copy \in [Copies -> [at : CopyAt, data : Nat]]
      BY DEF TypeOK
<1>4. /\ Head(inbox[s]) = FIN => copy'[s].at = "eof"
      /\ Head(inbox[s]) # FIN => copy'[s].at = "write"
      /\ \A u \in Copies : u # s => copy'[u] = copy[u]
      BY <1>2, <1>3
<1>5. PICK g : g = Took(f, s)
      OBVIOUS
<1>6. g \in [Sockets -> Nat] /\ OrderInv(f)
      BY <1>1, <1>5, HeadIsNext DEF Counts
<1>7. OrderInv(g)'
      BY <1>5, <1>6, CopyPop
<1>8. inbox' \in [Sockets -> Seq(Nat)]
      BY <1>1, <1>2, <1>5, <1>6, PopInOrder
<1>9. ASSUME ~cut
      PROVE  CalmInv(g)'
  <2>1. CalmInv(f)
        BY <1>9 DEF Counts
  <2>2. ~Over(s) /\ Over(s)' = (Head(inbox[s]) = FIN)
    <3>1. copy[s].at = "read"
          BY <1>2 DEF At
    <3>2. ~Over(s)
          BY <3>1 DEF Over
    <3>3. CASE Head(inbox[s]) = FIN
          BY <1>4, <3>2, <3>3 DEF Over
    <3>4. CASE Head(inbox[s]) # FIN
          BY <1>4, <3>2, <3>4 DEF Over
    <3> QED BY <3>3, <3>4
  <2>3. \A t \in Sockets : t # s => Over(t)' = Over(t)
        BY <1>2, <1>4 DEF Over
  <2>4. \A u \in Copies : CalmCopy(u)'
    <3> TAKE u \in Copies
    <3>1. CalmCopy(u)
          BY <2>1 DEF CalmInv
    <3>2. CASE u = s
      <4>1. sock[Dst(s)] = "open" /\ copy'[s].at \in {"eof", "write"}
            BY <1>2, <1>4, <3>1, <3>2 DEF CalmCopy, At
      <4> QED BY <1>2, <3>2, <4>1 DEF CalmCopy
    <3>3. CASE u # s
          BY <1>2, <1>4, <3>1, <3>3 DEF CalmCopy
    <3> QED BY <3>2, <3>3
  <2> QED BY <1>1, <1>2, <1>5, <1>6, <2>1, <2>2, <2>3, <2>4, CalmPop
<1>10. Counts(g)'
       BY <1>2, <1>7, <1>9 DEF Counts
<1> QED BY <1>2, <1>6, <1>8, <1>10

\* A step of one copy: Goto.
LEMMA GoesTo ==
    ASSUME TypeOK, NEW u \in Copies, NEW at \in CopyAt, Goto(u, at, FIN)
    PROVE  /\ copy'[u].at = at /\ \A v \in Copies : v # u => copy'[v] = copy[v]
           /\ copy' \in [Copies -> [at : CopyAt, data : Nat]]
BY DEF TypeOK, Goto, FIN

\* CopyWrites fails only after the cut.
LEMMA CopyWritesKeeps ==
    ASSUME TypeOK, NEW f \in [Sockets -> Nat], Counts(f), NEW u \in Copies, CopyWrites(u)
    PROVE  Counts(f)' /\ (Sinks \/ (sock' = sock /\ inbox' \in [Sockets -> Seq(Nat)]))
<1>1. /\ At(u, "write") /\ CanWrite(Dst(u)) /\ Write(Dst(u), copy[u].data)
      /\ Goto(u, "read", FIN) /\ ends' = ends /\ cut' = cut
      BY DEF CopyWrites, Goto
<1>2. /\ Dst(u) \in Sockets /\ Onward(u) \in Sockets /\ Peer(Dst(u)) = Onward(u)
      /\ Peer(Onward(u)) = Dst(u) /\ sock[Dst(u)] = "open" /\ copy[u].data \in Nat
      BY <1>1, CopyFacts DEF CanWrite, Onward, Copies, TypeOK
<1>3. copy'[u].at = "read" /\ \A v \in Copies : v # u => copy'[v] = copy[v]
      BY <1>1, GoesTo DEF CopyAt
<1>4. OrderInv(f)
      BY DEF Counts
<1>5. CASE sock[Onward(u)] = "closed"
  <2>1. Sinks /\ sock'[Dst(u)] = "reset"
        BY <1>1, <1>2, <1>4, <1>5, WriteFails DEF OrderInv
  <2>2. \A v \in Copies : copy'[v] = copy[v] \/ (copy'[v].at = "read" /\ sock'[Dst(v)] # "open")
        BY <1>3, <2>1
  <2>3. OrderInv(f)'
        BY <1>1, <1>4, <2>1, <2>2, DeclineEnds
  <2>4. cut
    <3>1. ~cut => CalmInv(f)
          BY DEF Counts
    <3> QED BY <1>2, <1>5, <3>1, CalmPeers
  <2> QED BY <1>1, <2>1, <2>3, <2>4 DEF Counts
<1>6. CASE sock[Onward(u)] # "closed"
  <2>1. /\ OrderInv(f)' /\ sock' = sock /\ inbox' \in [Sockets -> Seq(Nat)]
        /\ \A t \in Sockets : t # Onward(u) => inbox'[t] = inbox[t]
        BY <1>4, <1>6, CopyPush
  <2>2. ASSUME ~cut
        PROVE  CalmInv(f)'
    <3>1. CalmInv(f)
          BY <2>2 DEF Counts
    <3>2. \A e \in Ends : sent'[e] = sent[e]
          BY <1>1 DEF ends
    <3>3. \A t \in Sockets : Over(t)' = Over(t)
      <4> TAKE t \in Sockets
      <4>1. CASE t = u
        <5>1. copy[u].at = "write" /\ copy'[u].at = "read"
              BY <1>1, <1>3 DEF At
        <5>2. ~Over(u) /\ ~Over(u)'
              BY <5>1 DEF Over
        <5>3. Over(u)' = Over(u)
              BY <5>1 DEF Over
        <5> QED BY <4>1, <5>3
      <4>2. CASE t # u
            BY <1>1, <1>3, <4>2 DEF Over, ends
      <4> QED BY <4>1, <4>2
    <3>4. \A v \in Copies : CalmCopy(v)'
      <4> TAKE v \in Copies
      <4>1. CalmCopy(v)
            BY <3>1 DEF CalmInv
      <4>2. CASE v = u
            BY <1>2, <1>3, <2>1, <4>2 DEF CalmCopy
      <4>3. CASE v # u
            BY <1>3, <2>1, <4>1, <4>3 DEF CalmCopy
      <4> QED BY <4>2, <4>3
    <3> QED BY <1>2, <2>1, <3>1, <3>2, <3>3, <3>4, CalmPush
  <2> QED BY <1>1, <2>1, <2>2 DEF Counts
<1> QED BY <1>5, <1>6

\* Before the cut no copy fails.
LEMMA CalmNeverFails ==
    ASSUME NEW f \in [Sockets -> Nat], CalmInv(f), NEW u \in Copies
    PROVE  ~Failed(u) /\ ~At(u, "closedst") /\ ~At(u, "closesrc")
<1>1. CalmCopy(u) /\ CalmSocket(f, u)
      BY CopyFacts DEF CalmInv
<1>2. ~(At(u, "write") /\ sock[Dst(u)] # "open")
      BY <1>1 DEF CalmCopy, At
<1>3. ~(At(u, "read") /\ ReadFails(u))
      BY <1>1 DEF CalmSocket, Over, At, ReadFails
<1>4. ~At(u, "closedst") /\ ~At(u, "closesrc")
      BY <1>1 DEF CalmCopy, At
<1> QED BY <1>2, <1>3, <1>4 DEF Failed

\* A copy that fails loses what it holds, and stops writing for good.
LEMMA CopyFailsKeeps ==
    ASSUME TypeOK, NEW f \in [Sockets -> Nat], Counts(f), NEW u \in Copies,
           CopyFails(u) \/ CloseDst(u) \/ CloseSrc(u)
    PROVE  Counts(f)' /\ Sinks
<1>1. OrderInv(f) /\ Broken /\ u \in Sockets /\ Dst(u) \in Sockets
      BY CopyFacts DEF Counts, OrderInv, Copies
<1>2. cut /\ cut' = cut /\ ends' = ends
      BY CalmNeverFails DEF Counts, CopyFails, CloseDst, CloseSrc
<1>3. \E at \in {"closedst", "closesrc", "done"} : Goto(u, at, FIN)
      BY DEF CopyFails, CloseDst, CloseSrc
<1>4. \A v \in Copies : copy'[v] = copy[v] \/ copy'[v].at \in {"closedst", "closesrc", "done"}
  <2>1. PICK at \in {"closedst", "closesrc", "done"} : Goto(u, at, FIN)
        BY <1>3
  <2>2. at \in CopyAt
        BY DEF CopyAt
  <2> QED BY <2>1, <2>2, GoesTo
<1>5. Sinks
      BY <1>1, SameSinks, CloseSinks DEF CopyFails, CloseDst, CloseSrc
<1>6. OrderInv(f)'
      BY <1>1, <1>2, <1>4, <1>5, DeclineEnds
<1> QED BY <1>2, <1>5, <1>6 DEF Counts

\* The FIN a copy passes on is behind all that it took.
LEMMA CopyEndsKeeps ==
    ASSUME TypeOK, NEW f \in [Sockets -> Nat], Counts(f), NEW u \in Copies, CopyEnds(u)
    PROVE  Counts(f)' /\ Sinks
<1> DEFINE s == Dst(u)
<1>1. At(u, "eof") /\ CloseWrite(s) /\ Goto(u, "done", FIN) /\ ends' = ends /\ cut' = cut
      BY DEF CopyEnds, Goto
<1>2. /\ s \in Sockets /\ Peer(s) = Onward(u) /\ Source(Onward(u)) = Source(u) /\ u \in Sockets
      /\ sock \in [Sockets -> Status]
      BY CopyFacts, Types DEF Onward, Copies
<1>3. copy'[u].at = "done" /\ \A v \in Copies : v # u => copy'[v] = copy[v]
      BY <1>1, GoesTo DEF CopyAt
<1>4. OrderInv(f)
      BY DEF Counts
<1>5. /\ Sinks /\ sock' = [sock EXCEPT ![s] = IF @ = "open" THEN "shut" ELSE @]
      /\ inbox' = IF sock[s] = "open" /\ Live(Peer(s))
                  THEN [inbox EXCEPT ![Peer(s)] = Append(inbox[Peer(s)], FIN)] ELSE inbox
      BY <1>1, <1>2, <1>4, CloseWriteSinks DEF OrderInv
<1>6. OrderInv(f)'
      BY <1>1, <1>3, <1>4, <1>5, DeclineEnds
<1>7. ASSUME ~cut
      PROVE  CalmInv(f)'
  <2>1. CalmInv(f)
        BY <1>7 DEF Counts
  <2>2. copy[u].at = "eof" /\ sock[s] = "open"
        BY <1>1, <2>1 DEF CalmInv, CalmCopy, At
  <2>3. Live(Peer(s))
    <3>1. sock[Peer(s)] \in Status
          BY <1>2, CopyFacts
    <3> QED BY <1>2, <2>1, <2>2, <3>1, CalmPeers DEF Live, Status
  <2>4. sock' = [sock EXCEPT ![s] = "shut"]
        BY <1>2, <1>5, <2>2
  <2>5. \A t \in Sockets : Over(t)' = Over(t)
    <3> TAKE t \in Sockets
    <3>1. CASE t = u
          BY <1>3, <2>2, <3>1 DEF Over
    <3>2. CASE t # u
          BY <1>1, <1>3, <3>2 DEF Over, ends
    <3> QED BY <3>1, <3>2
  <2>6. CalmSocket(f, u) /\ Over(u)
        BY <1>2, <2>1, <2>2 DEF CalmInv, Over
  <2>7. f[u] = sent[Source(u)] /\ sock[Own(Source(u))] # "open"
        BY <2>6 DEF CalmSocket
  <2>8. f[Onward(u)] + Len(inbox[Onward(u)]) = f[u]
    <3>1. CopyKeepsUp(f, u)
          BY <1>4 DEF OrderInv
    <3> QED BY <1>2, <2>2, <2>3, <3>1 DEF CopyKeepsUp, Live
  <2>9. \A v \in Copies : CalmCopy(v)'
    <3> TAKE v \in Copies
    <3>1. CalmCopy(v)
          BY <2>1 DEF CalmInv
    <3>2. CASE v = u
          BY <1>2, <1>3, <2>4, <3>2 DEF CalmCopy
    <3>3. CASE v # u
      <4>1. Dst(v) # s /\ Dst(v) \in Sockets
            BY <3>3, CopyFacts DEF Copies
      <4>2. sock'[Dst(v)] = sock[Dst(v)]
            BY <1>2, <2>4, <4>1
      <4> QED BY <1>3, <3>1, <3>3, <4>2 DEF CalmCopy
    <3> QED BY <3>2, <3>3
  <2> HIDE DEF s
  <2>10. sent' = sent
         BY <1>1 DEF ends
  <2> QED BY <1>2, <1>5, <2>1, <2>2, <2>3, <2>4, <2>5, <2>7, <2>8, <2>9, <2>10, CalmDown
<1> QED BY <1>1, <1>5, <1>6, <1>7 DEF Counts

\* Join closes sockets that are over both ways.
LEMMA JoinClosesKeeps ==
    ASSUME TypeOK, NEW f \in [Sockets -> Nat], Counts(f), NEW s \in Copies, JoinCloses(s)
    PROVE  Counts(f)' /\ Sinks
<1>1. /\ At(s, "done") /\ At(Dst(s), "done") /\ Close(s)
      /\ copy' = copy /\ ends' = ends /\ cut' = cut
      BY DEF JoinCloses
<1>2. s \in Sockets /\ Dst(s) \in Copies /\ Dst(Dst(s)) = s /\ sock \in [Sockets -> Status]
      BY CopyFacts, Types
<1>3. Sinks /\ OrderInv(f)
      BY <1>1, <1>2, CloseSinks DEF Counts, OrderInv
<1>4. OrderInv(f)'
      BY <1>1, <1>3, DeclineEnds
<1>5. ASSUME ~cut
      PROVE  CalmInv(f)'
  <2>1. CalmInv(f)
        BY <1>5 DEF Counts
  <2>2. Over(s)
        BY <1>1 DEF Over, At
  <2>3. sock[s] # "open"
        BY <1>1, <1>2, <2>1 DEF CalmInv, CalmCopy, At
  <2>4. sock' = [sock EXCEPT ![s] = "closed"] /\ inbox' = inbox
        BY <1>1, <1>2, <2>1, <2>2, <2>3, CalmClose
  <2>5. \A t \in Sockets : Over(t)' = Over(t)
        BY <1>1 DEF Over, ends
  <2>6. \A u \in Copies : CalmCopy(u)'
    <3> TAKE u \in Copies
    <3>1. CalmCopy(u) /\ Dst(u) \in Sockets
          BY <2>1, CopyFacts DEF CalmInv, Copies
    <3>2. sock'[Dst(u)] = "open" <=> sock[Dst(u)] = "open"
          BY <1>2, <2>3, <2>4, <3>1
    <3> QED BY <1>1, <3>1, <3>2 DEF CalmCopy
  <2> QED BY <1>1, <1>2, <2>1, <2>2, <2>3, <2>4, <2>5, <2>6, CalmDown DEF ends
<1> QED BY <1>1, <1>3, <1>4, <1>5 DEF Counts

-----------------------------------------------------------------------------
(* The streams.                                                              *)

\* What a step does to the stream that the end w writes.
StreamStep(w) ==
    \/ \* End, Cut or a stutter
       /\ sent'[w] = sent[w] /\ got'[Other(w)] = got[Other(w)] /\ heard'[Other(w)] = heard[Other(w)]
       /\ sock'[Own(w)] = "open" => sock[Own(w)] = "open"
       /\ cut => cut'
    \/ \* Write
       /\ sock[Own(w)] = "open" /\ sent'[w] = sent[w] + 1
       /\ sock'[Own(w)] = "open" \/ cut
       /\ got'[Other(w)] = got[Other(w)] /\ heard'[Other(w)] = heard[Other(w)] /\ cut' = cut
    \/ \* Read
       /\ ~heard[Other(w)] /\ Len(got[Other(w)]) < sent[w]
       /\ got'[Other(w)] = Append(got[Other(w)], Len(got[Other(w)]) + 1)
       /\ sent'[w] = sent[w] /\ sock' = sock /\ heard'[Other(w)] = heard[Other(w)] /\ cut' = cut
    \/ \* Hear
       /\ cut \/ (sock[Own(w)] # "open" /\ Len(got[Other(w)]) = sent[w])
       /\ heard'[Other(w)] = TRUE
       /\ sent'[w] = sent[w] /\ sock' = sock /\ got'[Other(w)] = got[Other(w)] /\ cut' = cut

\* Nothing that the ends wrote, read or heard.
LEMMA QuietStep ==
    ASSUME TypeOK, Sinks \/ (sock' = sock /\ inbox' \in [Sockets -> Seq(Nat)]), ends' = ends,
           copy' \in [Copies -> [at : CopyAt, data : Nat]], cut' \in BOOLEAN, cut => cut'
    PROVE  TypeOK' /\ \A w \in Ends : StreamStep(w)
<1>1. sent' = sent /\ got' = got /\ heard' = heard
      BY DEF ends
<1>2. sock' \in [Sockets -> Status] /\ inbox' \in [Sockets -> Seq(Nat)]
      BY DEF Sinks, TypeOK, Status
<1>3. \A s \in Sockets : sock'[s] = "open" => sock[s] = "open"
      BY DEF Sinks
<1>4. \A w \in Ends : StreamStep(w)
      BY <1>1, <1>3, EndFacts DEF StreamStep
<1> QED BY <1>1, <1>2, <1>4 DEF TypeOK, Status

\* EndWrites is Write for its stream, and nothing for the other.
LEMMA EndWritesStreams ==
    ASSUME TypeOK, NEW f \in [Sockets -> Nat], Counts(f), NEW e \in Ends, EndWrites(e)
    PROVE  TypeOK' /\ \A w \in Ends : StreamStep(w)
<1>1. /\ sock[Own(e)] = "open" /\ sent[e] < MaxSent[e] /\ sent' = [sent EXCEPT ![e] = @ + 1]
      /\ copy' = copy /\ got' = got /\ heard' = heard /\ cut' = cut
      BY DEF EndWrites, CanWrite
<1>2. (Sinks /\ cut) \/ (sock' = sock /\ inbox' \in [Sockets -> Seq(Nat)])
      BY EndWritesKeeps
<1>3. sock' \in [Sockets -> Status] /\ inbox' \in [Sockets -> Seq(Nat)]
      BY <1>2 DEF Sinks, TypeOK, Status
<1>4. \A s \in Sockets : sock'[s] = "open" => sock[s] = "open"
      BY <1>2 DEF Sinks
<1>5. /\ sent' \in [Ends -> Nat] /\ sent'[e] = sent[e] + 1 /\ sent'[e] <= MaxSent[e]
      /\ \A d \in Ends : d # e => sent'[d] = sent[d]
  <2>1. sent \in [Ends -> Nat] /\ sent[e] \in Nat /\ MaxSent[e] \in Nat
        BY DEF TypeOK
  <2> QED BY <1>1, <2>1
<1>6. TypeOK'
      BY <1>1, <1>3, <1>5 DEF TypeOK, Status
<1>7. ASSUME NEW w \in Ends
      PROVE  StreamStep(w)
  <2>1. Own(w) \in Sockets
        BY EndFacts
  <2>2. CASE w = e
        BY <1>1, <1>2, <1>5, <2>2 DEF StreamStep
  <2>3. CASE w # e
        BY <1>1, <1>4, <1>5, <2>1, <2>3 DEF StreamStep
  <2> QED BY <2>2, <2>3
<1> QED BY <1>6, <1>7

\* EndReads is Read, or Hear, for the stream that comes in.
LEMMA EndReadsStreams ==
    ASSUME TypeOK, NEW f \in [Sockets -> Nat], Counts(f), NEW e \in Ends, EndReads(e)
    PROVE  TypeOK' /\ \A w \in Ends : StreamStep(w)
<1> DEFINE s == Own(e)
<1>1. /\ s \in Sockets /\ s \notin Copies /\ s[1] = e /\ inbox[s] # <<>> /\ Source(s) = Other(e)
      /\ Other(e) \in Ends /\ Other(e) # e /\ Other(Other(e)) = e /\ Own(Source(s)) = Own(Other(e))
      BY EndFacts DEF EndReads, CanRead
<1>2. /\ CanRead(s) /\ ~heard[e] /\ inbox' = [inbox EXCEPT ![s] = Tail(inbox[s])]
      /\ Head(inbox[s]) = FIN => heard' = [heard EXCEPT ![e] = TRUE]
      /\ Head(inbox[s]) # FIN => heard' = heard
      /\ sock' = sock /\ sent' = sent /\ copy' = copy /\ cut' = cut
      BY <1>1, Types DEF EndReads
<1>3. heard \in [Ends -> BOOLEAN] /\ OrderInv(f)
      BY DEF TypeOK, Counts
<1>4. /\ got' \in [Ends -> Seq(Nat)]
      /\ Head(inbox[s]) = FIN => got' = got
      /\ Head(inbox[s]) # FIN =>
            /\ got'[e] = Append(got[e], Len(got[e]) + 1) /\ Len(got[e]) < sent[Other(e)]
            /\ \A d \in Ends : d # e => got'[d] = got[d]
  <2>1. PICK g : g = Took(f, s)
        OBVIOUS
  <2> QED BY <1>3, <2>1, EndPop
<1>5. inbox' \in [Sockets -> Seq(Nat)]
      BY EndReadsKeeps
<1>6. heard' \in [Ends -> BOOLEAN] /\ \A d \in Ends : d # e => heard'[d] = heard[d]
      BY <1>2, <1>3
<1>7. TypeOK'
      BY <1>2, <1>4, <1>5, <1>6 DEF TypeOK
<1>8. ASSUME Head(inbox[s]) = FIN, ~cut
      PROVE  sock[Own(Other(e))] # "open" /\ Len(got[e]) = sent[Other(e)]
  <2>1. CalmSocket(f, s) /\ ~Over(s)
        BY <1>1, <1>2, <1>8 DEF Counts, CalmInv, Over
  <2>2. sock[Peer(s)] # "open"
    <3>1. InOrder(f, s)
          BY <1>1, <1>3 DEF OrderInv
    <3>2. 1 \in 1 .. Len(inbox[s]) /\ inbox[s][1] = FIN
          BY <1>1, <1>3, <1>8, HeadIsNext
    <3> QED BY <1>2, <3>1, <3>2 DEF InOrder, CanRead
  <2>3. Len(inbox[s]) = 1
        BY <1>1, <1>3, <1>8, HeadIsNext
  <2>4. sock[Own(Other(e))] # "open" /\ f[s] + 1 = sent[Other(e)] + 1
        BY <1>1, <2>1, <2>2, <2>3 DEF CalmSocket
  <2>5. EndKeepsUp(f, e) /\ sent[Other(e)] \in Nat /\ f[s] \in Nat
        BY <1>1, <1>3 DEF OrderInv, TypeOK
  <2> QED BY <2>4, <2>5 DEF EndKeepsUp
<1>9. StreamStep(e)
      BY <1>1, <1>2, <1>4, <1>6 DEF StreamStep
<1>10. StreamStep(Other(e))
  <2>1. CASE Head(inbox[s]) = FIN
    <3>1. heard'[e] = TRUE
          BY <1>2, <1>3, <2>1
    <3> QED BY <1>1, <1>2, <1>4, <1>8, <2>1, <3>1 DEF StreamStep
  <2>2. CASE Head(inbox[s]) # FIN
        BY <1>1, <1>2, <1>4, <2>2 DEF StreamStep
  <2> QED BY <2>1, <2>2
<1>11. \A w \in Ends : w = e \/ w = Other(e)
       BY DEF Ends, Other
<1> QED BY <1>7, <1>9, <1>10, <1>11

\* EndHearsError is Hear after a cut.
LEMMA EndHearsErrorStreams ==
    ASSUME TypeOK, NEW f \in [Sockets -> Nat], Counts(f), NEW e \in Ends, EndHearsError(e)
    PROVE  TypeOK' /\ \A w \in Ends : StreamStep(w)
<1>1. /\ heard' = [heard EXCEPT ![e] = TRUE] /\ sock' = sock /\ inbox' = inbox /\ copy' = copy
      /\ sent' = sent /\ got' = got /\ cut' = cut /\ cut
      BY EndHearsErrorKeeps DEF EndHearsError
<1>2. heard' \in [Ends -> BOOLEAN] /\ heard'[e] = TRUE /\ \A d \in Ends : d # e => heard'[d] = heard[d]
      BY <1>1 DEF TypeOK
<1>3. TypeOK'
      BY <1>1, <1>2 DEF TypeOK
<1>4. ASSUME NEW w \in Ends
      PROVE  StreamStep(w)
  <2>1. Other(w) \in Ends
        BY EndFacts
  <2>2. CASE Other(w) = e
        BY <1>1, <1>2, <2>2 DEF StreamStep
  <2>3. CASE Other(w) # e
        BY <1>1, <1>2, <2>1, <2>3 DEF StreamStep
  <2> QED BY <2>2, <2>3
<1> QED BY <1>3, <1>4

\* A copy stays a copy.
LEMMA CopyTypes ==
    ASSUME TypeOK, NEW s \in Copies, Copy(s)
    PROVE  copy' \in [Copies -> [at : CopyAt, data : Nat]] /\ ends' = ends /\ cut' = cut
<1>1. CASE CopyReads(s)
  <2>1. inbox[s] \in Seq(Nat) /\ inbox[s] # <<>>
        BY <1>1, Types, CopyFacts DEF CopyReads, CanRead
  <2>2. Head(inbox[s]) \in Nat
        BY <2>1, HeadTailProperties
  <2> QED BY <1>1, <2>2 DEF CopyReads, Goto, TypeOK, CopyAt
<1>2. CASE JoinCloses(s)
      BY <1>2 DEF JoinCloses, TypeOK
<1>3. CASE CopyWrites(s) \/ CopyFails(s) \/ CloseDst(s) \/ CloseSrc(s) \/ CopyEnds(s)
  <2>1. ends' = ends /\ cut' = cut /\ \E at \in CopyAt : Goto(s, at, FIN)
        BY <1>3 DEF CopyWrites, CopyFails, CloseDst, CloseSrc, CopyEnds, CopyAt
  <2> QED BY <2>1, GoesTo
<1> QED BY <1>1, <1>2, <1>3 DEF Copy

-----------------------------------------------------------------------------
(* The theorems.                                                             *)

\* No message has been taken.
LEMMA InitInv == Init => Inv
<1> SUFFICES ASSUME Init PROVE Inv
    OBVIOUS
<1> DEFINE f == [s \in Sockets |-> 0]
<1>1. TypeOK
  <2>1. <<>> \in Seq(Nat)
        OBVIOUS
  <2>2. \A e \in Ends : MaxSent[e] \in Nat
        OBVIOUS
  <2>3. sock \in [Sockets -> {"open", "shut", "reset", "closed"}]
        BY DEF Init
  <2>4. inbox \in [Sockets -> Seq(Nat)]
        BY <2>1 DEF Init
  <2>5. copy \in [Copies -> [at : CopyAt, data : Nat]]
        BY DEF Init, CopyAt, FIN
  <2>6. sent \in [Ends -> Nat] /\ \A e \in Ends : sent[e] <= MaxSent[e]
        BY <2>2 DEF Init
  <2>7. got \in [Ends -> Seq(Nat)]
        BY <2>1 DEF Init
  <2>8. heard \in [Ends -> BOOLEAN] /\ cut \in BOOLEAN
        BY DEF Init
  <2> QED BY <2>3, <2>4, <2>5, <2>6, <2>7, <2>8 DEF TypeOK
<1>2. \A s \in Sockets : sock[s] = "open" /\ inbox[s] = <<>> /\ f[s] = 0 /\ Source(s) \in Ends /\ Peer(s) \in Sockets
                         /\ Len(inbox[s]) = 0
      BY SocketKinds, PeerFacts DEF Init
<1>3. /\ \A u \in Copies : /\ copy[u].at = "read"
                           /\ u \in Sockets /\ Dst(u) \in Sockets /\ Onward(u) \in Sockets
      /\ \A e \in Ends : /\ sent[e] = 0 /\ got[e] = <<>> /\ heard[e] = FALSE
                         /\ Own(e) \in Sockets /\ First(e) \in Sockets
      BY CopyFacts, EndFacts DEF Init, Copies
<1> HIDE DEF f
<1>4. \A s \in Sockets : InOrder(f, s)
      BY <1>2, <1>3 DEF InOrder
<1>5. \A u \in Copies : CopyKeepsUp(f, u)
      BY <1>2, <1>3 DEF CopyKeepsUp, At
<1>6. \A e \in Ends : EndKeepsUp(f, e)
      BY <1>2, <1>3 DEF EndKeepsUp
<1>7. OrderInv(f)
      BY <1>2, <1>4, <1>5, <1>6 DEF OrderInv, Broken
<1>8. \A s \in Sockets : ~Over(s)
  <2> TAKE s \in Sockets
  <2>1. CASE s \in Copies
        BY <1>3, <2>1 DEF Over
  <2>2. CASE s \notin Copies
    <3>1. PICK e \in Ends : s = Own(e)
          BY <2>2, SocketKinds
    <3> QED BY <1>3, <2>2, <3>1, EndFacts DEF Over
  <2> QED BY <2>1, <2>2
<1>9. CalmInv(f)
      BY <1>2, <1>3, <1>8 DEF CalmInv, CalmSocket, CalmCopy
<1>10. f \in [Sockets -> Nat]
       BY DEF f
<1> QED BY <1>1, <1>7, <1>9, <1>10 DEF Inv, Counts

\* Every step keeps the invariant and is a step of both streams.
LEMMA NextInv ==
    ASSUME Inv, [Next]_vars
    PROVE  Inv' /\ \A w \in Ends : StreamStep(w)
<1>1. TypeOK
      BY DEF Inv
<1>2. PICK f \in [Sockets -> Nat] : Counts(f)
      BY DEF Inv
<1> DEFINE Goal == TypeOK' /\ (\E g \in [Sockets -> Nat] : Counts(g)') /\ \A w \in Ends : StreamStep(w)
           Moves == Sinks \/ (sock' = sock /\ inbox' \in [Sockets -> Seq(Nat)])
<1>3. copy \in [Copies -> [at : CopyAt, data : Nat]] /\ cut \in BOOLEAN /\ heard \in [Ends -> BOOLEAN]
      BY <1>1 DEF TypeOK
<1>4. ASSUME NEW s \in Copies, Copy(s)
      PROVE  Goal
  <2>1. (\E g \in [Sockets -> Nat] : Counts(g)') /\ Moves
    <3>1. CASE CopyReads(s)
          BY <1>1, <1>2, <3>1, CopyReadsKeeps
    <3>2. CASE CopyWrites(s)
          BY <1>1, <1>2, <3>2, CopyWritesKeeps
    <3>3. CASE CopyFails(s) \/ CloseDst(s) \/ CloseSrc(s)
          BY <1>1, <1>2, <3>3, CopyFailsKeeps
    <3>4. CASE CopyEnds(s)
          BY <1>1, <1>2, <3>4, CopyEndsKeeps
    <3>5. CASE JoinCloses(s)
          BY <1>1, <1>2, <3>5, JoinClosesKeeps
    <3> QED BY <1>4, <3>1, <3>2, <3>3, <3>4, <3>5 DEF Copy
  <2>2. copy' \in [Copies -> [at : CopyAt, data : Nat]] /\ ends' = ends /\ cut' = cut
        BY <1>1, <1>4, CopyTypes
  <2>3. TypeOK' /\ \A w \in Ends : StreamStep(w)
        BY <1>1, <1>3, <2>1, <2>2, QuietStep
  <2> QED BY <2>1, <2>3
<1>5. ASSUME NEW e \in Ends, EndReads(e)
      PROVE  Goal
      BY <1>1, <1>2, <1>5, EndReadsKeeps, EndReadsStreams
<1>6. ASSUME NEW e \in Ends, EndHearsError(e)
      PROVE  Goal
      BY <1>1, <1>2, <1>6, EndHearsErrorKeeps, EndHearsErrorStreams
<1>7. ASSUME NEW e \in Ends, EndWrites(e)
      PROVE  Goal
      BY <1>1, <1>2, <1>7, EndWritesKeeps, EndWritesStreams
<1>8. ASSUME NEW e \in Ends, EndShuts(e)
      PROVE  Goal
  <2>1. Counts(f)' /\ Sinks
        BY <1>1, <1>2, <1>8, EndShutsKeeps
  <2>2. copy' = copy /\ ends' = ends /\ cut' = cut
        BY <1>8 DEF EndShuts
  <2>3. TypeOK' /\ \A w \in Ends : StreamStep(w)
        BY <1>1, <1>3, <2>1, <2>2, QuietStep
  <2> QED BY <1>2, <2>1, <2>3
<1>9. ASSUME NEW e \in Ends, EndCloses(e)
      PROVE  Goal
  <2>1. Counts(f)' /\ Sinks
        BY <1>1, <1>2, <1>9, EndClosesKeeps
  <2>2. copy' = copy /\ ends' = ends /\ cut' = (cut \/ ~heard[e])
        BY <1>9 DEF EndCloses
  <2>3. TypeOK' /\ \A w \in Ends : StreamStep(w)
        BY <1>1, <1>3, <2>1, <2>2, QuietStep
  <2> QED BY <1>2, <2>1, <2>3
<1>10. ASSUME NEW s \in Sockets, Break(s)
       PROVE  Goal
  <2>1. Counts(f)' /\ Sinks
        BY <1>1, <1>2, <1>10, BreakKeeps
  <2>2. copy' = copy /\ ends' = ends /\ cut' = TRUE
        BY <1>10 DEF Break
  <2>3. TypeOK' /\ \A w \in Ends : StreamStep(w)
        BY <1>1, <1>3, <2>1, <2>2, QuietStep
  <2> QED BY <1>2, <2>1, <2>3
<1>11. ASSUME UNCHANGED vars
       PROVE  Goal
  <2>1. /\ sock' = sock /\ inbox' = inbox /\ copy' = copy /\ ends' = ends /\ cut' = cut
        /\ sent' = sent /\ got' = got /\ heard' = heard
        BY <1>11 DEF vars, ends
  <2>2. TypeOK' /\ \A w \in Ends : StreamStep(w)
    <3>1. inbox' \in [Sockets -> Seq(Nat)]
          BY <1>1, <2>1 DEF TypeOK
    <3> QED BY <1>1, <1>3, <2>1, <3>1, QuietStep
  <2>3. OrderInv(f)'
        BY <1>2, <2>1, StillCounts DEF Counts
  <2>4. CalmInv(f) => CalmInv(f)'
        BY <2>1 DEF CalmInv, CalmSocket, CalmCopy, Over
  <2>5. Counts(f)'
        BY <1>2, <2>1, <2>3, <2>4 DEF Counts
  <2> QED BY <1>2, <2>2, <2>5
<1>12. Goal
       BY <1>4, <1>5, <1>6, <1>7, <1>8, <1>9, <1>10, <1>11 DEF Next, Listens
<1> QED BY <1>12 DEF Inv

\* The inductive invariant.
LEMMA InvHolds == Spec => []Inv
<1>1. Init => Inv
      BY InitInv
<1>2. Inv /\ [Next]_vars => Inv'
      BY NextInv
<1> QED BY <1>1, <1>2, PTL DEF Spec

\* The variables keep their types, and no end writes more than MaxSent.
THEOREM TypeCorrect == Spec => []TypeOK
<1>1. Inv => TypeOK
      BY DEF Inv
<1> QED BY <1>1, InvHolds, PTL

\* What Stream promises: each direction of the chain is one stream, which loses,
\* doubles and reorders nothing and ends only after all of it, however long the
\* chain is and whatever its copies, breaks and ends do.
THEOREM ChainIsStreams == Spec => ImplementsStreams
<1>1. Other(1) = Last /\ Other(Last) = 1 /\ 1 \in Ends /\ Last \in Ends
      BY DEF Other, Ends
<1>2. Init => Up!Init /\ Down!Init
  <2> SUFFICES ASSUME Init PROVE Up!Init /\ Down!Init
      OBVIOUS
  <2>1. \A e \in Ends : sock[Own(e)] = "open" /\ sent[e] = 0 /\ got[e] = <<>> /\ ~heard[e]
        BY EndFacts DEF Init
  <2>2. ~cut
        BY DEF Init
  <2> QED BY <1>1, <2>1, <2>2 DEF Up!Init, Down!Init
<1>3. ASSUME Inv, [Next]_vars
      PROVE  [Up!Next]_Up!vars
  <2>1. StreamStep(1) /\ Other(1) = Last
        BY <1>1, <1>3, NextInv
  <2>2. cut \in BOOLEAN /\ cut' \in BOOLEAN
    <3>1. Inv'
          BY <1>3, NextInv
    <3> QED BY <1>3, <3>1 DEF Inv, TypeOK
  <2>3. CASE /\ sent'[1] = sent[1] /\ got'[Last] = got[Last] /\ heard'[Last] = heard[Last]
             /\ sock'[Own(1)] = "open" => sock[Own(1)] = "open"
             /\ cut => cut'
    <3>1. CASE cut' = cut /\ sock'[Own(1)] # "open"
      <4>1. Up!End
            BY <2>3, <3>1 DEF Up!End
      <4> QED BY <4>1 DEF Up!Next
    <3>2. CASE cut' = cut /\ sock'[Own(1)] = "open"
      <4>1. UNCHANGED Up!vars
            BY <2>3, <3>2 DEF Up!vars
      <4> QED BY <4>1
    <3>3. CASE cut' # cut
      <4>1. cut' = TRUE
            BY <2>2, <2>3, <3>3
      <4>2. (sock'[Own(1)] # "open") \in {sock[Own(1)] # "open", TRUE}
            BY <2>3
      <4>3. Up!Cut
            BY <2>3, <4>1, <4>2 DEF Up!Cut
      <4> QED BY <4>3 DEF Up!Next
    <3> QED BY <3>1, <3>2, <3>3
  <2>4. CASE /\ sock[Own(1)] = "open" /\ sent'[1] = sent[1] + 1
             /\ sock'[Own(1)] = "open" \/ cut
             /\ got'[Last] = got[Last] /\ heard'[Last] = heard[Last] /\ cut' = cut
    <3>1. (sock'[Own(1)] # "open") \in {FALSE, cut}
          BY <2>2, <2>4
    <3>2. Up!Write
          BY <2>4, <3>1 DEF Up!Write
    <3> QED BY <3>2 DEF Up!Next
  <2>5. CASE /\ ~heard[Last] /\ Len(got[Last]) < sent[1]
             /\ got'[Last] = Append(got[Last], Len(got[Last]) + 1)
             /\ sent'[1] = sent[1] /\ sock' = sock /\ heard'[Last] = heard[Last] /\ cut' = cut
    <3>1. Up!Read
          BY <2>5 DEF Up!Read
    <3> QED BY <3>1 DEF Up!Next
  <2>6. CASE /\ cut \/ (sock[Own(1)] # "open" /\ Len(got[Last]) = sent[1])
             /\ heard'[Last] = TRUE
             /\ sent'[1] = sent[1] /\ sock' = sock /\ got'[Last] = got[Last] /\ cut' = cut
    <3>1. Up!Hear
          BY <2>6 DEF Up!Hear
    <3> QED BY <3>1 DEF Up!Next
  <2> QED BY <2>1, <2>3, <2>4, <2>5, <2>6 DEF StreamStep
<1>4. ASSUME Inv, [Next]_vars
      PROVE  [Down!Next]_Down!vars
  <2>1. StreamStep(Last) /\ Other(Last) = 1
        BY <1>1, <1>4, NextInv
  <2>2. cut \in BOOLEAN /\ cut' \in BOOLEAN
    <3>1. Inv'
          BY <1>4, NextInv
    <3> QED BY <1>4, <3>1 DEF Inv, TypeOK
  <2>3. CASE /\ sent'[Last] = sent[Last] /\ got'[1] = got[1] /\ heard'[1] = heard[1]
             /\ sock'[Own(Last)] = "open" => sock[Own(Last)] = "open"
             /\ cut => cut'
    <3>1. CASE cut' = cut /\ sock'[Own(Last)] # "open"
      <4>1. Down!End
            BY <2>3, <3>1 DEF Down!End
      <4> QED BY <4>1 DEF Down!Next
    <3>2. CASE cut' = cut /\ sock'[Own(Last)] = "open"
      <4>1. UNCHANGED Down!vars
            BY <2>3, <3>2 DEF Down!vars
      <4> QED BY <4>1
    <3>3. CASE cut' # cut
      <4>1. cut' = TRUE
            BY <2>2, <2>3, <3>3
      <4>2. (sock'[Own(Last)] # "open") \in {sock[Own(Last)] # "open", TRUE}
            BY <2>3
      <4>3. Down!Cut
            BY <2>3, <4>1, <4>2 DEF Down!Cut
      <4> QED BY <4>3 DEF Down!Next
    <3> QED BY <3>1, <3>2, <3>3
  <2>4. CASE /\ sock[Own(Last)] = "open" /\ sent'[Last] = sent[Last] + 1
             /\ sock'[Own(Last)] = "open" \/ cut
             /\ got'[1] = got[1] /\ heard'[1] = heard[1] /\ cut' = cut
    <3>1. (sock'[Own(Last)] # "open") \in {FALSE, cut}
          BY <2>2, <2>4
    <3>2. Down!Write
          BY <2>4, <3>1 DEF Down!Write
    <3> QED BY <3>2 DEF Down!Next
  <2>5. CASE /\ ~heard[1] /\ Len(got[1]) < sent[Last]
             /\ got'[1] = Append(got[1], Len(got[1]) + 1)
             /\ sent'[Last] = sent[Last] /\ sock' = sock /\ heard'[1] = heard[1] /\ cut' = cut
    <3>1. Down!Read
          BY <2>5 DEF Down!Read
    <3> QED BY <3>1 DEF Down!Next
  <2>6. CASE /\ cut \/ (sock[Own(Last)] # "open" /\ Len(got[1]) = sent[Last])
             /\ heard'[1] = TRUE
             /\ sent'[Last] = sent[Last] /\ sock' = sock /\ got'[1] = got[1] /\ cut' = cut
    <3>1. Down!Hear
          BY <2>6 DEF Down!Hear
    <3> QED BY <3>1 DEF Down!Next
  <2> QED BY <2>1, <2>3, <2>4, <2>5, <2>6 DEF StreamStep
<1> QED BY <1>2, <1>3, <1>4, InvHolds, PTL DEF Spec, ImplementsStreams, Up!Spec, Down!Spec

=============================================================================
