--------------------------- MODULE CertStoreProofs ---------------------------
(* What TLAPS proves of CertStore, for any processes, jobs, numbers of         *)
(* certificates, rotations and failures; and of Listing, for any stored paths. *)
EXTENDS CertStore, SequenceTheorems, WellFoundedInduction, TLAPS

-----------------------------------------------------------------------------
(* Induction over the length of a sequence, for sets of numbers: what the     *)
(* recursive FlattenSeq computes, and what a text of joined names stands for.  *)

LEMMA Least ==
    ASSUME NEW T \in SUBSET Nat, T # {}
    PROVE  \E x \in T : \A y \in T : x <= y
<1>1. PICK x \in T : \A y \in T : ~(<<y, x>> \in OpToRel(<, Nat))
      BY WFMin, NatLessThanWellFounded
<1>2. ASSUME NEW y \in T
      PROVE  x <= y
  <2>1. x \in Nat /\ y \in Nat
        OBVIOUS
  <2>2. ~(y < x)
        BY <1>1, <2>1 DEF OpToRel
  <2> QED BY <2>1, <2>2
<1> QED BY <1>2

LEMMA Induction ==
    ASSUME NEW S, 0 \in S, \A n \in Nat : n \in S => n + 1 \in S
    PROVE  \A n \in Nat : n \in S
<1>1. SUFFICES ASSUME Nat \ S # {} PROVE FALSE
      OBVIOUS
<1>2. PICK x \in Nat \ S : \A y \in Nat \ S : x <= y
      BY <1>1, Least
<1>3. x - 1 \in Nat /\ x - 1 \notin Nat \ S
      BY <1>2
<1> QED BY <1>2, <1>3

-----------------------------------------------------------------------------
(* FlattenSeq of texts: the recursive function exists, it does not depend on  *)
(* what follows, and one more text is appended.                               *)

\* A text is a sequence of pieces, of which the "/" is one.
Piece == STRING \cup {Keys!Sep}
Texts == Seq(Piece)

Flattens(f, s) == f = [i \in 1 .. Len(s) |-> IF i = 1 THEN s[i] ELSE f[i - 1] \o s[i]]

LEMMA FlattenExists ==
    ASSUME NEW s \in Seq(Texts)
    PROVE  \E f \in [1 .. Len(s) -> Texts] : Flattens(f, s)
<1> DEFINE Upto(n) == {g \in [1 .. n -> Texts] :
                          \A i \in 1 .. n : g[i] = IF i = 1 THEN s[i] ELSE g[i - 1] \o s[i]}
           S == {n \in Nat : n <= Len(s) => Upto(n) # {}}
<1>1. Len(s) \in Nat /\ \A i \in 1 .. Len(s) : s[i] \in Texts
      BY LenProperties, ElementOfSeq
<1>2. 0 \in S
  <2>1. [i \in 1 .. 0 |-> <<>>] \in Upto(0)
        OBVIOUS
  <2> QED BY <2>1
<1>3. ASSUME NEW n \in Nat, n \in S, n + 1 <= Len(s)
      PROVE  Upto(n + 1) # {}
  <2>1. PICK g \in Upto(n) : TRUE
        BY <1>1, <1>3
  <2> DEFINE x == IF n = 0 THEN s[1] ELSE g[n] \o s[n + 1]
             h == [i \in 1 .. n + 1 |-> IF i = n + 1 THEN x ELSE g[i]]
  <2>2. s[n + 1] \in Texts
        BY <1>1, <1>3
  <2>3. x \in Texts
    <3>1. CASE n = 0
          BY <2>2, <3>1
    <3>2. CASE n # 0
      <4>1. g[n] \in Texts
            BY <2>1, <3>2
      <4>2. g[n] \o s[n + 1] \in Texts
            BY <2>2, <4>1, ConcatProperties DEF Texts
      <4> QED BY <3>2, <4>2
    <3> QED BY <3>1, <3>2
  <2>4. g \in [1 .. n -> Texts] /\ \A i \in 1 .. n : g[i] = IF i = 1 THEN s[i] ELSE g[i - 1] \o s[i]
        BY <2>1
  <2> HIDE DEF x
  <2>5. h[n + 1] = x /\ (\A i \in 1 .. n : h[i] = g[i])
        OBVIOUS
  <2>6. h \in [1 .. n + 1 -> Texts]
    <3>1. ASSUME NEW i \in 1 .. n + 1
          PROVE  (IF i = n + 1 THEN x ELSE g[i]) \in Texts
          BY <2>3, <2>4
    <3> QED BY <3>1
  <2>7. ASSUME NEW i \in 1 .. n + 1
        PROVE  h[i] = IF i = 1 THEN s[i] ELSE h[i - 1] \o s[i]
    <3> HIDE DEF h
    <3>1. CASE i = n + 1
      <4>1. CASE n = 0
            BY <2>5, <3>1, <4>1 DEF x
      <4>2. CASE n # 0
        <5>1. i # 1 /\ i - 1 = n /\ n \in 1 .. n
              BY <3>1, <4>2
        <5>2. h[i] = g[n] \o s[n + 1] /\ h[i - 1] = g[n]
              BY <2>5, <3>1, <4>2, <5>1 DEF x
        <5> QED BY <3>1, <5>1, <5>2
      <4> QED BY <4>1, <4>2
    <3>2. CASE i # n + 1
      <4>1. i \in 1 .. n /\ (i # 1 => i - 1 \in 1 .. n)
            BY <3>2
      <4> QED BY <2>4, <2>5, <4>1
    <3> QED BY <3>1, <3>2
  <2>8. h \in Upto(n + 1)
        BY <2>6, <2>7
  <2> QED BY <2>8
<1> HIDE DEF Upto
<1>4. \A n \in Nat : n \in S
  <2>1. \A n \in Nat : n \in S => n + 1 \in S
        BY <1>3
  <2> HIDE DEF S
  <2> QED BY <1>2, <2>1, Induction
<1>5. PICK f \in Upto(Len(s)) : TRUE
  <2>1. Len(s) \in S
        BY <1>1, <1>4
  <2>2. Upto(Len(s)) # {}
        BY <1>1, <2>1
  <2> QED BY <2>2
<1>6. f \in [1 .. Len(s) -> Texts] /\ \A i \in 1 .. Len(s) : f[i] = IF i = 1 THEN s[i] ELSE f[i - 1] \o s[i]
      BY <1>5 DEF Upto
<1>7. Flattens(f, s)
      BY <1>6 DEF Flattens
<1> QED BY <1>6, <1>7

\* The two agree as far as the two sequences do.
LEMMA FlattensAlike ==
    ASSUME NEW s \in Seq(Texts), NEW t \in Seq(Texts), NEW f, NEW g, Flattens(f, s), Flattens(g, t),
           Len(s) <= Len(t), \A i \in 1 .. Len(s) : s[i] = t[i]
    PROVE  \A i \in 1 .. Len(s) : f[i] = g[i]
<1> DEFINE S == {n \in Nat : n \in 1 .. Len(s) => f[n] = g[n]}
<1>1. Len(s) \in Nat /\ Len(t) \in Nat
      BY LenProperties
<1>2. 0 \in S
      OBVIOUS
<1>3. ASSUME NEW n \in Nat, n \in S, n + 1 \in 1 .. Len(s)
      PROVE  f[n + 1] = g[n + 1]
  <2>1. n + 1 \in 1 .. Len(t) /\ s[n + 1] = t[n + 1]
        BY <1>1, <1>3
  <2>2. /\ f[n + 1] = IF n + 1 = 1 THEN s[n + 1] ELSE f[(n + 1) - 1] \o s[n + 1]
        /\ g[n + 1] = IF n + 1 = 1 THEN t[n + 1] ELSE g[(n + 1) - 1] \o t[n + 1]
        BY <1>3, <2>1 DEF Flattens
  <2>3. n # 0 => f[n] = g[n]
        BY <1>1, <1>3
  <2> QED BY <2>1, <2>2, <2>3
<1>4. \A n \in Nat : n \in S
  <2>1. \A n \in Nat : n \in S => n + 1 \in S
        BY <1>3
  <2> HIDE DEF S
  <2> QED BY <1>2, <2>1, Induction
<1> QED BY <1>1, <1>4

LEMMA FlattenOne ==
    ASSUME NEW s \in Seq(Texts), s # <<>>
    PROVE  \E f \in [1 .. Len(s) -> Texts] : Flattens(f, s) /\ Keys!FlattenSeq(s) = f[Len(s)]
<1> DEFINE f == CHOOSE f : Flattens(f, s)
<1>1. Len(s) \in Nat \ {0}
      BY EmptySeq
<1>2. PICK g \in [1 .. Len(s) -> Texts] : Flattens(g, s)
      BY FlattenExists
<1>3. Flattens(f, s)
      BY <1>2
<1>4. Keys!FlattenSeq(s) = f[Len(s)]
      BY <1>1 DEF Keys!FlattenSeq, Flattens
<1> HIDE DEF f
<1>5. \A i \in 1 .. Len(s) : f[i] = g[i]
      BY <1>1, <1>2, <1>3, FlattensAlike
<1>6. g[Len(s)] = f[Len(s)]
      BY <1>1, <1>5
<1> QED BY <1>2, <1>4, <1>6

LEMMA FlattenFacts ==
    ASSUME NEW s \in Seq(Texts), NEW x \in Texts
    PROVE  /\ Keys!FlattenSeq(<<>>) = <<>>
           /\ Keys!FlattenSeq(s) \in Texts
           /\ Keys!FlattenSeq(Append(s, x)) = Keys!FlattenSeq(s) \o x
<1>1. Keys!FlattenSeq(<<>>) = <<>>
      BY EmptySeq DEF Keys!FlattenSeq
<1> DEFINE t == Append(s, x)
<1>2. /\ t \in Seq(Texts) /\ t # <<>> /\ Len(t) = Len(s) + 1 /\ t[Len(s) + 1] = x
      /\ \A i \in 1 .. Len(s) : t[i] = s[i]
      BY AppendProperties
<1>3. Len(s) \in Nat
      BY LenProperties
<1> HIDE DEF t
<1>4. PICK g \in [1 .. Len(t) -> Texts] : Flattens(g, t) /\ Keys!FlattenSeq(t) = g[Len(t)]
      BY <1>2, FlattenOne
<1>5. g[Len(t)] = IF Len(t) = 1 THEN t[Len(t)] ELSE g[Len(t) - 1] \o t[Len(t)]
  <2>1. Len(t) \in 1 .. Len(t)
        BY <1>2, <1>3
  <2> QED BY <1>4, <2>1 DEF Flattens
<1>6. CASE s = <<>>
  <2>1. Len(t) = 1 /\ Keys!FlattenSeq(t) = x
        BY <1>2, <1>4, <1>5, <1>6, EmptySeq
  <2>2. <<>> \o x = x /\ <<>> \in Texts
        BY ConcatEmptySeq, EmptySeq DEF Texts
  <2> QED BY <1>1, <1>6, <2>1, <2>2 DEF t
<1>7. CASE s # <<>>
  <2>1. PICK f \in [1 .. Len(s) -> Texts] : Flattens(f, s) /\ Keys!FlattenSeq(s) = f[Len(s)]
        BY <1>7, FlattenOne
  <2>2. Len(s) # 0
        BY <1>7, EmptySeq
  <2>3. \A i \in 1 .. Len(s) : f[i] = g[i]
        BY <1>2, <1>3, <1>4, <2>1, FlattensAlike
  <2>4. f[Len(s)] = g[Len(s)] /\ f[Len(s)] \in Texts
        BY <1>3, <2>1, <2>2, <2>3
  <2>5. Keys!FlattenSeq(t) = g[Len(s)] \o x
    <3>1. Len(t) # 1 /\ Len(t) - 1 = Len(s) /\ t[Len(t)] = x
          BY <1>2, <1>3, <2>2
    <3> QED BY <1>4, <1>5, <3>1
  <2> QED BY <1>1, <2>1, <2>4, <2>5 DEF t
<1> QED BY <1>6, <1>7

-----------------------------------------------------------------------------
(* The text of a path: each name after a "/", but for the first "/".          *)

Slash == <<Keys!Sep>>

Joined(path) == Keys!FlattenSeq([i \in DOMAIN path |-> Slash \o path[i]])

LEMMA TextJoins == \A a, b \in Texts : a \o b \in Texts
BY ConcatProperties DEF Texts

LEMMA TextAssoc == \A a, b, c \in Texts : (a \o b) \o c = a \o (b \o c)
BY ConcatAssociative DEF Texts

LEMMA PathAssoc == \A p, q, r \in Keys!Path : (p \o q) \o r = p \o (q \o r)
BY ConcatAssociative DEF Keys!Path

LEMMA NameAssoc ==
    ASSUME NEW n \in Keys!Name, NEW p \in Keys!Path, NEW q \in Keys!Path
    PROVE  (p \o <<n>>) \o q = p \o (<<n>> \o q)
<1> DEFINE a == <<n>>
<1>1. a \in Keys!Path
      BY DEF Keys!Path
<1> HIDE DEF a
<1> QED BY <1>1, PathAssoc DEF a

LEMMA FirstAssoc ==
    ASSUME NEW n \in Keys!Name, NEW p \in Keys!Path, NEW q \in Keys!Path
    PROVE  (<<n>> \o p) \o q = <<n>> \o (p \o q)
<1> DEFINE a == <<n>>
<1>1. a \in Keys!Path
      BY DEF Keys!Path
<1> HIDE DEF a
<1> QED BY <1>1, PathAssoc DEF a

LEMMA NameFacts ==
    ASSUME NEW n \in Keys!Name
    PROVE  /\ n \in Texts /\ Len(n) \in Nat \ {0}
           /\ \A i \in 1 .. Len(n) : n[i] # Keys!Sep
<1>1. n \in Seq(STRING \ {Keys!Sep}) /\ n # <<>>
      BY DEF Keys!Name
<1>2. n \in Texts
  <2>1. STRING \ {Keys!Sep} \subseteq Piece
        BY DEF Piece
  <2> QED BY <1>1, <2>1, SeqMonotonic DEF Texts
<1>3. Len(n) \in Nat \ {0}
      BY <1>1, EmptySeq
<1>4. \A i \in 1 .. Len(n) : n[i] # Keys!Sep
      BY <1>1, ElementOfSeq
<1> QED BY <1>2, <1>3, <1>4

LEMMA SlashFacts == Slash \in Texts /\ Len(Slash) = 1 /\ Slash[1] = Keys!Sep
<1>1. \A S : \A x \in S : <<x>> \in Seq(S) /\ Len(<<x>>) = 1 /\ <<x>>[1] = x
      OBVIOUS
<1>2. Keys!Sep \in Piece
      BY DEF Piece
<1> QED BY <1>1, <1>2 DEF Slash, Texts

LEMMA JoinedEmpty == Joined(<<>>) = <<>>
<1>1. [i \in DOMAIN <<>> |-> Slash \o <<>>[i]] = <<>>
      OBVIOUS
<1>2. Keys!FlattenSeq(<<>>) = <<>>
      BY EmptySeq DEF Keys!FlattenSeq
<1> QED BY <1>1, <1>2 DEF Joined

LEMMA Parts ==
    ASSUME NEW p \in Keys!Path
    PROVE  /\ [i \in DOMAIN p |-> Slash \o p[i]] \in Seq(Texts)
           /\ Len([i \in DOMAIN p |-> Slash \o p[i]]) = Len(p)
<1>1. Len(p) \in Nat /\ DOMAIN p = 1 .. Len(p)
      BY LenProperties DEF Keys!Path
<1>2. \A i \in 1 .. Len(p) : Slash \o p[i] \in Texts
  <2>1. \A i \in 1 .. Len(p) : p[i] \in Texts
        BY ElementOfSeq, NameFacts DEF Keys!Path
  <2> QED BY <2>1, SlashFacts, ConcatProperties DEF Texts
<1> QED BY <1>1, <1>2

LEMMA JoinedType ==
    ASSUME NEW p \in Keys!Path
    PROVE  Joined(p) \in Texts
<1>1. <<>> \in Texts
      BY EmptySeq DEF Texts
<1> QED BY <1>1, Parts, FlattenFacts DEF Joined

LEMMA JoinedFacts ==
    ASSUME NEW p \in Keys!Path, NEW n \in Keys!Name
    PROVE  /\ Append(p, n) \in Keys!Path
           /\ Joined(Append(p, n)) = Joined(p) \o (Slash \o n)
<1> DEFINE s == [i \in DOMAIN p |-> Slash \o p[i]]
           q == Append(p, n)
           t == [i \in DOMAIN q |-> Slash \o q[i]]
           x == Slash \o n
<1>1. s \in Seq(Texts) /\ Len(s) = Len(p) /\ Len(p) \in Nat /\ DOMAIN p = 1 .. Len(p)
      BY Parts, LenProperties DEF Keys!Path
<1>2. /\ q \in Keys!Path /\ Len(q) = Len(p) + 1 /\ q[Len(p) + 1] = n
      /\ \A i \in 1 .. Len(p) : q[i] = p[i]
      BY AppendProperties DEF Keys!Path
<1>3. t \in Seq(Texts) /\ Len(t) = Len(q) /\ DOMAIN q = 1 .. Len(q)
      BY <1>2, Parts, LenProperties DEF Keys!Path
<1>4. x \in Texts
      BY NameFacts, SlashFacts, ConcatProperties DEF Texts
<1>6. t = Append(s, x)
  <2> DEFINE u == Append(s, x)
  <2>1. /\ u \in Seq(Texts) /\ Len(u) = Len(s) + 1 /\ u[Len(s) + 1] = x
        /\ \A i \in 1 .. Len(s) : u[i] = s[i]
        BY <1>1, <1>4, AppendProperties
  <2>2. \A i \in 1 .. Len(p) : s[i] = Slash \o p[i]
        BY <1>1
  <2>3. \A i \in 1 .. Len(q) : t[i] = Slash \o q[i]
        BY <1>3
  <2> HIDE DEF u, t, s, q
  <2>4. ASSUME NEW i \in 1 .. Len(t)
        PROVE  t[i] = u[i]
    <3>1. CASE i = Len(p) + 1
          BY <1>1, <1>2, <1>3, <2>1, <2>3, <3>1
    <3>2. CASE i # Len(p) + 1
      <4>1. i \in 1 .. Len(p)
            BY <1>1, <1>2, <1>3, <3>2
      <4> QED BY <1>1, <1>2, <1>3, <2>1, <2>2, <2>3, <4>1
    <3> QED BY <3>1, <3>2
  <2>5. Len(t) = Len(u)
        BY <1>1, <1>2, <1>3, <2>1
  <2>6. t = u
        BY <1>3, <2>1, <2>4, <2>5, SeqEqual
  <2> QED BY <2>6 DEF u
<1>7. Keys!FlattenSeq(Append(s, x)) = Keys!FlattenSeq(s) \o x
      BY <1>1, <1>4, FlattenFacts
<1> QED BY <1>2, <1>6, <1>7 DEF Joined

LEMMA JoinedConcat ==
    ASSUME NEW p \in Keys!Path, NEW q \in Keys!Path
    PROVE  /\ p \o q \in Keys!Path
           /\ Joined(p \o q) = Joined(p) \o Joined(q)
<1> DEFINE S == {n \in Nat : \A r \in Keys!Path : Len(r) = n => Joined(p \o r) = Joined(p) \o Joined(r)}
<1>1. 0 \in S
  <2>1. ASSUME NEW r \in Keys!Path, Len(r) = 0
        PROVE  Joined(p \o r) = Joined(p) \o Joined(r)
    <3>1. r = <<>> /\ p \o r = p
          BY <2>1, EmptySeq, ConcatEmptySeq DEF Keys!Path
    <3>3. Joined(r) = <<>> /\ Joined(p) \in Texts
          BY <3>1, JoinedEmpty, JoinedType
    <3>4. Joined(p) \o <<>> = Joined(p)
          BY <3>3, ConcatEmptySeq DEF Texts
    <3> QED BY <3>1, <3>3, <3>4
  <2> QED BY <2>1
<1>2. ASSUME NEW n \in Nat, n \in S, NEW r \in Keys!Path, Len(r) = n + 1
      PROVE  Joined(p \o r) = Joined(p) \o Joined(r)
  <2>1. r # <<>>
        BY <1>2, EmptySeq DEF Keys!Path
  <2>2. PICK s \in Keys!Path, m \in Keys!Name : r = Append(s, m)
        BY <2>1, SequenceEmptyOrAppend DEF Keys!Path
  <2>3. Len(s) = n
    <3>1. Len(r) = Len(s) + 1 /\ Len(s) \in Nat
          BY <2>2, AppendProperties, LenProperties DEF Keys!Path
    <3> QED BY <1>2, <3>1
  <2>4. Joined(p \o s) = Joined(p) \o Joined(s)
        BY <1>2, <2>3
  <2>5. p \o s \in Keys!Path
        BY ConcatProperties DEF Keys!Path
  <2>6. p \o r = Append(p \o s, m)
    <3> DEFINE one == <<m>>
    <3>1. p \in Keys!Path /\ s \in Keys!Path /\ one \in Keys!Path
          BY DEF Keys!Path
    <3>2. r = s \o one /\ Append(p \o s, m) = (p \o s) \o one
          BY <2>2, <2>5, AppendIsConcat DEF Keys!Path
    <3> HIDE DEF one
    <3>3. (p \o s) \o one = p \o (s \o one)
          BY ONLY <3>1, PathAssoc
    <3> QED BY <3>2, <3>3
  <2>7. /\ Joined(p) \in Texts /\ Joined(s) \in Texts
        /\ Joined(r) = Joined(s) \o (Slash \o m)
        /\ Joined(p \o r) = Joined(p \o s) \o (Slash \o m)
        BY <2>2, <2>5, <2>6, JoinedFacts, JoinedType
  <2>8. Slash \o m \in Texts
        BY NameFacts, SlashFacts, ConcatProperties DEF Texts
  <2>9. (Joined(p) \o Joined(s)) \o (Slash \o m) = Joined(p) \o (Joined(s) \o (Slash \o m))
    <3>1. \A a, b, c \in Texts : (a \o b) \o c = a \o (b \o c)
          BY ConcatAssociative DEF Texts
    <3>2. Joined(p) \in Texts /\ Joined(s) \in Texts
          BY <2>7
    <3> QED BY ONLY <2>8, <3>1, <3>2
  <2> QED BY <2>4, <2>7, <2>9
<1>3. \A n \in Nat : n \in S
  <2>1. ASSUME NEW n \in Nat, n \in S
        PROVE  n + 1 \in S
    <3>1. \A r \in Keys!Path : Len(r) = n + 1 => Joined(p \o r) = Joined(p) \o Joined(r)
          BY <1>2, <2>1
    <3> QED BY <3>1
  <2> HIDE DEF S
  <2> QED BY <1>1, <2>1, Induction
<1>4. Len(q) \in Nat
      BY LenProperties DEF Keys!Path
<1>5. p \o q \in Keys!Path
      BY ConcatProperties DEF Keys!Path
<1> QED BY <1>3, <1>4, <1>5

\* A path by its first name.
LEMMA Opens ==
    ASSUME NEW p \in Keys!Path, p # <<>>
    PROVE  \E n \in Keys!Name, r \in Keys!Path :
              /\ p = <<n>> \o r /\ n = p[1] /\ Len(p) = Len(r) + 1
              /\ Joined(p) = Slash \o (n \o Joined(r))
              /\ Joined(r) \in Texts /\ Keys!Text(p) = n \o Joined(r)
<1> DEFINE n == Head(p)
           r == Tail(p)
<1>1. n \in Keys!Name /\ r \in Keys!Path /\ Len(r) = Len(p) - 1 /\ Len(p) \in Nat \ {0}
      BY HeadTailProperties, EmptySeq DEF Keys!Path
<1>2. n = p[1] /\ <<n>> \in Keys!Path
      BY <1>1 DEF Keys!Path
<1>3. p = <<n>> \o r
  <2>1. SubSeq(p, 1, Len(p)) = <<p[1]>> \o SubSeq(p, 1 + 1, Len(p))
    <3>1. 1 \in 1 .. Len(p) /\ Len(p) \in 1 .. Len(p)
          BY <1>1
    <3> QED BY <3>1, SubSeqRecursiveFirst DEF Keys!Path
  <2>2. SubSeq(p, 1, Len(p)) = p /\ Tail(p) = SubSeq(p, 2, Len(p))
        BY SubSeqFull, TailIsSubSeq DEF Keys!Path
  <2> QED BY <1>2, <2>1, <2>2
<1> HIDE DEF n, r
<1>4. n \in Texts /\ Joined(r) \in Texts /\ Slash \in Texts
      BY <1>1, NameFacts, JoinedType, SlashFacts
<1>5. Joined(<<n>>) = Slash \o n
  <2>1. <<>> \in Keys!Path /\ <<n>> = Append(<<>>, n)
        BY EmptySeq DEF Keys!Path
  <2>2. Joined(<<n>>) = <<>> \o (Slash \o n)
        BY <1>1, <2>1, JoinedEmpty, JoinedFacts
  <2>3. Slash \o n \in Texts
        BY <1>4, ConcatProperties DEF Texts
  <2> QED BY <2>2, <2>3, ConcatEmptySeq DEF Texts
<1>6. Joined(p) = Slash \o (n \o Joined(r))
  <2>1. Joined(p) = (Slash \o n) \o Joined(r)
        BY <1>1, <1>2, <1>3, <1>5, JoinedConcat
  <2> QED BY <1>4, <2>1, ConcatAssociative DEF Texts
<1>7. Keys!Text(p) = n \o Joined(r)
  <2> DEFINE t == n \o Joined(r)
             u == Slash \o t
  <2>1. t \in Texts
        BY <1>4, ConcatProperties DEF Texts
  <2> HIDE DEF t
  <2>2. u \in Seq(Piece) /\ Len(u) = 1 + Len(t) /\ \A i \in 1 .. 1 + Len(t) : u[i] = IF i <= 1 THEN Slash[i] ELSE t[i - 1]
    <3>1. Slash \in Seq(Piece) /\ t \in Seq(Piece) /\ Len(Slash) = 1
          BY <2>1, SlashFacts DEF Texts
    <3>2. /\ Slash \o t \in Seq(Piece) /\ Len(Slash \o t) = Len(Slash) + Len(t)
          /\ \A i \in 1 .. Len(Slash) + Len(t) : (Slash \o t)[i] = IF i <= Len(Slash) THEN Slash[i] ELSE t[i - Len(Slash)]
          BY ONLY <3>1, ConcatProperties
    <3> QED BY <3>1, <3>2
  <2>3. Len(t) \in Nat
        BY <2>1, LenProperties DEF Texts
  <2> HIDE DEF u
  <2>4. u # <<>>
        BY <2>2, <2>3, EmptySeq
  <2>5. Tail(u) \in Seq(Piece) /\ Len(Tail(u)) = Len(u) - 1 /\ \A i \in 1 .. Len(Tail(u)) : Tail(u)[i] = u[i + 1]
        BY <2>2, <2>4, HeadTailProperties
  <2>6. Len(Tail(u)) = Len(t) /\ \A i \in 1 .. Len(t) : Tail(u)[i] = t[i]
        BY <2>2, <2>3, <2>5
  <2>7. Tail(u) = t
        BY <2>1, <2>5, <2>6, SeqEqual DEF Texts
  <2>8. Keys!Text(p) = Tail(u)
        BY <1>6 DEF Keys!Text, Joined, Slash, t, u
  <2> QED BY <2>7, <2>8 DEF t
<1>8. Len(p) = Len(r) + 1
      BY <1>1
<1> QED BY <1>1, <1>2, <1>3, <1>4, <1>6, <1>7, <1>8

-----------------------------------------------------------------------------
(* What a text starts with tells the names of its path.                       *)

LEMMA ByPieces ==
    ASSUME NEW s \in Texts, NEW t \in Texts
    PROVE  /\ Len(s) \in Nat /\ Len(t) \in Nat /\ s \o t \in Texts /\ Len(s \o t) = Len(s) + Len(t)
           /\ \A i \in 1 .. Len(s) : (s \o t)[i] = s[i]
           /\ \A i \in 1 .. Len(t) : (s \o t)[Len(s) + i] = t[i]
<1>1. Len(s) \in Nat /\ Len(t) \in Nat
      BY LenProperties DEF Texts
<1>2. /\ s \o t \in Texts /\ Len(s \o t) = Len(s) + Len(t)
      /\ \A i \in 1 .. Len(s) + Len(t) : (s \o t)[i] = IF i <= Len(s) THEN s[i] ELSE t[i - Len(s)]
      BY ConcatProperties DEF Texts
<1>3. ASSUME NEW i \in 1 .. Len(s)
      PROVE  (s \o t)[i] = s[i]
  <2>1. i \in 1 .. Len(s) + Len(t) /\ i <= Len(s)
        BY <1>1
  <2> QED BY <1>2, <2>1
<1>4. ASSUME NEW i \in 1 .. Len(t)
      PROVE  (s \o t)[Len(s) + i] = t[i]
  <2>1. Len(s) + i \in 1 .. Len(s) + Len(t) /\ ~(Len(s) + i <= Len(s)) /\ (Len(s) + i) - Len(s) = i
        BY <1>1
  <2> QED BY <1>2, <2>1
<1> QED BY <1>1, <1>2, <1>3, <1>4

LEMMA PrefixIs ==
    ASSUME NEW s \in Texts, NEW t \in Texts
    PROVE  Keys!IsPrefix(s, t) <=> Len(s) <= Len(t) /\ \A i \in 1 .. Len(s) : s[i] = t[i]
<1>1. Len(s) \in Nat /\ Len(t) \in Nat
      BY LenProperties DEF Texts
<1>2. SubSeq(s, 1, Len(s)) = s
      BY SubSeqFull DEF Texts
<1>3. ASSUME Len(s) <= Len(t)
      PROVE  SubSeq(t, 1, Len(s)) = s <=> \A i \in 1 .. Len(s) : s[i] = t[i]
  <2> DEFINE u == SubSeq(t, 1, Len(s))
  <2>1. \A i \in 1 .. Len(s) : t[i] \in Piece
    <3>1. \A i \in 1 .. Len(t) : t[i] \in Piece
          BY ElementOfSeq DEF Texts
    <3> QED BY <1>1, <1>3, <3>1
  <2>2. /\ u \in Seq(Piece) /\ Len(u) = IF 1 <= Len(s) THEN Len(s) - 1 + 1 ELSE 0
        /\ \A i \in 1 .. Len(s) - 1 + 1 : u[i] = t[1 + i - 1]
        BY <1>1, <2>1, SubSeqProperties
  <2> HIDE DEF u
  <2>3. Len(u) = Len(s) /\ \A i \in 1 .. Len(s) : u[i] = t[i]
        BY <1>1, <2>2
  <2>4. (\A i \in 1 .. Len(s) : s[i] = t[i]) => u = s
    <3>1. ASSUME \A i \in 1 .. Len(s) : s[i] = t[i]
          PROVE  \A i \in 1 .. Len(u) : u[i] = s[i]
          BY <2>3, <3>1
    <3> QED BY <2>2, <2>3, <3>1, SeqEqual DEF Texts
  <2> QED BY <2>3, <2>4 DEF u
<1> QED BY <1>2, <1>3 DEF Keys!IsPrefix

\* A text that begins with "/", or has ended.
Cut(t) == t \in Texts /\ (t = <<>> \/ t[1] = Keys!Sep)

LEMMA JoinedCut ==
    ASSUME NEW p \in Keys!Path
    PROVE  /\ Cut(Joined(p))
           /\ p # <<>> => /\ Joined(p) = Slash \o Keys!Text(p) /\ Keys!Text(p) \in Texts
                          /\ Keys!Text(p) # <<>>
<1>1. CASE p = <<>>
      BY <1>1, JoinedEmpty, JoinedType DEF Cut
<1>2. CASE p # <<>>
  <2>1. PICK n \in Keys!Name, r \in Keys!Path :
            /\ Joined(p) = Slash \o (n \o Joined(r))
            /\ Joined(r) \in Texts /\ Keys!Text(p) = n \o Joined(r)
        BY <1>2, Opens
  <2>2. n \in Texts /\ Len(n) \in Nat \ {0}
        BY NameFacts
  <2> DEFINE t == n \o Joined(r)
  <2>3. t \in Texts /\ Len(t) = Len(n) + Len(Joined(r)) /\ Len(Joined(r)) \in Nat
        BY <2>1, <2>2, ByPieces
  <2>4. t # <<>>
    <3> HIDE DEF t
    <3>1. Len(t) # 0
          BY <2>2, <2>3
    <3> QED BY <3>1, EmptySeq
  <2>5. (Slash \o t)[1] = Slash[1] /\ Slash \o t \in Texts
    <3> HIDE DEF t
    <3>1. 1 \in 1 .. Len(Slash)
          BY SlashFacts
    <3> QED BY <2>3, <3>1, SlashFacts, ByPieces
  <2> QED BY <2>1, <2>3, <2>4, <2>5, SlashFacts DEF Cut
<1> QED BY <1>1, <1>2

\* The first "/" is where the first name ends.
LEMMA FirstSlash ==
    ASSUME NEW d \in Keys!Name, NEW e \in Keys!Name, NEW x, NEW y, Cut(x), Cut(y), x # <<>>,
           Keys!IsPrefix(d \o x, e \o y)
    PROVE  d = e /\ Keys!IsPrefix(x, y)
<1>1. /\ d \in Texts /\ Len(d) \in Nat \ {0} /\ (\A i \in 1 .. Len(d) : d[i] # Keys!Sep)
      /\ e \in Texts /\ Len(e) \in Nat \ {0} /\ (\A i \in 1 .. Len(e) : e[i] # Keys!Sep)
      BY NameFacts
<1>2. /\ x \in Texts /\ x[1] = Keys!Sep /\ Len(x) \in Nat \ {0}
      /\ y \in Texts /\ Len(y) \in Nat /\ (Len(y) # 0 => y[1] = Keys!Sep)
      BY EmptySeq, LenProperties DEF Cut, Texts
<1> DEFINE s == d \o x
           t == e \o y
<1>3. /\ s \in Texts /\ Len(s) = Len(d) + Len(x) /\ (\A i \in 1 .. Len(d) : s[i] = d[i])
      /\ \A i \in 1 .. Len(x) : s[Len(d) + i] = x[i]
      BY <1>1, <1>2, ByPieces
<1>4. /\ t \in Texts /\ Len(t) = Len(e) + Len(y) /\ (\A i \in 1 .. Len(e) : t[i] = e[i])
      /\ \A i \in 1 .. Len(y) : t[Len(e) + i] = y[i]
      BY <1>1, <1>2, ByPieces
<1> HIDE DEF s, t
<1>5. Len(s) <= Len(t) /\ \A i \in 1 .. Len(s) : s[i] = t[i]
      BY <1>3, <1>4, PrefixIs DEF s, t
<1>6. s[Len(d) + 1] = Keys!Sep /\ Len(d) + 1 \in 1 .. Len(s)
  <2>1. 1 \in 1 .. Len(x) /\ Len(d) + 1 \in 1 .. Len(s)
        BY <1>1, <1>2, <1>3
  <2> QED BY <1>2, <1>3, <2>1
<1>7. Len(e) <= Len(d)
  <2>1. SUFFICES ASSUME Len(d) + 1 \in 1 .. Len(e) PROVE FALSE
        BY <1>1
  <2>2. t[Len(d) + 1] = e[Len(d) + 1] /\ e[Len(d) + 1] # Keys!Sep
        BY <1>1, <1>4, <2>1
  <2> QED BY <1>5, <1>6, <2>2
<1>8. Len(d) <= Len(e)
  <2>1. SUFFICES ASSUME Len(e) + 1 \in 1 .. Len(d) PROVE FALSE
        BY <1>1
  <2>2. s[Len(e) + 1] = d[Len(e) + 1] /\ d[Len(e) + 1] # Keys!Sep
        BY <1>1, <1>3, <2>1
  <2>3. Len(e) + 1 \in 1 .. Len(s) /\ Len(y) # 0
        BY <1>1, <1>2, <1>3, <1>4, <1>5, <2>1
  <2>4. 1 \in 1 .. Len(y)
        BY <1>2, <2>3
  <2>5. t[Len(e) + 1] = y[1]
        BY <1>4, <2>4
  <2> QED BY <1>2, <1>5, <2>2, <2>3, <2>5
<1>9. Len(d) = Len(e)
      BY <1>1, <1>7, <1>8
<1>10. d = e
  <2>1. ASSUME NEW i \in 1 .. Len(d)
        PROVE  d[i] = e[i]
    <3>1. i \in 1 .. Len(s) /\ i \in 1 .. Len(e)
          BY <1>1, <1>2, <1>3, <1>9
    <3> QED BY <1>3, <1>4, <1>5, <3>1
  <2> QED BY <1>1, <1>9, <2>1, SeqEqual DEF Texts
<1>11. Len(x) <= Len(y)
       BY <1>1, <1>2, <1>3, <1>4, <1>5, <1>9
<1>12. ASSUME NEW i \in 1 .. Len(x)
       PROVE  x[i] = y[i]
  <2>1. Len(d) + i \in 1 .. Len(s) /\ i \in 1 .. Len(y)
        BY <1>1, <1>2, <1>3, <1>11
  <2> QED BY <1>3, <1>4, <1>5, <1>9, <2>1
<1> QED BY <1>2, <1>10, <1>11, <1>12, PrefixIs

LEMMA PrefixOfConcat ==
    ASSUME NEW S, NEW s \in Seq(S), NEW t \in Seq(S)
    PROVE  SubSeq(s \o t, 1, Len(s)) = s
<1>1. Len(s) \in Nat
      BY LenProperties
<1>2. CASE s = <<>>
      BY <1>1, <1>2, EmptySeq, SubSeqEmpty
<1>3. CASE s # <<>>
  <2>1. 1 \in 1 .. Len(s) /\ Len(s) \in 1 .. Len(s)
        BY <1>1, <1>3, EmptySeq
  <2> QED BY <2>1, SubSeqOfConcat1, SubSeqFull
<1> QED BY <1>2, <1>3

LEMMA Cancel ==
    ASSUME NEW w \in Texts, NEW s \in Texts, NEW t \in Texts
    PROVE  Keys!IsPrefix(w \o s, w \o t) <=> Keys!IsPrefix(s, t)
<1> DEFINE a == w \o s
           b == w \o t
<1>1. /\ a \in Texts /\ Len(a) = Len(w) + Len(s) /\ (\A i \in 1 .. Len(w) : a[i] = w[i])
      /\ \A i \in 1 .. Len(s) : a[Len(w) + i] = s[i]
      BY ByPieces
<1>2. /\ b \in Texts /\ Len(b) = Len(w) + Len(t) /\ (\A i \in 1 .. Len(w) : b[i] = w[i])
      /\ \A i \in 1 .. Len(t) : b[Len(w) + i] = t[i]
      BY ByPieces
<1>3. Len(w) \in Nat /\ Len(s) \in Nat /\ Len(t) \in Nat
      BY LenProperties DEF Texts
<1> HIDE DEF a, b
<1>4. ASSUME Keys!IsPrefix(a, b)
      PROVE  Keys!IsPrefix(s, t)
  <2>1. Len(a) <= Len(b) /\ \A i \in 1 .. Len(a) : a[i] = b[i]
        BY <1>1, <1>2, <1>4, PrefixIs
  <2>2. Len(s) <= Len(t)
        BY <1>1, <1>2, <1>3, <2>1
  <2>3. ASSUME NEW i \in 1 .. Len(s)
        PROVE  s[i] = t[i]
    <3>1. Len(w) + i \in 1 .. Len(a) /\ i \in 1 .. Len(t)
          BY <1>1, <1>3, <2>2
    <3> QED BY <1>1, <1>2, <2>1, <3>1
  <2> QED BY <2>2, <2>3, PrefixIs
<1>5. ASSUME Keys!IsPrefix(s, t)
      PROVE  Keys!IsPrefix(a, b)
  <2>1. Len(s) <= Len(t) /\ \A i \in 1 .. Len(s) : s[i] = t[i]
        BY <1>5, PrefixIs
  <2>2. Len(a) <= Len(b)
        BY <1>1, <1>2, <1>3, <2>1
  <2>3. ASSUME NEW i \in 1 .. Len(a)
        PROVE  a[i] = b[i]
    <3>1. CASE i <= Len(w)
      <4>1. i \in 1 .. Len(w)
            BY <1>1, <1>3, <3>1
      <4> QED BY <1>1, <1>2, <4>1
    <3>2. CASE i > Len(w)
      <4>1. i - Len(w) \in 1 .. Len(s) /\ i - Len(w) \in 1 .. Len(t) /\ Len(w) + (i - Len(w)) = i
            BY <1>1, <1>3, <2>1, <3>2
      <4>2. a[Len(w) + (i - Len(w))] = s[i - Len(w)] /\ b[Len(w) + (i - Len(w))] = t[i - Len(w)]
            BY <1>1, <1>2, <4>1
      <4>3. s[i - Len(w)] = t[i - Len(w)]
            BY <2>1, <4>1
      <4> QED BY <4>1, <4>2, <4>3
    <3> QED BY <1>1, <1>3, <3>1, <3>2
  <2> QED BY <1>1, <1>2, <2>2, <2>3, PrefixIs
<1> QED BY <1>4, <1>5 DEF a, b

LEMMA Decodes ==
    ASSUME NEW dir \in Keys!Path, NEW q \in Keys!Path,
           Keys!IsPrefix(Joined(dir) \o Slash, Joined(q))
    PROVE  \E r \in Keys!Path : r # <<>> /\ q = dir \o r
<1> DEFINE Goes(d, p) == Keys!IsPrefix(Joined(d) \o Slash, Joined(p))
                            => \E r \in Keys!Path : r # <<>> /\ p = d \o r
           S == {n \in Nat : \A d, p \in Keys!Path : Len(d) = n => Goes(d, p)}
<1>1. ASSUME NEW d \in Keys!Path, NEW p \in Keys!Path, Keys!IsPrefix(Joined(d) \o Slash, Joined(p))
      PROVE  p # <<>>
  <2>1. Joined(d) \in Texts /\ Joined(p) \in Texts /\ Slash \in Texts /\ Len(Slash) = 1
        BY JoinedType, SlashFacts
  <2>2. /\ Joined(d) \o Slash \in Texts /\ Len(Joined(d) \o Slash) = Len(Joined(d)) + Len(Slash)
        /\ Len(Joined(d)) \in Nat
        BY <2>1, ByPieces
  <2>3. Len(Joined(d) \o Slash) <= Len(Joined(p))
        BY <1>1, <2>1, <2>2, PrefixIs
  <2>4. Len(Joined(p)) # 0
        BY <2>1, <2>2, <2>3
  <2> QED BY <2>4, JoinedEmpty, EmptySeq
<1>2. 0 \in S
  <2>1. ASSUME NEW d \in Keys!Path, NEW p \in Keys!Path, Len(d) = 0,
               Keys!IsPrefix(Joined(d) \o Slash, Joined(p))
        PROVE  p # <<>> /\ p = d \o p
    <3>1. d = <<>>
          BY <2>1, EmptySeq DEF Keys!Path
    <3> QED BY <1>1, <2>1, <3>1, ConcatEmptySeq DEF Keys!Path
  <2> QED BY <2>1
<1>3. ASSUME NEW n \in Nat, n \in S, NEW d \in Keys!Path, NEW p \in Keys!Path, Len(d) = n + 1,
             Keys!IsPrefix(Joined(d) \o Slash, Joined(p))
      PROVE  \E r \in Keys!Path : r # <<>> /\ p = d \o r
  <2>1. d # <<>> /\ p # <<>>
        BY <1>1, <1>3, EmptySeq
  <2>2. PICK a \in Keys!Name, x \in Keys!Path :
            /\ d = <<a>> \o x /\ Len(d) = Len(x) + 1 /\ Joined(d) = Slash \o (a \o Joined(x))
        BY <2>1, Opens
  <2>3. PICK b \in Keys!Name, y \in Keys!Path :
            /\ p = <<b>> \o y /\ Joined(p) = Slash \o (b \o Joined(y))
        BY <2>1, Opens
  <2>4. /\ a \in Texts /\ b \in Texts /\ Joined(x) \in Texts /\ Joined(y) \in Texts /\ Slash \in Texts
        /\ Len(x) \in Nat
        BY NameFacts, JoinedType, SlashFacts, LenProperties DEF Keys!Path
  <2>5. Joined(d) \o Slash = Slash \o (a \o (Joined(x) \o Slash))
    <3>1. a \o Joined(x) \in Texts
          BY <2>4, TextJoins
    <3>2. (Slash \o (a \o Joined(x))) \o Slash = Slash \o ((a \o Joined(x)) \o Slash)
      <4> DEFINE u == a \o Joined(x)
      <4>1. u \in Texts /\ Slash \in Texts
            BY <2>4, <3>1
      <4> HIDE DEF u
      <4>2. (Slash \o u) \o Slash = Slash \o (u \o Slash)
            BY ONLY <4>1, TextAssoc
      <4> QED BY <4>2 DEF u
    <3>3. (a \o Joined(x)) \o Slash = a \o (Joined(x) \o Slash)
          BY ONLY <2>4, TextAssoc
    <3> QED BY <2>2, <3>2, <3>3
  <2>6. Keys!IsPrefix(a \o (Joined(x) \o Slash), b \o Joined(y))
    <3>1. Joined(x) \o Slash \in Texts
          BY <2>4, TextJoins
    <3>2. a \o (Joined(x) \o Slash) \in Texts /\ b \o Joined(y) \in Texts
          BY ONLY <2>4, <3>1, TextJoins
    <3>3. Keys!IsPrefix(Slash \o (a \o (Joined(x) \o Slash)), Slash \o (b \o Joined(y)))
          BY <1>3, <2>3, <2>5
    <3> QED BY ONLY <2>4, <3>2, <3>3, Cancel
  <2>7. Cut(Joined(x) \o Slash) /\ Joined(x) \o Slash # <<>>
    <3>1. Cut(Joined(x))
          BY JoinedCut
    <3> DEFINE s == Joined(x)
               t == s \o Slash
    <3>2. /\ t \in Texts /\ Len(s) \in Nat /\ Len(t) = Len(s) + 1
          /\ \A i \in 1 .. Len(s) : t[i] = s[i]
          /\ t[Len(s) + 1] = Keys!Sep
      <4>1. 1 \in 1 .. Len(Slash)
            BY SlashFacts
      <4>2. s \in Texts /\ Slash \in Texts /\ Len(Slash) = 1 /\ Slash[1] = Keys!Sep
            BY <2>4, SlashFacts
      <4>3. /\ Len(s) \in Nat /\ s \o Slash \in Texts /\ Len(s \o Slash) = Len(s) + Len(Slash)
            /\ \A i \in 1 .. Len(s) : (s \o Slash)[i] = s[i]
            /\ \A i \in 1 .. Len(Slash) : (s \o Slash)[Len(s) + i] = Slash[i]
            BY ONLY <4>2, ByPieces
      <4> QED BY <4>1, <4>2, <4>3
    <3> HIDE DEF t
    <3>3. t # <<>>
      <4>1. Len(t) # 0
            BY <3>2
      <4> QED BY <4>1, EmptySeq
    <3>4. t[1] = Keys!Sep
      <4>1. CASE s = <<>>
        <5>1. Len(s) = 0
              BY <4>1, EmptySeq
        <5> QED BY <3>2, <5>1
      <4>2. CASE s # <<>>
        <5>1. 1 \in 1 .. Len(s)
              BY <2>4, <3>2, <4>2, EmptySeq DEF Texts
        <5>2. s[1] = Keys!Sep
              BY <3>1, <4>2 DEF Cut
        <5> QED BY <3>2, <5>1, <5>2
      <4> QED BY <4>1, <4>2
    <3> QED BY <3>2, <3>3, <3>4 DEF Cut, t
  <2>8. a = b /\ Keys!IsPrefix(Joined(x) \o Slash, Joined(y))
        BY <2>6, <2>7, JoinedCut, FirstSlash
  <2>9. Len(x) = n
        BY <1>3, <2>2, <2>4
  <2>10. PICK r \in Keys!Path : r # <<>> /\ y = x \o r
         BY <1>3, <2>8, <2>9
  <2>11. <<a>> \o (x \o r) = (<<a>> \o x) \o r
    <3>1. (<<a>> \o x) \o r = <<a>> \o (x \o r)
          BY FirstAssoc
    <3> QED BY ONLY <3>1
  <2> QED BY <2>2, <2>3, <2>8, <2>10, <2>11
<1>4. \A n \in Nat : n \in S
  <2>1. ASSUME NEW n \in Nat, n \in S
        PROVE  n + 1 \in S
    <3>1. \A d, p \in Keys!Path : Len(d) = n + 1 => Goes(d, p)
          BY <1>3, <2>1
    <3> QED BY <3>1
  <2> HIDE DEF S
  <2> QED BY <1>2, <2>1, Induction
<1>5. Len(dir) \in Nat
      BY LenProperties DEF Keys!Path
<1>6. Goes(dir, q)
      BY <1>4, <1>5
<1> QED BY <1>6

-----------------------------------------------------------------------------
(* What childKeys makes of the text of a path.                                *)

LEMMA TextConcat ==
    ASSUME NEW p \in Keys!Path, NEW r \in Keys!Path, p # <<>>, r # <<>>
    PROVE  Keys!Text(p \o r) = Keys!Text(p) \o (Slash \o Keys!Text(r))
<1>1. p \o r \in Keys!Path /\ Joined(p \o r) = Joined(p) \o Joined(r)
      BY JoinedConcat
<1>2. p \o r # <<>>
  <2>1. Len(p \o r) = Len(p) + Len(r) /\ Len(p) \in Nat \ {0} /\ Len(r) \in Nat
        BY ConcatProperties, EmptySeq, LenProperties DEF Keys!Path
  <2> QED BY <2>1, EmptySeq
<1> DEFINE a == Keys!Text(p)
           b == Keys!Text(r)
           c == Keys!Text(p \o r)
<1>3. a \in Texts /\ b \in Texts /\ c \in Texts /\ Slash \in Texts
      BY <1>1, <1>2, JoinedCut, SlashFacts
<1>4. Slash \o c = (Slash \o a) \o (Slash \o b)
      BY <1>1, <1>2, JoinedCut
<1> HIDE DEF a, b, c
<1>5. Slash \o b \in Texts /\ a \o (Slash \o b) \in Texts
      BY <1>3, TextJoins
<1>6. (Slash \o a) \o (Slash \o b) = Slash \o (a \o (Slash \o b))
      BY <1>3, <1>5, TextAssoc
<1>7. Slash \o c = Slash \o (a \o (Slash \o b))
      BY <1>4, <1>6
<1>8. ASSUME NEW t \in Texts, NEW v \in Texts, Slash \o t = Slash \o v
      PROVE  t = v
  <2>1. /\ Len(Slash \o t) = Len(Slash) + Len(t) /\ Len(t) \in Nat /\ Len(Slash) \in Nat
        /\ \A i \in 1 .. Len(t) : (Slash \o t)[Len(Slash) + i] = t[i]
        BY <1>3, ByPieces
  <2>2. /\ Len(Slash \o v) = Len(Slash) + Len(v) /\ Len(v) \in Nat
        /\ \A i \in 1 .. Len(v) : (Slash \o v)[Len(Slash) + i] = v[i]
        BY <1>3, ByPieces
  <2>3. Len(t) = Len(v)
        BY <1>8, <2>1, <2>2
  <2>4. \A i \in 1 .. Len(t) : t[i] = v[i]
        BY <1>8, <2>1, <2>2, <2>3
  <2> QED BY <2>3, <2>4, SeqEqual DEF Texts
<1> QED BY <1>3, <1>5, <1>7, <1>8 DEF a, b, c

LEMMA TextOfName ==
    ASSUME NEW n \in Keys!Name
    PROVE  <<n>> \in Keys!Path /\ Keys!Text(<<n>>) = n
<1> DEFINE p == <<n>>
<1>1. p \in Keys!Path /\ p # <<>> /\ p[1] = n /\ Len(p) = 1
      BY DEF Keys!Path
<1> HIDE DEF p
<1>2. PICK m \in Keys!Name, r \in Keys!Path :
          m = p[1] /\ Len(p) = Len(r) + 1 /\ Keys!Text(p) = m \o Joined(r)
      BY <1>1, Opens
<1>3. r = <<>>
  <2>1. Len(r) \in Nat
        BY LenProperties DEF Keys!Path
  <2>2. 1 = Len(r) + 1
        BY <1>1, <1>2
  <2>3. Len(r) = 0
        BY ONLY <2>1, <2>2
  <2> QED BY <2>3, EmptySeq DEF Keys!Path
<1>4. n \o <<>> = n
      BY NameFacts, ConcatEmptySeq DEF Texts
<1> QED BY <1>1, <1>2, <1>3, <1>4, JoinedEmpty DEF p

LEMMA FirstNameOfText ==
    ASSUME NEW r \in Keys!Path, r # <<>>
    PROVE  r[1] \in Keys!Name /\ Keys!FirstName(Keys!Text(r)) = r[1]
<1>1. PICK n \in Keys!Name, y \in Keys!Path : n = r[1] /\ Keys!Text(r) = n \o Joined(y)
      BY Opens
<1> DEFINE t == n \o Joined(y)
           x == Joined(y)
           I == {i \in 1 .. Len(t) : t[i] = Keys!Sep}
<1>2. n \in Texts /\ Len(n) \in Nat \ {0} /\ (\A i \in 1 .. Len(n) : n[i] # Keys!Sep) /\ Cut(x) /\ x \in Texts
      BY NameFacts, JoinedCut, JoinedType
<1>3. /\ t \in Texts /\ Len(t) = Len(n) + Len(x) /\ Len(x) \in Nat
      /\ \A i \in 1 .. Len(n) : t[i] = n[i]
      /\ \A i \in 1 .. Len(x) : t[Len(n) + i] = x[i]
      BY <1>2, ByPieces
<1>4. SubSeq(t, 1, Len(n)) = n
      BY <1>2, PrefixOfConcat DEF Texts
<1>5. Keys!FirstName(t) = LET stop == IF I # {} THEN Keys!Min(I) ELSE 0
                          IN  IF stop = 0 THEN t ELSE SubSeq(t, 1, stop - 1)
      BY DEF Keys!FirstName, Keys!SelectInSeq
<1> HIDE DEF t, x
<1>6. CASE x = <<>>
  <2>1. Len(t) = Len(n)
        BY <1>2, <1>3, <1>6, EmptySeq
  <2>2. I = {}
        BY <1>2, <1>3, <2>1
  <2>3. t = n
        BY <1>3, <1>4, <2>1, SubSeqFull DEF Texts
  <2> QED BY <1>1, <1>5, <2>2, <2>3 DEF t, x
<1>7. CASE x # <<>>
  <2>1. x[1] = Keys!Sep /\ Len(x) # 0
        BY <1>2, <1>7, EmptySeq DEF Cut, Texts
  <2>2. Len(n) + 1 \in I
    <3>1. 1 \in 1 .. Len(x) /\ Len(n) + 1 \in 1 .. Len(t)
          BY <1>2, <1>3, <2>1
    <3> QED BY <1>3, <2>1, <3>1
  <2>3. \A i \in I : Len(n) + 1 <= i
        BY <1>2, <1>3
  <2>4. \A i \in I : i \in Nat
        OBVIOUS
  <2> HIDE DEF I
  <2>5. Keys!Min(I) = Len(n) + 1
    <3>1. Keys!Min(I) \in I /\ \A y_1 \in I : Keys!Min(I) <= y_1
          BY <2>2, <2>3 DEF Keys!Min
    <3> QED BY <1>2, <2>2, <2>3, <2>4, <3>1
  <2>6. Keys!Min(I) # 0 /\ Keys!Min(I) - 1 = Len(n)
        BY <1>2, <2>5
  <2> QED BY <1>1, <1>4, <1>5, <2>2, <2>6 DEF t, x
<1> QED BY <1>6, <1>7

LEMMA RestOf ==
    ASSUME NEW base \in Texts, NEW x \in Texts, base # <<>>, x # <<>>
    PROVE  /\ Keys!Rest(base \o (Slash \o x), base) = x
           /\ Keys!IsPrefix(base, base \o (Slash \o x))
           /\ Keys!IsPrefix(base \o Slash, base \o (Slash \o x))
<1> DEFINE b == base \o Slash
           k == b \o x
           m == Len(base) + 2
           u == SubSeq(k, m, Len(k))
<1>1. Slash \in Texts /\ Len(Slash) = 1
      BY SlashFacts
<1>2. /\ b \in Texts /\ Len(b) = Len(base) + 1 /\ Len(base) \in Nat
      /\ \A i \in 1 .. Len(base) : b[i] = base[i]
  <2>1. /\ Len(base) \in Nat /\ base \o Slash \in Texts
        /\ Len(base \o Slash) = Len(base) + Len(Slash)
        /\ \A i \in 1 .. Len(base) : (base \o Slash)[i] = base[i]
        BY ONLY base \in Texts, <1>1, ByPieces
  <2> QED BY <1>1, <2>1
<1>3. k = base \o (Slash \o x)
      BY <1>1, TextAssoc
<1> HIDE DEF b
<1>4. /\ k \in Texts /\ Len(k) = Len(b) + Len(x) /\ Len(x) \in Nat
      /\ \A i \in 1 .. Len(b) : k[i] = b[i]
      /\ \A i \in 1 .. Len(x) : k[Len(b) + i] = x[i]
      BY <1>2, ByPieces
<1> HIDE DEF k
<1>5. Len(x) # 0
      BY EmptySeq DEF Texts
<1>6. Keys!IsPrefix(b, k)
  <2>1. Len(b) <= Len(k) /\ \A i \in 1 .. Len(b) : b[i] = k[i]
        BY <1>2, <1>4
  <2> QED BY <1>2, <1>4, <2>1, PrefixIs
<1>7. Keys!IsPrefix(base, k)
  <2>1. Len(base) <= Len(k)
        BY <1>2, <1>4
  <2>2. ASSUME NEW i \in 1 .. Len(base)
        PROVE  base[i] = k[i]
    <3>1. i \in 1 .. Len(b)
          BY <1>2
    <3> QED BY <1>2, <1>4, <3>1
  <2> QED BY <1>4, <2>1, <2>2, PrefixIs
<1>8. u = x
  <2>1. m \in Int /\ Len(k) \in Int /\ Len(k) - m + 1 = Len(x) /\ m <= Len(k)
        BY <1>2, <1>4, <1>5
  <2>2. \A i \in m .. Len(k) : k[i] \in Piece
    <3>1. \A i \in 1 .. Len(k) : k[i] \in Piece
          BY <1>4, ElementOfSeq DEF Texts
    <3> QED BY <1>2, <1>4, <3>1
  <2> HIDE DEF m
  <2>3. /\ u \in Seq(Piece) /\ Len(u) = IF m <= Len(k) THEN Len(k) - m + 1 ELSE 0
        /\ \A i \in 1 .. Len(k) - m + 1 : u[i] = k[m + i - 1]
        BY <2>1, <2>2, SubSeqProperties
  <2> HIDE DEF u
  <2>4. Len(u) = Len(x)
        BY <2>1, <2>3
  <2>5. ASSUME NEW i \in 1 .. Len(u)
        PROVE  u[i] = x[i]
    <3>1. i \in 1 .. Len(k) - m + 1 /\ i \in 1 .. Len(x)
          BY <2>1, <2>4
    <3>2. m + i - 1 = Len(b) + i
          BY <1>2, <1>4, <3>1 DEF m
    <3> QED BY <1>4, <2>3, <3>1, <3>2
  <2> QED BY <2>3, <2>4, <2>5, SeqEqual DEF Texts
<1>9. Keys!Rest(k, base) = u
      BY <1>6 DEF Keys!Rest, b, Slash
<1> QED BY <1>3, <1>6, <1>7, <1>8, <1>9 DEF b, k

LEMMA LastPiece ==
    ASSUME NEW s \in Texts, NEW t \in Texts, t # <<>>
    PROVE  (s \o t)[Len(s \o t)] = t[Len(t)]
<1>1. Len(t) \in 1 .. Len(t)
      BY EmptySeq DEF Texts
<1>2. Len(s \o t) = Len(s) + Len(t) /\ (s \o t)[Len(s) + Len(t)] = t[Len(t)]
      BY <1>1, ByPieces
<1> QED BY <1>2

LEMMA TrimOf ==
    ASSUME NEW dir \in Keys!Path, NEW prefix \in Keys!Written(dir)
    PROVE  Keys!TrimSuffix(prefix) = Keys!Text(dir)
<1>1. CASE dir = <<>>
  <2>1. prefix = <<>> /\ Keys!Text(dir) = <<>>
        BY <1>1 DEF Keys!Written, Keys!Text
  <2> QED BY <2>1 DEF Keys!TrimSuffix
<1>2. CASE dir # <<>>
  <2> DEFINE t == Keys!Text(dir)
  <2>1. t \in Texts /\ t # <<>> /\ Joined(dir) = Slash \o t
        BY <1>2, JoinedCut
  <2> HIDE DEF t
  <2>2. t[Len(t)] # Keys!Sep
    <3>1. PICK d \in Keys!Path, m \in Keys!Name : dir = Append(d, m)
          BY <1>2, SequenceEmptyOrAppend DEF Keys!Path
    <3>2. Joined(dir) = Joined(d) \o (Slash \o m) /\ Joined(d) \in Texts
          BY <3>1, JoinedFacts, JoinedType
    <3>3. m \in Texts /\ m # <<>> /\ m[Len(m)] # Keys!Sep
      <4>1. m \in Texts /\ Len(m) \in 1 .. Len(m)
            BY NameFacts
      <4>2. m # <<>>
            BY <4>1, EmptySeq
      <4> QED BY <4>1, <4>2, NameFacts
    <3> DEFINE u == Slash \o m
    <3>4. u \in Texts /\ u # <<>> /\ u[Len(u)] = m[Len(m)]
      <4>1. u \in Texts /\ Len(u) = 1 + Len(m) /\ Len(m) \in Nat
        <5>1. m \in Texts /\ Slash \in Texts /\ Len(Slash) = 1
              BY <3>3, SlashFacts
        <5>2. Slash \o m \in Texts /\ Len(Slash \o m) = Len(Slash) + Len(m) /\ Len(m) \in Nat
              BY ONLY <5>1, ByPieces
        <5> QED BY <5>1, <5>2
      <4>2. u[Len(u)] = m[Len(m)]
            BY <3>3, SlashFacts, LastPiece
      <4> HIDE DEF u
      <4>3. Len(u) # 0
            BY <4>1
      <4> QED BY <4>1, <4>2, <4>3, EmptySeq
    <3> DEFINE j == Joined(dir)
    <3> HIDE DEF u
    <3>5. j[Len(j)] = u[Len(u)]
          BY <3>2, <3>4, LastPiece DEF u
    <3>6. j[Len(j)] = t[Len(t)]
          BY <2>1, SlashFacts, LastPiece
    <3> QED BY <3>3, <3>4, <3>5, <3>6
  <2>3. CASE prefix = t
        BY <2>1, <2>2, <2>3 DEF Keys!TrimSuffix, Keys!Last, t
  <2>4. CASE prefix = t \o Slash
    <3>1. Slash \in Texts /\ Len(Slash) = 1 /\ Slash[1] = Keys!Sep /\ Slash # <<>>
          BY SlashFacts, EmptySeq
    <3>2. prefix \in Texts /\ Len(prefix) = Len(t) + 1 /\ Len(t) \in Nat
      <4>1. Len(t \o Slash) = Len(t) + Len(Slash) /\ Len(t) \in Nat /\ t \o Slash \in Texts
            BY ONLY <2>1, <3>1, ByPieces
      <4> QED BY <2>4, <3>1, <4>1
    <3>3. prefix[Len(prefix)] = Slash[Len(Slash)]
          BY ONLY <2>1, <2>4, <3>1, LastPiece
    <3>4. prefix # <<>>
      <4>1. Len(prefix) # 0
            BY <3>2
      <4> QED BY <4>1, EmptySeq
    <3>5. SubSeq(prefix, 1, Len(t)) = t
          BY <2>1, <2>4, <3>1, PrefixOfConcat DEF Texts
    <3>6. Len(prefix) - 1 = Len(t)
          BY <3>2
    <3> QED BY <3>1, <3>3, <3>4, <3>5, <3>6 DEF Keys!TrimSuffix, Keys!Last, Keys!Front, t
  <2> QED BY <1>2, <2>3, <2>4 DEF Keys!Written, Slash, t
<1> QED BY <1>1, <1>2

\* The paths under a directory are those that go on from it.
LEMMA Extends ==
    ASSUME NEW dir \in Keys!Path, NEW q \in Keys!Path
    PROVE  Keys!IsStrictPrefix(dir, q) <=> \E r \in Keys!Path : r # <<>> /\ q = dir \o r
<1>1. Len(dir) \in Nat /\ Len(q) \in Nat /\ SubSeq(dir, 1, Len(dir)) = dir
      BY LenProperties, SubSeqFull DEF Keys!Path
<1>2. ASSUME Keys!IsStrictPrefix(dir, q)
      PROVE  \E r \in Keys!Path : r # <<>> /\ q = dir \o r
  <2>1. Len(dir) <= Len(q) /\ SubSeq(q, 1, Len(dir)) = dir /\ dir # q
        BY <1>1, <1>2 DEF Keys!IsStrictPrefix, Keys!IsPrefix
  <2> DEFINE r == SubSeq(q, Len(dir) + 1, Len(q))
  <2>2. r \in Keys!Path
    <3>1. \A i \in Len(dir) + 1 .. Len(q) : q[i] \in Keys!Name
      <4>1. \A i \in 1 .. Len(q) : q[i] \in Keys!Name
            BY ElementOfSeq DEF Keys!Path
      <4> QED BY <1>1, <4>1
    <3> QED BY <1>1, <3>1, SubSeqProperties DEF Keys!Path
  <2>3. SubSeq(q, 1, Len(dir)) \o r = SubSeq(q, 1, Len(q))
    <3>1. 1 \in 1 .. Len(q) + 1 /\ Len(dir) \in 1 - 1 .. Len(q) /\ Len(q) \in Len(dir) .. Len(q)
          BY <1>1, <2>1
    <3> QED BY <3>1, ConcatAdjacentSubSeq DEF Keys!Path
  <2>4. SubSeq(q, 1, Len(q)) = q
        BY SubSeqFull DEF Keys!Path
  <2> HIDE DEF r
  <2>5. q = dir \o r
        BY <2>1, <2>3, <2>4
  <2>6. r # <<>>
        BY <2>1, <2>5, ConcatEmptySeq DEF Keys!Path
  <2> QED BY <2>2, <2>5, <2>6
<1>3. ASSUME NEW r \in Keys!Path, r # <<>>, q = dir \o r
      PROVE  Keys!IsStrictPrefix(dir, q)
  <2>1. Len(q) = Len(dir) + Len(r) /\ Len(r) \in Nat \ {0}
        BY <1>3, ConcatProperties, EmptySeq DEF Keys!Path
  <2>2. SubSeq(q, 1, Len(dir)) = dir
        BY <1>3, PrefixOfConcat DEF Keys!Path
  <2>3. Len(dir) <= Len(q) /\ Len(dir) # Len(q)
    <3>1. Len(dir) \in Nat
          BY <1>1
    <3> QED BY ONLY <2>1, <3>1
  <2> QED BY <1>1, <2>2, <2>3 DEF Keys!IsStrictPrefix, Keys!IsPrefix
<1> QED BY <1>2, <1>3

\* The text of a path is under the text of a directory when the path is, and
\* shows the first name from there on.
LEMMA Under ==
    ASSUME NEW dir \in Keys!Path, NEW q \in Keys!Path, NEW prefix \in Keys!Written(dir)
    PROVE  /\ Keys!IsStrictPrefix(dir, q) <=>
                 /\ Keys!IsPrefix(prefix, Keys!Text(q))
                 /\ Keys!Rest(Keys!Text(q), Keys!Text(dir)) # <<>>
           /\ Keys!IsStrictPrefix(dir, q) =>
                 Keys!Child(Keys!Text(q), Keys!Text(dir)) = Keys!Text(SubSeq(q, 1, Len(dir) + 1))
<1> DEFINE base == Keys!Text(dir)
           k == Keys!Text(q)
<1>1. k \in Texts /\ (k = <<>> <=> q = <<>>)
  <2>1. CASE q = <<>>
        BY <2>1, EmptySeq DEF Keys!Text, Texts
  <2>2. CASE q # <<>>
        BY <2>2, JoinedCut
  <2> QED BY <2>1, <2>2
<1>2. CASE dir = <<>>
  <2>1. prefix = <<>> /\ base = <<>>
        BY <1>2 DEF Keys!Written, Keys!Text
  <2> HIDE DEF base, k
  <2>2. Keys!IsPrefix(prefix, k)
    <3>1. <<>> \in Texts /\ Len(<<>>) = 0 /\ Len(k) \in Nat
          BY <1>1, EmptySeq, LenProperties DEF Texts
    <3>2. Len(<<>>) <= Len(k) /\ \A i \in 1 .. Len(<<>>) : <<>>[i] = k[i]
          BY <3>1
    <3> QED BY <1>1, <2>1, <3>1, <3>2, PrefixIs
  <2>3. Keys!Rest(k, base) = k
        BY <2>1 DEF Keys!Rest
  <2>4. Keys!IsStrictPrefix(dir, q) <=> q # <<>>
    <3>1. \A r \in Keys!Path : dir \o r = r
          BY <1>2, ConcatEmptySeq DEF Keys!Path
    <3> QED BY <3>1, Extends
  <2>5. ASSUME q # <<>>
        PROVE  Keys!Child(k, base) = Keys!Text(SubSeq(q, 1, Len(dir) + 1))
    <3>1. q[1] \in Keys!Name /\ Keys!FirstName(k) = q[1]
          BY <2>5, FirstNameOfText DEF k
    <3>2. Keys!Text(<<q[1]>>) = q[1]
          BY <3>1, TextOfName
    <3>3. SubSeq(q, 1, 1) = <<q[1]>>
      <4>1. PICK n \in Keys!Name, r \in Keys!Path : q = <<n>> \o r /\ n = q[1]
            BY <2>5, Opens
      <4>2. <<n>> \in Seq(Keys!Name) /\ Len(<<n>>) = 1
            OBVIOUS
      <4>3. SubSeq(<<n>> \o r, 1, Len(<<n>>)) = <<n>>
            BY <4>2, PrefixOfConcat DEF Keys!Path
      <4> QED BY <4>1, <4>2, <4>3
    <3>4. Len(dir) + 1 = 1
          BY <1>2, EmptySeq
    <3>5. Keys!Child(k, base) = Keys!FirstName(k)
          BY <2>1 DEF Keys!Child
    <3> QED BY <3>1, <3>2, <3>3, <3>4, <3>5
  <2> QED BY <1>1, <2>2, <2>3, <2>4, <2>5 DEF base, k
<1>3. CASE dir # <<>>
  <2>1. base \in Texts /\ base # <<>> /\ Joined(dir) = Slash \o base
        BY <1>3, JoinedCut
  <2>2. prefix \in {base, base \o Slash}
        BY <1>3 DEF Keys!Written, Slash
  <2>3. ASSUME NEW r \in Keys!Path, r # <<>>, q = dir \o r
        PROVE  /\ Keys!IsPrefix(prefix, k) /\ Keys!Rest(k, base) # <<>>
               /\ Keys!Child(k, base) = Keys!Text(SubSeq(q, 1, Len(dir) + 1))
    <3> DEFINE x == Keys!Text(r)
    <3>1. k = base \o (Slash \o x) /\ x \in Texts /\ x # <<>>
          BY <1>3, <2>3, TextConcat, JoinedCut
    <3>2. r[1] \in Keys!Name /\ Keys!FirstName(x) = r[1]
          BY <2>3, FirstNameOfText
    <3> HIDE DEF base, k, x
    <3>3. Keys!Rest(k, base) = x /\ Keys!IsPrefix(base, k) /\ Keys!IsPrefix(base \o Slash, k)
          BY <2>1, <3>1, RestOf
    <3>4. PICK n \in Keys!Name, y \in Keys!Path : r = <<n>> \o y /\ n = r[1]
          BY <2>3, Opens
    <3> DEFINE one == <<n>>
    <3>5. one \in Keys!Path /\ Len(one) = 1 /\ one # <<>> /\ Keys!Text(one) = n
          BY TextOfName
    <3> HIDE DEF one
    <3>6. Keys!Child(k, base) = base \o (Slash \o n)
      <4>1. Keys!Child(k, base) = (base \o Slash) \o n
            BY <2>1, <3>2, <3>3, <3>4 DEF Keys!Child, Slash
      <4>2. base \in Texts /\ Slash \in Texts /\ n \in Texts
            BY <2>1, SlashFacts, NameFacts
      <4> QED BY <4>1, <4>2, TextAssoc
    <3>7. Keys!Text(dir \o one) = base \o (Slash \o n)
          BY <1>3, <3>5, TextConcat DEF base
    <3>8. SubSeq(q, 1, Len(dir) + 1) = dir \o one
      <4>1. q = (dir \o one) \o y
        <5>1. q = dir \o (one \o y)
              BY <2>3, <3>4 DEF one
        <5>2. (dir \o one) \o y = dir \o (one \o y)
              BY NameAssoc DEF one
        <5> QED BY <5>1, <5>2
      <4>2. dir \o one \in Keys!Path /\ Len(dir \o one) = Len(dir) + 1
        <5>1. dir \o one \in Keys!Path /\ Len(dir \o one) = Len(dir) + Len(one)
              BY <3>5, ConcatProperties DEF Keys!Path
        <5> QED BY <3>5, <5>1
      <4>3. SubSeq((dir \o one) \o y, 1, Len(dir \o one)) = dir \o one
            BY <4>2, PrefixOfConcat DEF Keys!Path
      <4> QED BY <4>1, <4>2, <4>3
    <3>9. Keys!IsPrefix(prefix, k)
          BY <2>2, <3>3
    <3> QED BY <3>1, <3>3, <3>6, <3>7, <3>8, <3>9
  <2>4. ASSUME Keys!Rest(k, base) # <<>>
        PROVE  Keys!IsStrictPrefix(dir, q)
    <3> HIDE DEF base, k
    <3>1. Keys!IsPrefix(base \o Slash, k)
          BY <2>1, <2>4 DEF Keys!Rest, Slash
    <3>2. Slash \in Texts /\ base \o Slash \in Texts
          BY <2>1, SlashFacts, TextJoins
    <3>3. q # <<>>
      <4>1. Len(Slash) = 1
            BY SlashFacts
      <4>2. Len(base \o Slash) = Len(base) + Len(Slash) /\ Len(base) \in Nat
            BY ONLY <2>1, <3>2, ByPieces
      <4>3. Len(base \o Slash) <= Len(k)
            BY <1>1, <3>1, <3>2, PrefixIs
      <4>4. Len(k) # 0
            BY <4>1, <4>2, <4>3
      <4> QED BY <1>1, <4>4, EmptySeq
    <3>4. Joined(q) = Slash \o k
          BY <3>3, JoinedCut DEF k
    <3>5. Keys!IsPrefix(Slash \o (base \o Slash), Slash \o k)
          BY <1>1, <3>1, <3>2, Cancel
    <3>6. Joined(dir) \o Slash = Slash \o (base \o Slash)
          BY <2>1, <3>2, TextAssoc
    <3>7. \E r \in Keys!Path : r # <<>> /\ q = dir \o r
          BY <3>4, <3>5, <3>6, Decodes
    <3> QED BY <3>7, Extends
  <2>5. ASSUME Keys!IsStrictPrefix(dir, q)
        PROVE  \E r \in Keys!Path : r # <<>> /\ q = dir \o r
        BY <2>5, Extends
  <2> HIDE DEF base, k
  <2> QED BY <2>3, <2>4, <2>5 DEF base, k
<1> QED BY <1>2, <1>3

LEMMA ListingExact ==
    ASSUME NEW paths \in SUBSET Keys!Path
    PROVE  Keys!Exact(paths)
<1> DEFINE keys == {Keys!Text(q) : q \in paths}
<1> SUFFICES ASSUME NEW p \in paths, NEW n \in 0 .. Len(p), NEW recursive \in BOOLEAN,
                    NEW prefix \in Keys!Written(SubSeq(p, 1, n))
             PROVE  Keys!List(keys, prefix, recursive)
                        = {Keys!Text(q) : q \in Keys!Listed(paths, SubSeq(p, 1, n), recursive)}
    BY DEF Keys!Exact
<1> DEFINE dir == SubSeq(p, 1, n)
           base == Keys!Text(dir)
           found == {q \in paths : Keys!IsStrictPrefix(dir, q)}
           under == {k \in {k \in keys : Keys!IsPrefix(prefix, k)} : Keys!Rest(k, base) # <<>>}
<1>1. dir \in Keys!Path
  <2>1. Len(p) \in Nat /\ n \in Int /\ n <= Len(p)
        BY LenProperties DEF Keys!Path
  <2>2. \A i \in 1 .. n : p[i] \in Keys!Name
    <3>1. \A i \in 1 .. Len(p) : p[i] \in Keys!Name
          BY ElementOfSeq DEF Keys!Path
    <3> QED BY <2>1, <3>1
  <2> QED BY <2>1, <2>2, SubSeqProperties DEF Keys!Path
<1>2. Keys!TrimSuffix(prefix) = base
      BY <1>1, TrimOf
<1>3. Keys!List(keys, prefix, recursive) = IF recursive THEN under ELSE {Keys!Child(k, base) : k \in under}
      BY <1>2 DEF Keys!List, Keys!childKeys, Keys!StorageList
<1>4. Keys!Listed(paths, dir, recursive) = IF recursive THEN found ELSE {SubSeq(q, 1, Len(dir) + 1) : q \in found}
      BY DEF Keys!Listed, Keys!Descendants
<1>5. \A q \in paths : /\ q \in found <=> Keys!IsPrefix(prefix, Keys!Text(q)) /\ Keys!Rest(Keys!Text(q), base) # <<>>
                       /\ q \in found => Keys!Child(Keys!Text(q), base) = Keys!Text(SubSeq(q, 1, Len(dir) + 1))
  <2>1. ASSUME NEW q \in paths
        PROVE  /\ Keys!IsStrictPrefix(dir, q) <=> Keys!IsPrefix(prefix, Keys!Text(q)) /\ Keys!Rest(Keys!Text(q), base) # <<>>
               /\ Keys!IsStrictPrefix(dir, q) => Keys!Child(Keys!Text(q), base) = Keys!Text(SubSeq(q, 1, Len(dir) + 1))
    <3>1. q \in Keys!Path
          OBVIOUS
    <3> QED BY <1>1, <3>1, Under
  <2> QED BY <2>1
<1>6. under = {Keys!Text(q) : q \in found}
  <2> HIDE DEF base, dir
  <2> QED BY <1>5
<1>7. found \subseteq paths
      OBVIOUS
<1> HIDE DEF found, under, base, dir
<1>8. {Keys!Child(k, base) : k \in under} = {Keys!Text(x) : x \in {SubSeq(q, 1, Len(dir) + 1) : q \in found}}
  <2> DEFINE First(q) == SubSeq(q, 1, Len(dir) + 1)
             shown == {Keys!Child(k, base) : k \in under}
             meant == {Keys!Text(x) : x \in {First(q) : q \in found}}
  <2>1. \A q \in found : Keys!Child(Keys!Text(q), base) = Keys!Text(First(q))
        BY <1>5, <1>7
  <2> HIDE DEF First
  <2>2. ASSUME NEW c \in shown
        PROVE  c \in meant
    <3>1. PICK k \in under : c = Keys!Child(k, base)
          OBVIOUS
    <3>2. PICK q \in found : k = Keys!Text(q)
          BY <1>6, <3>1
    <3> QED BY <2>1, <3>1, <3>2
  <2>3. ASSUME NEW c \in meant
        PROVE  c \in shown
    <3>1. PICK q \in found : c = Keys!Text(First(q))
          OBVIOUS
    <3>2. Keys!Text(q) \in under
          BY <1>6
    <3> QED BY <2>1, <3>1, <3>2
  <2>4. shown = meant
    <3> HIDE DEF shown, meant
    <3> QED BY <2>2, <2>3
  <2> QED BY <2>4 DEF First
<1> QED BY <1>3, <1>4, <1>6, <1>8 DEF dir

LEMMA ListsExactly ==
    Keys!Exact(Paths) /\ Keys!Exact(Paths')
<1>1. /\ Paths  \subseteq OtherPaths \cup {PathOf[f] : f \in DOMAIN PathOf}
      /\ Paths' \subseteq OtherPaths \cup {PathOf[f] : f \in DOMAIN PathOf}
      BY PathAssumption DEF Paths, Files
<1>2. Paths \in SUBSET Keys!Path /\ Paths' \in SUBSET Keys!Path
      BY <1>1, NamesAssumption
<1> QED BY <1>2, ListingExact

\* storage.List of the agent gives certmagic exactly the keys under a directory,
\* or the first names from there on, whichever way the directory is written: the
\* API's starts_with and childKeys, which know texts only, never take
\* "example.com.au" for a child of "example.com", nor a key for its own child.
THEOREM ListingsAreExact == Spec => ListIsExact
<1>1. Keys!Exact(Paths) /\ [blobs' # blobs => Keys!Exact(Paths')]_blobs
      BY ListsExactly
<1> QED BY <1>1, PTL DEF ListIsExact

-----------------------------------------------------------------------------
USE ProcessAssumption, PathAssumption, BoundsAssumption, NoneAssumption DEF Files

Step(j) == Manage(j) \/ Work(j) \/ LockTimeout(j)

\* A step of a job, or the end of its process: a Load that fails is both.
Goes(j) == Step(j) /\ UNCHANGED proc

Gone(p) ==
    /\ proc[p] = "running"
    /\ \E how \in {"ended", "fatal"} : Stop(p, how)
    /\ failures' \in 0 .. MaxFailures /\ failures <= failures'

-----------------------------------------------------------------------------
(* What a step may change.                                                   *)

\* Load says "ok" only of a blob that is there and opens.
LEMMA LoadOk ==
    ASSUME TypeOK, NEW j \in Jobs, NEW f \in Files, Load(j, f, "ok")
    PROVE  /\ Authorized(j) /\ CanOpen(j, f) /\ blobs[f] \in Blob
           /\ failures' = failures
BY DEF Load, Loaded, TypeOK

LEMMA LoadCounts ==
    ASSUME TypeOK, NEW j, NEW f, NEW r, Load(j, f, r)
    PROVE  failures' \in 0 .. MaxFailures /\ failures <= failures'
BY DEF Load, Fails, TypeOK

LEMMA PutCounts ==
    ASSUME TypeOK, NEW j \in Jobs, NEW f \in Files, NEW next, NEW failed, Put(j, f, next, failed)
    PROVE  /\ failures' \in 0 .. MaxFailures /\ failures <= failures'
           /\ \/ /\ Goto(j, next) /\ failures' = failures /\ Authorized(j)
                 /\ blobs' = [blobs EXCEPT ![f] = [pair |-> pair[j][f], token |-> tok[P(j)]]]
              \/ /\ Goto(j, failed)
                 /\ failures' = failures => ~Authorized(j)
                 /\ Authorized(j) => failures' = failures + 1
                 /\ blobs' \in {blobs, [blobs EXCEPT ![f] = [pair |-> pair[j][f], token |-> tok[P(j)]]]}
           /\ Authorized(j) \/ blobs' = blobs
BY DEF Put, Fails, TypeOK

LEMMA Places ==
    ASSUME NEW j \in Jobs
    PROVE  P(j) \in Processes /\ P(j)' = P(j) /\ D(j) \in Disks /\ D(j)' = D(j)
BY DEF P, D

\* The two loads of ManageAsync, when the process goes on.
LEMMA KeyLoaded ==
    ASSUME TypeOK, NEW j \in Jobs, LoadKey(j)
    PROVE  \/ /\ \/ Load(j, "key", "ok")       /\ Goto(j, "loadchain") /\ Read(j, "key")
                 \/ Load(j, "key", "notexist") /\ Goto(j, "lock")      /\ UNCHANGED pair
              /\ UNCHANGED <<server, process, lock>>
           \/ Gone(P(j)) /\ proc' # proc
<1>1. failures' \in 0 .. MaxFailures /\ failures <= failures'
      BY LoadCounts DEF LoadKey
<1>2. proc[P(j)] = "running" /\ P(j) \in Processes
      BY Places DEF LoadKey, At
<1>3. CASE LoadEnds(j)
      BY <1>1, <1>2, <1>3 DEF LoadEnds, Gone, Stop, TypeOK
<1> QED BY <1>3 DEF LoadKey

LEMMA ChainLoaded ==
    ASSUME TypeOK, NEW j \in Jobs, LoadChain(j)
    PROVE  \/ /\ \/ Load(j, "chain", "ok") /\ Goto(j, "ready") /\ Read(j, "chain")
                 \/ Goto(j, "lock") /\ pair' = [pair EXCEPT ![j] = Empty]
              /\ UNCHANGED <<server, process, lock>>
           \/ Gone(P(j)) /\ proc' # proc
<1>1. failures' \in 0 .. MaxFailures /\ failures <= failures'
      BY LoadCounts DEF LoadChain
<1>2. proc[P(j)] = "running" /\ P(j) \in Processes
      BY Places DEF LoadChain, At
<1>3. CASE LoadEnds(j)
      BY <1>1, <1>2, <1>3 DEF LoadEnds, Gone, Stop, TypeOK
<1> QED BY <1>3 DEF LoadChain

\* Every step is the operator's, a job's, or the end of a process.
LEMMA NextCases ==
    ASSUME TypeOK, [Next]_vars
    PROVE  \/ RotateToken
           \/ \E p \in Processes : Start(p) \/ Gone(p)
           \/ \E j \in Jobs : Goes(j)
           \/ UNCHANGED vars
<1>1. ASSUME NEW p \in Processes, End(p)
      PROVE  Gone(p)
      BY <1>1 DEF End, Gone, TypeOK
<1>2. ASSUME NEW j \in Jobs, LoadKey(j) \/ LoadChain(j)
      PROVE  Goes(j) \/ Gone(P(j))
      BY <1>2, KeyLoaded, ChainLoaded DEF Goes, Step, Work, process
<1>3. ASSUME NEW j \in Jobs, Step(j), ~LoadKey(j), ~LoadChain(j)
      PROVE  Goes(j)
  <2>1. CASE Manage(j) \/ LockTimeout(j) \/ Lock(j) \/ Unlock(j) \/ Reload(j) \/ Exists(j) \/ Issue(j)
        BY <1>3, <2>1 DEF Manage, LockTimeout, Lock, Unlock, Reload, Exists, Issue, process, Goes
  <2>2. CASE PutKey(j) \/ PutChain(j) \/ Rollback(j) \/ GetChain(j) \/ GetKey(j) \/ WriteChain(j) \/ WriteKey(j)
        BY <1>3, <2>2 DEF PutKey, PutChain, Rollback, GetChain, GetKey, Get, WriteChain, WriteKey,
                          Write, process, Goes
  <2> QED BY <1>3, <2>1, <2>2 DEF Step, Work
<1>4. \A j \in Jobs : P(j) \in Processes
      BY Places
<1> QED BY <1>1, <1>2, <1>3, <1>4 DEF Next, Step

\* A step of a job is its own: it leaves the other jobs where they are, but
\* for those that wait for its lock, and the other processes and disks alone.
LEMMA Frame ==
    ASSUME TypeOK, NEW j \in Jobs, Goes(j)
    PROVE  /\ proc[P(j)] = "running"
           /\ UNCHANGED <<token, tok, proc, cut>>
           /\ \A k \in Jobs \ {j} :
                 /\ pair'[k] = pair[k]
                 /\ job'[k] = job[k] \/ (job[k] = "wait" /\ job'[k] = "lock")
           /\ \A p \in Processes \ {P(j)} : lock'[p] = lock[p]
           /\ \A d \in Disks \ {D(j)} : files'[d] = files[d] /\ (d \in torn' <=> d \in torn)
           /\ met => met'
           /\ job[j] # "new" => met' = met
           /\ job[j] \notin Over
<1> USE DEF TypeOK, At, Goto, server, process, Over
<1>1. CASE Manage(j) \/ LockTimeout(j) \/ Lock(j)
      BY <1>1 DEF Manage, LockTimeout, Lock
<1>2. CASE LoadKey(j)
      BY <1>2, KeyLoaded DEF LoadKey, Read, Goes
<1>3. CASE LoadChain(j)
      BY <1>3, ChainLoaded DEF LoadChain, Read, Goes
<1>4. CASE Reload(j) \/ Exists(j) \/ Issue(j)
      BY <1>4 DEF Reload, Exists, Issue
<1>5. CASE PutKey(j)
      BY <1>5, PutCounts DEF PutKey
<1>6. CASE PutChain(j)
      BY <1>6, PutCounts DEF PutChain
<1>7. CASE Rollback(j)
      BY <1>7 DEF Rollback
<1>8. CASE GetChain(j) \/ GetKey(j)
      BY <1>8 DEF GetChain, GetKey, Get, Read
<1>9. CASE WriteChain(j) \/ WriteKey(j)
      BY <1>9 DEF WriteChain, WriteKey, Write
<1>10. CASE Unlock(j)
      BY <1>10 DEF Unlock
<1> QED BY <1>1, <1>2, <1>3, <1>4, <1>5, <1>6, <1>7, <1>8, <1>9, <1>10 DEF Step, Work, Goes

\* The end of a process: its jobs are over, and nothing else moves.
LEMMA StopFrame ==
    ASSUME TypeOK, NEW p \in Processes, Gone(p)
    PROVE  /\ UNCHANGED <<token, tok, blobs, issued, costs, files, met>>
           /\ \A k \in Jobs : IF P(k) = p
                 THEN job'[k] = "gaveup" /\ pair'[k] = Empty
                 ELSE job'[k] = job[k] /\ pair'[k] = pair[k]
           /\ \A q \in Processes : IF q = p THEN lock'[q] = None /\ proc'[q] \in {"ended", "fatal"}
                 ELSE lock'[q] = lock[q] /\ proc'[q] = proc[q]
BY DEF Gone, Stop, TypeOK, server

-----------------------------------------------------------------------------
(* Types: a job that has a pair to store, to write or to use does have it.   *)

Holding == {"putkey", "putchain", "getchain", "getkey", "writechain", "writekey"}

PairInv ==
    \A j \in Jobs :
        /\ job[j] \in Holding => \A f \in Files : pair[j][f] \in Pairs
        /\ job[j] = "loadchain" => pair[j]["key"] \in Pairs

States == Outside \cup Inside \cup Over

\* What has happened so far, after a step of a job.
LEMMA GhostTypes ==
    ASSUME TypeOK, NEW j \in Jobs, Goes(j)
    PROVE  /\ costs' \in [0 .. MaxToken -> Nat] /\ cut' \in Nat
           /\ met' \in BOOLEAN /\ torn' \subseteq Disks
<1>0. D(j) \in Disks
      BY Places
<1>1. cut' \in Nat
      BY Frame DEF TypeOK
<1>2. \/ met' \in BOOLEAN /\ UNCHANGED <<costs, torn>>
      \/ Issue(j) \/ WriteChain(j) \/ WriteKey(j)
  <2>1. CASE Manage(j)
        BY <2>1 DEF Manage, TypeOK, server
  <2>2. CASE LoadKey(j) \/ LoadChain(j)
        BY <2>2, KeyLoaded, ChainLoaded DEF Goes, TypeOK, server, process
  <2>3. CASE LockTimeout(j) \/ Reload(j) \/ Lock(j) \/ Exists(j) \/ Unlock(j)
        BY <2>3 DEF LockTimeout, Reload, Lock, Exists, Unlock, TypeOK, server, process
  <2>4. CASE PutKey(j) \/ PutChain(j) \/ Rollback(j) \/ GetChain(j) \/ GetKey(j)
        BY <2>4 DEF PutKey, PutChain, Rollback, GetChain, GetKey, Get, TypeOK, server, process
  <2> QED BY <2>1, <2>2, <2>3, <2>4 DEF Goes, Step, Work
<1>3. CASE Issue(j)
  <2>1. met' = met /\ torn' = torn
        BY <1>3 DEF Issue, process
  <2>2. costs' \in {costs, [costs EXCEPT ![token] = costs[token] + 1]}
        BY <1>3 DEF Issue
  <2>3. token \in 0 .. MaxToken /\ costs \in [0 .. MaxToken -> Nat]
        BY DEF TypeOK
  <2>4. \A n \in Nat : [costs EXCEPT ![token] = n] \in [0 .. MaxToken -> Nat]
        BY <2>3
  <2>5. costs[token] + 1 \in Nat
        BY <2>3
  <2> QED BY <1>1, <2>1, <2>2, <2>3, <2>4, <2>5 DEF TypeOK
<1>4. CASE WriteChain(j) \/ WriteKey(j)
  <2>1. PICK f \in Files, next \in {"writekey", "unlock"} : Write(j, f, next)
        BY <1>4 DEF WriteChain, WriteKey
  <2>2. met' = met /\ costs' = costs /\ torn' \in {torn, torn \ {D(j)}, torn \cup {D(j)}}
        BY <2>1 DEF Write, server
  <2> QED BY <1>0, <1>1, <2>2 DEF TypeOK
<1> QED BY <1>1, <1>2, <1>3, <1>4 DEF TypeOK

\* The parts of TypeOK that change in a step of one job.
LEMMA OwnTypes ==
    ASSUME TypeOK, PairInv, NEW j \in Jobs, Goes(j),
           lock' \in [Processes -> Jobs \cup {None}],
           issued' \in 0 .. MaxPairs, failures' \in 0 .. MaxFailures,
           blobs' \in [Files -> Blob \cup {None}],
           files' \in [Disks -> [Files -> Pairs \cup {None}]],
           NEW state \in States, Goto(j, state),
           NEW q \in [Files -> Pairs \cup {None}], pair' = [pair EXCEPT ![j] = q],
           state = "ready" => q["key"] \in Pairs,
           state \in Holding => \A f \in Files : q[f] \in Pairs,
           state = "loadchain" => q["key"] \in Pairs
    PROVE  TypeOK' /\ PairInv'
<1>1. UNCHANGED <<token, tok, proc>>
      BY Frame
<1>2. job' = [job EXCEPT ![j] = state] /\ job' \in [Jobs -> States]
      BY DEF Goto, TypeOK, States
<1>3. pair' \in [Jobs -> [Files -> Pairs \cup {None}]]
      BY DEF TypeOK
<1>4. \A k \in Jobs : job'[k] = "ready" => pair'[k]["key"] # None
      BY <1>2, <1>3 DEF TypeOK
<1>5. PairInv'
      BY <1>2, <1>3 DEF TypeOK, PairInv
<1>6. costs' \in [0 .. MaxToken -> Nat] /\ cut' \in Nat /\ met' \in BOOLEAN /\ torn' \subseteq Disks
      BY GhostTypes
<1> QED BY <1>1, <1>2, <1>3, <1>4, <1>5, <1>6 DEF TypeOK, States

\* A step that only moves its job, and perhaps reads into its pair.
LEMMA StillTyped ==
    ASSUME TypeOK, UNCHANGED <<server, files, lock>>
    PROVE  /\ lock' \in [Processes -> Jobs \cup {None}] /\ issued' \in 0 .. MaxPairs
           /\ blobs' \in [Files -> Blob \cup {None}]
           /\ files' \in [Disks -> [Files -> Pairs \cup {None}]]
BY DEF TypeOK, server

LEMMA StepTypes ==
    ASSUME TypeOK, PairInv, NEW j \in Jobs, Goes(j)
    PROVE  TypeOK' /\ PairInv'
<1> USE DEF States, Outside, Inside, Over, Holding
<1>0. /\ P(j) \in Processes
      /\ pair[j] \in [Files -> Pairs \cup {None}] /\ pair = [pair EXCEPT ![j] = pair[j]]
      /\ Empty \in [Files -> Pairs \cup {None}]
      BY DEF P, TypeOK, Empty
<1>1. ASSUME Manage(j) \/ LockTimeout(j)
      PROVE  TypeOK' /\ PairInv'
  <2>1. PICK state \in {"loadkey", "gaveup"} : Goto(j, state)
        BY <1>1 DEF Manage, LockTimeout
  <2>2. UNCHANGED <<server, files, lock, pair>> /\ failures' \in 0 .. MaxFailures
        BY <1>1 DEF Manage, LockTimeout, process, TypeOK
  <2>3. state \in States /\ state \notin {"ready", "loadchain"} /\ state \notin Holding
        BY <2>1
  <2>4. pair' = [pair EXCEPT ![j] = pair[j]]
        BY <1>0, <2>2
  <2> HIDE DEF States, Outside, Inside, Over, Holding
  <2> QED BY <1>0, <2>1, <2>2, <2>3, <2>4, StillTyped, OwnTypes
<1>3. CASE Lock(j)
  <2>1. lock' \in [Processes -> Jobs \cup {None}]
        BY <1>0, <1>3 DEF Lock, TypeOK
  <2>2. \E state \in {"exists", "wait"} : Goto(j, state)
        BY <1>3 DEF Lock
  <2> QED BY <1>0, <1>3, <2>1, <2>2, OwnTypes DEF Lock, TypeOK, server, process
<1>4. CASE LoadKey(j)
  <2>1. failures' \in 0 .. MaxFailures
        BY <1>4, LoadCounts DEF LoadKey
  <2>2. UNCHANGED <<server, process, lock>>
        BY <1>4, KeyLoaded DEF Goes
  <2>3. CASE Load(j, "key", "ok") /\ Goto(j, "loadchain") /\ Read(j, "key")
    <3> DEFINE q == [pair[j] EXCEPT !["key"] = blobs["key"].pair]
    <3>1. blobs["key"].pair \in Pairs
          BY <2>3, LoadOk DEF Blob
    <3>2. q \in [Files -> Pairs \cup {None}] /\ q["key"] \in Pairs /\ pair' = [pair EXCEPT ![j] = q]
          BY <1>0, <2>3, <3>1 DEF Read
    <3>3. "loadchain" \in States /\ "loadchain" # "ready" /\ "loadchain" \notin Holding
          OBVIOUS
    <3> HIDE DEF q, States, Outside, Inside, Over, Holding
    <3> QED BY <2>1, <2>2, <2>3, <3>2, <3>3, StillTyped, OwnTypes DEF process
  <2>4. CASE Goto(j, "lock") /\ UNCHANGED pair
    <3>1. "lock" \in States /\ "lock" \notin {"ready", "loadchain"} /\ "lock" \notin Holding
          OBVIOUS
    <3>2. pair' = [pair EXCEPT ![j] = pair[j]]
          BY <1>0, <2>4
    <3> HIDE DEF States, Outside, Inside, Over, Holding
    <3> QED BY <1>0, <2>1, <2>2, <2>4, <3>1, <3>2, StillTyped, OwnTypes DEF process
  <2> QED BY <1>4, <2>3, <2>4, KeyLoaded DEF Goes
<1>5. CASE LoadChain(j)
  <2>1. failures' \in 0 .. MaxFailures
        BY <1>5, LoadCounts DEF LoadChain
  <2>2. UNCHANGED <<server, process, lock>>
        BY <1>5, ChainLoaded DEF Goes
  <2>3. pair[j]["key"] \in Pairs
        BY <1>5 DEF LoadChain, At, PairInv
  <2>4. CASE Load(j, "chain", "ok") /\ Goto(j, "ready") /\ Read(j, "chain")
    <3> DEFINE q == [pair[j] EXCEPT !["chain"] = blobs["chain"].pair]
    <3>1. blobs["chain"].pair \in Pairs
          BY <2>4, LoadOk DEF Blob
    <3>2. q \in [Files -> Pairs \cup {None}] /\ q["key"] \in Pairs /\ pair' = [pair EXCEPT ![j] = q]
          BY <1>0, <2>3, <2>4, <3>1 DEF Read
    <3>3. "ready" \in States /\ "ready" # "loadchain" /\ "ready" \notin Holding
          OBVIOUS
    <3> HIDE DEF q, States, Outside, Inside, Over, Holding
    <3> QED BY <2>1, <2>2, <2>4, <3>2, <3>3, StillTyped, OwnTypes DEF process
  <2>5. CASE Goto(j, "lock") /\ pair' = [pair EXCEPT ![j] = Empty]
    <3>1. "lock" \in States /\ "lock" \notin {"ready", "loadchain"} /\ "lock" \notin Holding
          OBVIOUS
    <3> HIDE DEF States, Outside, Inside, Over, Holding
    <3> QED BY <1>0, <2>1, <2>2, <2>5, <3>1, StillTyped, OwnTypes DEF process
  <2> QED BY <1>5, <2>4, <2>5, ChainLoaded DEF Goes
<1>6. CASE Reload(j)
  <2>1. failures' \in 0 .. MaxFailures
        BY <1>6, LoadCounts DEF Reload, TypeOK
  <2>2. CASE \A f \in Files : Loaded(j, f) = "ok"
    <3> DEFINE q == [f \in Files |-> blobs[f].pair]
    <3>1. \A f \in Files : blobs[f].pair \in Pairs
          BY <2>2 DEF Loaded, TypeOK, Blob
    <3>2. q \in [Files -> Pairs \cup {None}] /\ q["key"] \in Pairs
          BY <3>1
    <3>3. \/ Goto(j, "ready") /\ pair' = [pair EXCEPT ![j] = q]
          \/ Goto(j, "gaveup") /\ UNCHANGED pair
          BY <1>6 DEF Reload
    <3>4. UNCHANGED <<server, process, lock>>
          BY <1>6 DEF Reload
    <3>5. /\ {"ready", "gaveup"} \subseteq States /\ {"ready", "gaveup"} \cap Holding = {}
          /\ "gaveup" # "ready" /\ "loadchain" \notin {"ready", "gaveup"}
          OBVIOUS
    <3> HIDE DEF q, States, Outside, Inside, Over, Holding
    <3>6. CASE Goto(j, "ready") /\ pair' = [pair EXCEPT ![j] = q]
          BY <1>6, <2>1, <3>2, <3>4, <3>5, <3>6, StillTyped, OwnTypes DEF process
    <3>7. CASE Goto(j, "gaveup") /\ UNCHANGED pair
          BY <1>0, <1>6, <2>1, <3>4, <3>5, <3>7, StillTyped, OwnTypes DEF process
    <3> QED BY <3>3, <3>6, <3>7
  <2>3. CASE Goto(j, "gaveup") /\ UNCHANGED pair
        BY <1>0, <1>6, <2>1, <2>3, OwnTypes DEF Reload, TypeOK, server, process
  <2> QED BY <1>6, <2>2, <2>3 DEF Reload
<1>7. CASE Exists(j)
  <2>1. \E state \in {"unlock", "issue"} : Goto(j, state)
        BY <1>7 DEF Exists
  <2>2. failures' \in 0 .. MaxFailures
        BY <1>7 DEF Exists, Fails, TypeOK
  <2> QED BY <1>0, <1>7, <2>1, <2>2, OwnTypes DEF Exists, TypeOK, server, process
<1>8. CASE Issue(j)
  <2>1. failures' \in 0 .. MaxFailures /\ issued' \in 0 .. MaxPairs
        BY <1>8 DEF Issue, Fails, TypeOK
  <2>2. CASE Goto(j, "putkey") /\ issued' = issued + 1 /\ pair' = [pair EXCEPT ![j] = [f \in Files |-> issued']]
    <3> DEFINE q == [f \in Files |-> issued']
    <3>1. issued' \in Pairs
          BY <2>1, <2>2 DEF TypeOK, Pairs
    <3>2. q \in [Files -> Pairs \cup {None}] /\ \A f \in Files : q[f] \in Pairs
          BY <3>1
    <3> HIDE DEF q
    <3>3. pair' = [pair EXCEPT ![j] = q]
          BY <2>2 DEF q
    <3> QED BY <1>8, <2>1, <2>2, <3>2, <3>3, OwnTypes DEF Issue, TypeOK, process
  <2>3. CASE Goto(j, "unlock") /\ UNCHANGED pair
    <3>1. "unlock" \in States /\ "unlock" \notin {"ready", "loadchain"} /\ "unlock" \notin Holding
          OBVIOUS
    <3>2. pair' = [pair EXCEPT ![j] = pair[j]]
          BY <1>0, <2>3
    <3>3. /\ lock' \in [Processes -> Jobs \cup {None}]
          /\ blobs' \in [Files -> Blob \cup {None}]
          /\ files' \in [Disks -> [Files -> Pairs \cup {None}]]
          BY <1>8 DEF Issue, TypeOK, process
    <3> HIDE DEF States, Outside, Inside, Over, Holding
    <3> QED BY <1>0, <2>1, <2>3, <3>1, <3>2, <3>3, OwnTypes
  <2> QED BY <1>8, <2>2, <2>3 DEF Issue
<1>9. ASSUME PutKey(j) \/ PutChain(j)
      PROVE  TypeOK' /\ PairInv'
  <2>1. \A f \in Files : pair[j][f] \in Pairs
        BY <1>9 DEF PutKey, PutChain, At, PairInv
  <2>2. \A f \in Files : [pair |-> pair[j][f], token |-> tok[P(j)]] \in Blob
        BY <1>0, <2>1 DEF Blob, TypeOK
  <2>3. PICK f \in Files, next \in States, failed \in States : Put(j, f, next, failed)
        BY <1>9 DEF PutKey, PutChain
  <2>5. blobs' \in [Files -> Blob \cup {None}] /\ failures' \in 0 .. MaxFailures
        BY <2>2, <2>3, PutCounts DEF TypeOK
  <2>4. PICK state \in {"putchain", "getchain", "unlock", "rollback"} :
            /\ Goto(j, state)
            /\ pair' = IF state \in {"unlock", "rollback"} THEN [pair EXCEPT ![j] = Empty] ELSE pair
    <3>1. CASE PutKey(j)
          BY <3>1, PutCounts DEF PutKey, Goto, TypeOK
    <3>2. CASE PutChain(j)
          BY <3>2, PutCounts DEF PutChain, Goto, TypeOK
    <3> QED BY <1>9, <3>1, <3>2
  <2>6. /\ lock' \in [Processes -> Jobs \cup {None}] /\ issued' \in 0 .. MaxPairs
        /\ files' \in [Disks -> [Files -> Pairs \cup {None}]]
        BY <1>9 DEF PutKey, PutChain, TypeOK, process
  <2>7. /\ state \in States /\ state \notin {"ready", "loadchain"}
        /\ state \in Holding => state \notin {"unlock", "rollback"}
        BY <2>4
  <2> HIDE DEF States, Outside, Inside, Over, Holding
  <2>8. CASE state \in {"unlock", "rollback"}
    <3>1. pair' = [pair EXCEPT ![j] = Empty]
          BY <2>4, <2>8
    <3> QED BY <1>0, <1>9, <2>4, <2>5, <2>6, <2>7, <2>8, <3>1, OwnTypes
  <2>9. CASE state \notin {"unlock", "rollback"}
    <3>1. pair' = pair
          BY <2>4, <2>9
    <3>2. pair' = [pair EXCEPT ![j] = pair[j]]
          BY <1>0, <3>1
    <3> QED BY <1>0, <1>9, <2>1, <2>4, <2>5, <2>6, <2>7, <3>2, OwnTypes
  <2> QED BY <2>8, <2>9
<1>10. CASE Rollback(j)
  <2>0. blobs' \in {blobs, [blobs EXCEPT !["key"] = None]} /\ UNCHANGED <<issued, lock, files>>
        BY <1>10 DEF Rollback, process
  <2>1. /\ lock' \in [Processes -> Jobs \cup {None}]
        /\ issued' \in 0 .. MaxPairs /\ failures' \in 0 .. MaxFailures
        /\ blobs' \in [Files -> Blob \cup {None}]
        /\ files' \in [Disks -> [Files -> Pairs \cup {None}]]
    <3>1. failures' \in 0 .. MaxFailures
          BY <1>10 DEF Rollback, Fails, TypeOK
    <3>2. blobs' \in [Files -> Blob \cup {None}]
          BY <2>0 DEF TypeOK
    <3> QED BY <2>0, <3>1, <3>2 DEF TypeOK
  <2>2. Goto(j, "unlock") /\ pair' = [pair EXCEPT ![j] = pair[j]]
        BY <1>0, <1>10 DEF Rollback
  <2>3. "unlock" \in States /\ "unlock" \notin {"ready", "loadchain"} /\ "unlock" \notin Holding
        OBVIOUS
  <2> HIDE DEF States, Outside, Inside, Over, Holding
  <2> QED BY <1>0, <2>1, <2>2, <2>3, OwnTypes
<1>11. ASSUME GetChain(j) \/ GetKey(j)
       PROVE  TypeOK' /\ PairInv'
  <2>1. PICK f \in Files, next \in {"getkey", "writechain"} : Get(j, f, next)
        BY <1>11 DEF GetChain, GetKey
  <2>2. failures' \in 0 .. MaxFailures
        BY <2>1, LoadCounts DEF Get
  <2>3. \A g \in Files : pair[j][g] \in Pairs
        BY <1>11 DEF GetChain, GetKey, At, PairInv
  <2>4. CASE Load(j, f, "ok") /\ Goto(j, next) /\ Read(j, f)
    <3> DEFINE q == [pair[j] EXCEPT ![f] = blobs[f].pair]
    <3>1. blobs[f].pair \in Pairs
          BY <2>4, LoadOk DEF Blob
    <3>2. q \in [Files -> Pairs \cup {None}] /\ (\A g \in Files : q[g] \in Pairs) /\ pair' = [pair EXCEPT ![j] = q]
          BY <1>0, <2>3, <2>4, <3>1 DEF Read
    <3> HIDE DEF q
    <3> QED BY <2>1, <2>2, <2>4, <3>2, OwnTypes DEF Get, TypeOK, server, process
  <2>5. CASE Goto(j, "unlock") /\ UNCHANGED pair
    <3>1. UNCHANGED <<server, process, lock>>
          BY <2>1 DEF Get
    <3>2. "unlock" \in States /\ "unlock" \notin {"ready", "loadchain"} /\ "unlock" \notin Holding
          OBVIOUS
    <3>3. pair' = [pair EXCEPT ![j] = pair[j]]
          BY <1>0, <2>5
    <3> HIDE DEF States, Outside, Inside, Over, Holding
    <3> QED BY <1>0, <2>2, <2>5, <3>1, <3>2, <3>3, StillTyped, OwnTypes DEF process
  <2> QED BY <2>1, <2>4, <2>5 DEF Get
<1>12. ASSUME WriteChain(j) \/ WriteKey(j)
       PROVE  TypeOK' /\ PairInv'
  <2>1. PICK f \in Files, next \in {"writekey", "unlock"} : Write(j, f, next)
        BY <1>12 DEF WriteChain, WriteKey
  <2>2. \A g \in Files : pair[j][g] \in Pairs
        BY <1>12 DEF WriteChain, WriteKey, At, PairInv
  <2>3. files' \in [Disks -> [Files -> Pairs \cup {None}]] /\ failures' \in 0 .. MaxFailures
    <3>1. failures' \in 0 .. MaxFailures
          BY <2>1 DEF Write, Fails, TypeOK
    <3>2. PICK v \in Pairs \cup {None} : files' \in {files, [files EXCEPT ![D(j)][f] = v]}
          BY <2>1, <2>2 DEF Write
    <3>3. D(j) \in Disks /\ files[D(j)] \in [Files -> Pairs \cup {None}]
          BY Places DEF TypeOK
    <3>4. files' \in {files, [files EXCEPT ![D(j)] = [files[D(j)] EXCEPT ![f] = v]]}
          BY <3>2
    <3>5. [files[D(j)] EXCEPT ![f] = v] \in [Files -> Pairs \cup {None}]
          BY <3>3
    <3>6. \A w \in [Files -> Pairs \cup {None}] :
             [files EXCEPT ![D(j)] = w] \in [Disks -> [Files -> Pairs \cup {None}]]
          BY <3>3 DEF TypeOK
    <3> QED BY <3>1, <3>4, <3>5, <3>6 DEF TypeOK
  <2>4. \E state \in {"writekey", "unlock"} : Goto(j, state)
        BY <2>1 DEF Write
  <2> QED BY <1>0, <2>1, <2>2, <2>3, <2>4, OwnTypes DEF Write, TypeOK, server
<1>13. CASE Unlock(j)
  <2>1. PICK next \in Outside \cup Over :
          /\ Leaves(j, next)
          /\ job' = [k \in Jobs |-> IF k = j THEN next
                                    ELSE IF P(k) = P(j) /\ job[k] = "wait" THEN "lock"
                                    ELSE job[k]]
        BY <1>13 DEF Unlock
  <2>2. next \in {"ready", "gaveup", "reload"} /\ (next = "ready" => pair[j]["key"] # None)
        BY <2>1 DEF Leaves
  <2>3. job' \in [Jobs -> States]
        BY <2>1, <2>2 DEF TypeOK
  <2>4. lock' \in [Processes -> Jobs \cup {None}] /\ UNCHANGED <<server, process, pair, failures>>
        BY <1>0, <1>13 DEF Unlock, TypeOK
  <2>5. \A k \in Jobs :
           \/ job'[k] = job[k]
           \/ job'[k] \in {"lock", "gaveup", "reload"}
           \/ job'[k] = "ready" /\ pair[k]["key"] # None
    <3>1. job'[j] = next
          BY <2>1
    <3>2. \A k \in Jobs : k # j => job'[k] = job[k] \/ job'[k] = "lock"
          BY <2>1
    <3>3. TAKE k \in Jobs
    <3>4. CASE k = j
          BY <2>2, <3>1, <3>4
    <3>5. CASE k # j
          BY <3>2, <3>5
    <3> QED BY <3>4, <3>5
  <2>6. PairInv'
        BY <2>4, <2>5 DEF PairInv, At, P, process
  <2> QED BY <2>3, <2>4, <2>5, <2>6 DEF TypeOK, server, process
<1> QED BY <1>1, <1>3, <1>4, <1>5, <1>6, <1>7, <1>8, <1>9, <1>10, <1>11, <1>12, <1>13
        DEF Goes, Step, Work

LEMMA InitTypes ==
    Init => TypeOK /\ PairInv
<1> SUFFICES ASSUME Init PROVE TypeOK /\ PairInv
    OBVIOUS
<1> USE DEF Init
<1>1. {0} \subseteq Nat /\ 0 \in 0 .. MaxToken /\ 0 \in 0 .. MaxPairs /\ 0 \in 0 .. MaxFailures
      OBVIOUS
<1>2. Empty \in [Files -> Pairs \cup {None}] /\ Empty \in [Files -> Blob \cup {None}]
      BY DEF Empty
<1>3. costs \in [0 .. MaxToken -> Nat]
      OBVIOUS
<1>4. /\ proc \in [Processes -> {"new", "running", "fatal", "ended"}]
      /\ tok \in [Processes -> 0 .. MaxToken]
      /\ lock \in [Processes -> Jobs \cup {None}]
      BY <1>1
<1>5. \A j \in Jobs : job[j] = "new"
      OBVIOUS
<1>6. job \in [Jobs -> States] /\ PairInv
      BY <1>5 DEF States, Outside, PairInv, Holding
<1>7. pair \in [Jobs -> [Files -> Pairs \cup {None}]] /\ files \in [Disks -> [Files -> Pairs \cup {None}]]
      BY <1>2
<1>8. met \in BOOLEAN /\ torn \subseteq Disks
      OBVIOUS
<1> QED BY <1>1, <1>2, <1>3, <1>4, <1>5, <1>6, <1>7, <1>8 DEF TypeOK, States

\* The operator's two steps, an agent is started and the token is rotated, and
\* the end of a process.
LEMMA OtherTypes ==
    ASSUME TypeOK, PairInv,
           RotateToken \/ (\E p \in Processes : Start(p) \/ Gone(p))
    PROVE  TypeOK' /\ PairInv'
<1>1. CASE RotateToken
      BY <1>1 DEF RotateToken, TypeOK, PairInv, process
<1>2. ASSUME NEW p \in Processes, Start(p)
      PROVE  TypeOK' /\ PairInv'
      BY <1>2 DEF Start, TypeOK, PairInv, server
<1>3. ASSUME NEW p \in Processes, Gone(p)
      PROVE  TypeOK' /\ PairInv'
  <2>1. DiskOf[p] \in Disks
        OBVIOUS
  <2>2. PICK how \in {"ended", "fatal"} : Stop(p, how)
        BY <1>3 DEF Gone
  <2>3. cut' \in Nat /\ torn' \subseteq Disks /\ failures' \in 0 .. MaxFailures
        BY <1>3, <2>1, <2>2 DEF Stop, TypeOK, Gone
  <2>4. /\ proc' \in [Processes -> {"new", "running", "fatal", "ended"}]
        /\ lock' \in [Processes -> Jobs \cup {None}]
        BY <2>2 DEF Stop, TypeOK
  <2>5. Empty \in [Files -> Pairs \cup {None}]
        BY DEF Empty
  <2>6. /\ job' \in [Jobs -> States] /\ pair' \in [Jobs -> [Files -> Pairs \cup {None}]]
        BY <2>2, <2>5 DEF Stop, TypeOK, States, Over
  <2>7. \A k \in Jobs : job'[k] = "gaveup" \/ (job'[k] = job[k] /\ pair'[k] = pair[k])
        BY <2>2 DEF Stop, TypeOK
  <2>8. PairInv' /\ \A k \in Jobs : job'[k] = "ready" => pair'[k]["key"] # None
        BY <2>7 DEF PairInv, Holding, TypeOK
  <2>9. UNCHANGED <<token, tok, blobs, issued, costs, files, met>>
        BY <1>3, StopFrame
  <2> QED BY <2>3, <2>4, <2>6, <2>8, <2>9 DEF TypeOK, States
<1> QED BY <1>1, <1>2, <1>3

-----------------------------------------------------------------------------
(* The lock.                                                                 *)

\* Whoever is between Lock and Unlock is the owner the lock map names.
LockInv == \A j \in Jobs : job[j] \in Inside => lock[P(j)] = j

\* The lock map changes for a job that finds it free and for its owner only.
LEMMA LockChanges ==
    ASSUME TypeOK, NEW j \in Jobs, Goes(j)
    PROVE  \/ /\ lock' = lock
              /\ job'[j] \in Inside => job[j] \in Inside
           \/ lock[P(j)] = None /\ lock'[P(j)] = j
           \/ job[j] \in Inside /\ job'[j] \notin Inside
<1> USE DEF TypeOK, At, Goto, Outside, Inside, Over
<1>0. P(j) \in Processes
      BY Places
<1>1. CASE Lock(j)
      BY <1>0, <1>1 DEF Lock
<1>2. CASE Unlock(j)
      BY <1>2 DEF Unlock, Leaves
<1>3. CASE LoadKey(j) \/ LoadChain(j)
      BY <1>3, KeyLoaded, ChainLoaded DEF Goes
<1>4. CASE Manage(j) \/ LockTimeout(j) \/ Reload(j)
      BY <1>4 DEF Manage, LockTimeout, Reload
<1>5. CASE Exists(j) \/ Issue(j) \/ PutKey(j) \/ PutChain(j) \/ Rollback(j)
      BY <1>5 DEF Exists, Issue, PutKey, PutChain, Rollback
<1>6. CASE GetChain(j) \/ GetKey(j) \/ WriteChain(j) \/ WriteKey(j)
      BY <1>6 DEF GetChain, GetKey, Get, WriteChain, WriteKey, Write
<1> QED BY <1>1, <1>2, <1>3, <1>4, <1>5, <1>6 DEF Goes, Step, Work

LEMMA StepLocks ==
    ASSUME TypeOK, LockInv, NEW j \in Jobs, Goes(j)
    PROVE  LockInv'
<1> SUFFICES ASSUME NEW k \in Jobs, job'[k] \in Inside
             PROVE  lock'[P(k)] = k
    BY DEF LockInv, P
<1>0. P(j) \in Processes /\ P(k) \in Processes
      BY Places
<1>1. CASE k = j
      BY <1>1, LockChanges DEF LockInv
<1>2. CASE k # j
  <2>1. job[k] \in Inside
        BY <1>2, Frame DEF Inside
  <2>2. lock[P(k)] = k /\ lock[P(k)] # None
        BY <2>1 DEF LockInv
  <2>3. CASE P(k) = P(j)
        BY <1>2, <2>2, <2>3, LockChanges DEF LockInv
  <2>4. CASE P(k) # P(j)
        BY <1>0, <2>2, <2>4, Frame
  <2> QED BY <2>3, <2>4
<1> QED BY <1>1, <1>2

-----------------------------------------------------------------------------
(* The jobs under way: they are of running processes, and of one process as  *)
(* long as no two have met.                                                  *)

Busy(j) == job[j] \notin {"new"} \cup Over

AloneInv ==
    /\ \A j \in Jobs : Busy(j) => proc[P(j)] = "running"
    /\ ~met => \A j, k \in Jobs : Busy(j) /\ Busy(k) => P(j) = P(k)

LEMMA StepAlone ==
    ASSUME TypeOK, AloneInv, NEW j \in Jobs, Goes(j)
    PROVE  AloneInv'
<1>1. \A k \in Jobs : P(k)' = P(k)
      BY Places
<1>2. \A k \in Jobs : k # j => (Busy(k)' => Busy(k))
      BY Frame DEF Busy, Over
<1>3. \A k \in Jobs : Busy(k)' => proc'[P(k)] = "running"
      BY <1>2, Frame DEF AloneInv
<1>4. ASSUME ~met', NEW k \in Jobs, NEW l \in Jobs, Busy(k)', Busy(l)'
      PROVE  P(k) = P(l)
  <2>1. ~met
        BY <1>4, Frame
  <2>2. CASE job[j] # "new"
    <3>1. Busy(j)
          BY <2>2, Frame DEF Busy
    <3> QED BY <1>2, <1>4, <2>1, <3>1 DEF AloneInv
  <2>3. CASE job[j] = "new"
    <3>1. Manage(j)
      <4>1. ~LoadKey(j) /\ ~LoadChain(j) /\ ~Reload(j) /\ ~Lock(j) /\ ~Exists(j) /\ ~Issue(j)
            BY <2>3 DEF LoadKey, LoadChain, Reload, Lock, Exists, Issue, At
      <4>2. ~PutKey(j) /\ ~PutChain(j) /\ ~Rollback(j) /\ ~GetChain(j) /\ ~GetKey(j)
            BY <2>3 DEF PutKey, PutChain, Rollback, GetChain, GetKey, At
      <4>3. ~WriteChain(j) /\ ~WriteKey(j) /\ ~Unlock(j) /\ ~LockTimeout(j)
            BY <2>3 DEF WriteChain, WriteKey, Unlock, LockTimeout, At
      <4> QED BY <4>1, <4>2, <4>3 DEF Goes, Step, Work
    <3>2. \A p \in Processes \ {P(j)} : ~Active(p)
          BY <1>4, <3>1 DEF Manage
    <3>3. \A i \in Jobs : Busy(i) => P(i) = P(j)
          BY <3>2, Places DEF Active, Busy
    <3> QED BY <1>2, <1>4, <3>3
  <2> QED BY <2>2, <2>3
<1> QED BY <1>1, <1>3, <1>4 DEF AloneInv

\* What the theorems below are all proved from.
BaseInv == TypeOK /\ PairInv /\ LockInv /\ AloneInv

LEMMA OtherBase ==
    ASSUME BaseInv, RotateToken \/ (\E p \in Processes : Start(p) \/ Gone(p))
    PROVE  LockInv' /\ AloneInv'
<1>1. \A k \in Jobs : P(k) \in Processes /\ P(k)' = P(k)
      BY Places
<1>2. CASE RotateToken
      BY <1>1, <1>2 DEF RotateToken, process, BaseInv, LockInv, AloneInv, Busy
<1>3. ASSUME NEW p \in Processes, Start(p)
      PROVE  LockInv' /\ AloneInv'
  <2>1. UNCHANGED <<job, lock, met>> /\ \A q \in Processes : proc[q] = "running" => proc'[q] = "running"
        BY <1>3 DEF Start, BaseInv, TypeOK
  <2> QED BY <1>1, <2>1 DEF BaseInv, LockInv, AloneInv, Busy
<1>4. ASSUME NEW p \in Processes, Gone(p)
      PROVE  LockInv' /\ AloneInv'
  <2>1. \A k \in Jobs : P(k) = p => ~Busy(k)' /\ job'[k] \notin Inside
        BY <1>4, StopFrame DEF BaseInv, Busy, Over, Inside
  <2>2. \A k \in Jobs : P(k) # p => job'[k] = job[k] /\ lock'[P(k)] = lock[P(k)] /\ proc'[P(k)] = proc[P(k)]
        BY <1>1, <1>4, StopFrame DEF BaseInv
  <2>3. met' = met
        BY <1>4, StopFrame DEF BaseInv
  <2> QED BY <1>1, <2>1, <2>2, <2>3 DEF BaseInv, LockInv, AloneInv, Busy
<1> QED BY <1>2, <1>3, <1>4

LEMMA BaseInvariant == Spec => []BaseInv
<1>1. Init => BaseInv
      BY InitTypes DEF BaseInv, LockInv, AloneInv, Busy, Init, Inside
<1>2. BaseInv /\ [Next]_vars => BaseInv'
  <2> SUFFICES ASSUME BaseInv, [Next]_vars
               PROVE  BaseInv'
      OBVIOUS
  <2>0. TypeOK /\ PairInv /\ LockInv /\ AloneInv
        BY DEF BaseInv
  <2>1. CASE RotateToken \/ (\E p \in Processes : Start(p) \/ Gone(p))
        BY <2>0, <2>1, OtherTypes, OtherBase DEF BaseInv
  <2>2. ASSUME NEW j \in Jobs, Goes(j)
        PROVE  BaseInv'
        BY <2>0, <2>2, StepTypes, StepLocks, StepAlone DEF BaseInv
  <2>3. CASE UNCHANGED vars
        BY <2>0, <2>3, Places DEF vars, server, process, TypeOK, PairInv, LockInv, AloneInv, Busy, BaseInv
  <2> QED BY <2>0, <2>1, <2>2, <2>3, NextCases
<1> QED BY <1>1, <1>2, PTL DEF Spec

\* Every variable keeps its type, in particular a job that is "ready" has a
\* certificate to use, whichever way it came by it: from the store before or
\* after it took the lock, or from the CA.
THEOREM TypeCorrect == Spec => []TypeOK
<1>1. BaseInv => TypeOK
      BY DEF BaseInv
<1> QED BY <1>1, BaseInvariant, PTL

\* The lock of a hostname lets one job in at a time, whatever order the jobs of
\* a process find it free, wait on its channel, time out and are woken in: the
\* map is looked at again after every wake-up, and the owner alone deletes it.
THEOREM LocksAlwaysExclude == Spec => []LocksExclude
<1>1. BaseInv => LocksExclude
      BY DEF BaseInv, LockInv, LocksExclude
<1> QED BY <1>1, BaseInvariant, PTL

-----------------------------------------------------------------------------
(* While no two processes have met, the job that is inside is the only one    *)
(* that touches the store, the CA and the disks.                              *)

\* They change between Lock and Unlock only, and no failure is forgotten.
LEMMA StoreChanges ==
    ASSUME TypeOK, NEW j \in Jobs, Goes(j)
    PROVE  /\ job[j] \in Inside \/ UNCHANGED <<blobs, issued, costs, files, torn>>
           /\ failures \in Nat /\ failures' \in Nat /\ failures <= failures'
<1> USE DEF TypeOK, At, Inside, server, process
<1>1. CASE Manage(j) \/ LockTimeout(j) \/ Lock(j) \/ Unlock(j)
      BY <1>1 DEF Manage, LockTimeout, Lock, Unlock
<1>2. CASE LoadKey(j)
      BY <1>2, LoadCounts, KeyLoaded DEF LoadKey, Goes
<1>3. CASE LoadChain(j)
      BY <1>3, LoadCounts, ChainLoaded DEF LoadChain, Goes
<1>4. CASE Reload(j)
      BY <1>4, LoadCounts DEF Reload
<1>5. CASE Exists(j) \/ Issue(j) \/ Rollback(j)
      BY <1>5 DEF Exists, Issue, Rollback, Fails
<1>6. CASE PutKey(j) \/ PutChain(j)
      BY <1>6, PutCounts DEF PutKey, PutChain
<1>7. CASE GetChain(j) \/ GetKey(j)
      BY <1>7, LoadCounts DEF GetChain, GetKey, Get
<1>8. CASE WriteChain(j) \/ WriteKey(j)
      BY <1>8 DEF WriteChain, WriteKey, Write, Fails
<1> QED BY <1>1, <1>2, <1>3, <1>4, <1>5, <1>6, <1>7, <1>8 DEF Goes, Step, Work

\* What a step of j leaves as it was for another job that is inside: everything,
\* since j itself is then outside.
LEMMA OthersWait ==
    ASSUME BaseInv, ~met, NEW j \in Jobs, Goes(j),
           NEW k \in Jobs, k # j, job[k] \in Inside \/ job'[k] \in Inside
    PROVE  /\ job[k] = job'[k] /\ pair'[k] = pair[k]
           /\ job[j] \notin Inside
           /\ UNCHANGED <<blobs, issued, costs, files, torn>>
<1>0. TypeOK
      BY DEF BaseInv
<1>1. job[k] = job'[k] /\ pair'[k] = pair[k]
      BY <1>0, Frame DEF Inside
<1>2. ASSUME job[j] \in Inside
      PROVE  FALSE
  <2>1. Busy(j) /\ Busy(k)
        BY <1>1, <1>2 DEF Busy, Inside, Over
  <2>2. P(j) = P(k)
        BY <2>1 DEF BaseInv, AloneInv
  <2> QED BY <1>1, <1>2, <2>2 DEF BaseInv, LockInv
<1> QED BY <1>0, <1>1, <1>2, StoreChanges

LEMMA Sole ==
    ASSUME BaseInv, ~met, NEW j \in Jobs, Goes(j), job[j] \in Inside
    PROVE  \A k \in Jobs \ {j} : job[k] \notin Inside /\ job'[k] \notin Inside
BY OthersWait

-----------------------------------------------------------------------------
(* OneCertificate.                                                            *)

\* Certificates that what went wrong may have cost.
Slack == failures + cut

LEMMA Sums ==
    ASSUME NEW a \in Nat, NEW b \in Nat, NEW c \in Nat, NEW d \in Nat, a <= c, b <= d
    PROVE  /\ a + b \in Nat /\ c + d \in Nat /\ a + b <= c + d
           /\ c = a + 1 \/ d = b + 1 => a + b + 1 <= c + d
OBVIOUS

\* What goes wrong is not forgotten, by a job's step or by the end of a process.
LEMMA SlackGrows ==
    ASSUME TypeOK, (\E j \in Jobs : Goes(j)) \/ (\E p \in Processes : Gone(p))
    PROVE  /\ Slack \in Nat /\ Slack' \in Nat /\ Slack <= Slack'
           /\ failures' = failures + 1 => Slack + 1 <= Slack'
           /\ cut' = cut + 1 => Slack + 1 <= Slack'
<1>1. failures \in Nat /\ failures' \in Nat /\ failures <= failures' /\ cut \in Nat
      BY StoreChanges DEF Gone, TypeOK
<1>2. cut' \in Nat /\ cut <= cut'
  <2>1. CASE \E j \in Jobs : Goes(j)
        BY <1>1, <2>1, Frame
  <2>2. ASSUME NEW p \in Processes, Gone(p)
        PROVE  cut' \in Nat /\ cut <= cut'
        BY <1>1, <2>2 DEF Gone, Stop
  <2> QED BY <2>1, <2>2
<1> HIDE DEF Goes, Gone
<1>3. /\ failures + cut \in Nat /\ failures' + cut' \in Nat
      /\ failures + cut <= failures' + cut'
      /\ failures' = failures + 1 \/ cut' = cut + 1 => failures + cut + 1 <= failures' + cut'
      BY <1>1, <1>2, Sums
<1> QED BY <1>3 DEF Slack

\* A job that is storing its certificate, and may.
Storing(j) == Authorized(j) /\ job[j] \in {"putkey", "putchain"}

\* What the valid token has cost is paid for: by what is in the store, by the
\* job on its way to it, or by something that went wrong.  A job about to ask
\* for another one, or to take its key back, has the last excuse.
Paid ==
    /\ \A t \in 0 .. MaxToken : costs[t] <= Slack + 1
    /\ (\A f \in Files : blobs[f] # None) \/ (\E j \in Jobs : Storing(j)) \/ costs[token] <= Slack
    /\ \A j \in Jobs : Authorized(j) =>
          /\ job[j] \in {"issue", "rollback"} => costs[token] <= Slack
          /\ job[j] = "putchain" => blobs["key"] # None

IssueInv ==
    /\ \A p \in Processes : tok[p] <= token
    /\ \A t \in 0 .. MaxToken : t > token => costs[t] = 0
    /\ ~met => Paid

LEMMA LessSlack ==
    ASSUME NEW c \in Nat, NEW s \in Nat, NEW s1 \in Nat, s <= s1
    PROVE  /\ c <= s => c <= s1
           /\ c <= s + 1 => c <= s1 + 1
           /\ s + 1 <= s1 /\ c <= s + 1 => c <= s1
OBVIOUS

\* A step that leaves the store and the CA alone, of a job with nothing to store.
LEMMA QuietIssue ==
    ASSUME BaseInv, Paid, NEW j \in Jobs, Goes(j), UNCHANGED <<blobs, costs>>,
           job[j] \notin {"putkey", "putchain"},
           job'[j] \notin {"issue", "rollback", "putchain"}
    PROVE  Paid'
<1>0. TypeOK /\ token \in 0 .. MaxToken /\ \A t \in 0 .. MaxToken : costs[t] \in Nat
      BY DEF BaseInv, TypeOK
<1>1. Slack \in Nat /\ Slack' \in Nat /\ Slack <= Slack'
      BY <1>0, SlackGrows
<1>2. token' = token /\ \A k \in Jobs : Authorized(k)' = Authorized(k)
      BY <1>0, Frame, Places DEF Authorized
<1> HIDE DEF Slack
<1>3. \A t \in 0 .. MaxToken : /\ costs[t] <= Slack + 1 => costs[t] <= Slack' + 1
                               /\ costs[t] <= Slack => costs[t] <= Slack'
      BY <1>0, <1>1, LessSlack
<1>4. \A k \in Jobs : k # j => (job'[k] = job[k] \/ job'[k] = "lock")
      BY <1>0, Frame
<1>5. \A k \in Jobs : job[k] \in {"putkey", "putchain"} => job'[k] = job[k]
      BY <1>0, Frame
<1>6. \A k \in Jobs : Storing(k) => Storing(k)'
      BY <1>2, <1>5 DEF Storing
<1>7. \A k \in Jobs : job'[k] \in {"issue", "rollback", "putchain"} => job'[k] = job[k]
      BY <1>4
<1> QED BY <1>0, <1>2, <1>3, <1>6, <1>7 DEF Paid

\* A step of the job that is inside: what is left to show of it.
LEMMA InsideIssue ==
    ASSUME BaseInv, ~met, NEW j \in Jobs, Goes(j), job[j] \in Inside,
           \A t \in 0 .. MaxToken : costs'[t] <= Slack' + 1,
           (\A f \in Files : blobs'[f] # None) \/ Storing(j)' \/ costs'[token] <= Slack',
           Authorized(j) => /\ job'[j] \in {"issue", "rollback"} => costs'[token] <= Slack'
                            /\ job'[j] = "putchain" => blobs'["key"] # None
    PROVE  Paid'
<1>0. TypeOK
      BY DEF BaseInv
<1>1. token' = token /\ Authorized(j)' = Authorized(j)
      BY <1>0, Frame, Places DEF Authorized
<1>2. \A k \in Jobs \ {j} : job'[k] \notin Inside
      BY Sole
<1>3. \A k \in Jobs \ {j} : job'[k] \notin {"issue", "rollback", "putchain"}
      BY <1>2 DEF Inside
<1> HIDE DEF Slack
<1> QED BY <1>1, <1>3 DEF Paid

LEMMA StepPaid ==
    ASSUME BaseInv, IssueInv, ~met, NEW j \in Jobs, Goes(j)
    PROVE  Paid'
<1> USE DEF At, Goto, server, process
<1>0. /\ TypeOK /\ Paid /\ token \in 0 .. MaxToken
      /\ \A t \in 0 .. MaxToken : costs[t] \in Nat
      BY DEF BaseInv, TypeOK, IssueInv
<1>1. Slack \in Nat /\ Slack' \in Nat /\ Slack <= Slack' /\ (failures' = failures + 1 => Slack + 1 <= Slack')
      BY <1>0, SlackGrows
<1>2. token' = token /\ Authorized(j)' = Authorized(j)
      BY <1>0, Frame, Places DEF Authorized
<1> HIDE DEF Slack
<1>3. /\ \A t \in 0 .. MaxToken : costs[t] <= Slack' + 1
      /\ costs[token] <= Slack => costs[token] <= Slack'
      /\ failures' = failures + 1 => costs[token] <= Slack'
      BY <1>0, <1>1, LessSlack DEF Paid
<1>4. CASE Manage(j) \/ LockTimeout(j) \/ Reload(j) \/ Lock(j) \/ Unlock(j)
  <2>1. UNCHANGED <<blobs, costs>> /\ job[j] \notin {"putkey", "putchain"}
        BY <1>4 DEF Manage, LockTimeout, Reload, Lock, Unlock
  <2>2. job'[j] \notin {"issue", "rollback", "putchain"}
        BY <1>0, <1>4 DEF Manage, LockTimeout, Reload, Lock, Unlock, Leaves, TypeOK
  <2> QED BY <1>0, <2>1, <2>2, QuietIssue
<1>5. CASE LoadKey(j)
  <2>1. UNCHANGED <<blobs, costs>> /\ job[j] \notin {"putkey", "putchain"}
        BY <1>0, <1>5, KeyLoaded DEF LoadKey, Goes
  <2>2. job'[j] \notin {"issue", "rollback", "putchain"}
        BY <1>0, <1>5, KeyLoaded DEF Goes, TypeOK
  <2> QED BY <1>0, <2>1, <2>2, QuietIssue
<1>6. CASE LoadChain(j)
  <2>1. UNCHANGED <<blobs, costs>> /\ job[j] \notin {"putkey", "putchain"}
        BY <1>0, <1>6, ChainLoaded DEF LoadChain, Goes
  <2>2. job'[j] \notin {"issue", "rollback", "putchain"}
        BY <1>0, <1>6, ChainLoaded DEF Goes, TypeOK
  <2> QED BY <1>0, <2>1, <2>2, QuietIssue
<1>7. CASE GetChain(j) \/ GetKey(j) \/ WriteChain(j) \/ WriteKey(j)
  <2>1. UNCHANGED <<blobs, costs>> /\ job[j] \notin {"putkey", "putchain"}
        BY <1>7 DEF GetChain, GetKey, Get, WriteChain, WriteKey, Write
  <2>2. job'[j] \notin {"issue", "rollback", "putchain"}
        BY <1>0, <1>7 DEF GetChain, GetKey, Get, WriteChain, WriteKey, Write, TypeOK
  <2> QED BY <1>0, <2>1, <2>2, QuietIssue
<1>8. CASE Exists(j)
  <2>1. UNCHANGED <<blobs, costs>> /\ job[j] = "exists" /\ job[j] \in Inside
        BY <1>8 DEF Exists, Inside
  <2>2. \A k \in Jobs : ~Storing(k)
        BY <2>1, Sole DEF Storing, Inside
  <2>3. (\A f \in Files : blobs[f] # None) \/ costs[token] <= Slack
        BY <1>0, <2>2 DEF Paid
  <2>4. /\ job'[j] \in {"unlock", "issue"}
        /\ Authorized(j) /\ job'[j] = "issue" => (\E f \in Files : blobs[f] = None) \/ failures' = failures + 1
        BY <1>0, <1>8 DEF Exists, Fails, TypeOK
  <2>5. Authorized(j) /\ job'[j] = "issue" => costs[token] <= Slack'
        BY <1>3, <2>3, <2>4
  <2> QED BY <1>3, <2>1, <2>3, <2>4, <2>5, InsideIssue
<1>9. CASE Issue(j)
  <2>1. UNCHANGED blobs /\ job[j] = "issue" /\ job[j] \in Inside
        BY <1>9 DEF Issue, Inside
  <2>2. \A k \in Jobs : ~Storing(k)
        BY <2>1, Sole DEF Storing, Inside
  <2>3. (\A f \in Files : blobs[f] # None) \/ costs[token] <= Slack
        BY <1>0, <2>2 DEF Paid
  <2>4. CASE Goto(j, "putkey") /\ costs' = IF Authorized(j) THEN [costs EXCEPT ![token] = costs[token] + 1] ELSE costs
    <3>1. job'[j] = "putkey"
          BY <1>0, <2>4 DEF TypeOK
    <3>2. CASE Authorized(j)
      <4>1. costs[token] <= Slack'
            BY <1>0, <1>3, <2>1, <3>2 DEF Paid
      <4>2. costs[token] + 1 <= Slack' + 1
            BY <1>0, <1>1, <4>1
      <4>3. \A t \in 0 .. MaxToken : costs'[t] = costs[t] \/ costs'[t] = costs[token] + 1
            BY <1>0, <2>4, <3>2 DEF TypeOK
      <4>4. \A t \in 0 .. MaxToken : costs'[t] <= Slack' + 1
            BY <1>3, <4>2, <4>3
      <4>5. Storing(j)'
            BY <1>2, <3>1, <3>2 DEF Storing
      <4> QED BY <2>1, <3>1, <4>4, <4>5, InsideIssue
    <3>3. CASE ~Authorized(j)
          BY <1>3, <2>1, <2>3, <2>4, <3>1, <3>3, InsideIssue
    <3> QED BY <3>2, <3>3
  <2>5. CASE Goto(j, "unlock") /\ UNCHANGED costs
    <3>1. job'[j] = "unlock"
          BY <1>0, <2>5 DEF TypeOK
    <3> QED BY <1>3, <2>1, <2>3, <2>5, <3>1, InsideIssue
  <2> QED BY <1>9, <2>4, <2>5 DEF Issue
<1>10. CASE PutKey(j)
  <2>1. /\ UNCHANGED costs /\ job[j] = "putkey" /\ job[j] \in Inside
        /\ pair[j]["key"] \in Pairs /\ Put(j, "key", "putchain", "unlock")
        BY <1>10 DEF PutKey, BaseInv, PairInv, Holding, Inside
  <2>2. CASE Authorized(j) /\ Goto(j, "putchain")
    <3>1. job'[j] = "putchain"
          BY <1>0, <2>2 DEF TypeOK
    <3>2. blobs' = [blobs EXCEPT !["key"] = [pair |-> pair[j]["key"], token |-> tok[P(j)]]]
          BY <1>0, <2>1, <3>1, PutCounts DEF TypeOK
    <3>3. tok[P(j)] \in 0 .. MaxToken
          BY <1>0, Places DEF TypeOK
    <3>4. [pair |-> pair[j]["key"], token |-> tok[P(j)]] \in Blob
          BY <2>1, <3>3 DEF Blob
    <3>5. blobs'["key"] # None
          BY <1>0, <3>2, <3>4 DEF TypeOK
    <3>6. Storing(j)'
          BY <1>2, <2>2, <3>1 DEF Storing
    <3> QED BY <1>3, <2>1, <3>1, <3>5, <3>6, InsideIssue
  <2>3. CASE Goto(j, "unlock") /\ (Authorized(j) => failures' = failures + 1)
    <3>1. job'[j] = "unlock"
          BY <1>0, <2>3 DEF TypeOK
    <3>2. CASE Authorized(j)
          BY <1>3, <2>1, <2>3, <3>1, <3>2, InsideIssue
    <3>3. CASE ~Authorized(j)
      <4>1. blobs' = blobs
            BY <1>0, <2>1, <3>3, PutCounts
      <4>2. \A k \in Jobs : ~Storing(k)
            BY <2>1, <3>3, Sole DEF Storing, Inside
      <4>3. (\A f \in Files : blobs[f] # None) \/ costs[token] <= Slack'
            BY <1>0, <1>3, <4>2 DEF Paid
      <4> QED BY <1>3, <2>1, <3>1, <3>3, <4>1, <4>3, InsideIssue
    <3> QED BY <3>2, <3>3
  <2> QED BY <1>0, <2>1, <2>2, <2>3, PutCounts
<1>11. CASE PutChain(j)
  <2>1. /\ UNCHANGED costs /\ job[j] = "putchain" /\ job[j] \in Inside
        /\ pair[j]["chain"] \in Pairs /\ Put(j, "chain", "getchain", "rollback")
        BY <1>11 DEF PutChain, BaseInv, PairInv, Holding, Inside
  <2>2. CASE Authorized(j) /\ Goto(j, "getchain")
    <3>1. job'[j] = "getchain"
          BY <1>0, <2>2 DEF TypeOK
    <3>2. blobs' = [blobs EXCEPT !["chain"] = [pair |-> pair[j]["chain"], token |-> tok[P(j)]]]
          BY <1>0, <2>1, <3>1, PutCounts DEF TypeOK
    <3>3. tok[P(j)] \in 0 .. MaxToken
          BY <1>0, Places DEF TypeOK
    <3>4. [pair |-> pair[j]["chain"], token |-> tok[P(j)]] \in Blob
          BY <2>1, <3>3 DEF Blob
    <3>5. blobs["key"] # None
          BY <1>0, <2>1, <2>2 DEF Paid
    <3>6. \A f \in Files : blobs'[f] # None
          BY <1>0, <3>2, <3>4, <3>5 DEF TypeOK
    <3> QED BY <1>3, <2>1, <3>1, <3>6, InsideIssue
  <2>3. CASE Goto(j, "rollback") /\ (Authorized(j) => failures' = failures + 1)
    <3>1. job'[j] = "rollback"
          BY <1>0, <2>3 DEF TypeOK
    <3>2. CASE Authorized(j)
          BY <1>3, <2>1, <2>3, <3>1, <3>2, InsideIssue
    <3>3. CASE ~Authorized(j)
      <4>1. blobs' = blobs
            BY <1>0, <2>1, <3>3, PutCounts
      <4>2. \A k \in Jobs : ~Storing(k)
            BY <2>1, <3>3, Sole DEF Storing, Inside
      <4>3. (\A f \in Files : blobs[f] # None) \/ costs[token] <= Slack'
            BY <1>0, <1>3, <4>2 DEF Paid
      <4> QED BY <1>3, <2>1, <3>1, <3>3, <4>1, <4>3, InsideIssue
    <3> QED BY <3>2, <3>3
  <2> QED BY <1>0, <2>1, <2>2, <2>3, PutCounts
<1>12. CASE Rollback(j)
  <2>1. UNCHANGED costs /\ job[j] = "rollback" /\ job[j] \in Inside
        BY <1>12 DEF Rollback, Inside
  <2>2. job'[j] = "unlock"
        BY <1>0, <1>12 DEF Rollback, TypeOK
  <2>3. CASE Authorized(j)
    <3>1. costs[token] <= Slack'
          BY <1>0, <1>3, <2>1, <2>3 DEF Paid
    <3> QED BY <1>3, <2>1, <2>2, <3>1, InsideIssue
  <2>4. CASE ~Authorized(j)
    <3>1. blobs' = blobs
          BY <1>12, <2>4 DEF Rollback
    <3>2. \A k \in Jobs : ~Storing(k)
          BY <2>1, Sole DEF Storing, Inside
    <3>3. (\A f \in Files : blobs[f] # None) \/ costs[token] <= Slack'
          BY <1>0, <1>3, <3>2 DEF Paid
    <3> QED BY <1>3, <2>1, <2>2, <2>4, <3>1, <3>3, InsideIssue
  <2> QED BY <2>3, <2>4
<1> QED BY <1>4, <1>5, <1>6, <1>7, <1>8, <1>9, <1>10, <1>11, <1>12 DEF Goes, Step, Work

\* The token the CA is asked for is the valid one.
LEMMA CostsOfNow ==
    ASSUME TypeOK, NEW j \in Jobs, Goes(j)
    PROVE  \A t \in 0 .. MaxToken : t > token => costs'[t] = costs[t]
<1>1. CASE Issue(j)
      BY <1>1 DEF Issue, TypeOK
<1>2. CASE ~Issue(j)
  <2>1. costs' = costs
    <3>1. CASE LoadKey(j) \/ LoadChain(j)
          BY <3>1, KeyLoaded, ChainLoaded DEF Goes, server
    <3>2. CASE Manage(j) \/ LockTimeout(j) \/ Reload(j) \/ Lock(j) \/ Exists(j) \/ Unlock(j)
          BY <3>2 DEF Manage, LockTimeout, Reload, Lock, Exists, Unlock, server
    <3>3. CASE PutKey(j) \/ PutChain(j) \/ Rollback(j) \/ GetChain(j) \/ GetKey(j) \/ WriteChain(j) \/ WriteKey(j)
          BY <3>3 DEF PutKey, PutChain, Rollback, GetChain, GetKey, Get, WriteChain, WriteKey, Write, server
    <3> QED BY <1>2, <3>1, <3>2, <3>3 DEF Goes, Step, Work
  <2> QED BY <2>1
<1> QED BY <1>1, <1>2

LEMMA StepIssue ==
    ASSUME BaseInv, IssueInv, [Next]_vars
    PROVE  IssueInv'
<1>0. TypeOK /\ token \in 0 .. MaxToken /\ \A t \in 0 .. MaxToken : costs[t] \in Nat
      BY DEF BaseInv, TypeOK
<1>00. failures \in Nat /\ cut \in Nat /\ Slack \in Nat
      BY <1>0 DEF Slack, TypeOK
<1>1. CASE RotateToken
  <2>1. token' = token + 1 /\ token' \in 0 .. MaxToken /\ UNCHANGED <<costs, tok, met, failures, cut, job, blobs>>
        BY <1>0, <1>1 DEF RotateToken, TypeOK, process
  <2>2. \A p \in Processes : tok[p] \in Nat /\ tok[p] <= token
        BY <1>0 DEF TypeOK, IssueInv
  <2>3. \A p \in Processes : tok'[p] <= token' /\ tok'[p] # token'
        BY <1>0, <2>1, <2>2
  <2>4. \A t \in 0 .. MaxToken : t > token' => costs'[t] = 0
        BY <1>0, <2>1 DEF IssueInv
  <2>5. costs'[token'] = 0 /\ Slack' = Slack
        BY <1>0, <2>1 DEF IssueInv, Slack
  <2>6. \A j \in Jobs : ~Authorized(j)'
        BY <2>3, Places DEF Authorized
  <2> HIDE DEF Slack
  <2>7. ASSUME ~met'
        PROVE  Paid'
    <3>1. costs'[token'] <= Slack'
          BY <1>00, <2>5
    <3>2. \A t \in 0 .. MaxToken : costs'[t] <= Slack' + 1
          BY <2>1, <2>5, <2>7 DEF IssueInv, Paid
    <3> QED BY <2>6, <3>1, <3>2 DEF Paid
  <2> QED BY <2>3, <2>4, <2>7 DEF IssueInv
<1>2. ASSUME NEW p \in Processes, Start(p)
      PROVE  IssueInv'
  <2>1. /\ UNCHANGED <<token, blobs, costs, job, failures, cut, met>> /\ proc[p] = "new"
        /\ \A q \in Processes : tok'[q] = tok[q] \/ (q = p /\ tok'[q] = token)
        BY <1>0, <1>2 DEF Start, TypeOK, server
  <2>2. token <= token
        BY <1>0
  <2>3. \A q \in Processes : tok'[q] <= token'
        BY <2>1, <2>2 DEF IssueInv
  <2>4. \A j \in Jobs : Busy(j) => (Authorized(j)' <=> Authorized(j))
        BY <2>1, Places DEF Authorized, BaseInv, AloneInv
  <2>5. \A j \in Jobs : job[j] \in {"putkey", "putchain", "issue", "rollback"} => Busy(j)
        BY DEF Busy, Over
  <2>6. \A j \in Jobs : Storing(j)' <=> Storing(j)
        BY <2>1, <2>4, <2>5 DEF Storing
  <2>7. Slack' = Slack
        BY <2>1 DEF Slack
  <2> HIDE DEF Slack
  <2>8. Paid => Paid'
        BY <2>1, <2>4, <2>5, <2>6, <2>7 DEF Paid
  <2> QED BY <2>1, <2>3, <2>8 DEF IssueInv
<1>3. ASSUME NEW p \in Processes, Gone(p)
      PROVE  IssueInv'
  <2>1. UNCHANGED <<token, tok, blobs, costs, met>>
        BY <1>0, <1>3, StopFrame
  <2>2. /\ Slack' \in Nat /\ Slack <= Slack'
        /\ cut' = cut + 1 => Slack + 1 <= Slack'
        BY <1>0, <1>3, SlackGrows
  <2>3. \A k \in Jobs : job'[k] = "gaveup" \/ (P(k) # p /\ job'[k] = job[k])
        BY <1>0, <1>3, StopFrame
  <2>4. \A k \in Jobs : Authorized(k)' <=> Authorized(k)
        BY <2>1, Places DEF Authorized
  <2>5. ASSUME NEW k \in Jobs, Storing(k)
        PROVE  Storing(k)' \/ cut' = cut + 1
    <3>1. CASE P(k) = p
          BY <1>3, <2>5, <3>1 DEF Gone, Stop, Storing
    <3>2. CASE P(k) # p
      <4>1. job'[k] = job[k]
            BY <1>0, <1>3, <3>2, StopFrame
      <4> QED BY <2>4, <2>5, <4>1 DEF Storing
    <3> QED BY <3>1, <3>2
  <2> HIDE DEF Slack
  <2>6. ASSUME ~met'
        PROVE  Paid'
    <3>1. Paid
          BY <2>1, <2>6 DEF IssueInv
    <3>2. \A t \in 0 .. MaxToken : /\ costs[t] <= Slack' + 1
                                   /\ costs[t] <= Slack => costs[t] <= Slack'
                                   /\ cut' = cut + 1 => costs[t] <= Slack'
          BY <1>0, <1>00, <2>2, <3>1, LessSlack DEF Paid
    <3>3. (\A f \in Files : blobs'[f] # None) \/ (\E j \in Jobs : Storing(j)') \/ costs'[token'] <= Slack'
          BY <1>0, <2>1, <2>5, <3>1, <3>2 DEF Paid
    <3>4. \A j \in Jobs : Authorized(j)' =>
             /\ job'[j] \in {"issue", "rollback"} => costs'[token'] <= Slack'
             /\ job'[j] = "putchain" => blobs'["key"] # None
          BY <1>0, <2>1, <2>3, <2>4, <3>1, <3>2 DEF Paid
    <3> QED BY <2>1, <3>2, <3>3, <3>4 DEF Paid
  <2> QED BY <2>1, <2>6 DEF IssueInv
<1>4. ASSUME NEW j \in Jobs, Goes(j)
      PROVE  IssueInv'
  <2>1. token' = token /\ tok' = tok /\ (met => met')
        BY <1>0, <1>4, Frame
  <2>2. ~met' => Paid'
        BY <1>4, <2>1, StepPaid
  <2>3. \A t \in 0 .. MaxToken : t > token' => costs'[t] = 0
        BY <1>0, <1>4, <2>1, CostsOfNow DEF IssueInv
  <2> QED BY <2>1, <2>2, <2>3 DEF IssueInv
<1>5. CASE UNCHANGED vars
  <2>1. \A k \in Jobs : P(k)' = P(k)
        BY Places
  <2> QED BY <1>5, <2>1 DEF vars, server, process, IssueInv, Paid, Storing, Authorized, Slack
<1> QED BY <1>0, <1>1, <1>2, <1>3, <1>4, <1>5, NextCases

\* As long as the jobs under way are of one process at a time, whichever process
\* that is after restarts and takeovers, a token costs the CA one certificate
\* and one for each call that fails and each process that stops while it stores
\* one: a job looks again once it is inside, and whoever was inside before has
\* left both files in the store or has something that went wrong to show for it.
THEOREM OneCertificateIsIssued == Spec => []OneCertificate
<1>1. Init => IssueInv
  <2> SUFFICES ASSUME Init PROVE IssueInv
      OBVIOUS
  <2>1. 0 \in 0 .. MaxToken /\ 0 + 0 = 0
        OBVIOUS
  <2> QED BY <2>1 DEF Init, IssueInv, Paid, Slack
<1>2. BaseInv /\ IssueInv /\ [Next]_vars => IssueInv'
      BY StepIssue
<1>3. BaseInv /\ IssueInv => OneCertificate
  <2> SUFFICES ASSUME BaseInv, IssueInv, ~met, NEW t \in 0 .. MaxToken
               PROVE  costs[t] <= 1 + failures + cut
      BY DEF OneCertificate
  <2>1. costs[t] \in Nat /\ failures \in Nat /\ cut \in Nat /\ costs[t] <= failures + cut + 1
        BY DEF BaseInv, TypeOK, IssueInv, Paid, Slack
  <2> QED BY <2>1
<1> QED BY <1>1, <1>2, <1>3, BaseInvariant, PTL DEF Spec

-----------------------------------------------------------------------------
(* ExportedTogether.                                                          *)

InStore(f, n) == blobs[f] # None /\ blobs[f].pair = n

\* What a job knows of its pair, of the store and of its disk, by where it is.
ExportOf(j) ==
    /\ job[j] \in {"putkey", "putchain", "writechain", "writekey"} =>
          pair[j]["chain"] = pair[j]["key"]
    /\ job[j] = "putchain" => InStore("key", pair[j]["key"])
    /\ job[j] = "getchain" => InStore("key", pair[j]["key"]) /\ InStore("chain", pair[j]["key"])
    /\ job[j] = "getkey"   => InStore("key", pair[j]["chain"])
    /\ job[j] = "writekey" => files[D(j)]["chain"] = pair[j]["chain"]

\* Somebody is between the two writes of a disk.
Writing(d) == \E j \in Jobs : D(j) = d /\ job[j] = "writekey"

ExportInv ==
    ~met =>
        /\ \A j \in Jobs : ExportOf(j)
        /\ \A d \in Disks \ torn : Writing(d) \/ files[d]["chain"] = files[d]["key"]

\* The job that steps.
LEMMA OwnExport ==
    ASSUME BaseInv, NEW j \in Jobs, ExportOf(j), Goes(j)
    PROVE  ExportOf(j)'
<1> USE DEF At, Goto, server, process
<1>0. /\ TypeOK
      /\ P(j) \in Processes /\ D(j) \in Disks /\ P(j)' = P(j) /\ D(j)' = D(j)
      BY Places DEF BaseInv
<1>1. CASE job'[j] \notin {"putkey", "putchain", "getchain", "getkey", "writechain", "writekey"}
      BY <1>1 DEF ExportOf
<1>2. CASE LoadKey(j) \/ LoadChain(j)
      BY <1>0, <1>1, <1>2, KeyLoaded, ChainLoaded DEF TypeOK, Goes
<1>3. CASE Manage(j) \/ LockTimeout(j) \/ Reload(j) \/ Lock(j) \/ Exists(j) \/ Rollback(j) \/ Unlock(j)
      BY <1>0, <1>1, <1>3 DEF Manage, LockTimeout, Reload, Lock, Exists, Rollback, Unlock, Leaves,
                              TypeOK, Outside, Over
<1>4. CASE Issue(j)
  <2>1. CASE Goto(j, "putkey") /\ pair' = [pair EXCEPT ![j] = [f \in Files |-> issued']]
        BY <1>0, <2>1 DEF TypeOK, ExportOf
  <2>2. CASE Goto(j, "unlock")
        BY <1>0, <1>1, <2>2 DEF TypeOK
  <2> QED BY <1>4, <2>1, <2>2 DEF Issue
<1>5. CASE PutKey(j)
  <2>1. CASE job'[j] = "unlock"
        BY <1>1, <2>1
  <2>2. CASE job'[j] # "unlock"
    <3>1. /\ blobs' = [blobs EXCEPT !["key"] = [pair |-> pair[j]["key"], token |-> tok[P(j)]]]
          /\ Goto(j, "putchain")
          BY <1>0, <1>5, <2>2, PutCounts DEF PutKey, TypeOK
    <3>2. job'[j] = "putchain" /\ job[j] = "putkey" /\ pair' = pair
          BY <1>0, <1>5, <3>1 DEF TypeOK, PutKey
    <3>3. pair[j]["key"] \in Pairs
          BY <3>2 DEF BaseInv, PairInv, Holding
    <3>4. InStore("key", pair[j]["key"])'
          BY <1>0, <3>1, <3>2, <3>3 DEF TypeOK, Blob, InStore
    <3> QED BY <1>0, <3>2, <3>4 DEF ExportOf
  <2> QED BY <2>1, <2>2
<1>6. CASE PutChain(j)
  <2>1. CASE job'[j] = "rollback"
        BY <1>1, <2>1
  <2>2. CASE job'[j] # "rollback"
    <3>1. /\ blobs' = [blobs EXCEPT !["chain"] = [pair |-> pair[j]["chain"], token |-> tok[P(j)]]]
          /\ Goto(j, "getchain")
          BY <1>0, <1>6, <2>2, PutCounts DEF PutChain, TypeOK
    <3>2. job'[j] = "getchain" /\ job[j] = "putchain" /\ pair' = pair
          BY <1>0, <1>6, <3>1 DEF TypeOK, PutChain
    <3>3. pair[j]["chain"] \in Pairs
          BY <3>2 DEF BaseInv, PairInv, Holding
    <3>4. InStore("chain", pair[j]["chain"])'
          BY <1>0, <3>1, <3>2, <3>3 DEF TypeOK, Blob, InStore
    <3>5. InStore("key", pair[j]["key"])'
          BY <1>0, <3>1, <3>2 DEF TypeOK, InStore, ExportOf
    <3> QED BY <1>0, <3>2, <3>4, <3>5 DEF ExportOf
  <2> QED BY <2>1, <2>2
<1>7. CASE GetChain(j)
  <2>1. CASE Goto(j, "getkey") /\ Read(j, "chain")
        BY <1>0, <1>7, <2>1 DEF GetChain, Get, Read, TypeOK, ExportOf, InStore
  <2>2. CASE Goto(j, "unlock")
        BY <1>0, <1>1, <2>2 DEF TypeOK
  <2> QED BY <1>7, <2>1, <2>2 DEF GetChain, Get
<1>8. CASE GetKey(j)
  <2>1. CASE Goto(j, "writechain") /\ Read(j, "key")
        BY <1>0, <1>8, <2>1 DEF GetKey, Get, Read, TypeOK, ExportOf, InStore
  <2>2. CASE Goto(j, "unlock")
        BY <1>0, <1>1, <2>2 DEF TypeOK
  <2> QED BY <1>8, <2>1, <2>2 DEF GetKey, Get
<1>9. CASE WriteChain(j)
  <2>1. CASE Goto(j, "writekey") /\ files' = [files EXCEPT ![D(j)]["chain"] = pair[j]["chain"]]
        BY <1>0, <1>9, <2>1 DEF WriteChain, Write, TypeOK, ExportOf
  <2>2. CASE Goto(j, "unlock")
        BY <1>0, <1>1, <2>2 DEF TypeOK
  <2> QED BY <1>9, <2>1, <2>2 DEF WriteChain, Write
<1>10. CASE WriteKey(j)
      BY <1>0, <1>1, <1>10 DEF WriteKey, Write, TypeOK
<1> QED BY <1>2, <1>3, <1>4, <1>5, <1>6, <1>7, <1>8, <1>9, <1>10 DEF Goes, Step, Work

\* The two files on the disk of the job that steps.
LEMMA OwnFiles ==
    ASSUME BaseInv, NEW j \in Jobs, ExportOf(j), Goes(j)
    PROVE  \/ job[j] # "writekey" /\ UNCHANGED <<files, torn>>
           \/ job'[j] = "writekey"
           \/ D(j) \in torn'
           \/ files'[D(j)]["chain"] = files'[D(j)]["key"]
<1> USE DEF At, Goto, server, process
<1>0. TypeOK /\ D(j) \in Disks
      BY Places DEF BaseInv
<1>1. CASE WriteKey(j)
  <2>1. CASE files' = [files EXCEPT ![D(j)]["key"] = pair[j]["key"]] /\ job[j] = "writekey"
        BY <1>0, <2>1 DEF TypeOK, ExportOf
  <2>2. CASE D(j) \in torn'
        BY <2>2
  <2> QED BY <1>1, <2>1, <2>2 DEF WriteKey, Write
<1>2. CASE WriteChain(j)
      BY <1>0, <1>2 DEF WriteChain, Write, TypeOK
<1>3. CASE LoadKey(j) \/ LoadChain(j)
      BY <1>0, <1>3, KeyLoaded, ChainLoaded DEF LoadKey, LoadChain, Goes
<1>4. CASE Manage(j) \/ LockTimeout(j) \/ Reload(j) \/ Lock(j) \/ Unlock(j)
      BY <1>4 DEF Manage, LockTimeout, Reload, Lock, Unlock
<1>5. CASE Exists(j) \/ Issue(j) \/ PutKey(j) \/ PutChain(j) \/ Rollback(j) \/ GetChain(j) \/ GetKey(j)
      BY <1>5 DEF Exists, Issue, PutKey, PutChain, Rollback, GetChain, GetKey, Get
<1> QED BY <1>1, <1>2, <1>3, <1>4, <1>5 DEF Goes, Step, Work

LEMMA StepExport ==
    ASSUME BaseInv, ExportInv, [Next]_vars
    PROVE  ExportInv'
<1>0. TypeOK /\ \A k \in Jobs : P(k)' = P(k) /\ D(k)' = D(k) /\ D(k) \in Disks
      BY Places DEF BaseInv
<1>1. CASE RotateToken \/ (\E p \in Processes : Start(p)) \/ UNCHANGED vars
  <2>1. UNCHANGED <<blobs, files, pair, job, met, torn>>
        BY <1>1 DEF RotateToken, Start, vars, server, process
  <2> QED BY <1>0, <2>1 DEF ExportInv, ExportOf, InStore, Writing
<1>2. ASSUME NEW p \in Processes, Gone(p), ~met'
      PROVE  ExportInv'
  <2>1. UNCHANGED <<blobs, files, met>>
        BY <1>0, <1>2, StopFrame
  <2>2. \A k \in Jobs : \/ job'[k] = "gaveup"
                        \/ job'[k] = job[k] /\ pair'[k] = pair[k]
        BY <1>0, <1>2, StopFrame
  <2>3. \A k \in Jobs : ExportOf(k)'
        BY <1>0, <1>2, <2>1, <2>2 DEF ExportInv, ExportOf, InStore
  <2>4. ASSUME NEW d \in Disks \ torn'
        PROVE  Writing(d)' \/ files'[d]["chain"] = files'[d]["key"]
    <3>1. torn \subseteq torn'
          BY <1>2 DEF Gone, Stop
    <3>2. ASSUME NEW k \in Jobs, D(k) = d, job[k] = "writekey"
          PROVE  job'[k] = "writekey"
      <4>1. CASE P(k) = p
            BY <1>2, <2>4, <3>2, <4>1 DEF Gone, Stop, D
      <4>2. CASE P(k) # p
            BY <1>0, <1>2, <3>2, <4>2, StopFrame
      <4> QED BY <4>1, <4>2
    <3> QED BY <1>0, <1>2, <2>1, <3>1, <3>2 DEF ExportInv, Writing
  <2> QED BY <2>3, <2>4 DEF ExportInv
<1>3. ASSUME NEW j \in Jobs, Goes(j), ~met'
      PROVE  ExportInv'
  <2>0. ~met /\ ExportOf(j)
        BY <1>0, <1>3, Frame DEF ExportInv
  <2>1. ASSUME NEW k \in Jobs
        PROVE  ExportOf(k)'
    <3>1. CASE k = j
          BY <1>3, <2>0, <3>1, OwnExport
    <3>2. CASE k # j /\ job'[k] \in Inside
      <4>1. job[k] = job'[k] /\ pair'[k] = pair[k] /\ UNCHANGED <<blobs, files>>
            BY <1>3, <2>0, <3>2, OthersWait
      <4> QED BY <1>0, <2>0, <4>1 DEF ExportInv, ExportOf, InStore
    <3>3. CASE job'[k] \notin Inside
          BY <3>3 DEF ExportOf, Inside
    <3> QED BY <3>1, <3>2, <3>3
  <2>2. ASSUME NEW d \in Disks \ torn'
        PROVE  Writing(d)' \/ files'[d]["chain"] = files'[d]["key"]
    <3>1. ASSUME NEW k \in Jobs, k # j, D(k) = d, job[k] = "writekey"
          PROVE  Writing(d)'
      <4>1. job'[k] = "writekey"
            BY <1>3, <2>0, <3>1, OthersWait DEF Inside
      <4> QED BY <1>0, <3>1, <4>1 DEF Writing
    <3>2. CASE UNCHANGED <<files, torn>> /\ job[j] # "writekey"
          BY <2>0, <2>2, <3>1, <3>2 DEF ExportInv, Writing
    <3>3. CASE D(j) # d
      <4>1. files'[d] = files[d] /\ d \notin torn
            BY <1>0, <1>3, <2>2, <3>3, Frame
      <4> QED BY <2>0, <3>1, <3>3, <4>1 DEF ExportInv, Writing
    <3>4. CASE D(j) = d /\ job'[j] = "writekey"
          BY <1>0, <3>4 DEF Writing
    <3> QED BY <1>3, <2>0, <2>2, <3>2, <3>3, <3>4, OwnFiles
  <2> QED BY <2>1, <2>2 DEF ExportInv
<1>4. ASSUME met'
      PROVE  ExportInv'
      BY <1>4 DEF ExportInv
<1> QED BY <1>0, <1>1, <1>2, <1>3, <1>4, NextCases

\* As long as the jobs under way are of one process at a time, the exported chain
\* and key are of one certificate whenever no job is between the two writes, on
\* every disk whose last export was not cut short there: whatever calls fail,
\* whenever the token is rotated between the two reads or after them, and however
\* often the process on the disk is replaced.
THEOREM ExportsAreAPair == Spec => []ExportedTogether
<1>1. Init => ExportInv
      BY DEF Init, ExportInv, ExportOf, Empty
<1>2. BaseInv /\ ExportInv /\ [Next]_vars => ExportInv'
      BY StepExport
<1>3. ExportInv => ExportedTogether
      BY DEF ExportInv, ExportedTogether, Writing
<1> QED BY <1>1, <1>2, <1>3, BaseInvariant, PTL DEF Spec
=============================================================================
