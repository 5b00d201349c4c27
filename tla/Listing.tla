------------------------------- MODULE Listing -------------------------------
(***************************************************************************)
(* What storage.List of internal/agent gives certmagic: the API's textual  *)
(* starts_with (Store.StorageList) and childKeys over its answer.          *)
(*                                                                         *)
(* A key is a sequence of pieces of text, of which "/" is one.  Only the   *)
(* meaning below knows of paths, the sequences of names a key stands for.  *)
(***************************************************************************)
EXTENDS Naturals, Sequences, SequencesExt

Sep == "/"

StorageList(keys, prefix) == {k \in keys : IsPrefix(prefix, k)}

TrimSuffix(prefix) ==
    IF prefix # <<>> /\ Last(prefix) = Sep THEN Front(prefix) ELSE prefix

\* Mutant of Rest: the prefix is text, wherever it ends.
RestOfText(k, base) ==
    IF IsPrefix(base, k) THEN SubSeq(k, Len(base) + 2, Len(k)) ELSE <<>>

\* What follows the directory; empty when k is not under it, or is it.
Rest(k, base) ==
    IF base = <<>> THEN k
    ELSE IF IsPrefix(base \o <<Sep>>, k) THEN SubSeq(k, Len(base) + 2, Len(k))
    ELSE <<>>

FirstName(text) ==
    LET cut == SelectInSeq(text, LAMBDA piece : piece = Sep)
    IN  IF cut = 0 THEN text ELSE SubSeq(text, 1, cut - 1)

Child(k, base) ==
    IF base = <<>> THEN FirstName(k) ELSE base \o <<Sep>> \o FirstName(Rest(k, base))

childKeys(keys, prefix, recursive) ==
    LET base  == TrimSuffix(prefix)
        under == {k \in keys : Rest(k, base) # <<>>}
    IN  IF recursive THEN under ELSE {Child(k, base) : k \in under}

\* The empty set is fs.ErrNotExist.
List(keys, prefix, recursive) == childKeys(StorageList(keys, prefix), prefix, recursive)

-----------------------------------------------------------------------------
(* What it means, by names. *)

Name == Seq(STRING \ {Sep}) \ {<<>>}
Path == Seq(Name)

Text(path) ==
    IF path = <<>> THEN <<>>
    ELSE Tail(FlattenSeq([i \in DOMAIN path |-> <<Sep>> \o path[i]]))

Descendants(paths, dir) == {p \in paths : IsStrictPrefix(dir, p)}

Listed(paths, dir, recursive) ==
    IF recursive THEN Descendants(paths, dir)
    ELSE {SubSeq(p, 1, Len(dir) + 1) : p \in Descendants(paths, dir)}

\* The two ways to write a directory.
Written(dir) == {Text(dir)} \cup IF dir = <<>> THEN {} ELSE {Text(dir) \o <<Sep>>}

Exact(paths) ==
    \A p \in paths : \A n \in 0 .. Len(p) : \A recursive \in BOOLEAN :
        LET dir == SubSeq(p, 1, n)
        IN  \A prefix \in Written(dir) :
               List({Text(q) : q \in paths}, prefix, recursive)
                   = {Text(q) : q \in Listed(paths, dir, recursive)}
=============================================================================
