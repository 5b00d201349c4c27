------------------------------ MODULE DnsAnswer ------------------------------
(***************************************************************************)
(* What the nodes' own DNS answers: Answer and normalize of                *)
(* internal/dnsserver, and the map of challenges that internal/node builds *)
(* for them.                                                               *)
(*                                                                         *)
(* A name is the sequence of its labels, how it is written (upper: some    *)
(* letter is a capital) and whether it ends in a dot.  A message is the    *)
(* sequence of its questions.  Records are reduced to their values.        *)
(***************************************************************************)
LOCAL INSTANCE Sequences
LOCAL INSTANCE Hostnames

Name(labels) == [labels |-> labels, upper |-> FALSE, dot |-> FALSE]
Lower(n)     == [n EXCEPT !.upper = FALSE]
Fqdn(n)      == [n EXCEPT !.dot = TRUE]

NoZone == [name |-> Name(<<>>), ns |-> {}, edge |-> {}, challenges |-> [n \in {} |-> {}]]

-----------------------------------------------------------------------------

\* The list of (fqdn, value), grouped by name.
dnsChallenges(txt) ==
    [n \in {x.fqdn : x \in txt} |-> {x.value : x \in {y \in txt : y.fqdn = n}}]

\* SetZone stores what Answer compares with: lower case and a final dot.  Of
\* two names that become one the map keeps either.
normalize(z) ==
    [z EXCEPT
        !.name = IF z.name = NoZone.name THEN z.name ELSE Fqdn(Lower(z.name)),
        !.ns   = {Fqdn(Lower(n)) : n \in z.ns},
        !.challenges = [n \in {Fqdn(Lower(m)) : m \in DOMAIN z.challenges} |->
                           z.challenges[CHOOSE m \in DOMAIN z.challenges : Fqdn(Lower(m)) = n]]]

-----------------------------------------------------------------------------

Reply(rcode, values, soa) == [rcode |-> rcode, answer |-> values, soa |-> soa]

\* The values of one question inside the zone.
Values(z, n, type) ==
    CASE type = "SOA" /\ n = z.name -> {"soa"}
      [] type = "NS"  /\ n = z.name -> z.ns
      [] type = "TXT" /\ n \in DOMAIN z.challenges -> z.challenges[n]
      [] type = "A" -> {ip \in z.edge : ip.is4}
      [] OTHER -> {}

\* Mutant of Answer: a name with no data at all does not exist.
AnswerNameError(z, r) ==
    LET n == Lower(r[1].name)
    IN  IF ~Within(n.labels, z.name.labels) THEN Reply("REFUSED", {}, FALSE)
        ELSE IF n # z.name /\ n \notin DOMAIN z.challenges THEN Reply("NXDOMAIN", {}, TRUE)
        ELSE Reply("NOERROR", Values(z, n, r[1].type), Values(z, n, r[1].type) = {})

\* Outside the zone, or before there is one, the node refuses; inside, every
\* name exists, and a question without data gets the SOA.
Answer(z, r) ==
    LET n == Lower(r[1].name)
    IN  IF Len(r) # 1 THEN Reply("FORMERR", {}, FALSE)
        ELSE IF z.name = NoZone.name \/ ~Within(n.labels, z.name.labels)
                THEN Reply("REFUSED", {}, FALSE)
        ELSE Reply("NOERROR", Values(z, n, r[1].type), Values(z, n, r[1].type) = {})

-----------------------------------------------------------------------------
(* What a resolver of the CA does with it. *)

Question(labels, upper, type) ==
    << [name |-> [labels |-> labels, upper |-> upper, dot |-> TRUE], type |-> type] >>

\* A resolver that reveals one label at a time, in letters of its own choice,
\* asks for NS on the way down and stops at the first name that does not exist.
Resolves(z, labels, upper, value) ==
    /\ \A i \in DOMAIN labels :
          Within(From(labels, i), z.name.labels) =>
              Answer(z, Question(From(labels, i), upper, "NS")).rcode = "NOERROR"
    /\ LET reply == Answer(z, Question(labels, upper, "TXT"))
       IN  reply.rcode = "NOERROR" /\ value \in reply.answer
=============================================================================
