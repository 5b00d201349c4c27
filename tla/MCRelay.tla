------------------------------- MODULE MCRelay -------------------------------
(* TLC instances of Relay: two tunnels, a.net and b.net. *)
EXTENDS Relay, TLC

CONSTANTS t1, t2

MCDomain == (t1 :> <<"a", "net">>) @@ (t2 :> <<"b", "net">>)

MCHosts == {<<"a", "net">>, <<"w", "a", "net">>, <<"x", "w", "a", "net">>,
            <<"w", "b", "net">>, <<"net">>, <<"api", "net">>}

MCNames == {<<"_acme-challenge">> \o h : h \in MCHosts} \cup MCHosts

MCLocalRoutes == {Exact(<<"api", "net">>)}

Spc(star, name, mode, proxy) ==
    [host |-> [star |-> star, name |-> name], mode |-> mode, proxy |-> proxy]

apex  == Spc(FALSE, <<At>>, "passthrough", TRUE)
star  == Spc(TRUE, <<>>, "http", FALSE)
web   == Spc(FALSE, <<"w">>, "passthrough", FALSE)
mqtt  == Spc(FALSE, <<"w">>, "tcp", FALSE)
deep(mode) == Spc(TRUE, <<"w">>, mode, FALSE)
wild  == Spc(TRUE, <<>>, "tcp", FALSE)
far   == Spc(FALSE, <<"w", "b", "net">>, "http", FALSE)

\* No wildcard to tcp:// above a route to http://; {web, mqtt} has one name
\* twice, and w.b.net is not in the domain of t1.
MCFiles == {{apex, star, mqtt}, {star, web, deep("http")}, {mqtt, deep("tcp")},
            {wild, web}, {web, mqtt}, {far, apex}}

\* "*" to tcp://, and one name under it to http://.
TcpFiles == {{wild, Spc(FALSE, <<"w">>, "http", FALSE)}}
=============================================================================
