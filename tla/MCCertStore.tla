----------------------------- MODULE MCCertStore -----------------------------
(* TLC instances of CertStore. *)
EXTENDS CertStore, Sequences, TLC

CONSTANTS p, q, d, j1, j2, j3

\* Two jobs of one process, and one of the process that comes after it or works
\* beside it; both have the same volume.
TwoProcesses == (j1 :> p) @@ (j2 :> p) @@ (j3 :> q)
TwoServers   == (j1 :> p) @@ (j2 :> q)
OneDisk      == [x \in {p, q} |-> d]

\* certificates/ca/a.net/a.net.crt and .key, beside a.net.ar and an account.
Site  == <<"a.net">>
Dir   == << <<"certificates">>, <<"ca">>, Site >>
Long  == <<"a.net", ".ar">>
MCPathOf == [f \in {"chain", "key"} |->
                Append(Dir, <<"a.net", IF f = "chain" THEN ".crt" ELSE ".key">>)]
MCOtherPaths == {<< <<"certificates">>, <<"ca">>, Long, Long >>,
                 << <<"acme">>, <<"ca">>, <<"users">> >>}
=============================================================================
