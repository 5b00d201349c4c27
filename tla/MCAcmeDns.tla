------------------------------ MODULE MCAcmeDns ------------------------------
(* TLC instances of AcmeDns: two orders for one name and one for a deeper one. *)
EXTENDS AcmeDns, TLC

CONSTANTS apex, wildcard, deep

MCChallenges == {apex, wildcard, deep}
MCBase  == <<"net">>
MCShort == <<"_acme-challenge", "a", "net">>
MCLong  == <<"_acme-challenge", "dev", "a", "net">>
MCNames == {MCShort, MCLong}

\* A provider; only public nodes; neither.
MCSetups == {<<TRUE, FALSE, TRUE>>, <<FALSE, TRUE, TRUE>>,
             <<FALSE, FALSE, TRUE>>}
MCNameOf == (apex :> MCShort) @@ (wildcard :> MCShort) @@ (deep :> MCLong)
=============================================================================
