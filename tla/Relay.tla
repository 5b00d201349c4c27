-------------------------------- MODULE Relay --------------------------------
(***************************************************************************)
(* The journey of one visitor: the SNI router of the node                  *)
(* (internal/node, handleTLS), the connection through the tunnel, and the  *)
(* agent (internal/agent, accept and handle; terminate.go), while the      *)
(* node's table and the sessions of the tunnels change under it.           *)
(*                                                                         *)
(* Handlers of different visitors share only these tables and the          *)
(* terminator's listener, so one visitor is enough.  NodeSync says how the *)
(* table follows the leases; here it is any set of tunnels.                *)
(*                                                                         *)
(* A stream is the sequence of what its reader still has to read: the      *)
(* PROXY header, the ClientHello, and (once an agent has terminated TLS)   *)
(* the plain data.  The visitor asks over HTTP for the host of its SNI.    *)
(***************************************************************************)
EXTENDS Hostnames, Naturals, Sequences, FiniteSets

CONSTANTS
    Tunnels,
    Domain,       \* the hostname of each tunnel: subdomain.base
    Files,        \* the wgrelay.yml files of a run: sets of RouteSpec
    LocalRoutes,  \* keys of cfg.LocalRoutes
    Hosts,        \* names visitors put in their SNI
    Names,        \* names agents ask a TXT record for
    NoHost,       \* no TLS, no SNI or no ClientHello within 5 s
    NoTunnel,
    NoBackend,
    Local         \* the backend of the local routes

Hostname == Seq(STRING) \ {<<>>}

\* A route of wgrelay.yml: the host as it is written, and the scheme of its URL.
RouteSpec == [host  : [star : BOOLEAN, name : Seq(STRING)],
              mode  : {"passthrough", "http", "tcp"},
              proxy : BOOLEAN]

ASSUME DomainsAssumption ==
    /\ Domain \in [Tunnels -> Hostname]
    /\ \A t, u \in Tunnels : Within(Domain[t], Domain[u]) => t = u

ASSUME NamesAssumption == Hosts \subseteq Hostname /\ Names \subseteq Seq(STRING)

ASSUME FilesAssumption == UNION Files \subseteq RouteSpec

ASSUME NoneAssumption ==
    NoHost \notin Hosts /\ NoTunnel \notin Tunnels /\ {Local, NoBackend} \cap UNION Files = {}

VARIABLES
    file,      \* wgrelay.yml of each tunnel
    table,     \* tunnels in n.routes
    sessions,  \* tunnels whose agent listens, with routes and terminator set up
    gateways,  \* those whose t.gateways has the node
    host,      \* the name the visitor asks for
    node,      \* where handleTLS is
    tunnel,    \* the tunnel it dials
    agent,     \* where the agent's handler is
    ln,        \* the terminator's listener, of the session of that handler
    stream,    \* what the handler's connection still holds
    open,      \* open sockets
    backend,   \* the RouteSpec whose destination the agent dialled, or Local
    reads      \* what the backend gets

control == <<file, table, sessions, gateways>>
nodeVars  == <<host, node, tunnel>>
agentVars == <<agent, stream, backend, reads>>
vars == <<control, nodeVars, agentVars, ln, open>>

\* visitor and up are the node's sockets, in and to the agent's.
Sockets == {"visitor", "up", "in", "to"}

NodeAt  == {"idle", "peek", "lookup", "dialLocal", "dial", "header", "join", "done"}
AgentAt == {"idle", "accepted", "header", "peek", "route", "dial", "forward",
            "terminate", "push", "serve", "handshake", "dialTcp", "join", "done"}
Items   == {"PROXY", "hello", "data"}

Specs == UNION Files

TypeOK ==
    /\ file     \in [Tunnels -> Files]
    /\ table    \subseteq Tunnels
    /\ sessions \subseteq Tunnels
    /\ gateways \subseteq sessions
    /\ host     \in Hosts \cup {NoHost}
    /\ node     \in NodeAt
    /\ tunnel   \in Tunnels \cup {NoTunnel}
    /\ agent    \in AgentAt
    /\ ln       \in {"open", "closing", "closed"}
    /\ Len(stream) <= 2 /\ \A i \in DOMAIN stream : stream[i] \in Items
    /\ open     \subseteq Sockets
    /\ backend  \in Specs \cup {Local, NoBackend}
    /\ Len(reads) <= 2 /\ \A i \in DOMAIN reads : reads[i] \in Items
    /\ (tunnel = NoTunnel) => agent = "idle"

Init ==
    /\ file     \in [Tunnels -> Files]
    /\ table    = {}
    /\ sessions = {}
    /\ gateways = {}
    /\ host     = NoHost
    /\ node     = "idle"
    /\ tunnel   = NoTunnel
    /\ agent    = "idle"
    /\ ln       = "open"
    /\ stream   = <<>>
    /\ open     = {}
    /\ backend  = NoBackend
    /\ reads    = <<>>

-----------------------------------------------------------------------------
(* The tables.                                                             *)

\* The tunnel a key of the node's table belongs to.
Owner(key) == CHOOSE t \in Tunnels : key \in NodeRoutes(Domain[t])

Table == UNION {NodeRoutes(Domain[t]) : t \in table}

\* The routes of a session, and the tables newTerminator makes of them.
Routes(t)   == Resolve(file[t], Domain[t])
InMode(t, modes) == {k \in DOMAIN Routes(t) : Routes(t)[k].mode \in modes}
proxies(t)    == InMode(t, {"http"})
tcpTargets(t) == InMode(t, {"tcp"})

\* The node learns of other leases.
StoreRoutes ==
    /\ table' \in SUBSET Tunnels \ {table}
    /\ UNCHANGED <<file, sessions, gateways, nodeVars, agentVars, ln, open>>

\* A session ends in ErrFatal when its file does not fit the domain.
Listen(t) ==
    /\ t \notin sessions
    /\ CanResolve(file[t], Domain[t])
    /\ sessions' = sessions \cup {t}
    /\ UNCHANGED <<file, table, gateways, nodeVars, agentVars, ln, open>>

setNodes(t) ==
    /\ t \in sessions
    /\ gateways' = IF t \in gateways THEN gateways \ {t} ELSE gateways \cup {t}
    /\ UNCHANGED <<file, table, sessions, nodeVars, agentVars, ln, open>>

\* The deferred calls of session; the handlers it started go on.
SessionEnds(t) ==
    /\ t \in sessions
    /\ sessions' = sessions \ {t}
    /\ gateways' = gateways \ {t}
    /\ ln' = IF t = tunnel /\ agent \notin {"idle", "done"} /\ ln = "open"
             THEN "closing" ELSE ln
    /\ UNCHANGED <<file, table, nodeVars, agentVars, open>>

\* The Accept loop of the HTTP server sees that the listener is closed.
ServerStops ==
    /\ ln = "closing"
    /\ ln' = "closed"
    /\ UNCHANGED <<control, nodeVars, agentVars, open>>

-----------------------------------------------------------------------------
(* The node: handleTLS.                                                    *)

NodeGoto(from, to) == node = from /\ node' = to

Close(sockets) == open' = open \ sockets

\* The rest of the system sleeps.
NodeOnly == UNCHANGED <<control, agentVars, ln>>

Visit ==
    /\ NodeGoto("idle", "peek")
    /\ host' \in Hosts \cup {NoHost}
    /\ open' = {"visitor"}
    /\ UNCHANGED tunnel
    /\ NodeOnly

Peek ==
    /\ host # NoHost
    /\ NodeGoto("peek", "lookup")
    /\ UNCHANGED <<host, tunnel, open>>
    /\ NodeOnly

PeekFails ==
    /\ NodeGoto("peek", "done")
    /\ Close({"visitor"})
    /\ UNCHANGED <<host, tunnel>>
    /\ NodeOnly

RouteLocally ==
    /\ NodeGoto("lookup", "dialLocal")
    /\ Match(LocalRoutes, host) # NoMatch
    /\ UNCHANGED <<host, tunnel, open>>
    /\ NodeOnly

Route ==
    /\ NodeGoto("lookup", "dial")
    /\ Match(LocalRoutes, host) = NoMatch
    /\ Match(Table, host) # NoMatch
    /\ tunnel' = Owner(Match(Table, host))
    /\ UNCHANGED <<host, open>>
    /\ NodeOnly

NoRoute ==
    /\ NodeGoto("lookup", "done")
    /\ Match(LocalRoutes, host) = NoMatch
    /\ Match(Table, host) = NoMatch
    /\ Close({"visitor"})
    /\ UNCHANGED <<host, tunnel>>
    /\ NodeOnly

DialLocal ==
    /\ NodeGoto("dialLocal", "join")
    /\ open' = open \cup {"up"}
    /\ backend' = Local
    /\ reads' = <<"hello">>
    /\ UNCHANGED <<control, host, tunnel, agent, stream, ln>>

\* Through WireGuard: only a session that listens answers.
Dial ==
    /\ NodeGoto("dial", "header")
    /\ tunnel \in sessions
    /\ open' = open \cup {"up", "in"}
    /\ agent' = "accepted"
    /\ UNCHANGED <<control, host, tunnel, stream, backend, reads, ln>>

DialFails ==
    /\ \E from \in {"dialLocal", "dial"} : NodeGoto(from, "done")
    /\ Close({"visitor"})
    /\ UNCHANGED <<host, tunnel>>
    /\ NodeOnly

\* up.Write(header), and Join starts to copy what Peek has read.
WriteHeader ==
    /\ NodeGoto("header", "join")
    /\ stream' = <<"PROXY", "hello">>
    /\ UNCHANGED <<control, host, tunnel, agent, backend, reads, ln, open>>

WriteHeaderFails ==
    /\ NodeGoto("header", "done")
    /\ Close({"visitor", "up"})
    /\ UNCHANGED <<host, tunnel>>
    /\ NodeOnly

\* One side ends, and pipe.Join closes both.
JoinEnds ==
    /\ NodeGoto("join", "done")
    /\ Close({"visitor", "up"})
    /\ UNCHANGED <<host, tunnel>>
    /\ NodeOnly

-----------------------------------------------------------------------------
(* The agent: handle.                                                      *)

AgentGoto(from, to) == agent = from /\ agent' = to

AgentOnly == UNCHANGED <<control, nodeVars, ln>>

isGateway ==
    /\ AgentGoto("accepted", "header")
    /\ tunnel \in gateways
    /\ UNCHANGED <<stream, backend, reads, open>>
    /\ AgentOnly

NotAGateway ==
    /\ AgentGoto("accepted", "done")
    /\ tunnel \notin gateways
    /\ Close({"in"})
    /\ UNCHANGED <<stream, backend, reads>>
    /\ AgentOnly

ReadHeader ==
    /\ AgentGoto("header", "peek")
    /\ stream # <<>> /\ Head(stream) = "PROXY"
    /\ stream' = Tail(stream)
    /\ UNCHANGED <<backend, reads, open>>
    /\ AgentOnly

\* Mutant of PeekHello: what Peek has read is gone.
PeekHelloAway ==
    /\ AgentGoto("peek", "route")
    /\ stream # <<>> /\ Head(stream) = "hello"
    /\ stream' = Tail(stream)
    /\ UNCHANGED <<backend, reads, open>>
    /\ AgentOnly

\* PrefixConn gives the hello back to who reads next.
PeekHello ==
    /\ AgentGoto("peek", "route")
    /\ stream # <<>> /\ Head(stream) = "hello"
    /\ UNCHANGED <<stream, backend, reads, open>>
    /\ AgentOnly

\* The 5 s deadlines, and a connection that breaks.
ReadFails ==
    /\ \E from \in {"header", "peek"} : AgentGoto(from, "done")
    /\ Close({"in"})
    /\ UNCHANGED <<stream, backend, reads>>
    /\ AgentOnly

\* The key of t.routes that decides on the visitor's name.
Key == Match(DOMAIN Routes(tunnel), host)

FindRoute ==
    /\ agent = "route"
    /\ Key # NoMatch
    /\ agent' = IF Routes(tunnel)[Key].mode = "passthrough" THEN "dial" ELSE "terminate"
    /\ UNCHANGED <<stream, backend, reads, open>>
    /\ AgentOnly

NoAgentRoute ==
    /\ AgentGoto("route", "done")
    /\ Key = NoMatch
    /\ Close({"in"})
    /\ UNCHANGED <<stream, backend, reads>>
    /\ AgentOnly

\* The destination of a route is dialled; bytes is what is copied to it.
DialTo(key, to, bytes) ==
    /\ open' = open \cup {"to"}
    /\ backend' = Routes(tunnel)[key]
    /\ agent' = to
    /\ reads' = bytes

DialRoute ==
    /\ agent = "dial"
    /\ IF Routes(tunnel)[Key].proxy THEN DialTo(Key, "forward", <<>>)
                                    ELSE DialTo(Key, "join", stream)
    /\ UNCHANGED stream
    /\ AgentOnly

\* up.Write(rawHeader), then Join.
ForwardHeader ==
    /\ AgentGoto("forward", "join")
    /\ reads' = <<"PROXY">> \o stream
    /\ UNCHANGED <<stream, backend, open>>
    /\ AgentOnly

\* Mutant of ForwardFails: only the visitor's side is closed.
ForwardFailsHalf ==
    /\ AgentGoto("forward", "done")
    /\ Close({"in"})
    /\ UNCHANGED <<stream, backend, reads>>
    /\ AgentOnly

ForwardFails ==
    /\ AgentGoto("forward", "done")
    /\ Close({"in", "to"})
    /\ UNCHANGED <<stream, backend, reads>>
    /\ AgentOnly

\* terminator.handle: the TCP table first.
TerminateTcp ==
    /\ AgentGoto("terminate", "handshake")
    /\ Match(tcpTargets(tunnel), host) # NoMatch
    /\ UNCHANGED <<stream, backend, reads, open>>
    /\ AgentOnly

TerminateHttp ==
    /\ AgentGoto("terminate", "push")
    /\ Match(tcpTargets(tunnel), host) = NoMatch
    /\ UNCHANGED <<stream, backend, reads, open>>
    /\ AgentOnly

\* The HTTP server takes the connection; once the listener is closed, push and
\* Accept may still meet, for each picks among what is ready.
Accept ==
    /\ AgentGoto("push", "serve")
    /\ ln # "closed"
    /\ UNCHANGED <<stream, backend, reads, open>>
    /\ AgentOnly

\* Mutant of PushRefused: push waits for Accept alone.
PushWaits ==
    /\ AgentGoto("push", "done")
    /\ FALSE
    /\ UNCHANGED <<stream, backend, reads, open>>
    /\ AgentOnly

PushRefused ==
    /\ AgentGoto("push", "done")
    /\ ln # "open"
    /\ Close({"in"})
    /\ UNCHANGED <<stream, backend, reads>>
    /\ AgentOnly

\* The handshake takes the hello; what follows is plain.
Handshake ==
    /\ AgentGoto("handshake", "dialTcp")
    /\ stream' = <<"data">>
    /\ UNCHANGED <<backend, reads, open>>
    /\ AgentOnly

DialTcp ==
    /\ agent = "dialTcp"
    /\ DialTo(Match(tcpTargets(tunnel), host), "join", stream)
    /\ UNCHANGED stream
    /\ AgentOnly

\* Handshake and request of the HTTP server, and the reverse proxy's dial.
serveHTTP ==
    /\ agent = "serve"
    /\ Match(proxies(tunnel), host) # NoMatch
    /\ stream' = <<"data">>
    /\ DialTo(Match(proxies(tunnel), host), "join", <<"data">>)
    /\ AgentOnly

\* handle has nothing open but its connection, and closes it: a dial or a
\* handshake that fails, a visitor that leaves the HTTP server.
HandleFails ==
    /\ \E from \in {"dial", "dialTcp", "handshake", "serve"} : AgentGoto(from, "done")
    /\ Close({"in"})
    /\ UNCHANGED <<stream, backend, reads>>
    /\ AgentOnly

\* pipe.Join, or the end of the HTTP connection.
AgentJoinEnds ==
    /\ AgentGoto("join", "done")
    /\ Close({"in", "to"})
    /\ UNCHANGED <<stream, backend, reads>>
    /\ AgentOnly

-----------------------------------------------------------------------------
NodeStep ==
    \/ Visit \/ Peek \/ PeekFails \/ RouteLocally \/ Route \/ NoRoute
    \/ DialLocal \/ Dial \/ DialFails
    \/ WriteHeader \/ WriteHeaderFails \/ JoinEnds

AgentStep ==
    \/ isGateway \/ NotAGateway \/ ReadHeader \/ PeekHello \/ ReadFails
    \/ FindRoute \/ NoAgentRoute \/ DialRoute \/ ForwardHeader \/ ForwardFails
    \/ TerminateTcp \/ TerminateHttp \/ Accept \/ PushRefused
    \/ Handshake \/ DialTcp \/ serveHTTP \/ HandleFails \/ AgentJoinEnds

Session(t) == Listen(t) \/ setNodes(t) \/ SessionEnds(t)

Next ==
    \/ NodeStep
    \/ AgentStep
    \/ StoreRoutes
    \/ ServerStops
    \/ \E t \in Tunnels : Session(t)

Spec == Init /\ [][Next]_vars

\* Every wait of a handler has a deadline, but for push, which waits for the
\* HTTP server, and the copies, which end when a peer leaves: that visitors and
\* backends do leave is assumed.
FairSpec ==
    /\ Spec
    /\ WF_vars(NodeStep)
    /\ WF_vars(AgentStep)
    /\ WF_vars(ServerStops)

-----------------------------------------------------------------------------
(* Properties.                                                             *)

\* A visitor is sent only to the tunnel whose domain has the name it asked for,
\* however late the node's table is: the wildcard of one tunnel never covers
\* the names of another (NodeConfig, handleTLS); and no session routes, or asks
\* a certificate for, a name outside its own domain (Resolve).
OwnTunnelOnly ==
    /\ (tunnel # NoTunnel) => Within(host, Domain[tunnel])
    /\ \A t \in sessions : \A key \in DOMAIN Routes(t) : Within(key.name, Domain[t])

\* The backend is the one of the most precise route of the session that covers
\* the name: the exact one, else the longest wildcard, whichever of the three
\* tables (routes, tcpTargets, proxies) decides (handle, terminate.go).
RightBackend ==
    (backend \notin {Local, NoBackend}) =>
        \E key \in MostSpecific(DOMAIN Routes(tunnel), host) :
            Routes(tunnel)[key] = backend

\* What the backend reads: the ClientHello the two Peeks took is given back
\* once, after one PROXY header if the route asks for it, and a terminated
\* connection gives it only what was inside the TLS (PrefixConn, rawHeader).
BackendReads ==
    (agent = "join") =>
        reads = IF backend.mode # "passthrough" THEN <<"data">>
                ELSE IF backend.proxy THEN <<"PROXY", "hello">>
                ELSE <<"hello">>

\* A handler that has returned left none of its sockets open, whichever error
\* path it took (handleTLS, handle, handleTCP, push).
NoSocketLeft ==
    /\ (node  \in {"idle", "done"}) => open \cap {"visitor", "up"} = {}
    /\ (agent \in {"idle", "done"}) => open \cap {"in", "to"} = {}

\* Who may answer a DNS-01 challenge for a name gets the visitors of that name:
\* acmeDNSCreate accepts a name for a tunnel only if the node sends it there
\* when all tunnels are up (validACMEDNSName against NodeConfig).
ChallengesFollowRoutes ==
    \A t \in Tunnels, n \in Names :
        validACMEDNSName(n, Domain[t]) =>
            LET key == Match(UNION {NodeRoutes(Domain[u]) : u \in Tunnels}, Tail(n))
            IN  key # NoMatch /\ Owner(key) = t

\* Every visitor is let go: both handlers return and no socket is left, also
\* when the session ends while one waits in push (chanListener).
HandlersEnd ==
    (node = "peek") ~> (node = "done" /\ agent \in {"idle", "done"} /\ open = {})
=============================================================================
