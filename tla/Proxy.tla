-------------------------------- MODULE Proxy --------------------------------
(***************************************************************************)
(* The forward proxy (internal/proxy): every client connection from its    *)
(* acceptance to its end, plain HTTP or CONNECT; the decision to intercept *)
(* or to tunnel; the client's handshake and the upstream one that mirrors  *)
(* it; requests, with the 1xx responses that the transport's goroutine     *)
(* forwards; WebSockets; the hosts that are tunnelled because interception *)
(* failed; and Stop.  A connection carries one request at a time.          *)
(***************************************************************************)
EXTENDS Naturals, FiniteSets

CONSTANTS
  Conn,       \* slots for client connections
  Host,       \* hosts clients ask for
  Local,      \* constants.LocalEndpointHost
  Address,    \* a literal IP
  Allowlist,  \* the routing policy: proxy only listed apps, or all but them
  Subdomain   \* pairs <<h, d>>: h is a subdomain of d

ASSUME ProxyAssumption ==
  /\ {Local, Address} \subseteq Host /\ Local # Address /\ Allowlist \in BOOLEAN
  /\ Subdomain \subseteq Host \X Host

VARIABLES
  server,       \* the http.Server: "up", "draining", "drained", "late", "stopped", "failed"
  idle,         \* the shared transport's pool holds an idle connection
  transparent,  \* Proxy.transparentHosts
  refused,      \* hosts that failed a TLS handshake with Zen's leaf or Go's hello
  conn          \* the connections

vars == <<server, idle, transparent, refused, conn>>

\* phase: where the goroutine of the connection is; closed: the listener of an
\* intercepted one is closed.  req: where the handler of its request is; wrote:
\* what it has sent; tripDone: roundTripDone; callback: Got1xxResponse is
\* running, and the header map holds the lines of its 1xx response.
Fresh(h, plain, proxied) ==
  [phase |-> IF plain THEN "serve" ELSE "connect", host |-> h, plain |-> plain, proxied |-> proxied,
   gone |-> FALSE, goHello |-> FALSE, req |-> IF plain THEN "received" ELSE "none",
   wrote |-> "nothing", tripDone |-> FALSE, callback |-> FALSE, close |-> FALSE]
At(l, h) == [Fresh(h, FALSE, TRUE) EXCEPT !.phase = l]
Free == At("free", Local)

\* Every variable has its type.
TypeOK ==
  /\ idle \in BOOLEAN
  /\ server \in {"up", "draining", "drained", "late", "stopped", "failed"}
  /\ transparent \subseteq Host /\ refused \subseteq Host
  /\ conn \in [Conn -> [phase : {"free", "connect", "handshake", "serve", "closed", "tunnel"},
                        host : Host, plain : BOOLEAN, proxied : BOOLEAN, gone : BOOLEAN, goHello : BOOLEAN,
                        req : {"none", "received", "ws", "tunnelled", "trip", "reply", "error", "answered"},
                        wrote : {"nothing", "1xx", "final"}, tripDone : BOOLEAN,
                        callback : BOOLEAN, close : BOOLEAN]]
  /\ \A c \in Conn : conn[c].callback => conn[c].req = "trip"

Init ==
  /\ server = "up" /\ idle = FALSE
  /\ transparent = {} /\ refused = {} /\ conn = [c \in Conn |-> Free]

-----------------------------------------------------------------------------
Go(c, l) == conn' = [conn EXCEPT ![c] = At(l, conn[c].host)]
End(c) == conn' = [conn EXCEPT ![c] = Free]
IsLocal(c) == conn[c].host = Local

\* Policy.ShouldProxy.  A process without a known path matches no listed app; a
\* request whose process was not found is proxied whatever the policy.
App == {"listed", "other", "no path", "not found"}
ShouldProxyMatched(matched) == IF Allowlist THEN matched ELSE ~matched
ShouldProxy(app) == app = "not found" \/ ShouldProxyMatched(app = "listed")

\* shouldMITM: a transparent host covers its subdomains.
ShouldMITM(h) == \A t \in transparent : h # t /\ <<h, t>> \notin Subdomain

Tunnelled_wrong(c) ==
  ~conn[c].proxied \/ ~ShouldMITM(conn[c].host) \/ conn[c].host = Address

\* The local endpoint is checked before every path that could tunnel.
Tunnelled(c) ==
  /\ ~IsLocal(c)
  /\ ~conn[c].proxied \/ ~ShouldMITM(conn[c].host) \/ conn[c].host = Address

Accept(c) ==
  /\ conn[c].phase = "free" /\ server = "up"
  /\ \E h \in Host, plain \in BOOLEAN, app \in App :
       conn' = [conn EXCEPT ![c] = Fresh(h, plain, ShouldProxy(app))]
  /\ UNCHANGED <<server, idle, transparent, refused>>

\* proxyConnect up to the handshake: the certificate may fail.
Connect(c) ==
  /\ conn[c].phase = "connect"
  /\ IF Tunnelled(c) THEN Go(c, "tunnel") ELSE Go(c, "handshake") \/ End(c)
  /\ UNCHANGED <<server, idle, transparent, refused>>

\* readClientHello and the handshake, which reads the same bytes again.  A TLS
\* error makes the host transparent, a connection that ends does not.
Handshake(c) ==
  /\ conn[c].phase = "handshake"
  /\ \/ Go(c, "serve") /\ UNCHANGED <<transparent, refused>>
     \/ End(c) /\ UNCHANGED <<transparent, refused>>
     \/ /\ ~IsLocal(c) /\ End(c)
        /\ refused' = refused \cup {conn[c].host} /\ transparent' = transparent \cup {conn[c].host}
  /\ UNCHANGED <<server, idle>>

\* tunnel returns: the dial failed, or both sides are done.
TunnelEnds(c) ==
  /\ conn[c].phase = "tunnel" /\ End(c)
  /\ UNCHANGED <<server, idle, transparent, refused>>

-----------------------------------------------------------------------------
(* Requests: connectHandler on an intercepted connection, proxyHTTP on a   *)
(* plain one.                                                              *)
Serving(c, req) == conn[c].phase = "serve" /\ conn[c].req = req

\* The next request; not after a response that closes the connection.
Receive(c) ==
  /\ conn[c].phase = "serve" /\ conn[c].req \in {"none", "answered"}
  /\ ~conn[c].gone /\ ~conn[c].close /\ server = "up"
  /\ conn' = [conn EXCEPT ![c].req = "received", ![c].wrote = "nothing",
                          ![c].tripDone = FALSE, ![c].callback = FALSE]
  /\ UNCHANGED <<server, idle, transparent, refused>>

Filtered(c) == ~conn[c].plain \/ conn[c].proxied

\* The local endpoint answers; the filter may answer (block, redirect); a
\* WebSocket is hijacked; anything else goes upstream.
Handle(c) ==
  /\ Serving(c, "received")
  /\ \/ /\ IsLocal(c) \/ Filtered(c)
        /\ conn' = [conn EXCEPT ![c].req = "answered", ![c].wrote = "final"]
     \/ ~IsLocal(c) /\ conn' = [conn EXCEPT ![c].req = "ws"]
     \/ ~IsLocal(c) /\ conn' = [conn EXCEPT ![c].req = "trip"]
  /\ UNCHANGED <<server, idle, transparent, refused>>

\* mirroringDialer: the first failure of the mirrored hello falls back to Go's
\* for good.
FallBack(c) ==
  /\ Serving(c, "trip") /\ ~conn[c].plain /\ ~conn[c].goHello
  /\ conn' = [conn EXCEPT ![c].goHello = TRUE]
  /\ UNCHANGED <<server, idle, transparent, refused>>

\* The round trip returns, and the handler takes roundTripMutex.
TripReturns(c) ==
  /\ Serving(c, "trip") /\ ~conn[c].callback
  /\ \E req \in {"reply", "error"} : conn' = [conn EXCEPT ![c].req = req, ![c].tripDone = TRUE]
  /\ UNCHANGED <<server, idle, transparent, refused>>

\* A TLS error of the dial with Go's hello (isTLSError): the host becomes
\* transparent, and the response closes the connection.
TripFailsTLS(c) ==
  /\ Serving(c, "trip") /\ ~conn[c].callback /\ conn[c].goHello
  /\ conn' = [conn EXCEPT ![c].req = "error", ![c].tripDone = TRUE, ![c].close = TRUE]
  /\ refused' = refused \cup {conn[c].host}
  /\ transparent' = transparent \cup {conn[c].host}
  /\ UNCHANGED <<server, idle>>

Begin1xx_unchecked(c) ==
  /\ conn[c].phase = "serve" /\ conn[c].req \in {"trip", "reply", "error", "answered"}
  /\ ~IsLocal(c) /\ ~conn[c].callback
  /\ conn' = [conn EXCEPT ![c].callback = TRUE]
  /\ UNCHANGED <<server, idle, transparent, refused>>

\* Got1xxResponse, on the transport's goroutine: it may start at any time once
\* the request was sent, holds roundTripMutex, and does nothing after tripDone.
\* Bound: one 1xx response a request.
Begin1xx(c) ==
  /\ conn[c].phase = "serve" /\ conn[c].req \in {"trip", "reply", "error", "answered"}
  /\ ~IsLocal(c) /\ ~conn[c].callback /\ ~conn[c].tripDone /\ conn[c].wrote = "nothing"
  /\ conn' = [conn EXCEPT ![c].callback = TRUE]
  /\ UNCHANGED <<server, idle, transparent, refused>>

End1xx(c) ==
  /\ conn[c].phase = "serve" /\ conn[c].callback
  /\ conn' = [conn EXCEPT ![c].callback = FALSE, ![c].wrote = "1xx"]
  /\ UNCHANGED <<server, idle, transparent, refused>>

\* writeResp, writeFilterError or writeUpstreamError.  With its body read to
\* the end, a plain request's connection returns to the shared pool.
Reply(c) ==
  /\ Serving(c, "reply") \/ Serving(c, "error")
  /\ conn' = [conn EXCEPT ![c].req = "answered", ![c].wrote = "final"]
  /\ idle' \in {idle, idle \/ (conn[c].plain /\ conn[c].req = "reply")}
  /\ UNCHANGED <<server, transparent, refused>>

\* hijackAndTunnelWebsocket returns: the dial or the handshake failed, or both
\* sides are done.
WebSocketEnds(c) ==
  /\ Serving(c, "ws")
  /\ IF conn[c].plain THEN End(c) ELSE conn' = [conn EXCEPT ![c].req = "tunnelled"]
  /\ UNCHANGED <<server, idle, transparent, refused>>

CloseConn_wrong(c) ==
  /\ Serving(c, "none") \/ Serving(c, "answered")
  /\ conn[c].gone \/ conn[c].close
  /\ IF conn[c].plain THEN End(c) ELSE Go(c, "closed")
  /\ UNCHANGED <<server, idle, transparent, refused>>

\* The server closes a connection that ended or that was answered with
\* Connection: close, and ConnState closes the listener; that of a hijacked
\* connection, which reports no such state, is closed by connectHandler.
CloseConn(c) ==
  /\ \/ Serving(c, "tunnelled")
     \/ (Serving(c, "none") \/ Serving(c, "answered")) /\ (conn[c].gone \/ conn[c].close)
  /\ IF conn[c].plain THEN End(c) ELSE Go(c, "closed")
  /\ UNCHANGED <<server, idle, transparent, refused>>

\* Accept returns net.ErrClosed, Serve returns and proxyConnect ends.
ServeReturns(c) ==
  /\ conn[c].phase = "closed" /\ End(c)
  /\ UNCHANGED <<server, idle, transparent, refused>>

HangUp(c) ==
  /\ conn[c].phase = "serve" /\ ~conn[c].gone
  /\ conn' = [conn EXCEPT ![c].gone = TRUE]
  /\ UNCHANGED <<server, idle, transparent, refused>>

-----------------------------------------------------------------------------
(* Stop: Shutdown waits for what is not hijacked, at most ten seconds;     *)
(* then the idle upstream connections are closed.  The next start makes a  *)
(* new Proxy, so this one ends here.                                       *)

\* Busy connections of the server: not hijacked, with a request in progress.
Busy(c) ==
  \/ conn[c].phase = "connect"
  \/ conn[c].phase = "serve" /\ conn[c].plain /\ conn[c].req \notin {"none", "ws", "answered"}

Stop ==
  /\ server = "up" /\ server' = "draining"
  /\ UNCHANGED <<idle, transparent, refused, conn>>

\* Shutdown closes the idle connections; on a timeout it gives up.
Shutdown ==
  /\ server = "draining"
  /\ \/ /\ \A c \in Conn : ~Busy(c)
        /\ server' = "drained"
        /\ conn' = [c \in Conn |->
             IF conn[c].phase = "serve" /\ conn[c].plain /\ conn[c].req # "ws"
               THEN Free ELSE conn[c]]
     \/ (\E c \in Conn : Busy(c)) /\ server' = "late" /\ UNCHANGED conn
  /\ UNCHANGED <<idle, transparent, refused>>

CloseIdle ==
  /\ server \in {"drained", "late"} /\ idle' = FALSE
  /\ server' = IF server = "late" THEN "failed" ELSE "stopped"
  /\ UNCHANGED <<transparent, refused, conn>>

Handler(c) ==
  \/ Connect(c) \/ Handshake(c) \/ Handle(c) \/ TripReturns(c) \/ TripFailsTLS(c)
  \/ End1xx(c) \/ Reply(c) \/ CloseConn(c) \/ ServeReturns(c)

Next ==
  \/ \E c \in Conn : Accept(c) \/ Receive(c) \/ Handler(c) \/ FallBack(c) \/ Begin1xx(c)
                       \/ TunnelEnds(c) \/ WebSocketEnds(c) \/ HangUp(c)
  \/ Stop \/ Shutdown \/ CloseIdle

Spec == Init /\ [][Next]_vars

\* A goroutine of the proxy runs when it can; clients and servers owe nothing.
FairSpec == Spec /\ \A c \in Conn : WF_vars(Handler(c))

-----------------------------------------------------------------------------
LocalEndpointServed ==
  \A c \in Conn : IsLocal(c) => conn[c].phase # "tunnel" /\ conn[c].req \notin {"ws", "trip"}

TransparentHasReason == transparent \subseteq refused

\* The local endpoint is never looked up, tunnelled or sent upstream, whatever
\* failed before and whichever host became transparent: nothing out there
\* answers for it (proxyConnect, isLocalEndpoint).  And a host stops being
\* filtered only because a client refused Zen's leaf or the server refused Go's
\* own hello: neither a connection that ends nor a failure of the mirrored hello
\* is enough (mirroringDialer, isTLSError).
RoutingIsKept == LocalEndpointServed /\ TransparentHasReason

\* Once the final response is being written no 1xx response is, and it carries
\* no header line of one (roundTripMutex and roundTripDone).
FinalResponseIsLast ==
  [][\A c \in Conn :
       /\ conn[c].wrote = "final" /\ conn[c].phase = "serve" /\ conn[c].req = conn'[c].req =>
            conn'[c].wrote = "final" /\ ~conn'[c].callback
       /\ conn[c].wrote # "final" /\ conn'[c].wrote = "final" => ~conn[c].callback]_vars

PoolIsDrained == server = "stopped" => ~idle

ConnectionsEnd ==
  \A c \in Conn : conn[c].phase = "serve" /\ (conn[c].gone \/ conn[c].req = "tunnelled")
                    ~> conn[c].phase = "free" \/ conn[c].req = "ws"

\* Connections are given back.  A stopped proxy leaves no idle upstream
\* connection behind, nor can one return to the pool later (Stop).  An
\* intercepted connection whose client hung up ends, its listener and its
\* goroutine included, unless it is a WebSocket still tunnelled; so does one
\* whose WebSocket is over (singleConnListener, ConnState, ln.Close).
ConnectionsAreReleased == []PoolIsDrained /\ ConnectionsEnd
=============================================================================
