----------------------------- MODULE Proxy_proofs -----------------------------
(***************************************************************************)
(* The safety properties of Proxy, for any set of connections, hosts and   *)
(* subdomains and either kind of routing policy.                           *)
(***************************************************************************)
EXTENDS Proxy, TLAPS

-----------------------------------------------------------------------------
(* The inductive invariant                                                 *)

Connection ==
  [phase : {"free", "connect", "handshake", "serve", "closed", "tunnel"},
   host : Host, plain : BOOLEAN, proxied : BOOLEAN, gone : BOOLEAN, goHello : BOOLEAN,
   req : {"none", "received", "ws", "tunnelled", "trip", "reply", "error", "answered"},
   wrote : {"nothing", "1xx", "final"}, tripDone : BOOLEAN,
   callback : BOOLEAN, close : BOOLEAN]

(* The local endpoint's connection is neither tunnelled nor sent upstream. *)
LocalOK(r) == r.host = Local => r.phase # "tunnel" /\ r.req \notin {"ws", "trip"}

(* A 1xx response is forwarded during the round trip only: who sees the    *)
(* trip over finds tripDone, or the final response, in its way.            *)
ReplyOK(r) ==
  /\ r.req = "answered" <=> r.wrote = "final"
  /\ r.req \in {"reply", "error"} => r.tripDone
  /\ r.callback => r.req = "trip"

Sound(r) == r \in Connection /\ LocalOK(r) /\ ReplyOK(r)

(* Of its own connections a drained server has none left but hijacked ones *)
Drained(r) == r.phase = "serve" /\ r.plain => r.req = "ws"

DrainInv ==
  /\ server \in {"drained", "stopped"} => \A c \in Conn : Drained(conn[c])
  /\ PoolIsDrained

ConnInv == conn \in [Conn -> Connection] /\ \A c \in Conn : Sound(conn[c])

IInv == TypeOK /\ ConnInv /\ TransparentHasReason /\ DrainInv

-----------------------------------------------------------------------------
(* The steps of a connection                                               *)

(* A connection in a phase without a request is sound, but for a tunnel to *)
(* the local endpoint.                                                     *)
LEMMA AtSound ==
  ASSUME NEW h \in Host,
         NEW l \in {"free", "connect", "handshake", "serve", "closed", "tunnel"}
  PROVE  /\ (l = "tunnel" => h # Local) => Sound(At(l, h))
         /\ ~At(l, h).plain /\ At(l, h).wrote = "nothing" /\ At(l, h).phase = l
         /\ At(l, h).req = "none"
BY DEF At, Fresh, Sound, Connection, LocalOK, ReplyOK

(* What may become of a connection in one step of its own: a final         *)
(* response stays the last, and is begun outside of a callback; once the   *)
(* server is not up, no connection of its own is added.                    *)
Follows(r, q) ==
  /\ Sound(q)
  /\ r.wrote = "final" /\ r.phase = "serve" /\ r.req = q.req =>
       q.wrote = "final" /\ ~q.callback
  /\ r.wrote # "final" /\ q.wrote = "final" => ~r.callback
  /\ server # "up" /\ Drained(r) => Drained(q)

Moves(c) == \E q : Follows(conn[c], q) /\ conn' = [conn EXCEPT ![c] = q]

(* A connection goes to a phase, or ends.                                  *)
LEMMA GoMoves ==
  ASSUME ConnInv, NEW c \in Conn,
         NEW l \in {"free", "connect", "handshake", "serve", "closed", "tunnel"},
         l = "tunnel" => ~IsLocal(c)
  PROVE  (Go(c, l) => Moves(c)) /\ (End(c) => Moves(c))
<1> DEFINE q == At(l, conn[c].host)
<1>1. conn[c].host \in Host /\ Sound(conn[c])
  BY DEF ConnInv, Connection
<1>2. Sound(q) /\ ~q.plain /\ q.wrote = "nothing" /\ q.req = "none"
  BY <1>1, AtSound DEF IsLocal
<1>3. Sound(Free) /\ ~Free.plain /\ Free.wrote = "nothing" /\ Free.req = "none"
  BY AtSound, ProxyAssumption DEF Free
<1>4. conn[c].wrote = "final" => conn[c].req = "answered"
  BY <1>1 DEF Sound, ReplyOK
<1>5. Follows(conn[c], q)
  BY <1>2, <1>4 DEF Follows, Drained
<1>6. Follows(conn[c], Free)
  BY <1>3, <1>4 DEF Follows, Drained
<1>7. QED
  BY <1>5, <1>6 DEF Moves, Go, End

(* The next request of a connection.                                       *)
LEMMA ReceiveMoves ==
  ASSUME ConnInv, NEW c \in Conn, Receive(c)
  PROVE  Moves(c)
<1> DEFINE q == [conn[c] EXCEPT !.req = "received", !.wrote = "nothing",
                              !.tripDone = FALSE, !.callback = FALSE]
<1>1. conn[c] \in Connection /\ Sound(conn[c])
  BY DEF ConnInv
<1>2. q \in Connection
  BY <1>1 DEF Connection
<1>3. Follows(conn[c], q)
  BY <1>1, <1>2
  DEF Receive, Follows, Sound, LocalOK, ReplyOK, Drained, Connection, IsLocal
<1>4. conn' = [conn EXCEPT ![c] = q]
  BY DEF ConnInv, Receive
<1>5. QED
  BY <1>3, <1>4 DEF Moves

(* The mirrored hello fails.                                               *)
LEMMA FallBackMoves ==
  ASSUME ConnInv, NEW c \in Conn, FallBack(c)
  PROVE  Moves(c)
<1> DEFINE q == [conn[c] EXCEPT !.goHello = TRUE]
<1>1. conn[c] \in Connection /\ Sound(conn[c])
  BY DEF ConnInv
<1>2. q \in Connection
  BY <1>1 DEF Connection
<1>3. Follows(conn[c], q)
  BY <1>1, <1>2
  DEF FallBack, Serving, Follows, Sound, LocalOK, ReplyOK, Drained, Connection, IsLocal
<1>4. conn' = [conn EXCEPT ![c] = q]
  BY DEF ConnInv, FallBack
<1>5. QED
  BY <1>3, <1>4 DEF Moves

(* The dial fails with Go's hello too.                                     *)
LEMMA TripFailsTLSMoves ==
  ASSUME ConnInv, NEW c \in Conn, TripFailsTLS(c)
  PROVE  Moves(c)
<1> DEFINE q == [conn[c] EXCEPT !.req = "error", !.tripDone = TRUE, !.close = TRUE]
<1>1. conn[c] \in Connection /\ Sound(conn[c])
  BY DEF ConnInv
<1>2. q \in Connection
  BY <1>1 DEF Connection
<1>3. Follows(conn[c], q)
  BY <1>1, <1>2
  DEF TripFailsTLS, Serving, Follows, Sound, LocalOK, ReplyOK, Drained, Connection, IsLocal
<1>4. conn' = [conn EXCEPT ![c] = q]
  BY DEF ConnInv, TripFailsTLS
<1>5. QED
  BY <1>3, <1>4 DEF Moves

(* A 1xx response arrives.                                                 *)
LEMMA Begin1xxMoves ==
  ASSUME ConnInv, NEW c \in Conn, Begin1xx(c)
  PROVE  Moves(c)
<1> DEFINE q == [conn[c] EXCEPT !.callback = TRUE]
<1>1. conn[c] \in Connection /\ Sound(conn[c])
  BY DEF ConnInv
<1>2. q \in Connection
  BY <1>1 DEF Connection
<1>3. Follows(conn[c], q)
  BY <1>1, <1>2
  DEF Begin1xx, Follows, Sound, LocalOK, ReplyOK, Drained, Connection, IsLocal
<1>4. conn' = [conn EXCEPT ![c] = q]
  BY DEF ConnInv, Begin1xx
<1>5. QED
  BY <1>3, <1>4 DEF Moves

(* It was forwarded.                                                       *)
LEMMA End1xxMoves ==
  ASSUME ConnInv, NEW c \in Conn, End1xx(c)
  PROVE  Moves(c)
<1> DEFINE q == [conn[c] EXCEPT !.callback = FALSE, !.wrote = "1xx"]
<1>1. conn[c] \in Connection /\ Sound(conn[c])
  BY DEF ConnInv
<1>2. q \in Connection
  BY <1>1 DEF Connection
<1>3. Follows(conn[c], q)
  BY <1>1, <1>2
  DEF End1xx, Follows, Sound, LocalOK, ReplyOK, Drained, Connection, IsLocal
<1>4. conn' = [conn EXCEPT ![c] = q]
  BY DEF ConnInv, End1xx
<1>5. QED
  BY <1>3, <1>4 DEF Moves

(* The final response.                                                     *)
LEMMA ReplyMoves ==
  ASSUME ConnInv, NEW c \in Conn, Reply(c)
  PROVE  Moves(c)
<1> DEFINE q == [conn[c] EXCEPT !.req = "answered", !.wrote = "final"]
<1>1. conn[c] \in Connection /\ Sound(conn[c])
  BY DEF ConnInv
<1>2. q \in Connection
  BY <1>1 DEF Connection
<1>3. Follows(conn[c], q)
  BY <1>1, <1>2
  DEF Reply, Serving, Follows, Sound, LocalOK, ReplyOK, Drained, Connection, IsLocal
<1>4. conn' = [conn EXCEPT ![c] = q]
  BY DEF ConnInv, Reply
<1>5. QED
  BY <1>3, <1>4 DEF Moves

(* The client hangs up.                                                    *)
LEMMA HangUpMoves ==
  ASSUME ConnInv, NEW c \in Conn, HangUp(c)
  PROVE  Moves(c)
<1> DEFINE q == [conn[c] EXCEPT !.gone = TRUE]
<1>1. conn[c] \in Connection /\ Sound(conn[c])
  BY DEF ConnInv
<1>2. q \in Connection
  BY <1>1 DEF Connection
<1>3. Follows(conn[c], q)
  BY <1>1, <1>2
  DEF HangUp, Follows, Sound, LocalOK, ReplyOK, Drained, Connection, IsLocal
<1>4. conn' = [conn EXCEPT ![c] = q]
  BY DEF ConnInv, HangUp
<1>5. QED
  BY <1>3, <1>4 DEF Moves

(* The round trip returns.                                                 *)
LEMMA TripReturnsMoves ==
  ASSUME ConnInv, NEW c \in Conn, TripReturns(c)
  PROVE  Moves(c)
<1>1. conn[c] \in Connection /\ Sound(conn[c])
  BY DEF ConnInv
<1>2. PICK req \in {"reply", "error"} :
        conn' = [conn EXCEPT ![c].req = req, ![c].tripDone = TRUE]
  BY DEF TripReturns
<1> DEFINE q == [conn[c] EXCEPT !.req = req, !.tripDone = TRUE]
<1>3. q \in Connection
  BY <1>1 DEF Connection
<1>4. Follows(conn[c], q)
  BY <1>1, <1>3
  DEF TripReturns, Serving, Follows, Sound, LocalOK, ReplyOK, Drained, Connection
<1>5. conn' = [conn EXCEPT ![c] = q]
  BY <1>2 DEF ConnInv
<1>6. QED
  BY <1>4, <1>5 DEF Moves

(* A request is answered, hijacked or sent upstream.                       *)
LEMMA HandleMoves ==
  ASSUME ConnInv, NEW c \in Conn, Handle(c)
  PROVE  Moves(c)
<1>1. conn[c] \in Connection /\ Sound(conn[c]) /\ Serving(c, "received")
  BY DEF ConnInv, Handle
<1> USE DEF Serving, Follows, Sound, LocalOK, ReplyOK, Drained, IsLocal
<1>2. CASE conn' = [conn EXCEPT ![c].req = "answered", ![c].wrote = "final"]
  <2> DEFINE q == [conn[c] EXCEPT !.req = "answered", !.wrote = "final"]
  <2>1. q \in Connection
    BY <1>1 DEF Connection
  <2>2. Follows(conn[c], q)
    BY <1>1, <2>1 DEF Connection
  <2>3. QED
    BY <1>2, <2>2 DEF Moves, ConnInv
<1>3. CASE ~IsLocal(c) /\ conn' = [conn EXCEPT ![c].req = "ws"]
  <2> DEFINE q == [conn[c] EXCEPT !.req = "ws"]
  <2>1. q \in Connection
    BY <1>1 DEF Connection
  <2>2. Follows(conn[c], q)
    BY <1>1, <1>3, <2>1 DEF Connection
  <2>3. QED
    BY <1>3, <2>2 DEF Moves, ConnInv
<1>4. CASE ~IsLocal(c) /\ conn' = [conn EXCEPT ![c].req = "trip"]
  <2> DEFINE q == [conn[c] EXCEPT !.req = "trip"]
  <2>1. q \in Connection
    BY <1>1 DEF Connection
  <2>2. Follows(conn[c], q)
    BY <1>1, <1>4, <2>1 DEF Connection
  <2>3. QED
    BY <1>4, <2>2 DEF Moves, ConnInv
<1>5. QED
  BY <1>2, <1>3, <1>4 DEF Handle

(* A WebSocket is over.                                                    *)
LEMMA WebSocketEndsMoves ==
  ASSUME ConnInv, NEW c \in Conn, WebSocketEnds(c)
  PROVE  Moves(c)
<1>1. conn[c] \in Connection /\ Sound(conn[c]) /\ Serving(c, "ws")
  BY DEF ConnInv, WebSocketEnds
<1> DEFINE q == [conn[c] EXCEPT !.req = "tunnelled"]
<1>2. CASE ~conn[c].plain
  <2>1. q \in Connection
    BY <1>1 DEF Connection
  <2>2. Follows(conn[c], q)
    BY <1>1, <1>2, <2>1
    DEF Serving, Follows, Sound, LocalOK, ReplyOK, Drained, Connection
  <2>3. QED
    BY <1>2, <2>2 DEF WebSocketEnds, Moves, ConnInv
<1>3. CASE conn[c].plain
  BY <1>3, GoMoves DEF WebSocketEnds
<1>4. QED
  BY <1>2, <1>3

(* A client connects.                                                      *)
LEMMA AcceptMoves ==
  ASSUME ConnInv, NEW c \in Conn, Accept(c)
  PROVE  Moves(c)
<1>1. PICK h \in Host, plain \in BOOLEAN, app \in App :
        conn' = [conn EXCEPT ![c] = Fresh(h, plain, ShouldProxy(app))]
  BY DEF Accept
<1> DEFINE q == Fresh(h, plain, ShouldProxy(app))
<1>2. ShouldProxy(app) \in BOOLEAN
  BY ProxyAssumption DEF ShouldProxy, ShouldProxyMatched
<1>3. Sound(q)
  BY <1>2 DEF Fresh, Sound, Connection, LocalOK, ReplyOK
<1>4. q.wrote = "nothing" /\ conn[c].phase # "serve" /\ server = "up"
  BY DEF Accept, Fresh
<1>5. Follows(conn[c], q)
  BY <1>3, <1>4 DEF Follows
<1>6. QED
  BY <1>1, <1>5 DEF Moves

ConnStep(c) ==
  \/ Accept(c) \/ Receive(c) \/ Handler(c) \/ FallBack(c) \/ Begin1xx(c)
  \/ TunnelEnds(c) \/ WebSocketEnds(c) \/ HangUp(c)

(* Every step of a connection is such a move.                              *)
LEMMA ConnMoves ==
  ASSUME ConnInv, NEW c \in Conn, ConnStep(c)
  PROVE  Moves(c)
<1>1. CASE Connect(c)
  <2>1. (Tunnelled(c) /\ Go(c, "tunnel")) \/ Go(c, "handshake") \/ End(c)
    BY <1>1 DEF Connect
  <2>2. Tunnelled(c) => ~IsLocal(c)
    BY DEF Tunnelled
  <2>3. QED
    BY <2>1, <2>2, GoMoves
<1>2. CASE Handshake(c)
  BY <1>2, GoMoves DEF Handshake
<1>3. CASE TunnelEnds(c)
  BY <1>3, GoMoves DEF TunnelEnds
<1>4. CASE CloseConn(c)
  BY <1>4, GoMoves DEF CloseConn
<1>5. CASE ServeReturns(c)
  BY <1>5, GoMoves DEF ServeReturns
<1>6. CASE Accept(c) \/ Receive(c) \/ FallBack(c) \/ HangUp(c) \/ WebSocketEnds(c)
  BY <1>6, AcceptMoves, ReceiveMoves, FallBackMoves, HangUpMoves, WebSocketEndsMoves
<1>7. CASE Handle(c) \/ TripReturns(c) \/ TripFailsTLS(c) \/ Reply(c)
  BY <1>7, HandleMoves, TripReturnsMoves, TripFailsTLSMoves, ReplyMoves
<1>8. CASE Begin1xx(c) \/ End1xx(c)
  BY <1>8, Begin1xxMoves, End1xxMoves
<1>9. QED
  BY <1>1, <1>2, <1>3, <1>4, <1>5, <1>6, <1>7, <1>8 DEF ConnStep, Handler

-----------------------------------------------------------------------------
(* The invariant                                                           *)

(* Connections stay sound; a move replaces one of them.                    *)
LEMMA ConnInvStep ==
  ASSUME ConnInv, [Next]_vars
  PROVE  ConnInv'
<1>1. ASSUME NEW c \in Conn, ConnStep(c)  PROVE ConnInv'
  <2>1. PICK q : Sound(q) /\ conn' = [conn EXCEPT ![c] = q]
    BY <1>1, ConnMoves DEF Moves, Follows
  <2>2. q \in Connection
    BY <2>1 DEF Sound
  <2>3. QED
    BY <2>1, <2>2 DEF ConnInv
<1>2. CASE Shutdown
  <2>1. Sound(Free)
    BY AtSound, ProxyAssumption DEF Free
  <2>2. Free \in Connection
    BY <2>1 DEF Sound
  <2>3. QED
    BY <1>2, <2>1, <2>2 DEF Shutdown, ConnInv
<1>3. CASE Stop \/ CloseIdle \/ UNCHANGED vars
  BY <1>3 DEF Stop, CloseIdle, vars, ConnInv
<1>4. QED
  BY <1>1, <1>2, <1>3 DEF Next, ConnStep

(* The hosts: one becomes transparent when it refuses, never otherwise.    *)
HostTypes == transparent \subseteq Host /\ refused \subseteq Host

(* What is learned about hosts: the transparent list only gains a host     *)
(* whose TLS handshake, with the client or upstream, failed.               *)
LEMMA HostStep ==
  ASSUME HostTypes, TransparentHasReason, ConnInv, [Next]_vars
  PROVE  HostTypes' /\ TransparentHasReason'
<1> USE DEF HostTypes, TransparentHasReason
<1>1. ASSUME NEW c \in Conn, Handshake(c) \/ TripFailsTLS(c)
      PROVE  HostTypes' /\ TransparentHasReason'
  <2>1. conn[c].host \in Host
    BY DEF ConnInv, Connection
  <2>2. QED
    BY <1>1, <2>1 DEF Handshake, TripFailsTLS
<1>2. ASSUME NEW c \in Conn, ConnStep(c), ~Handshake(c), ~TripFailsTLS(c)
      PROVE  UNCHANGED <<transparent, refused>>
  BY <1>2 DEF ConnStep, Accept, Receive, Handler, FallBack, Begin1xx, TunnelEnds,
     WebSocketEnds, HangUp, Connect, Handle, TripReturns, End1xx, Reply, CloseConn,
     ServeReturns
<1>3. CASE Stop \/ Shutdown \/ CloseIdle \/ UNCHANGED vars
  BY <1>3 DEF Stop, Shutdown, CloseIdle, vars
<1>4. QED
  BY <1>1, <1>2, <1>3 DEF Next, ConnStep

(* The server and the transport's pool.                                    *)
ServerTypes ==
  /\ idle \in BOOLEAN
  /\ server \in {"up", "draining", "drained", "late", "stopped", "failed"}

(* The server drains before it stops, and the pool stays empty afterwards. *)
LEMMA ServerStep ==
  ASSUME ServerTypes, ConnInv, DrainInv, [Next]_vars
  PROVE  ServerTypes' /\ DrainInv'
<1> USE DEF ServerTypes
<1>1. ASSUME NEW c \in Conn, ConnStep(c)  PROVE ServerTypes' /\ DrainInv'
  <2>1. server' = server
    BY <1>1 DEF ConnStep, Accept, Receive, Handler, FallBack, Begin1xx, TunnelEnds,
       WebSocketEnds, HangUp, Connect, Handshake, Handle, TripReturns, TripFailsTLS,
       End1xx, Reply, CloseConn, ServeReturns
  <2>2. idle' = idle \/ (Reply(c) /\ idle' \in {idle, TRUE})
    BY <1>1 DEF ConnStep, Accept, Receive, Handler, FallBack, Begin1xx, TunnelEnds,
       WebSocketEnds, HangUp, Connect, Handshake, Handle, TripReturns, TripFailsTLS,
       End1xx, Reply, CloseConn, ServeReturns
  <2>3. server = "stopped" => idle' = idle
    <3>1. SUFFICES ASSUME server = "stopped", Reply(c)  PROVE idle' = idle
      BY <2>2
    <3>2. ~conn[c].plain \/ conn[c].req # "reply"
      BY <3>1 DEF DrainInv, Drained, Reply, Serving
    <3>3. QED
      BY <3>1, <3>2 DEF Reply
  <2>4. server \in {"drained", "stopped"} => \A d \in Conn : Drained(conn[d])'
    <3>1. PICK q : Follows(conn[c], q) /\ conn' = [conn EXCEPT ![c] = q]
      BY <1>1, ConnMoves DEF Moves
    <3>2. QED
      BY <3>1 DEF Follows, DrainInv, ConnInv
  <2>5. QED
    BY <2>1, <2>2, <2>3, <2>4 DEF DrainInv, PoolIsDrained
<1>2. CASE Shutdown
  <2>1. Drained(Free)
    BY AtSound, ProxyAssumption DEF Drained, Free
  <2>2. server' = "drained" => \A c \in Conn : Drained(conn[c])'
    BY <1>2, <2>1 DEF Shutdown, Drained
  <2>3. server' \in {"drained", "late"} /\ idle' = idle
    BY <1>2 DEF Shutdown
  <2>4. QED
    BY <2>2, <2>3 DEF DrainInv, PoolIsDrained
<1>3. CASE Stop
  BY <1>3 DEF Stop, DrainInv, PoolIsDrained
<1>4. CASE CloseIdle
  BY <1>4 DEF CloseIdle, DrainInv, PoolIsDrained, Drained
<1>5. CASE UNCHANGED vars
  BY <1>5 DEF vars, DrainInv, PoolIsDrained, Drained
<1>6. QED
  BY <1>1, <1>2, <1>3, <1>4, <1>5 DEF Next, ConnStep

(* A proxy that starts has no connections.                                 *)
LEMMA InitInv == Init => IInv
<1> SUFFICES ASSUME Init PROVE IInv
  OBVIOUS
<1>1. Sound(Free) /\ Drained(Free)
  BY AtSound, ProxyAssumption DEF Free, Drained
<1>2. ConnInv
  BY <1>1 DEF Init, ConnInv, Sound
<1>3. TypeOK
  BY <1>2 DEF Init, TypeOK, ConnInv, Connection, Sound, ReplyOK
<1>4. QED
  BY <1>2, <1>3 DEF Init, IInv, TransparentHasReason, DrainInv, PoolIsDrained

(* Every step preserves the invariant.                                     *)
LEMMA StepInv ==
  ASSUME IInv, [Next]_vars
  PROVE  IInv'
<1>1. HostTypes /\ ServerTypes /\ ConnInv /\ TransparentHasReason /\ DrainInv
  BY DEF IInv, TypeOK, HostTypes, ServerTypes
<1>2. ConnInv'
  BY <1>1, ConnInvStep
<1>3. HostTypes' /\ TransparentHasReason' /\ ServerTypes' /\ DrainInv'
  BY <1>1, HostStep, ServerStep
<1>4. TypeOK'
  BY <1>2, <1>3 DEF TypeOK, HostTypes, ServerTypes, ConnInv, Connection, Sound, ReplyOK
<1>5. QED
  BY <1>2, <1>3, <1>4 DEF IInv

(* The invariant holds in every state a proxy can reach.                   *)
LEMMA Invariant == Spec => []IInv
<1>1. Init => IInv
  BY InitInv
<1>2. IInv /\ [Next]_vars => IInv'
  BY StepInv
<1>3. QED
  BY <1>1, <1>2, PTL DEF Spec

-----------------------------------------------------------------------------
(* The theorems                                                            *)

(* Every variable of a proxy has its type, and a 1xx response is forwarded *)
(* only while its round trip is under way.                                 *)
THEOREM TypeCorrect == Spec => []TypeOK
<1>1. IInv => TypeOK
  BY DEF IInv
<1>2. QED
  BY <1>1, Invariant, PTL

(* The local endpoint is never tunnelled or sent upstream, whichever hosts *)
(* became transparent, and those are hosts that failed a TLS handshake:    *)
(* proxyConnect, isLocalEndpoint and isTLSError.                           *)
THEOREM RoutingKept == Spec => []RoutingIsKept
<1>1. IInv => RoutingIsKept
  BY DEF IInv, ConnInv, Sound, LocalOK, IsLocal, RoutingIsKept, LocalEndpointServed
<1>2. QED
  BY <1>1, Invariant, PTL

(* A stopped proxy's pool is empty for good: Shutdown has let the requests *)
(* of its own connections end before CloseIdleConnections, and those of    *)
(* intercepted ones do not use the shared pool.                            *)
THEOREM PoolStaysDrained == Spec => []PoolIsDrained
<1>1. IInv => PoolIsDrained
  BY DEF IInv, DrainInv
<1>2. QED
  BY <1>1, Invariant, PTL

(* No 1xx response is being forwarded when the final response is begun, or *)
(* later, whatever the transport's goroutine does.                         *)
THEOREM FinalIsLast == Spec => FinalResponseIsLast
<1> DEFINE Last(c) ==
      /\ conn[c].wrote = "final" /\ conn[c].phase = "serve" /\ conn[c].req = conn'[c].req =>
           conn'[c].wrote = "final" /\ ~conn'[c].callback
      /\ conn[c].wrote # "final" /\ conn'[c].wrote = "final" => ~conn[c].callback
<1>1. ASSUME IInv, [Next]_vars, NEW c \in Conn  PROVE Last(c)
  <2>1. Sound(conn[c]) /\ conn \in [Conn -> Connection]
    BY <1>1 DEF IInv, ConnInv
  <2>2. ASSUME conn'[c] = conn[c]  PROVE Last(c)
    BY <2>1, <2>2 DEF Sound, ReplyOK
  <2>3. ASSUME NEW d \in Conn, ConnStep(d)  PROVE Last(c)
    <3>1. PICK q : Follows(conn[d], q) /\ conn' = [conn EXCEPT ![d] = q]
      BY <1>1, <2>3, ConnMoves DEF Moves, IInv
    <3>2. CASE c = d
      BY <2>1, <3>1, <3>2 DEF Follows
    <3>3. CASE c # d
      BY <2>1, <2>2, <3>1, <3>3
    <3>4. QED
      BY <3>2, <3>3
  <2>4. CASE Shutdown
    <3>1. conn'[c] = conn[c] \/ (conn'[c] = Free /\ ~Busy(c) /\ Drained(Free))
      BY <2>4, AtSound, ProxyAssumption DEF Shutdown, Free, Drained
    <3>2. Free.wrote = "nothing" /\ Free.req = "none"
      BY AtSound, ProxyAssumption DEF Free
    <3>3. QED
      BY <2>1, <2>2, <3>1, <3>2 DEF Sound, ReplyOK
  <2>5. CASE Stop \/ CloseIdle \/ UNCHANGED vars
    BY <2>2, <2>5 DEF Stop, CloseIdle, vars
  <2>6. QED
    BY <1>1, <2>3, <2>4, <2>5 DEF Next, ConnStep
<1>2. IInv /\ [Next]_vars => [\A c \in Conn : Last(c)]_vars
  BY <1>1
<1>3. QED
  BY <1>2, Invariant, PTL DEF Spec, FinalResponseIsLast
=============================================================================
