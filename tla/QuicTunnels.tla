----------------------------- MODULE QuicTunnels -----------------------------
(***************************************************************************)
(* The tunnels of one QUIC session, from bridge() to the last byte: the    *)
(* server's quic_tunnel (crates/server/src/connector_manager.rs), the      *)
(* connector's accept loop and splice_data_stream                          *)
(* (crates/connector/src/transport_quic.rs), the frames between them       *)
(* (crates/proto/src/lib.rs) and the end of the connection.                *)
(*                                                                         *)
(* It extends StreamSlots: a QUIC tunnel takes and frees its slot with the *)
(* actions of that module, whose WSS part runs unchanged when the session  *)
(* is a WSS one.  A slot and a QUIC stream are two resources with the same *)
(* limit: the slot goes when quic_tunnel returns, the stream only when     *)
(* both ends have dropped it, so a tunnel with a slot may wait in open_bi. *)
(*                                                                         *)
(* A direction of a stream is a queue of cells.  A frame is two cells, its *)
(* length and its body; a cell of the payload is numbered, so that a lost, *)
(* repeated or swallowed one shows.                                        *)
(***************************************************************************)
EXTENDS StreamSlots, Sequences

CONSTANTS
    MaxStreams, \* max_concurrent_bidi_streams of quic_transport_config
    Bytes       \* bound: payload cells a client or a backend sends on one tunnel

ASSUME QuicAssumption == MaxStreams \in Nat \ {0} /\ Bytes \in Nat

VARIABLES
    conn,       \* the sides that have not seen the end of the connection
    tun         \* the tunnel of each call of bridge

quic == <<conn, tun>>
allVars == <<vars, quic>>

Sides == {"server", "connector"}
Cell(kind, n) == <<kind, n>>
Frame(kind) == <<Cell("length", 0), Cell(kind, 0)>>
Payload(n) == [i \in 1..n |-> Cell("byte", i)]

\* A half of the stream before open_bi; `stop` is a STOP_SENDING of its reader.
NoHalf == [q |-> <<>>, end |-> "none", stop |-> FALSE]
\* The peer of a tunnel: what it sent, what it got, whether it has ended what it sends
\* ("eof" or, for a lost connection, "gone"), and how its own reading ended: an "eof" in
\* its place, or a connection that was "dropped".
NoPeer == [sent |-> 0, got |-> <<>>, end |-> "no", ended |-> "no"]

\* srv: where quic_tunnel is.  con: where splice_data_stream is.  up: the server's half
\* of the stream.  dn: the connector's.  client: the pipe of the edge proxy.  backend:
\* the connection of connect_backend.
Fresh == [srv |-> "idle", con |-> "none", up |-> NoHalf, dn |-> NoHalf,
          client |-> NoPeer, backend |-> NoPeer]

QuicTypeOK ==
    /\ conn \subseteq Sides
    /\ \A t \in Tunnels :
        /\ tun[t].srv \in {"idle", "open", "connect", "reply", "splice", "over"}
        /\ tun[t].con \in {"none", "header", "dial", "ok", "err", "splice", "over"}
        /\ \A half \in {tun[t].up, tun[t].dn} :
            half.end \in {"none", "open", "fin"} /\ half.stop \in BOOLEAN
        /\ \A peer \in {tun[t].client, tun[t].backend} :
            /\ peer.sent \in 0..Bytes /\ Len(peer.got) \in 0..Bytes
            /\ peer.end \in {"no", "eof", "gone"} /\ peer.ended \in {"no", "eof", "dropped"}

QuicInit ==
    /\ Init
    /\ conn = Sides
    /\ tun = [t \in Tunnels |-> Fresh]

-----------------------------------------------------------------------------
\* The ends of quinn's stream handles.

\* Write cells to a half: they are under way, or dropped when the reader has stopped.
Put(half, cells) == IF half.stop THEN half ELSE [half EXCEPT !.q = @ \o cells]

\* Mutant: a handle kept alive on the way out finishes nothing.
FinishedByNobody(side, half) == half

\* SendStream::finish, also what dropping a SendStream does; a closed connection sends
\* nothing any more.
Finished(side, half) ==
    IF side \in conn /\ half.end = "open" THEN [half EXCEPT !.end = "fin"] ELSE half

\* Dropping a RecvStream: STOP_SENDING, unless it was read to its end.
Stopped(side, half) ==
    IF side \in conn /\ (half.end = "open" \/ half.q # <<>>)
    THEN [half EXCEPT !.stop = TRUE, !.q = <<>>] ELSE half

\* A connection that is dropped shows an end, unless an orderly one came before.
Shown(peer) == IF peer.ended = "no" THEN [peer EXCEPT !.ended = "dropped"] ELSE peer

\* A tunnel whose two tasks are over, or that never had a stream, leaves nothing behind.
Settled(tunnel) ==
    IF tunnel.srv = "over" /\ (tunnel.con = "over" \/ tunnel.up.end = "none")
    THEN Fresh ELSE tunnel

\* The streams that count against max_concurrent_bidi_streams: opened, and not yet
\* dropped by both ends.
OpenStreams == {t \in Tunnels : tun[t].up.end # "none"}

-----------------------------------------------------------------------------
\* The server.

\* bridge on a QUIC link: a slot, and a task that runs quic_tunnel.
Bridge(t) ==
    /\ link = "quic"
    /\ tun[t].srv = "idle"
    /\ Reserve(t)
    /\ tun' = [tun EXCEPT ![t].srv = "open"]
    /\ UNCHANGED conn

\* connection.open_bi(): waits while the connector allows no further stream.
OpenBi(t) ==
    /\ tun[t].srv = "open"
    /\ "server" \in conn
    /\ Cardinality(OpenStreams) < MaxStreams
    /\ tun' = [tun EXCEPT ![t].srv = "connect", ![t].up.end = "open", ![t].dn.end = "open"]
    /\ UNCHANGED <<vars, conn>>

\* The Connect frame.
WriteConnect(t) ==
    /\ tun[t].srv = "connect"
    /\ "server" \in conn
    /\ tun' = [tun EXCEPT ![t].srv = "reply", ![t].up.q = Frame("Connect")]
    /\ UNCHANGED <<vars, conn>>

\* What quic_tunnel drops when it returns: both halves of its stream, and the pipe.
ServerDrops(tunnel) ==
    Settled([tunnel EXCEPT !.srv = "over", !.up = Finished("server", @),
                           !.dn = Stopped("server", @), !.client = Shown(@)])

\* quic_tunnel returns; the slot is freed next.
Return(t) ==
    /\ QuicTunnelEnds(t)
    /\ tun' = [tun EXCEPT ![t] = ServerDrops(@)]
    /\ UNCHANGED conn

\* Mutant: the reply is read through a buffer, and what came with it goes too.
ReadReplyBuffered(t) ==
    /\ tun[t].srv = "reply"
    /\ "server" \in conn
    /\ Len(tun[t].dn.q) >= 2 /\ tun[t].dn.q[2] = Cell("ConnectOk", 0)
    /\ tun' = [tun EXCEPT ![t].srv = "splice", ![t].dn.q = <<>>]
    /\ UNCHANGED <<vars, conn>>

\* read_frame takes the length and the body and leaves what follows to the splice.
ReadReply(t) ==
    /\ tun[t].srv = "reply"
    /\ "server" \in conn
    /\ Len(tun[t].dn.q) >= 2 /\ tun[t].dn.q[2] = Cell("ConnectOk", 0)
    /\ tun' = [tun EXCEPT ![t].srv = "splice", ![t].dn.q = SubSeq(@, 3, Len(@))]
    /\ UNCHANGED <<vars, conn>>

\* CONNECT_TIMEOUT over the whole exchange, or an error in it: no connection, a frame
\* too long, a ConnectErr, or a stream that ended without a reply.
GiveUp(t) ==
    /\ tun[t].srv \in {"open", "connect", "reply"}
    /\ Return(t)

\* The splice, client to stream.  A pipe whose other end is gone reads as an end.
Upload(t) ==
    /\ tun[t].srv = "splice"
    /\ "server" \in conn
    /\ tun[t].up.end = "open"
    /\ \/ /\ tun[t].client.end = "no" /\ tun[t].client.sent < Bytes
          /\ tun' = [tun EXCEPT ![t].client.sent = @ + 1,
                                ![t].up = Put(@, <<Cell("byte", tun[t].client.sent + 1)>>)]
       \/ /\ tun[t].client.end # "no"
          /\ tun' = [tun EXCEPT ![t].up.end = "fin"]
    /\ UNCHANGED <<vars, conn>>

\* The splice, stream to client: its cells, then its end.
Download(t) ==
    /\ tun[t].srv = "splice"
    /\ "server" \in conn
    /\ tun[t].client.ended = "no" /\ tun[t].client.end # "gone"
    /\ \/ /\ tun[t].dn.q # <<>>
          /\ tun' = [tun EXCEPT ![t].client.got = Append(@, Head(tun[t].dn.q)),
                                ![t].dn.q = Tail(@)]
       \/ /\ tun[t].dn.q = <<>> /\ tun[t].dn.end = "fin"
          /\ tun' = [tun EXCEPT ![t].client.ended = "eof"]
    /\ UNCHANGED <<vars, conn>>

\* copy_bidirectional returns: both directions are done, or one failed (the connection
\* is over, a write found that the connector had stopped reading, or the client's pipe
\* takes no more).
SpliceEnds(t) ==
    /\ tun[t].srv = "splice"
    /\ \/ tun[t].up.end = "fin" /\ tun[t].client.ended = "eof"
       \/ "server" \notin conn
       \/ /\ tun[t].up.end = "open" /\ tun[t].up.stop
          /\ tun[t].client.end = "no" /\ tun[t].client.sent < Bytes
       \/ /\ tun[t].client.end = "gone"
          /\ tun[t].dn.q # <<>> \/ tun[t].dn.end = "fin"
    /\ Return(t)

\* The edge proxy ends the request, or drops its end of the pipe; nothing looks at the
\* pipe before the splice.
ClientEnds(t) ==
    /\ tun[t].srv = "splice"
    /\ \E how \in {"eof", "gone"} :
        /\ tun[t].client.end \notin {"gone", how}
        /\ tun' = [tun EXCEPT ![t].client.end = how]
    /\ UNCHANGED <<vars, conn>>

-----------------------------------------------------------------------------
\* The connector.

\* accept_bi returns a stream once something of it has arrived.
Accept(t) ==
    /\ tun[t].con = "none"
    /\ "connector" \in conn
    /\ tun[t].up.q # <<>> \/ tun[t].up.end = "fin"
    /\ tun' = [tun EXCEPT ![t].con = "header"]
    /\ UNCHANGED <<vars, conn>>

ReadConnect(t) ==
    /\ tun[t].con = "header"
    /\ "connector" \in conn
    /\ Len(tun[t].up.q) >= 2
    /\ tun' = [tun EXCEPT ![t].con = "dial", ![t].up.q = SubSeq(@, 3, Len(@))]
    /\ UNCHANGED <<vars, conn>>

\* What the task of a stream drops when it returns: both halves of it, and the backend.
ConnectorDrops(tunnel) ==
    Settled([tunnel EXCEPT !.con = "over", !.dn = Finished("connector", @),
                           !.up = Stopped("connector", @), !.backend = Shown(@)])

TaskEnds(t) ==
    /\ tun' = [tun EXCEPT ![t] = ConnectorDrops(@)]
    /\ UNCHANGED <<vars, conn>>

\* CONNECT_HEADER_TIMEOUT, or a stream that ends before a Connect.
HeaderFails(t) ==
    /\ tun[t].con = "header"
    /\ TaskEnds(t)

\* connect_backend: connected, or refused, unreachable or timed out.
Dial(t) ==
    /\ tun[t].con = "dial"
    /\ \E reply \in {"ok", "err"} : tun' = [tun EXCEPT ![t].con = reply]
    /\ UNCHANGED <<vars, conn>>

\* The reply frame.  After a ConnectErr the stream is finished and the task returns.
WriteReply(t) ==
    /\ "connector" \in conn
    /\ \/ /\ tun[t].con = "ok"
          /\ tun' = [tun EXCEPT ![t].con = "splice", ![t].dn = Put(@, Frame("ConnectOk"))]
       \/ /\ tun[t].con = "err"
          /\ LET written == Put(tun[t].dn, Frame("ConnectErr")) IN
             tun' = [tun EXCEPT ![t] = ConnectorDrops([@ EXCEPT !.dn = written])]
    /\ UNCHANGED <<vars, conn>>

\* The reply cannot be written: the server gave up on the stream, or the connection is
\* over.
ReplyFails(t) ==
    /\ tun[t].con \in {"ok", "err"}
    /\ tun[t].dn.stop \/ "connector" \notin conn
    /\ TaskEnds(t)

\* The splice, stream to backend: its cells, then a half-close.
ToBackend(t) ==
    /\ tun[t].con = "splice"
    /\ "connector" \in conn
    /\ tun[t].backend.ended = "no"
    /\ \/ /\ tun[t].up.q # <<>>
          /\ tun' = [tun EXCEPT ![t].backend.got = Append(@, Head(tun[t].up.q)),
                                ![t].up.q = Tail(@)]
       \/ /\ tun[t].up.q = <<>> /\ tun[t].up.end = "fin"
          /\ tun' = [tun EXCEPT ![t].backend.ended = "eof"]
    /\ UNCHANGED <<vars, conn>>

\* The splice, backend to stream.
FromBackend(t) ==
    /\ tun[t].con = "splice"
    /\ "connector" \in conn
    /\ tun[t].dn.end = "open"
    /\ \/ /\ tun[t].backend.end = "no" /\ tun[t].backend.sent < Bytes
          /\ tun' = [tun EXCEPT ![t].backend.sent = @ + 1,
                                ![t].dn = Put(@, <<Cell("byte", tun[t].backend.sent + 1)>>)]
       \/ /\ tun[t].backend.end = "eof"
          /\ tun' = [tun EXCEPT ![t].dn.end = "fin"]
    /\ UNCHANGED <<vars, conn>>

\* copy_bidirectional returns on the connector.  A backend whose connection broke fails
\* the next read or write of it; a STOP_SENDING only shows in a write.
BackendSpliceEnds(t) ==
    /\ tun[t].con = "splice"
    /\ \/ tun[t].dn.end = "fin" /\ tun[t].backend.ended = "eof"
       \/ "connector" \notin conn
       \/ /\ tun[t].dn.end = "open" /\ tun[t].dn.stop
          /\ tun[t].backend.end = "no" /\ tun[t].backend.sent < Bytes
       \/ tun[t].backend.end = "gone"
    /\ TaskEnds(t)

BackendEnds(t) ==
    /\ tun[t].con = "splice"
    /\ tun[t].backend.end = "no"
    /\ \E how \in {"eof", "gone"} : tun' = [tun EXCEPT ![t].backend.end = how]
    /\ UNCHANGED <<vars, conn>>

-----------------------------------------------------------------------------
\* The connection.

\* shutdown() closes the connection first, then drains and zeroes (StreamSlots); it is
\* called for a kick and when the session ends.
CloseAndDrain ==
    /\ Drain
    /\ conn' = IF link = "quic" THEN conn \ {"server"} ELSE conn
    /\ UNCHANGED tun

\* A side loses the connection: the other closed it, or nothing came for
\* HEARTBEAT_READ_TIMEOUT_SECS.
LoseConnection(side) ==
    /\ link = "quic"
    /\ side \in conn
    /\ conn' = conn \ {side}
    /\ UNCHANGED <<vars, tun>>

\* The slots of a WSS session; the release of either kind.
SlotStep(t) ==
    /\ \/ link = "wss" /\ (Reserve(t) \/ MapStream(t) \/ RemoveStream(t))
       \/ Release(t)
    /\ UNCHANGED quic

ServerStep(t) ==
    \/ OpenBi(t) \/ WriteConnect(t) \/ ReadReply(t) \/ GiveUp(t)
    \/ Upload(t) \/ Download(t) \/ SpliceEnds(t)

ConnectorStep(t) ==
    \/ Accept(t) \/ ReadConnect(t) \/ HeaderFails(t) \/ Dial(t) \/ WriteReply(t)
    \/ ReplyFails(t) \/ ToBackend(t) \/ FromBackend(t) \/ BackendSpliceEnds(t)

QuicNext ==
    \/ \E t \in Tunnels :
        \/ Bridge(t) \/ ServerStep(t) \/ ConnectorStep(t) \/ SlotStep(t)
        \/ ClientEnds(t) \/ BackendEnds(t)
    \/ CloseAndDrain
    \/ ZeroCount /\ UNCHANGED quic
    \/ \E side \in Sides : LoseConnection(side)

QuicSpec == QuicInit /\ [][QuicNext]_allVars

\* Tasks are scheduled, timeouts fire, and a connection that one side has lost is lost to
\* the other within the idle timeout.  Of the outside: the edge proxy ends its request,
\* and a backend that was half-closed or dropped ends its response.
QuicFairSpec ==
    /\ QuicSpec
    /\ \A t \in Tunnels :
        /\ WF_allVars(ServerStep(t)) /\ WF_allVars(ConnectorStep(t))
        /\ WF_allVars(SlotStep(t) /\ Release(t))
        /\ WF_allVars(ClientEnds(t))
        /\ WF_allVars(tun[t].backend.ended # "no" /\ BackendEnds(t))
    /\ WF_allVars(conn # Sides /\ \E side \in Sides : LoseConnection(side))

-----------------------------------------------------------------------------
\* What a splice delivers is what was put in on the other side, from the first cell and
\* without a gap, and an orderly end comes after the last one: the reply frame takes none
\* of the payload behind it, and no half-close overtakes the request or the response.
SpliceExact ==
    \A t \in Tunnels :
        LET client == tun[t].client
            backend == tun[t].backend IN
        /\ client.got = Payload(Len(client.got)) /\ backend.got = Payload(Len(backend.got))
        /\ client.ended = "eof" => Len(client.got) = backend.sent
        /\ backend.ended = "eof" => Len(backend.got) = client.sent

\* The tunnel holds nothing: no slot, no task, no backend and, while there is a
\* connection, no stream.
Closed(t) ==
    /\ slot[t] = "none"
    /\ \/ tun[t] = Fresh
       \/ tun[t].srv = "over" /\ tun[t].con = "none" /\ "connector" \notin conn

\* Every bridged QUIC tunnel ends on both sides and gives back its slot and its stream,
\* whether its connect timed out, its answer was late, a side lost the connection or the
\* tunnel waited for a stream of its own.
TunnelsClose == \A t \in Tunnels : []<>(link = "quic" => Closed(t))

=============================================================================
