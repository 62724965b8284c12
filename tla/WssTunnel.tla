------------------------------ MODULE WssTunnel ------------------------------
(***************************************************************************)
(* One bridged connection over the WSS mux, from ConnectorManager::bridge  *)
(* to the end of its tasks on both sides:                                  *)
(*                                                                         *)
(*   srv   the tunnel task of the server, its entry in `streams` and       *)
(*         `pending`, and its two pumps                                    *)
(*         (crates/server/src/connector_manager.rs)                        *)
(*   con   the entry and the stream_handler task of the connector          *)
(*         (crates/connector/src/session_manager.rs)                       *)
(*   s2c, c2s   the messages of this stream under way in each direction    *)
(*                                                                         *)
(* and the sessions around it: the WebSocket loops of the server ending,   *)
(* ConnectorManager::shutdown called before or after that, and the session *)
(* of the connector ending.                                                *)
(*                                                                         *)
(* Payloads are one unit long (StreamFlow.tla has payloads of every size), *)
(* so a WindowUpdate always grants Threshold.  The branch of handle_message*)
(* that resets a peer past its window is left out: its guard is false in   *)
(* every state (PeersBehave, and HonestPeerNeverReset in ProtoProofs).     *)
(* So are the two branches of stream_handler for a message that arrives    *)
(* before the backend is connected (PeersBehave).                          *)
(***************************************************************************)
EXTENDS Integers, Sequences

CONSTANTS
    Window,     \* STREAM_RECV_WINDOW, in payloads
    Threshold,  \* WINDOW_UPDATE_THRESHOLD, in payloads
    Capacity,   \* CONNECTOR_CHANNEL_CAPACITY
    Uploads,    \* payloads the client sends at most
    Downloads,  \* payloads the backend sends at most
    Kicks       \* an admin or a replacing session may call shutdown() (unregister, register)

ASSUME WindowAssumption ==
    /\ Window \in Nat \ {0} /\ Threshold \in 1..Window /\ Capacity \in Nat \ {0}
ASSUME LoadAssumption == Uploads \in Nat /\ Downloads \in Nat /\ Kicks \in BOOLEAN

VARIABLES
    srv,    \* the server's side of the stream
    con,    \* the connector's side of the stream
    s2c,    \* messages to the connector
    c2s,    \* messages to the server
    link,   \* "up" | "down": the server's WebSocket loops, and with them `tx`
    drain,  \* ConnectorManager::shutdown: "no" | "pending" (drained) | "done"
    peer,   \* "up" | "down": the connector's session
    clean   \* no write to or read from the client failed, no timeout, both sessions up

vars == <<srv, con, s2c, c2s, link, drain, peer, clean>>

ToConnector == {"Connect", "Data", "WindowUpdate", "Close", "Reset"}
ToServer == {"ConnectOk", "ConnectErr", "Data", "WindowUpdate", "Close"}

TypeOK ==
    /\ srv \in [tunnel   : {"reserved", "registering", "connecting", "waiting", "open",
                            "abandon", "done"},
                inMap    : BOOLEAN,                            \* streams has the id
                answer   : {"none", "pending", "ok", "err"},   \* pending / the oneshot
                upload   : {"off", "read", "have", "paid", "eof", "abort", "done"},
                download : {"off", "recv", "update", "reset", "done"},
                credit   : 0..Window,
                queue    : 0..Window,                          \* to_socket
                drained  : 0..(Threshold - 1),
                taken    : 0..Uploads,                         \* read from the client
                got      : 0..Downloads]                       \* written to the client
    /\ con \in [entry    : BOOLEAN,                            \* streams has the id
                request  : BOOLEAN,                            \* request_tx is Some
                task     : {"none", "dialing", "refused", "accepted", "pump", "done",
                            "aborted"},
                upload   : {"off", "recv", "update", "eof", "failed"},
                download : {"off", "read", "have", "paid", "close"},
                credit   : 0..Window,
                queue    : 0..Window,                          \* request_rx
                drained  : 0..(Threshold - 1),
                taken    : 0..Downloads,                       \* read from the backend
                got      : 0..Uploads]                         \* written to the backend
    /\ s2c \in Seq(ToConnector) /\ c2s \in Seq(ToServer)
    /\ link \in {"up", "down"} /\ peer \in {"up", "down"}
    /\ drain \in {"no", "pending", "done"}
    /\ clean \in BOOLEAN

\* bridge: the slot is reserved and the tunnel task spawned.
Init ==
    /\ srv = [tunnel |-> "reserved", inMap |-> FALSE, answer |-> "none",
              upload |-> "off", download |-> "off", credit |-> Window,
              queue |-> 0, drained |-> 0, taken |-> 0, got |-> 0]
    /\ con = [entry |-> FALSE, request |-> FALSE, task |-> "none",
              upload |-> "off", download |-> "off", credit |-> Window,
              queue |-> 0, drained |-> 0, taken |-> 0, got |-> 0]
    /\ s2c = <<>> /\ c2s = <<>>
    /\ link = "up" /\ drain = "no" /\ peer = "up"
    /\ clean = TRUE

-----------------------------------------------------------------------------
\* tx.send(m).await on the server: waits for room; fails once the loops have ended.
Send(m) == link = "up" /\ Len(s2c) < Capacity /\ s2c' = Append(s2c, m)
SendFails == link = "down" /\ UNCHANGED s2c
\* A send whose result is ignored.
TrySend(m) == Send(m) \/ SendFails

\* outbound.send(m).await on the connector.
Reply(m) == peer = "up" /\ Len(c2s) < Capacity /\ c2s' = Append(c2s, m)

\* remove_stream: closes the credit, drops to_socket, fails a pending connect; nothing
\* when the entry is gone.  The credit is closed exactly when the entry is gone.
RemoveStream(s) ==
    IF s.inMap
      THEN [s EXCEPT !.inMap = FALSE, !.answer = IF @ = "pending" THEN "err" ELSE @]
      ELSE s

Capped(n) == IF n > Window THEN Window ELSE n

-----------------------------------------------------------------------------
(* The tunnel task of the server, wss_tunnel.                              *)

RegisterPending ==
    /\ srv.tunnel = "reserved"
    /\ srv' = [srv EXCEPT !.tunnel = "registering", !.answer = "pending"]
    /\ UNCHANGED <<con, s2c, c2s, link, drain, peer, clean>>

RegisterStream ==
    /\ srv.tunnel = "registering"
    /\ srv' = [srv EXCEPT !.tunnel = "connecting", !.inMap = TRUE]
    /\ UNCHANGED <<con, s2c, c2s, link, drain, peer, clean>>

\* Mutant: the pumps start without waiting for ConnectOk.
SendConnectEager ==
    /\ srv.tunnel = "connecting"
    /\ Send("Connect")
    /\ srv' = [srv EXCEPT !.tunnel = "open", !.upload = "read", !.download = "recv"]
    /\ UNCHANGED <<con, c2s, link, drain, peer, clean>>

SendConnect ==
    /\ srv.tunnel = "connecting"
    /\ Send("Connect")
    /\ srv' = [srv EXCEPT !.tunnel = "waiting"]
    /\ UNCHANGED <<con, c2s, link, drain, peer, clean>>

\* The session is over, or the channel stayed full for five seconds.
ConnectNotSent ==
    /\ srv.tunnel = "connecting"
    /\ link = "down" \/ Len(s2c) = Capacity
    /\ srv' = [RemoveStream(srv) EXCEPT !.tunnel = "done"]
    /\ clean' = FALSE
    /\ UNCHANGED <<con, s2c, c2s, link, drain, peer>>

ConnectSucceeded ==
    /\ srv.tunnel = "waiting"
    /\ srv.answer = "ok"
    /\ srv' = [srv EXCEPT !.tunnel = "open", !.upload = "read", !.download = "recv"]
    /\ UNCHANGED <<con, s2c, c2s, link, drain, peer, clean>>

ConnectFailed ==
    /\ srv.tunnel = "waiting"
    /\ srv.answer = "err"
    /\ srv' = [RemoveStream(srv) EXCEPT !.tunnel = "abandon"]
    /\ UNCHANGED <<con, s2c, c2s, link, drain, peer, clean>>

\* CONNECT_TIMEOUT fires with the oneshot unanswered; the late answer is dropped.
ConnectTimeout ==
    /\ srv.tunnel = "waiting"
    /\ srv.answer = "pending"
    /\ srv' = [RemoveStream(srv) EXCEPT !.tunnel = "abandon"]
    /\ clean' = FALSE
    /\ UNCHANGED <<con, s2c, c2s, link, drain, peer>>

\* Mutant: a connect given up is not reset.
AbandonSilently ==
    /\ srv.tunnel = "abandon"
    /\ srv' = [srv EXCEPT !.tunnel = "done"]
    /\ UNCHANGED <<con, s2c, c2s, link, drain, peer, clean>>

SendAbandonReset ==
    /\ srv.tunnel = "abandon"
    /\ TrySend("Reset")
    /\ srv' = [srv EXCEPT !.tunnel = "done"]
    /\ UNCHANGED <<con, c2s, link, drain, peer, clean>>

\* The stream ends with the download: the upload is dropped and the entry removed.
FinishTunnel ==
    /\ srv.tunnel = "open"
    /\ srv.download = "done"
    /\ srv' = [RemoveStream(srv) EXCEPT !.tunnel = "done", !.upload = "done"]
    /\ UNCHANGED <<con, s2c, c2s, link, drain, peer, clean>>

-----------------------------------------------------------------------------
(* The upload pump of the server.                                          *)

UploadRead ==
    /\ srv.tunnel = "open" /\ srv.upload = "read"
    /\ \/ /\ srv.taken < Uploads
          /\ srv' = [srv EXCEPT !.upload = "have", !.taken = @ + 1]
          /\ UNCHANGED clean
       \/ srv' = [srv EXCEPT !.upload = "eof"] /\ UNCHANGED clean
       \/ srv' = [srv EXCEPT !.upload = "abort"] /\ clean' = FALSE
    /\ UNCHANGED <<con, s2c, c2s, link, drain, peer>>

\* send_credit.acquire, as CreditGate has it: closed means the entry is gone.
UploadAcquire ==
    /\ srv.tunnel = "open" /\ srv.upload = "have"
    /\ \/ /\ srv.credit >= 1
          /\ srv' = [srv EXCEPT !.upload = "paid", !.credit = @ - 1]
       \/ /\ ~srv.inMap
          /\ srv' = [srv EXCEPT !.upload = "done"]
    /\ UNCHANGED <<con, s2c, c2s, link, drain, peer, clean>>

UploadSend ==
    /\ srv.tunnel = "open" /\ srv.upload = "paid"
    /\ \/ Send("Data") /\ srv' = [srv EXCEPT !.upload = "read"]
       \/ SendFails /\ srv' = [srv EXCEPT !.upload = "done"]
    /\ UNCHANGED <<con, c2s, link, drain, peer, clean>>

UploadEof ==
    /\ srv.tunnel = "open" /\ srv.upload = "eof"
    /\ TrySend("Close")
    /\ srv' = [srv EXCEPT !.upload = "done"]
    /\ UNCHANGED <<con, c2s, link, drain, peer, clean>>

UploadAbort ==
    /\ srv.tunnel = "open" /\ srv.upload = "abort"
    /\ TrySend("Reset")
    /\ srv' = [RemoveStream(srv) EXCEPT !.upload = "done"]
    /\ UNCHANGED <<con, c2s, link, drain, peer, clean>>

-----------------------------------------------------------------------------
(* The download pump of the server.                                        *)

DownloadWrite ==
    /\ srv.tunnel = "open" /\ srv.download = "recv" /\ srv.queue > 0
    /\ \/ /\ srv' = IF srv.drained + 1 >= Threshold
                      THEN [srv EXCEPT !.queue = @ - 1, !.got = @ + 1,
                                       !.drained = 0, !.download = "update"]
                      ELSE [srv EXCEPT !.queue = @ - 1, !.got = @ + 1, !.drained = @ + 1]
          /\ UNCHANGED clean
       \/ srv' = [srv EXCEPT !.download = "reset"] /\ clean' = FALSE
    /\ UNCHANGED <<con, s2c, c2s, link, drain, peer>>

DownloadUpdate ==
    /\ srv.tunnel = "open" /\ srv.download = "update"
    /\ \/ Send("WindowUpdate") /\ srv' = [srv EXCEPT !.download = "recv"]
       \/ SendFails /\ srv' = [srv EXCEPT !.download = "done"]
    /\ UNCHANGED <<con, c2s, link, drain, peer, clean>>

\* Mutant: the download ends with the entry, whatever is still queued.
DownloadEndAtOnce ==
    /\ srv.tunnel = "open" /\ srv.download = "recv"
    /\ ~srv.inMap
    /\ srv' = [srv EXCEPT !.download = "done"]
    /\ UNCHANGED <<con, s2c, c2s, link, drain, peer, clean>>

\* recv() returns None: to_socket was dropped with the entry and the queue is empty.
DownloadEnd ==
    /\ srv.tunnel = "open" /\ srv.download = "recv"
    /\ srv.queue = 0 /\ ~srv.inMap
    /\ srv' = [srv EXCEPT !.download = "done"]
    /\ UNCHANGED <<con, s2c, c2s, link, drain, peer, clean>>

DownloadReset ==
    /\ srv.tunnel = "open" /\ srv.download = "reset"
    /\ TrySend("Reset")
    /\ srv' = [srv EXCEPT !.download = "done"]
    /\ UNCHANGED <<con, c2s, link, drain, peer, clean>>

-----------------------------------------------------------------------------
(* ConnectorManager::handle_message, called by the server's read loop.     *)

OnServerMessage(s, m) ==
    CASE m = "ConnectOk"    -> [s EXCEPT !.answer = IF @ = "pending" THEN "ok" ELSE @]
      [] m = "ConnectErr"   -> [s EXCEPT !.answer = IF @ = "pending" THEN "err" ELSE @]
      [] m = "Data"         -> IF s.inMap THEN [s EXCEPT !.queue = @ + 1] ELSE s
      [] m = "WindowUpdate" -> IF s.inMap THEN [s EXCEPT !.credit = Capped(@ + Threshold)]
                                          ELSE s
      [] m = "Close"        -> RemoveStream(s)

ServerReceive ==
    /\ link = "up" /\ c2s # <<>>
    /\ srv' = OnServerMessage(srv, Head(c2s))
    /\ c2s' = Tail(c2s)
    /\ UNCHANGED <<con, s2c, link, drain, peer, clean>>

-----------------------------------------------------------------------------
(* SessionManager::handle_message and handle_connect.                      *)

\* Dropping the StreamState aborts the task, which closes the backend.  (The reply of
\* the overload path is a task of its own and has no entry.)
Dropped(c) ==
    IF c.entry
      THEN [c EXCEPT !.entry = FALSE, !.request = FALSE,
                     !.task = IF @ = "done" THEN "done" ELSE "aborted"]
      ELSE c

OnConnectorMessage(c, m) ==
    CASE m = "Data" /\ c.entry /\ c.request ->
             IF c.task = "done" THEN Dropped(c) ELSE [c EXCEPT !.queue = @ + 1]
      [] m = "Close" /\ c.entry        -> [c EXCEPT !.request = FALSE]
      [] m = "Reset"                   -> Dropped(c)
      [] m = "WindowUpdate" /\ c.entry -> [c EXCEPT !.credit = Capped(@ + Threshold)]
      [] OTHER                         -> c

ConnectorReceive ==
    /\ peer = "up" /\ s2c # <<>> /\ Head(s2c) # "Connect"
    /\ con' = OnConnectorMessage(con, Head(s2c))
    /\ s2c' = Tail(s2c)
    /\ UNCHANGED <<srv, c2s, link, drain, peer, clean>>

\* handle_connect: dial, or refuse when the other streams of the session fill the cap.
ConnectorConnect ==
    /\ peer = "up" /\ s2c # <<>> /\ Head(s2c) = "Connect"
    /\ \/ con' = [con EXCEPT !.entry = TRUE, !.request = TRUE, !.task = "dialing"]
       \/ con' = [con EXCEPT !.task = "refused"]
    /\ s2c' = Tail(s2c)
    /\ UNCHANGED <<srv, c2s, link, drain, peer, clean>>

-----------------------------------------------------------------------------
(* stream_handler: the connect phase, then the two pumps.                  *)

Dial ==
    /\ con.task = "dialing"
    /\ con' \in {[con EXCEPT !.task = "accepted"], [con EXCEPT !.task = "refused"]}
    /\ UNCHANGED <<srv, s2c, c2s, link, drain, peer, clean>>

ReplyConnectErr ==
    /\ con.task = "refused"
    /\ Reply("ConnectErr") \/ (peer = "down" /\ UNCHANGED c2s)
    /\ con' = [con EXCEPT !.task = "done"]
    /\ UNCHANGED <<srv, s2c, link, drain, peer, clean>>

ReplyConnectOk ==
    /\ con.task = "accepted"
    /\ Reply("ConnectOk")
    /\ con' = [con EXCEPT !.task = "pump", !.upload = "recv", !.download = "read"]
    /\ UNCHANGED <<srv, s2c, link, drain, peer, clean>>

\* The backend sends, or it closes or fails, which ends the download.
BackendRead ==
    /\ con.task = "pump" /\ con.download = "read"
    /\ \/ /\ con.taken < Downloads
          /\ con' = [con EXCEPT !.download = "have", !.taken = @ + 1]
       \/ con' = [con EXCEPT !.download = "close"]
    /\ UNCHANGED <<srv, s2c, c2s, link, drain, peer, clean>>

BackendAcquire ==
    /\ con.task = "pump" /\ con.download = "have"
    /\ con.credit >= 1
    /\ con' = [con EXCEPT !.download = "paid", !.credit = @ - 1]
    /\ UNCHANGED <<srv, s2c, c2s, link, drain, peer, clean>>

BackendSend ==
    /\ con.task = "pump" /\ con.download = "paid"
    /\ Reply("Data")
    /\ con' = [con EXCEPT !.download = "read"]
    /\ UNCHANGED <<srv, s2c, link, drain, peer, clean>>

\* The response ends the stream: Close is sent and the upload is dropped with the task.
BackendClose ==
    /\ con.task = "pump" /\ con.download = "close"
    /\ Reply("Close")
    /\ con' = [con EXCEPT !.task = "done"]
    /\ UNCHANGED <<srv, s2c, link, drain, peer, clean>>

BackendWrite ==
    /\ con.task = "pump" /\ con.upload = "recv" /\ con.queue > 0
    /\ \/ con' = IF con.drained + 1 >= Threshold
                   THEN [con EXCEPT !.queue = @ - 1, !.got = @ + 1,
                                    !.drained = 0, !.upload = "update"]
                   ELSE [con EXCEPT !.queue = @ - 1, !.got = @ + 1, !.drained = @ + 1]
       \/ con' = [con EXCEPT !.upload = "failed"]
    /\ UNCHANGED <<srv, s2c, c2s, link, drain, peer, clean>>

BackendUpdate ==
    /\ con.task = "pump" /\ con.upload = "update"
    /\ Reply("WindowUpdate")
    /\ con' = [con EXCEPT !.upload = "recv"]
    /\ UNCHANGED <<srv, s2c, link, drain, peer, clean>>

\* request_rx ends: half-close the backend so that it can finish its response.
BackendHalfClose ==
    /\ con.task = "pump" /\ con.upload = "recv"
    /\ con.queue = 0 /\ ~con.request
    /\ con' = [con EXCEPT !.upload = "eof"]
    /\ UNCHANGED <<srv, s2c, c2s, link, drain, peer, clean>>

-----------------------------------------------------------------------------
(* The sessions.                                                           *)

\* shutdown(): first the pending connects are failed ...
DrainPending ==
    /\ drain' = "pending"
    /\ srv' = [srv EXCEPT !.answer = IF @ = "pending" THEN "err" ELSE @]

\* ... called by unregister or register on another thread while the loops run,
Kick ==
    /\ Kicks /\ link = "up" /\ drain = "no"
    /\ DrainPending
    /\ clean' = FALSE
    /\ UNCHANGED <<con, s2c, c2s, link, peer>>

\* ... or by unregister_manager once they have ended, unless the manager is already
\* out of the registry.
UnregisterManager ==
    /\ link = "down" /\ drain = "no"
    /\ DrainPending
    /\ UNCHANGED <<con, s2c, c2s, link, peer, clean>>

\* Mutant: shutdown fails the pending connects and leaves the open streams.
DrainNoStreams ==
    /\ drain = "pending"
    /\ drain' = "done"
    /\ UNCHANGED <<srv, con, s2c, c2s, link, peer, clean>>

\* ... then the streams are drained, each with its credit closed.
DrainStreams ==
    /\ drain = "pending"
    /\ drain' = "done"
    /\ srv' = [srv EXCEPT !.inMap = FALSE]
    /\ UNCHANGED <<con, s2c, c2s, link, peer, clean>>

\* run_session's loops end: the socket failed, the peer was silent, or the writer saw
\* the shutdown notification.  `tx` fails from here on.
EndLoops ==
    /\ link = "up"
    /\ link' = "down"
    /\ clean' = FALSE
    /\ UNCHANGED <<srv, con, s2c, c2s, drain, peer>>

\* The connector's session ends: its SessionManager is dropped, and every task with it.
EndPeer ==
    /\ peer = "up"
    /\ peer' = "down"
    /\ con' = Dropped(con)
    /\ clean' = FALSE
    /\ UNCHANGED <<srv, s2c, c2s, link, drain>>

-----------------------------------------------------------------------------
Tunnel ==
    \/ RegisterPending \/ RegisterStream \/ SendConnect \/ ConnectNotSent
    \/ ConnectSucceeded \/ ConnectFailed \/ ConnectTimeout \/ SendAbandonReset
    \/ FinishTunnel
Upload == UploadRead \/ UploadAcquire \/ UploadSend \/ UploadEof \/ UploadAbort
Download == DownloadWrite \/ DownloadUpdate \/ DownloadEnd \/ DownloadReset
Handler == Dial \/ ReplyConnectErr \/ ReplyConnectOk
BackendDownload == BackendRead \/ BackendAcquire \/ BackendSend \/ BackendClose
BackendUpload == BackendWrite \/ BackendUpdate \/ BackendHalfClose
Sessions == Kick \/ UnregisterManager \/ DrainStreams \/ EndLoops \/ EndPeer

\* Both tasks are over; what is left in the channels is for nobody.
Over ==
    /\ srv.tunnel = "done" /\ con.task \in {"none", "done", "aborted"}
    /\ UNCHANGED vars

Next ==
    \/ Tunnel \/ Upload \/ Download \/ ServerReceive
    \/ ConnectorReceive \/ ConnectorConnect \/ Handler \/ BackendDownload \/ BackendUpload
    \/ Sessions \/ Over

Spec == Init /\ [][Next]_vars

\* Tasks are polled, the read loops read, a shutdown runs to its end, the writer loop
\* ends a session that was shut down, and each end of a WebSocket notices the end of
\* the other (HEARTBEAT_READ_TIMEOUT).  Nothing is assumed of the client and of the
\* backend, except that a write to them returns.
Fairness ==
    /\ WF_vars(Tunnel) /\ WF_vars(ServerReceive)
    /\ WF_vars(UploadAcquire \/ UploadSend \/ UploadEof \/ UploadAbort)
    /\ WF_vars(Download)
    /\ WF_vars(ConnectorReceive \/ ConnectorConnect) /\ WF_vars(Handler)
    /\ WF_vars(BackendAcquire \/ BackendSend \/ BackendClose)
    /\ WF_vars(BackendUpload)
    /\ WF_vars(UnregisterManager) /\ WF_vars(DrainStreams)
    /\ WF_vars((drain # "no" \/ peer = "down") /\ EndLoops)
    /\ WF_vars(link = "down" /\ EndPeer)

FairSpec == Spec /\ Fairness

-----------------------------------------------------------------------------
\* Neither direction is cut short.  When the tunnel ended and nothing failed on the way,
\* everything read from the backend has been written to the client, although the
\* connector's Close removes the entry while payloads are still queued
\* (connector_manager.rs:320-323).  And the backend is half-closed only after the whole
\* request: Close follows the last payload through acquire, the channel and the queue
\* (session_manager.rs:69-74, 214-215).
NoTruncation ==
    /\ clean /\ srv.tunnel = "done" /\ srv.answer = "ok" => srv.got = con.taken
    /\ con.upload = "eof" => con.got = srv.taken

\* The peers keep the protocol: neither side has more than a window queued, so none is
\* reset for it, and nothing but Reset reaches a stream whose backend is still being
\* dialled, so stream_handler's branches for early data and for an early Close
\* (session_manager.rs:137-149) are not taken by this server.
PeersBehave ==
    /\ srv.queue <= Window /\ con.queue <= Window
    /\ con.task = "dialing" => con.request /\ con.queue = 0

\* While both sessions last, the connector never keeps a backend for a tunnel the
\* server has given up: once the server's messages are read, the backend is closed or
\* being refused.  This is what the Reset after a failed or late connect is for
\* (connector_manager.rs:196-202).
NoOrphanBackend ==
    (srv.tunnel = "done" /\ s2c = <<>> /\ link = "up" /\ drain = "no")
        => con.task \notin {"dialing", "accepted", "pump"}

\* A response that ended, and a session that ended, end the tunnel task: no upload stays
\* parked on acquire and no download on its queue, if shutdown had not already begun.  (A
\* tunnel that shutdown has missed is UploadNeverLeaks.)
TunnelEnds ==
    ((con.task = "done" \/ link = "down") /\ drain = "no") ~> (srv.tunnel = "done")

\* The credit is "Closed on teardown so the upload never leaks"
\* (connector_manager.rs:37-38, and again at 90): an upload parked on acquire when the
\* session is over goes on.  A tunnel that registers its stream after a kick has
\* drained the map, and is connected before the loops end, is not torn down by anyone:
\* unregister_manager finds the manager gone from the registry and does nothing.
UploadNeverLeaks ==
    (link = "down" /\ srv.upload = "have") ~> (srv.upload # "have")
=============================================================================
