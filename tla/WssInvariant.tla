---------------------------- MODULE WssInvariant ----------------------------
(***************************************************************************)
(* The inductive invariant of WssTunnel, and the branches of its actions   *)
(* that the proof takes one by one.                                        *)
(*                                                                         *)
(* The three safety properties say nothing of the messages under way.  The *)
(* invariant counts them: in each direction the sender's credit, what it   *)
(* has paid for, the Data under way, the receiver's queue and the grants   *)
(* on their way back never exceed one window (UpSum, DownSum), and as long *)
(* as nobody has failed the payloads taken are those in hand, under way,   *)
(* queued and written (UploadWhole, DownloadWhole).  ServerPhases and      *)
(* ConnectorPhases order the two ends: what one end has sent tells where   *)
(* the other is.  ResetDue is what keeps a backend from being orphaned: a  *)
(* stream given up by the server has its Reset on the way or is over.      *)
(***************************************************************************)
EXTENDS WssTunnel, FiniteSets

\* How often m is under way.
In(q, m) == Cardinality({i \in 1 .. Len(q) : q[i] = m})

One(b) == IF b THEN 1 ELSE 0

\* No Data comes after a Close.
CloseLast(q) == \A i, j \in 1 .. Len(q) : i < j /\ q[i] = "Close" => q[j] # "Data"

Srv == [tunnel   : {"reserved", "registering", "connecting", "waiting", "open", "abandon",
                    "done"},
        inMap    : BOOLEAN,
        answer   : {"none", "pending", "ok", "err"},
        upload   : {"off", "read", "have", "paid", "eof", "abort", "done"},
        download : {"off", "recv", "update", "reset", "done"},
        credit : Nat, queue : Nat, drained : Nat, taken : Nat, got : Nat]

Con == [entry    : BOOLEAN,
        request  : BOOLEAN,
        task     : {"none", "dialing", "refused", "accepted", "pump", "done", "aborted"},
        upload   : {"off", "recv", "update", "eof", "failed"},
        download : {"off", "read", "have", "paid", "close"},
        credit : Nat, queue : Nat, drained : Nat, taken : Nat, got : Nat]

WssTypeOK ==
    /\ srv \in Srv /\ con \in Con
    /\ s2c \in Seq(ToConnector) /\ c2s \in Seq(ToServer)
    /\ link \in {"up", "down"} /\ peer \in {"up", "down"}
    /\ drain \in {"no", "pending", "done"}
    /\ clean \in BOOLEAN

\* The window of the upload: what is paid for, under way, queued, written since the
\* last grant, and what the WindowUpdates that are due or under way grant back ...
UpGrants == Threshold * (One(con.upload = "update") + In(c2s, "WindowUpdate"))
UpSum == srv.credit + One(srv.upload = "paid") + In(s2c, "Data") + con.queue + con.drained
           + UpGrants

\* ... and the window of the download.
DownGrants == Threshold * (One(srv.download = "update") + In(s2c, "WindowUpdate"))
DownSum == con.credit + One(con.download = "paid") + In(c2s, "Data") + srv.queue + srv.drained
             + DownGrants

\* The server has begun to use the stream.
StreamUsed ==
    \/ In(s2c, "Data") > 0 \/ In(s2c, "WindowUpdate") > 0 \/ In(s2c, "Close") > 0
    \/ srv.tunnel = "open" \/ srv.upload # "off" \/ srv.download # "off"

\* The server's side before the stream is open.
ServerPhases ==
    /\ srv.tunnel \in {"reserved", "registering", "connecting"} =>
         s2c = <<>> /\ con.task = "none"
    /\ srv.tunnel \in {"reserved", "registering", "connecting", "waiting", "abandon"} =>
         srv.upload = "off" /\ srv.download = "off"
    /\ srv.answer = "none" => srv.tunnel = "reserved"
    /\ StreamUsed => srv.answer = "ok"

\* The connector's side: Connect is the first message and comes once, and nothing is
\* sent back before the backend has answered.
ConnectorPhases ==
    /\ con.task = "none" =>
         /\ ~con.entry /\ ~con.request
         /\ con.queue = 0 /\ con.got = 0
         /\ s2c # <<>> => Head(s2c) = "Connect"
         /\ srv.tunnel \in {"waiting", "open", "abandon"} => s2c # <<>>
    /\ In(s2c, "Connect") <= 1
    /\ In(s2c, "Connect") > 0 => con.task = "none"
    /\ con.task \in {"none", "dialing", "accepted", "refused"} =>
         c2s = <<>> /\ con.upload = "off" /\ con.download = "off"
    /\ con.task \in {"dialing", "accepted", "pump"} => con.entry
    /\ con.task \in {"dialing", "accepted"} => con.request /\ con.queue = 0
    /\ srv.answer = "ok" \/ In(c2s, "ConnectOk") > 0 => con.task \in {"pump", "done", "aborted"}
    /\ In(c2s, "ConnectOk") > 0 => Head(c2s) = "ConnectOk" /\ In(c2s, "ConnectOk") <= 1
    /\ con.download = "off" => In(c2s, "Data") = 0
    /\ In(c2s, "Close") > 0 => con.task = "done" /\ con.download = "close"
    /\ In(c2s, "ConnectErr") > 0 =>
         con.task = "done" /\ con.download = "off" /\ In(c2s, "ConnectOk") = 0
    /\ CloseLast(c2s)

\* The request has ended for the connector: Close has come.
RequestOver == con.task = "pump" /\ ~con.request

\* Nothing of the request has been given up.
UploadKept ==
    /\ con.task \in {"none", "dialing", "accepted", "pump"}
    /\ \/ srv.upload \in {"off", "read", "have", "paid", "eof"}
       \/ In(s2c, "Close") > 0 \/ RequestOver

\* What is read from the client is on its way to the backend, as long as the stream
\* lives and the upload has not been given up; Close comes after all of it.
UploadWhole ==
    /\ UploadKept => srv.taken = One(srv.upload \in {"have", "paid"}) + In(s2c, "Data")
                                   + con.queue + con.got
    /\ In(s2c, "Close") > 0 \/ RequestOver => srv.upload = "done"
    /\ RequestOver => In(s2c, "Data") = 0
    /\ con.upload = "eof" => srv.upload = "done" /\ con.got = srv.taken
    /\ CloseLast(s2c)

\* What is read from the backend is on its way to the client, as long as nothing fails.
DownloadWhole ==
    clean =>
      /\ link = "up" /\ peer = "up" /\ drain = "no"
      /\ srv.upload # "abort" /\ srv.download # "reset"
      /\ con.taken = One(con.download \in {"have", "paid"}) + In(c2s, "Data")
                       + srv.queue + srv.got
      /\ srv.answer = "pending" =>
           srv.tunnel = "registering" \/ (srv.inMap /\ srv.tunnel \in {"connecting", "waiting"})
      /\ con.download # "off" => srv.answer = "ok" \/ In(c2s, "ConnectOk") > 0
      /\ srv.answer = "err" => con.download = "off" /\ con.task = "done"
      /\ srv.tunnel = "abandon" => srv.answer = "err"
      /\ srv.tunnel = "done" => srv.answer = "err" \/ srv.download = "done"
      /\ srv.download = "done" => ~srv.inMap /\ srv.queue = 0
      /\ srv.answer = "ok" /\ ~srv.inMap =>
           con.task = "done" /\ con.download = "close" /\ In(c2s, "Data") = 0

\* The server has given the stream up, or lost its entry.
GivenUp ==
    \/ srv.tunnel = "done" \/ srv.download = "done"
    \/ srv.tunnel \in {"waiting", "open"} /\ ~srv.inMap

\* A stream given up is reset: the Reset is under way unless the backend is gone.
ResetDue ==
    link = "up" /\ drain = "no" =>
      /\ srv.tunnel = "connecting" => srv.inMap
      /\ GivenUp => \/ In(s2c, "Reset") > 0 \/ con.task \in {"done", "aborted", "refused"}
                    \/ con.task = "none" /\ s2c = <<>>

WssInv ==
    /\ WssTypeOK /\ UpSum <= Window /\ DownSum <= Window
    /\ ServerPhases /\ ConnectorPhases /\ UploadWhole /\ DownloadWhole
    /\ ResetDue

-----------------------------------------------------------------------------
\* The branches of the actions.

\* A payload of the client.
ReadPayload ==
    /\ srv.tunnel = "open" /\ srv.upload = "read"
    /\ srv' = [srv EXCEPT !.upload = "have", !.taken = @ + 1] /\ con' = con /\ s2c' = s2c
    /\ c2s' = c2s /\ link' = link /\ drain' = drain /\ peer' = peer /\ clean' = clean

\* The client has ended its request.
ReadEof ==
    /\ srv.tunnel = "open" /\ srv.upload = "read" /\ srv' = [srv EXCEPT !.upload = "eof"]
    /\ con' = con /\ s2c' = s2c /\ c2s' = c2s /\ link' = link /\ drain' = drain
    /\ peer' = peer /\ clean' = clean

\* The client has failed.
ReadAbort ==
    /\ srv.tunnel = "open" /\ srv.upload = "read" /\ srv' = [srv EXCEPT !.upload = "abort"]
    /\ clean' = FALSE /\ con' = con /\ s2c' = s2c /\ c2s' = c2s /\ link' = link
    /\ drain' = drain /\ peer' = peer

\* acquire takes a unit of credit.
UploadPays ==
    /\ srv.tunnel = "open" /\ srv.upload = "have" /\ srv.credit >= 1
    /\ srv' = [srv EXCEPT !.upload = "paid", !.credit = @ - 1] /\ con' = con /\ s2c' = s2c
    /\ c2s' = c2s /\ link' = link /\ drain' = drain /\ peer' = peer /\ clean' = clean

\* The credit is closed or the session gone: the upload ends without a Close.
UploadStops ==
    /\ srv.tunnel = "open" /\ srv.upload \in {"have", "paid", "eof"}
    /\ srv' = [srv EXCEPT !.upload = "done"] /\ con' = con /\ s2c' = s2c /\ c2s' = c2s
    /\ link' = link /\ drain' = drain /\ peer' = peer /\ clean' = clean

\* A payload is written to the client.
WritePayload ==
    /\ srv.tunnel = "open" /\ srv.download = "recv" /\ srv.queue > 0
    /\ srv' = [srv EXCEPT !.queue = @ - 1, !.got = @ + 1, !.drained = @ + 1] /\ con' = con
    /\ s2c' = s2c /\ c2s' = c2s /\ link' = link /\ drain' = drain /\ peer' = peer
    /\ clean' = clean

\* ... and a WindowUpdate becomes due: it grants what has been written.
WriteAndGrant ==
    /\ srv.tunnel = "open" /\ srv.download = "recv" /\ srv.queue > 0
    /\ srv.drained + 1 >= Threshold
    /\ srv' = [srv EXCEPT !.queue = @ - 1, !.got = @ + 1, !.drained = 0, !.download = "update"]
    /\ con' = con /\ s2c' = s2c /\ c2s' = c2s /\ link' = link /\ drain' = drain
    /\ peer' = peer /\ clean' = clean

\* The write fails.
WriteFails ==
    /\ srv.tunnel = "open" /\ srv.download = "recv"
    /\ srv' = [srv EXCEPT !.download = "reset"] /\ clean' = FALSE /\ con' = con
    /\ s2c' = s2c /\ c2s' = c2s /\ link' = link /\ drain' = drain /\ peer' = peer

\* Connect is the first message: the backend is dialled ...
ConnectDials ==
    /\ peer = "up" /\ s2c # <<>> /\ Head(s2c) = "Connect" /\ s2c' = Tail(s2c)
    /\ con' = [con EXCEPT !.entry = TRUE, !.request = TRUE, !.task = "dialing"]
    /\ srv' = srv /\ c2s' = c2s /\ link' = link /\ drain' = drain /\ peer' = peer
    /\ clean' = clean

\* ... or the connect refused.
ConnectRefused ==
    /\ peer = "up" /\ s2c # <<>> /\ Head(s2c) = "Connect" /\ s2c' = Tail(s2c)
    /\ con' = [con EXCEPT !.task = "refused"] /\ srv' = srv /\ c2s' = c2s /\ link' = link
    /\ drain' = drain /\ peer' = peer /\ clean' = clean

\* The backend accepts ...
DialAccepted ==
    /\ con.task = "dialing" /\ con' = [con EXCEPT !.task = "accepted"] /\ srv' = srv
    /\ s2c' = s2c /\ c2s' = c2s /\ link' = link /\ drain' = drain /\ peer' = peer
    /\ clean' = clean

\* ... or cannot be reached.
DialRefused ==
    /\ con.task = "dialing" /\ con' = [con EXCEPT !.task = "refused"] /\ srv' = srv
    /\ s2c' = s2c /\ c2s' = c2s /\ link' = link /\ drain' = drain /\ peer' = peer
    /\ clean' = clean

\* A payload of the backend ...
BackendPayload ==
    /\ con.task = "pump" /\ con.download = "read"
    /\ con' = [con EXCEPT !.download = "have", !.taken = @ + 1] /\ srv' = srv /\ s2c' = s2c
    /\ c2s' = c2s /\ link' = link /\ drain' = drain /\ peer' = peer /\ clean' = clean

\* ... or its end.
BackendEnds ==
    /\ con.task = "pump" /\ con.download = "read"
    /\ con' = [con EXCEPT !.download = "close"] /\ srv' = srv /\ s2c' = s2c /\ c2s' = c2s
    /\ link' = link /\ drain' = drain /\ peer' = peer /\ clean' = clean

\* A payload is written to the backend.
BackendTakes ==
    /\ con.task = "pump" /\ con.upload = "recv" /\ con.queue > 0
    /\ con' = [con EXCEPT !.queue = @ - 1, !.got = @ + 1, !.drained = @ + 1] /\ srv' = srv
    /\ s2c' = s2c /\ c2s' = c2s /\ link' = link /\ drain' = drain /\ peer' = peer
    /\ clean' = clean

\* ... and a WindowUpdate becomes due.
BackendTakesAndGrants ==
    /\ con.task = "pump" /\ con.upload = "recv" /\ con.queue > 0
    /\ con.drained + 1 >= Threshold
    /\ con' = [con EXCEPT !.queue = @ - 1, !.got = @ + 1, !.drained = 0, !.upload = "update"]
    /\ srv' = srv /\ s2c' = s2c /\ c2s' = c2s /\ link' = link /\ drain' = drain
    /\ peer' = peer /\ clean' = clean

\* The write fails.
BackendFails ==
    /\ con.task = "pump" /\ con.upload = "recv" /\ con' = [con EXCEPT !.upload = "failed"]
    /\ srv' = srv /\ s2c' = s2c /\ c2s' = c2s /\ link' = link /\ drain' = drain
    /\ peer' = peer /\ clean' = clean

\* shutdown fails a pending connect: its caller or the end of the loops has spoilt the run.
DrainPendingStep ==
    /\ link = "down" \/ clean' = FALSE
    /\ clean' = FALSE \/ clean' = clean
    /\ drain' = "pending"
    /\ srv' = [srv EXCEPT !.answer = IF @ = "pending" THEN "err" ELSE @]
    /\ con' = con /\ s2c' = s2c /\ c2s' = c2s /\ link' = link /\ peer' = peer
=============================================================================
