--------------------------- MODULE WssTunnelProofs ---------------------------
(***************************************************************************)
(* The safety properties of a bridged connection over the WSS mux, for any *)
(* window, threshold, channel capacity and number of payloads: the steps   *)
(* of the connector and the ends of the two sessions preserve the          *)
(* invariant too, so it holds, and with it the properties.                 *)
(***************************************************************************)
EXTENDS WssServerProofs

\* A payload of the client is queued for the backend ...
LEMMA RequestArrivesKeeps ==
    ASSUME WssInv, ConnectorReceive, Head(s2c) = "Data", con.entry = TRUE, con.request = TRUE, con.task # "done"
    PROVE  WssInv'
<1>1. /\ con \in Con /\ s2c \in Seq(ToConnector) /\ s2c # <<>> /\ Head(s2c) = "Data"
      /\ s2c' = Tail(s2c) /\ con' = [con EXCEPT !.queue = @ + 1]
  BY Types DEF ConnectorReceive, OnConnectorMessage
<1>2. /\ peer = "up" /\ con.request = TRUE /\ srv' = srv /\ c2s' = c2s /\ link' = link
      /\ drain' = drain /\ peer' = peer /\ clean' = clean /\ con'.entry = con.entry
      /\ con'.request = con.request /\ con'.task = con.task /\ con'.upload = con.upload
      /\ con'.download = con.download /\ con'.credit = con.credit
      /\ con'.queue = con.queue + 1 /\ con'.drained = con.drained /\ con'.taken = con.taken
      /\ con'.got = con.got /\ In(s2c', "Connect") = In(s2c, "Connect")
      /\ In(s2c', "Data") = In(s2c, "Data") - 1
      /\ In(s2c', "WindowUpdate") = In(s2c, "WindowUpdate")
      /\ In(s2c', "Close") = In(s2c, "Close") /\ In(s2c', "Reset") = In(s2c, "Reset")
      /\ In(s2c, "Data") > 0
  <2>1. /\ peer = "up" /\ con.request = TRUE /\ srv' = srv /\ c2s' = c2s /\ link' = link
        /\ drain' = drain /\ peer' = peer /\ clean' = clean
    BY DEF ConnectorReceive, OnConnectorMessage
  <2>2. /\ con'.entry = con.entry /\ con'.request = con.request /\ con'.task = con.task
        /\ con'.upload = con.upload /\ con'.download = con.download
        /\ con'.credit = con.credit /\ con'.queue = con.queue + 1
        /\ con'.drained = con.drained /\ con'.taken = con.taken /\ con'.got = con.got
    BY <1>1 DEF Con
  <2>3. /\ In(s2c', "Connect") = In(s2c, "Connect") /\ In(s2c', "Data") = In(s2c, "Data") - 1
        /\ In(s2c', "WindowUpdate") = In(s2c, "WindowUpdate")
        /\ In(s2c', "Close") = In(s2c, "Close") /\ In(s2c', "Reset") = In(s2c, "Reset")
        /\ In(s2c, "Data") > 0
    BY <1>1, ReceivedByConnector
  <2> QED BY <2>1, <2>2, <2>3
<1>3. con.task # "none" /\ In(s2c, "Connect") = 0
      /\ srv.tunnel \in {"waiting", "open", "abandon", "done"}
  BY <1>2, <1>1, ConnectorHears
<1>4. con.task \in {"pump", "done", "aborted"}
  BY <1>2, <1>3, StreamHeard
<1>5. PICK o \in Nat : o = One(srv.upload \in {"have", "paid"})
  BY DEF One
<1>6. UploadKept => srv.taken = o + In(s2c, "Data") + con.queue + con.got
  BY <1>5, Parts, ZenonT(60) DEF UploadWhole
<1>7. In(s2c', "Data") + con'.queue = In(s2c, "Data") + con.queue /\ con'.got = con.got /\ In(s2c', "Data") \in Nat /\ con'.queue \in Nat
  BY <1>2, Numbers
<1>8. UploadKept => srv.taken = o + In(s2c', "Data") + con'.queue + con'.got
  BY <1>5, <1>6, <1>7, Numbers
<1>9. UploadKept' => UploadKept
  BY <1>2 DEF UploadKept, RequestOver
<1>10. WssTypeOK'
  <2>1. con.queue + 1 \in Nat
    BY Numbers
  <2>2. con' \in Con
    BY <2>1, <1>1, ZenonT(40) DEF Con
  <2>3. s2c' \in Seq(ToConnector)
    BY <1>1, ReceivedByConnector
  <2> QED BY <1>2, <2>1, <2>2, <2>3, Types DEF WssTypeOK
<1>11. UpSum' <= Window
  <2>1. /\ srv'.credit = srv.credit /\ One(srv'.upload = "paid") = One(srv.upload = "paid")
        /\ In(s2c', "Data") = In(s2c, "Data") - 1 /\ con'.queue = con.queue + 1
        /\ con'.drained = con.drained /\ UpGrants' = UpGrants
    BY <1>2 DEF One, UpGrants
  <2>2. srv.credit + One(srv.upload = "paid") + (In(s2c, "Data") - 1)
          + (con.queue + 1) + con.drained + UpGrants <= Window
    BY UpTerms
  <2> QED BY <2>1, <2>2 DEF UpSum
<1>12. DownSum' = DownSum
  BY <1>2 DEF DownSum, DownGrants, One
<1>13. ServerPhases' /\ ResetDue'
  BY <1>2, <1>3, <1>4, <1>5, <1>6, <1>7, <1>8, <1>9, ZenonT(40), Known DEF ServerPhases, StreamUsed, ResetDue, GivenUp
<1>14. ConnectorPhases'
  BY <1>2, <1>3, <1>4, <1>5, <1>6, <1>7, <1>8, <1>9, Known, ZenonT(60) DEF ConnectorPhases
<1>15. UploadWhole'
  <2>1. CloseLast(s2c')
    BY <1>1, CloseLastTail, Parts, ZenonT(60) DEF UploadWhole
  <2> QED BY <1>2, <1>3, <1>4, <1>5, <1>6, <1>7, <1>8, <1>9, Known, <2>1, ZenonT(60) DEF UploadWhole, RequestOver
<1>16. DownloadWhole'
  BY <1>2, <1>3, <1>4, <1>5, <1>6, <1>7, <1>8, <1>9, Known, ZenonT(60) DEF DownloadWhole, One
<1> QED
  BY <1>10, <1>11, <1>12, <1>13, <1>14, <1>15, <1>16, ZenonT(60) DEF WssInv

\* ... but after the response the entry is dropped ...
LEMMA RequestAfterEndKeeps ==
    ASSUME WssInv, ConnectorReceive, Head(s2c) = "Data", con.entry = TRUE, con.request = TRUE, con.task = "done"
    PROVE  WssInv'
<1>1. /\ con \in Con /\ s2c \in Seq(ToConnector) /\ s2c # <<>> /\ Head(s2c) = "Data"
      /\ s2c' = Tail(s2c)
      /\ con' = [con EXCEPT !.entry = FALSE, !.request = FALSE, !.task = "done"]
  BY Types DEF ConnectorReceive, OnConnectorMessage, Dropped
<1>2. /\ peer = "up" /\ con.task = "done" /\ srv' = srv /\ c2s' = c2s /\ link' = link
      /\ drain' = drain /\ peer' = peer /\ clean' = clean /\ con'.entry = FALSE
      /\ con'.request = FALSE /\ con'.task = "done" /\ con'.upload = con.upload
      /\ con'.download = con.download /\ con'.credit = con.credit /\ con'.queue = con.queue
      /\ con'.drained = con.drained /\ con'.taken = con.taken /\ con'.got = con.got
      /\ In(s2c', "Connect") = In(s2c, "Connect") /\ In(s2c', "Data") = In(s2c, "Data") - 1
      /\ In(s2c', "WindowUpdate") = In(s2c, "WindowUpdate")
      /\ In(s2c', "Close") = In(s2c, "Close") /\ In(s2c', "Reset") = In(s2c, "Reset")
      /\ In(s2c, "Data") > 0
  <2>1. /\ peer = "up" /\ con.task = "done" /\ srv' = srv /\ c2s' = c2s /\ link' = link
        /\ drain' = drain /\ peer' = peer /\ clean' = clean
    BY DEF ConnectorReceive, OnConnectorMessage, Dropped
  <2>2. /\ con'.entry = FALSE /\ con'.request = FALSE /\ con'.task = "done"
        /\ con'.upload = con.upload /\ con'.download = con.download
        /\ con'.credit = con.credit /\ con'.queue = con.queue /\ con'.drained = con.drained
        /\ con'.taken = con.taken /\ con'.got = con.got
    BY <1>1 DEF Con
  <2>3. /\ In(s2c', "Connect") = In(s2c, "Connect") /\ In(s2c', "Data") = In(s2c, "Data") - 1
        /\ In(s2c', "WindowUpdate") = In(s2c, "WindowUpdate")
        /\ In(s2c', "Close") = In(s2c, "Close") /\ In(s2c', "Reset") = In(s2c, "Reset")
        /\ In(s2c, "Data") > 0
    BY <1>1, ReceivedByConnector
  <2> QED BY <2>1, <2>2, <2>3
<1>3. con.task # "none" /\ In(s2c, "Connect") = 0
      /\ srv.tunnel \in {"waiting", "open", "abandon", "done"}
  BY <1>2, <1>1, ConnectorHears
<1>4. con.task \in {"pump", "done", "aborted"}
  BY <1>2, <1>3, StreamHeard
<1>5. WssTypeOK'
  <2>1. con' \in Con
    BY <1>1, ZenonT(40) DEF Con
  <2>2. s2c' \in Seq(ToConnector)
    BY <1>1, ReceivedByConnector
  <2> QED BY <1>2, <2>1, <2>2, Types DEF WssTypeOK
<1>6. UpSum' <= Window
  <2>1. /\ srv'.credit = srv.credit /\ One(srv'.upload = "paid") = One(srv.upload = "paid")
        /\ In(s2c', "Data") = In(s2c, "Data") - 1 /\ con'.queue = con.queue
        /\ con'.drained = con.drained /\ UpGrants' = UpGrants
    BY <1>2 DEF One, UpGrants
  <2>2. srv.credit + One(srv.upload = "paid") + (In(s2c, "Data") - 1)
          + con.queue + con.drained + UpGrants <= Window
    BY UpTerms
  <2> QED BY <2>1, <2>2 DEF UpSum
<1>7. DownSum' = DownSum
  BY <1>2 DEF DownSum, DownGrants, One
<1>8. ServerPhases' /\ ResetDue'
  BY <1>2, <1>3, <1>4, Known, ZenonT(60) DEF ServerPhases, StreamUsed, ResetDue, GivenUp
<1>9. ConnectorPhases'
  BY <1>2, <1>3, <1>4, Known, ZenonT(60) DEF ConnectorPhases
<1>10. UploadWhole'
  <2>1. CloseLast(s2c')
    BY <1>1, CloseLastTail, Parts, ZenonT(60) DEF UploadWhole
  <2> QED BY <1>2, <1>3, <1>4, <2>1, Known, ZenonT(60) DEF UploadWhole, UploadKept, RequestOver, One
<1>11. DownloadWhole'
  BY <1>2, <1>3, <1>4, Known, ZenonT(60) DEF DownloadWhole, One
<1> QED
  BY <1>5, <1>6, <1>7, <1>8, <1>9, <1>10, <1>11, ZenonT(60) DEF WssInv

\* ... and without an entry or a request it is ignored: not in a stream that lives.
LEMMA RequestIgnoredKeeps ==
    ASSUME WssInv, ConnectorReceive, Head(s2c) = "Data", con.entry = FALSE \/ con.request = FALSE
    PROVE  WssInv'
<1>1. /\ s2c \in Seq(ToConnector) /\ s2c # <<>> /\ Head(s2c) = "Data" /\ s2c' = Tail(s2c)
  BY Types DEF ConnectorReceive, OnConnectorMessage
<1>2. /\ peer = "up"
      /\ con.entry = FALSE \/ con.request = FALSE
      /\ srv' = srv /\ con' = con /\ c2s' = c2s /\ link' = link /\ drain' = drain
      /\ peer' = peer /\ clean' = clean /\ In(s2c', "Connect") = In(s2c, "Connect")
      /\ In(s2c', "Data") = In(s2c, "Data") - 1
      /\ In(s2c', "WindowUpdate") = In(s2c, "WindowUpdate")
      /\ In(s2c', "Close") = In(s2c, "Close") /\ In(s2c', "Reset") = In(s2c, "Reset")
      /\ In(s2c, "Data") > 0
  <2>1. /\ peer = "up"
        /\ con.entry = FALSE \/ con.request = FALSE
        /\ srv' = srv /\ con' = con /\ c2s' = c2s /\ link' = link /\ drain' = drain
        /\ peer' = peer /\ clean' = clean
    BY DEF ConnectorReceive, OnConnectorMessage
  <2>2. /\ In(s2c', "Connect") = In(s2c, "Connect") /\ In(s2c', "Data") = In(s2c, "Data") - 1
        /\ In(s2c', "WindowUpdate") = In(s2c, "WindowUpdate")
        /\ In(s2c', "Close") = In(s2c, "Close") /\ In(s2c', "Reset") = In(s2c, "Reset")
        /\ In(s2c, "Data") > 0
    BY <1>1, ReceivedByConnector
  <2> QED BY <2>1, <2>2
<1>3. con.task # "none" /\ In(s2c, "Connect") = 0
      /\ srv.tunnel \in {"waiting", "open", "abandon", "done"}
  BY <1>2, <1>1, ConnectorHears
<1>4. con.task \in {"pump", "done", "aborted"}
  BY <1>2, <1>3, StreamHeard
<1>5. con.task # "pump"
  BY <1>2, <1>3, <1>4, Parts, ZenonT(60) DEF ConnectorPhases, UploadWhole, RequestOver
<1>6. WssTypeOK'
  <2>1. s2c' \in Seq(ToConnector)
    BY <1>1, ReceivedByConnector
  <2> QED BY <1>2, <2>1, Types DEF WssTypeOK
<1>7. UpSum' <= Window
  <2>1. /\ srv'.credit = srv.credit /\ One(srv'.upload = "paid") = One(srv.upload = "paid")
        /\ In(s2c', "Data") = In(s2c, "Data") - 1 /\ con'.queue = con.queue
        /\ con'.drained = con.drained /\ UpGrants' = UpGrants
    BY <1>2 DEF One, UpGrants
  <2>2. srv.credit + One(srv.upload = "paid") + (In(s2c, "Data") - 1)
          + con.queue + con.drained + UpGrants <= Window
    BY UpTerms
  <2> QED BY <2>1, <2>2 DEF UpSum
<1>8. DownSum' = DownSum
  BY <1>2 DEF DownSum, DownGrants, One
<1>9. ServerPhases' /\ ResetDue'
  BY <1>2, <1>3, <1>4, <1>5, Known, ZenonT(60) DEF ServerPhases, StreamUsed, ResetDue, GivenUp
<1>10. ConnectorPhases'
  BY <1>2, <1>3, <1>4, <1>5, Known, ZenonT(60) DEF ConnectorPhases
<1>11. UploadWhole'
  <2>1. CloseLast(s2c')
    BY <1>1, CloseLastTail, Parts, ZenonT(60) DEF UploadWhole
  <2> QED BY <1>2, <1>3, <1>4, <1>5, <2>1, Known, ZenonT(60) DEF UploadWhole, UploadKept, RequestOver, One
<1>12. DownloadWhole'
  BY <1>2, <1>3, <1>4, <1>5, Known, ZenonT(60) DEF DownloadWhole, One
<1> QED
  BY <1>6, <1>7, <1>8, <1>9, <1>10, <1>11, <1>12, ZenonT(60) DEF WssInv

\* Close ends the request ...
LEMMA RequestEndsKeeps ==
    ASSUME WssInv, ConnectorReceive, Head(s2c) = "Close", con.entry = TRUE
    PROVE  WssInv'
<1>1. /\ con \in Con /\ s2c \in Seq(ToConnector) /\ s2c # <<>> /\ Head(s2c) = "Close"
      /\ s2c' = Tail(s2c) /\ con' = [con EXCEPT !.request = FALSE]
  BY Types DEF ConnectorReceive, OnConnectorMessage
<1>2. /\ peer = "up" /\ srv' = srv /\ c2s' = c2s /\ link' = link /\ drain' = drain
      /\ peer' = peer /\ clean' = clean /\ con'.entry = con.entry /\ con'.request = FALSE
      /\ con'.task = con.task /\ con'.upload = con.upload /\ con'.download = con.download
      /\ con'.credit = con.credit /\ con'.queue = con.queue /\ con'.drained = con.drained
      /\ con'.taken = con.taken /\ con'.got = con.got
      /\ In(s2c', "Connect") = In(s2c, "Connect") /\ In(s2c', "Data") = In(s2c, "Data")
      /\ In(s2c', "WindowUpdate") = In(s2c, "WindowUpdate")
      /\ In(s2c', "Close") = In(s2c, "Close") - 1 /\ In(s2c', "Reset") = In(s2c, "Reset")
      /\ In(s2c, "Close") > 0 /\ In(s2c', "Data") = 0
  <2>1. /\ peer = "up" /\ srv' = srv /\ c2s' = c2s /\ link' = link /\ drain' = drain
        /\ peer' = peer /\ clean' = clean
    BY DEF ConnectorReceive, OnConnectorMessage
  <2>2. /\ con'.entry = con.entry /\ con'.request = FALSE /\ con'.task = con.task
        /\ con'.upload = con.upload /\ con'.download = con.download
        /\ con'.credit = con.credit /\ con'.queue = con.queue /\ con'.drained = con.drained
        /\ con'.taken = con.taken /\ con'.got = con.got
    BY <1>1 DEF Con
  <2>3. /\ In(s2c', "Connect") = In(s2c, "Connect") /\ In(s2c', "Data") = In(s2c, "Data")
        /\ In(s2c', "WindowUpdate") = In(s2c, "WindowUpdate")
        /\ In(s2c', "Close") = In(s2c, "Close") - 1 /\ In(s2c', "Reset") = In(s2c, "Reset")
        /\ In(s2c, "Close") > 0
    BY <1>1, ReceivedByConnector
  <2>4. In(s2c', "Data") = 0
    BY <1>1, CloseLastTail, Parts, ZenonT(60) DEF UploadWhole
  <2> QED BY <2>1, <2>2, <2>3, <2>4
<1>3. con.task # "none" /\ In(s2c, "Connect") = 0
      /\ srv.tunnel \in {"waiting", "open", "abandon", "done"}
  BY <1>2, <1>1, ConnectorHears
<1>4. con.task \in {"pump", "done", "aborted"}
  BY <1>2, <1>3, StreamHeard
<1>5. WssTypeOK'
  <2>1. con' \in Con
    BY <1>1, ZenonT(40) DEF Con
  <2>2. s2c' \in Seq(ToConnector)
    BY <1>1, ReceivedByConnector
  <2> QED BY <1>2, <2>1, <2>2, Types DEF WssTypeOK
<1>6. UpSum' = UpSum /\ DownSum' = DownSum
  BY <1>2 DEF UpSum, UpGrants, DownSum, DownGrants, One
<1>7. ServerPhases' /\ ResetDue'
  BY <1>2, <1>3, <1>4, Known, ZenonT(60) DEF ServerPhases, StreamUsed, ResetDue, GivenUp
<1>8. ConnectorPhases'
  BY <1>2, <1>3, <1>4, Known, ZenonT(60) DEF ConnectorPhases
<1>9. UploadWhole'
  <2>1. CloseLast(s2c')
    BY <1>1, CloseLastTail, Parts, ZenonT(60) DEF UploadWhole
  <2> QED BY <1>2, <1>3, <1>4, <2>1, Known, ZenonT(60) DEF UploadWhole, UploadKept, RequestOver, One
<1>10. DownloadWhole'
  BY <1>2, <1>3, <1>4, Known, ZenonT(60) DEF DownloadWhole, One
<1> QED
  BY <1>5, <1>6, <1>7, <1>8, <1>9, <1>10, ZenonT(60) DEF WssInv

\* ... of a stream that lives.
LEMMA CloseIgnoredKeeps ==
    ASSUME WssInv, ConnectorReceive, Head(s2c) = "Close", con.entry = FALSE
    PROVE  WssInv'
<1>1. /\ s2c \in Seq(ToConnector) /\ s2c # <<>> /\ Head(s2c) = "Close" /\ s2c' = Tail(s2c)
  BY Types DEF ConnectorReceive, OnConnectorMessage
<1>2. /\ peer = "up" /\ con.entry = FALSE /\ srv' = srv /\ con' = con /\ c2s' = c2s
      /\ link' = link /\ drain' = drain /\ peer' = peer /\ clean' = clean
      /\ In(s2c', "Connect") = In(s2c, "Connect") /\ In(s2c', "Data") = In(s2c, "Data")
      /\ In(s2c', "WindowUpdate") = In(s2c, "WindowUpdate")
      /\ In(s2c', "Close") = In(s2c, "Close") - 1 /\ In(s2c', "Reset") = In(s2c, "Reset")
      /\ In(s2c, "Close") > 0 /\ In(s2c', "Data") = 0
  <2>1. /\ peer = "up" /\ con.entry = FALSE /\ srv' = srv /\ con' = con /\ c2s' = c2s
        /\ link' = link /\ drain' = drain /\ peer' = peer /\ clean' = clean
    BY DEF ConnectorReceive, OnConnectorMessage
  <2>2. /\ In(s2c', "Connect") = In(s2c, "Connect") /\ In(s2c', "Data") = In(s2c, "Data")
        /\ In(s2c', "WindowUpdate") = In(s2c, "WindowUpdate")
        /\ In(s2c', "Close") = In(s2c, "Close") - 1 /\ In(s2c', "Reset") = In(s2c, "Reset")
        /\ In(s2c, "Close") > 0
    BY <1>1, ReceivedByConnector
  <2>3. In(s2c', "Data") = 0
    BY <1>1, CloseLastTail, Parts, ZenonT(60) DEF UploadWhole
  <2> QED BY <2>1, <2>2, <2>3
<1>3. con.task # "none" /\ In(s2c, "Connect") = 0
      /\ srv.tunnel \in {"waiting", "open", "abandon", "done"}
  BY <1>2, <1>1, ConnectorHears
<1>4. con.task \in {"pump", "done", "aborted"}
  BY <1>2, <1>3, StreamHeard
<1>5. WssTypeOK'
  <2>1. s2c' \in Seq(ToConnector)
    BY <1>1, ReceivedByConnector
  <2> QED BY <1>2, <2>1, Types DEF WssTypeOK
<1>6. UpSum' = UpSum /\ DownSum' = DownSum
  BY <1>2 DEF UpSum, UpGrants, DownSum, DownGrants, One
<1>7. ServerPhases' /\ ResetDue'
  BY <1>2, <1>3, <1>4, Known, ZenonT(60) DEF ServerPhases, StreamUsed, ResetDue, GivenUp
<1>8. ConnectorPhases'
  BY <1>2, <1>3, <1>4, Known, ZenonT(60) DEF ConnectorPhases
<1>9. UploadWhole'
  <2>1. CloseLast(s2c')
    BY <1>1, CloseLastTail, Parts, ZenonT(60) DEF UploadWhole
  <2> QED BY <1>2, <1>3, <1>4, <2>1, Known, ZenonT(60) DEF UploadWhole, UploadKept, RequestOver, One
<1>10. DownloadWhole'
  BY <1>2, <1>3, <1>4, Known, ZenonT(60) DEF DownloadWhole, One
<1> QED
  BY <1>5, <1>6, <1>7, <1>8, <1>9, <1>10, ZenonT(60) DEF WssInv

\* Reset closes the backend ...
LEMMA ResetArrivesKeeps ==
    ASSUME WssInv, ConnectorReceive, Head(s2c) = "Reset", con.entry = TRUE
    PROVE  WssInv'
<1>1. /\ con \in Con /\ s2c \in Seq(ToConnector) /\ s2c # <<>> /\ Head(s2c) = "Reset"
      /\ s2c' = Tail(s2c)
      /\ con' = [con EXCEPT !.entry = FALSE, !.request = FALSE, !.task = IF @ = "done" THEN "done" ELSE "aborted"]
  BY Types DEF ConnectorReceive, OnConnectorMessage, Dropped
<1>2. /\ peer = "up" /\ srv' = srv /\ c2s' = c2s /\ link' = link /\ drain' = drain
      /\ peer' = peer /\ clean' = clean /\ con'.entry = FALSE /\ con'.request = FALSE
      /\ con'.task = IF con.task = "done" THEN "done" ELSE "aborted"
      /\ con'.upload = con.upload /\ con'.download = con.download
      /\ con'.credit = con.credit /\ con'.queue = con.queue /\ con'.drained = con.drained
      /\ con'.taken = con.taken /\ con'.got = con.got
      /\ In(s2c', "Connect") = In(s2c, "Connect") /\ In(s2c', "Data") = In(s2c, "Data")
      /\ In(s2c', "WindowUpdate") = In(s2c, "WindowUpdate")
      /\ In(s2c', "Close") = In(s2c, "Close") /\ In(s2c', "Reset") = In(s2c, "Reset") - 1
      /\ In(s2c, "Reset") > 0
  <2>1. /\ peer = "up" /\ srv' = srv /\ c2s' = c2s /\ link' = link /\ drain' = drain
        /\ peer' = peer /\ clean' = clean
    BY DEF ConnectorReceive, OnConnectorMessage, Dropped
  <2>2. /\ con'.entry = FALSE /\ con'.request = FALSE
        /\ con'.task = IF con.task = "done" THEN "done" ELSE "aborted"
        /\ con'.upload = con.upload /\ con'.download = con.download
        /\ con'.credit = con.credit /\ con'.queue = con.queue /\ con'.drained = con.drained
        /\ con'.taken = con.taken /\ con'.got = con.got
    BY <1>1 DEF Con
  <2>3. /\ In(s2c', "Connect") = In(s2c, "Connect") /\ In(s2c', "Data") = In(s2c, "Data")
        /\ In(s2c', "WindowUpdate") = In(s2c, "WindowUpdate")
        /\ In(s2c', "Close") = In(s2c, "Close") /\ In(s2c', "Reset") = In(s2c, "Reset") - 1
        /\ In(s2c, "Reset") > 0
    BY <1>1, ReceivedByConnector
  <2> QED BY <2>1, <2>2, <2>3
<1>3. con.task # "none" /\ In(s2c, "Connect") = 0
      /\ srv.tunnel \in {"waiting", "open", "abandon", "done"}
  BY <1>2, <1>1, ConnectorHears
<1>4. WssTypeOK'
  <2>1. con' \in Con
    BY <1>1, ZenonT(40) DEF Con
  <2>2. s2c' \in Seq(ToConnector)
    BY <1>1, ReceivedByConnector
  <2> QED BY <1>2, <2>1, <2>2, Types DEF WssTypeOK
<1>5. UpSum' = UpSum /\ DownSum' = DownSum
  BY <1>2 DEF UpSum, UpGrants, DownSum, DownGrants, One
<1>6. ServerPhases' /\ ResetDue'
  BY <1>2, <1>3, Known, ZenonT(60) DEF ServerPhases, StreamUsed, ResetDue, GivenUp
<1>7. ConnectorPhases'
  BY <1>2, <1>3, Known, ZenonT(60) DEF ConnectorPhases
<1>8. UploadWhole'
  <2>1. CloseLast(s2c')
    BY <1>1, CloseLastTail, Parts, ZenonT(60) DEF UploadWhole
  <2> QED BY <1>2, <1>3, <2>1, Known, ZenonT(60) DEF UploadWhole, UploadKept, RequestOver, One
<1>9. DownloadWhole'
  BY <1>2, <1>3, Known, ZenonT(60) DEF DownloadWhole, One
<1> QED
  BY <1>4, <1>5, <1>6, <1>7, <1>8, <1>9, ZenonT(60) DEF WssInv

\* ... unless it is closed already.
LEMMA ResetIgnoredKeeps ==
    ASSUME WssInv, ConnectorReceive, Head(s2c) = "Reset", con.entry = FALSE
    PROVE  WssInv'
<1>1. /\ s2c \in Seq(ToConnector) /\ s2c # <<>> /\ Head(s2c) = "Reset" /\ s2c' = Tail(s2c)
  BY Types DEF ConnectorReceive, OnConnectorMessage, Dropped
<1>2. /\ peer = "up" /\ con.entry = FALSE /\ srv' = srv /\ con' = con /\ c2s' = c2s
      /\ link' = link /\ drain' = drain /\ peer' = peer /\ clean' = clean
      /\ In(s2c', "Connect") = In(s2c, "Connect") /\ In(s2c', "Data") = In(s2c, "Data")
      /\ In(s2c', "WindowUpdate") = In(s2c, "WindowUpdate")
      /\ In(s2c', "Close") = In(s2c, "Close") /\ In(s2c', "Reset") = In(s2c, "Reset") - 1
      /\ In(s2c, "Reset") > 0
  <2>1. /\ peer = "up" /\ con.entry = FALSE /\ srv' = srv /\ con' = con /\ c2s' = c2s
        /\ link' = link /\ drain' = drain /\ peer' = peer /\ clean' = clean
    BY DEF ConnectorReceive, OnConnectorMessage, Dropped
  <2>2. /\ In(s2c', "Connect") = In(s2c, "Connect") /\ In(s2c', "Data") = In(s2c, "Data")
        /\ In(s2c', "WindowUpdate") = In(s2c, "WindowUpdate")
        /\ In(s2c', "Close") = In(s2c, "Close") /\ In(s2c', "Reset") = In(s2c, "Reset") - 1
        /\ In(s2c, "Reset") > 0
    BY <1>1, ReceivedByConnector
  <2> QED BY <2>1, <2>2
<1>3. con.task # "none" /\ In(s2c, "Connect") = 0
      /\ srv.tunnel \in {"waiting", "open", "abandon", "done"}
  BY <1>2, <1>1, ConnectorHears
<1>4. con.task \in {"done", "aborted", "refused"}
  BY <1>2, <1>3, Known, ZenonT(60) DEF ConnectorPhases
<1>5. WssTypeOK'
  <2>1. s2c' \in Seq(ToConnector)
    BY <1>1, ReceivedByConnector
  <2> QED BY <1>2, <2>1, Types DEF WssTypeOK
<1>6. UpSum' = UpSum /\ DownSum' = DownSum
  BY <1>2 DEF UpSum, UpGrants, DownSum, DownGrants, One
<1>7. ServerPhases' /\ ResetDue'
  BY <1>2, <1>3, <1>4, Known, ZenonT(60) DEF ServerPhases, StreamUsed, ResetDue, GivenUp
<1>8. ConnectorPhases'
  BY <1>2, <1>3, <1>4, Known, ZenonT(60) DEF ConnectorPhases
<1>9. UploadWhole'
  <2>1. CloseLast(s2c')
    BY <1>1, CloseLastTail, Parts, ZenonT(60) DEF UploadWhole
  <2> QED BY <1>2, <1>3, <1>4, <2>1, Known, ZenonT(60) DEF UploadWhole, UploadKept, RequestOver, One
<1>10. DownloadWhole'
  BY <1>2, <1>3, <1>4, Known, ZenonT(60) DEF DownloadWhole, One
<1> QED
  BY <1>5, <1>6, <1>7, <1>8, <1>9, <1>10, ZenonT(60) DEF WssInv

\* A WindowUpdate of the server is added to the credit, up to a window ...
LEMMA GrantArrivesKeeps ==
    ASSUME WssInv, ConnectorReceive, Head(s2c) = "WindowUpdate", con.entry = TRUE
    PROVE  WssInv'
<1>1. /\ con \in Con /\ s2c \in Seq(ToConnector) /\ s2c # <<>> /\ Head(s2c) = "WindowUpdate"
      /\ s2c' = Tail(s2c) /\ con' = [con EXCEPT !.credit = Capped(@ + Threshold)]
  BY Types DEF ConnectorReceive, OnConnectorMessage
<1>2. /\ peer = "up" /\ srv' = srv /\ c2s' = c2s /\ link' = link /\ drain' = drain
      /\ peer' = peer /\ clean' = clean /\ con'.entry = con.entry
      /\ con'.request = con.request /\ con'.task = con.task /\ con'.upload = con.upload
      /\ con'.download = con.download /\ con'.credit = Capped(con.credit + Threshold)
      /\ con'.queue = con.queue /\ con'.drained = con.drained /\ con'.taken = con.taken
      /\ con'.got = con.got /\ In(s2c', "Connect") = In(s2c, "Connect")
      /\ In(s2c', "Data") = In(s2c, "Data")
      /\ In(s2c', "WindowUpdate") = In(s2c, "WindowUpdate") - 1
      /\ In(s2c', "Close") = In(s2c, "Close") /\ In(s2c', "Reset") = In(s2c, "Reset")
      /\ In(s2c, "WindowUpdate") > 0
  <2>1. /\ peer = "up" /\ srv' = srv /\ c2s' = c2s /\ link' = link /\ drain' = drain
        /\ peer' = peer /\ clean' = clean
    BY DEF ConnectorReceive, OnConnectorMessage
  <2>2. /\ con'.entry = con.entry /\ con'.request = con.request /\ con'.task = con.task
        /\ con'.upload = con.upload /\ con'.download = con.download
        /\ con'.credit = Capped(con.credit + Threshold) /\ con'.queue = con.queue
        /\ con'.drained = con.drained /\ con'.taken = con.taken /\ con'.got = con.got
    BY <1>1 DEF Con
  <2>3. /\ In(s2c', "Connect") = In(s2c, "Connect") /\ In(s2c', "Data") = In(s2c, "Data")
        /\ In(s2c', "WindowUpdate") = In(s2c, "WindowUpdate") - 1
        /\ In(s2c', "Close") = In(s2c, "Close") /\ In(s2c', "Reset") = In(s2c, "Reset")
        /\ In(s2c, "WindowUpdate") > 0
    BY <1>1, ReceivedByConnector
  <2> QED BY <2>1, <2>2, <2>3
<1>3. con.task # "none" /\ In(s2c, "Connect") = 0
      /\ srv.tunnel \in {"waiting", "open", "abandon", "done"}
  BY <1>2, <1>1, ConnectorHears
<1>4. con.task \in {"pump", "done", "aborted"}
  BY <1>2, <1>3, StreamHeard
<1>5. WssTypeOK'
  <2>1. Capped(con.credit + Threshold) \in Nat
    BY CappedCredit
  <2>2. con' \in Con
    BY <2>1, <1>1, ZenonT(40) DEF Con
  <2>3. s2c' \in Seq(ToConnector)
    BY <1>1, ReceivedByConnector
  <2> QED BY <1>2, <2>1, <2>2, <2>3, Types DEF WssTypeOK
<1>6. UpSum' = UpSum
  BY <1>2 DEF UpSum, UpGrants, One
<1>7. DownSum' <= Window
  <2>1. /\ Capped(con.credit + Threshold) \in Nat
        /\ Capped(con.credit + Threshold) <= con.credit + Threshold
    BY <1>2, CappedCredit DEF One
  <2>2. /\ con'.credit = Capped(con.credit + Threshold)
        /\ One(con'.download = "paid") = One(con.download = "paid")
        /\ In(c2s', "Data") = In(c2s, "Data") /\ srv'.queue = srv.queue
        /\ srv'.drained = srv.drained
    BY <1>2 DEF One
  <2>3. DownGrants' = DownGrants - Threshold
    <3> DEFINE n == One(srv.download = "update") + In(s2c, "WindowUpdate") - 1
    <3>0. In(s2c, "WindowUpdate") > 0 /\ In(s2c, "WindowUpdate") \in Nat
      BY <1>2, Numbers
    <3>1. n \in Nat /\ One(srv.download = "update") + In(s2c, "WindowUpdate") = n + 1
      BY <3>0 DEF One
    <3>2. One(srv'.download = "update") + In(s2c', "WindowUpdate") = n
      BY <1>2, Numbers DEF One
    <3>3. Threshold * (n + 1) = Threshold * n + Threshold /\ Threshold * n \in Int /\ Threshold \in Int
      BY <3>1, OneMore, WindowAssumption
    <3> HIDE DEF n
    <3> QED BY <3>1, <3>2, <3>3 DEF DownGrants
  <2>4. (Capped(con.credit + Threshold)) + One(con.download = "paid") + In(c2s, "Data")
          + srv.queue + srv.drained + (DownGrants - Threshold) <= Window
    BY <2>1, DownTerms
  <2> QED BY <2>2, <2>3, <2>4 DEF DownSum
<1>8. ServerPhases' /\ ResetDue'
  BY <1>2, <1>3, <1>4, Known, ZenonT(60) DEF ServerPhases, StreamUsed, ResetDue, GivenUp
<1>9. ConnectorPhases'
  BY <1>2, <1>3, <1>4, Known, ZenonT(60) DEF ConnectorPhases
<1>10. UploadWhole'
  <2>1. CloseLast(s2c')
    BY <1>1, CloseLastTail, Parts, ZenonT(60) DEF UploadWhole
  <2> QED BY <1>2, <1>3, <1>4, <2>1, Known, ZenonT(60) DEF UploadWhole, UploadKept, RequestOver, One
<1>11. DownloadWhole'
  BY <1>2, <1>3, <1>4, Known, ZenonT(60) DEF DownloadWhole, One
<1> QED
  BY <1>5, <1>6, <1>7, <1>8, <1>9, <1>10, <1>11, ZenonT(60) DEF WssInv

\* ... unless the stream is over.
LEMMA GrantIgnoredKeeps ==
    ASSUME WssInv, ConnectorReceive, Head(s2c) = "WindowUpdate", con.entry = FALSE
    PROVE  WssInv'
<1>1. /\ s2c \in Seq(ToConnector) /\ s2c # <<>> /\ Head(s2c) = "WindowUpdate"
      /\ s2c' = Tail(s2c)
  BY Types DEF ConnectorReceive, OnConnectorMessage
<1>2. /\ peer = "up" /\ srv' = srv /\ con' = con /\ c2s' = c2s /\ link' = link
      /\ drain' = drain /\ peer' = peer /\ clean' = clean
      /\ In(s2c', "Connect") = In(s2c, "Connect") /\ In(s2c', "Data") = In(s2c, "Data")
      /\ In(s2c', "WindowUpdate") = In(s2c, "WindowUpdate") - 1
      /\ In(s2c', "Close") = In(s2c, "Close") /\ In(s2c', "Reset") = In(s2c, "Reset")
      /\ In(s2c, "WindowUpdate") > 0
  <2>1. /\ peer = "up" /\ srv' = srv /\ con' = con /\ c2s' = c2s /\ link' = link
        /\ drain' = drain /\ peer' = peer /\ clean' = clean
    BY DEF ConnectorReceive, OnConnectorMessage
  <2>2. /\ In(s2c', "Connect") = In(s2c, "Connect") /\ In(s2c', "Data") = In(s2c, "Data")
        /\ In(s2c', "WindowUpdate") = In(s2c, "WindowUpdate") - 1
        /\ In(s2c', "Close") = In(s2c, "Close") /\ In(s2c', "Reset") = In(s2c, "Reset")
        /\ In(s2c, "WindowUpdate") > 0
    BY <1>1, ReceivedByConnector
  <2> QED BY <2>1, <2>2
<1>3. con.task # "none" /\ In(s2c, "Connect") = 0
      /\ srv.tunnel \in {"waiting", "open", "abandon", "done"}
  BY <1>2, <1>1, ConnectorHears
<1>4. con.task \in {"pump", "done", "aborted"}
  BY <1>2, <1>3, StreamHeard
<1>5. WssTypeOK'
  <2>1. s2c' \in Seq(ToConnector)
    BY <1>1, ReceivedByConnector
  <2> QED BY <1>2, <2>1, Types DEF WssTypeOK
<1>6. UpSum' = UpSum
  BY <1>2 DEF UpSum, UpGrants, One
<1>7. DownSum' <= Window
  <2>1. /\ con'.credit = con.credit
        /\ One(con'.download = "paid") = One(con.download = "paid")
        /\ In(c2s', "Data") = In(c2s, "Data") /\ srv'.queue = srv.queue
        /\ srv'.drained = srv.drained
    BY <1>2 DEF One
  <2>2. DownGrants' = DownGrants - Threshold
    <3> DEFINE n == One(srv.download = "update") + In(s2c, "WindowUpdate") - 1
    <3>0. In(s2c, "WindowUpdate") > 0 /\ In(s2c, "WindowUpdate") \in Nat
      BY <1>2, Numbers
    <3>1. n \in Nat /\ One(srv.download = "update") + In(s2c, "WindowUpdate") = n + 1
      BY <3>0 DEF One
    <3>2. One(srv'.download = "update") + In(s2c', "WindowUpdate") = n
      BY <1>2, Numbers DEF One
    <3>3. Threshold * (n + 1) = Threshold * n + Threshold /\ Threshold * n \in Int /\ Threshold \in Int
      BY <3>1, OneMore, WindowAssumption
    <3> HIDE DEF n
    <3> QED BY <3>1, <3>2, <3>3 DEF DownGrants
  <2>3. con.credit + One(con.download = "paid") + In(c2s, "Data")
          + srv.queue + srv.drained + (DownGrants - Threshold) <= Window
    BY DownTerms
  <2> QED BY <2>1, <2>2, <2>3 DEF DownSum
<1>8. ServerPhases' /\ ResetDue'
  BY <1>2, <1>3, <1>4, Known, ZenonT(60) DEF ServerPhases, StreamUsed, ResetDue, GivenUp
<1>9. ConnectorPhases'
  BY <1>2, <1>3, <1>4, Known, ZenonT(60) DEF ConnectorPhases
<1>10. UploadWhole'
  <2>1. CloseLast(s2c')
    BY <1>1, CloseLastTail, Parts, ZenonT(60) DEF UploadWhole
  <2> QED BY <1>2, <1>3, <1>4, <2>1, Known, ZenonT(60) DEF UploadWhole, UploadKept, RequestOver, One
<1>11. DownloadWhole'
  BY <1>2, <1>3, <1>4, Known, ZenonT(60) DEF DownloadWhole, One
<1> QED
  BY <1>5, <1>6, <1>7, <1>8, <1>9, <1>10, <1>11, ZenonT(60) DEF WssInv

LEMMA ConnectDialsKeeps ==
    ASSUME WssInv, ConnectDials
    PROVE  WssInv'
<1>1. /\ con \in Con /\ s2c \in Seq(ToConnector) /\ s2c # <<>> /\ Head(s2c) = "Connect"
      /\ s2c' = Tail(s2c)
      /\ con' = [con EXCEPT !.entry = TRUE, !.request = TRUE, !.task = "dialing"]
  BY Types DEF ConnectDials
<1>2. /\ peer = "up" /\ srv' = srv /\ c2s' = c2s /\ link' = link /\ drain' = drain
      /\ peer' = peer /\ clean' = clean /\ con'.entry = TRUE /\ con'.request = TRUE
      /\ con'.task = "dialing" /\ con'.upload = con.upload /\ con'.download = con.download
      /\ con'.credit = con.credit /\ con'.queue = con.queue /\ con'.drained = con.drained
      /\ con'.taken = con.taken /\ con'.got = con.got
      /\ In(s2c', "Connect") = In(s2c, "Connect") - 1 /\ In(s2c', "Data") = In(s2c, "Data")
      /\ In(s2c', "WindowUpdate") = In(s2c, "WindowUpdate")
      /\ In(s2c', "Close") = In(s2c, "Close") /\ In(s2c', "Reset") = In(s2c, "Reset")
      /\ In(s2c, "Connect") > 0
  <2>1. /\ peer = "up" /\ srv' = srv /\ c2s' = c2s /\ link' = link /\ drain' = drain
        /\ peer' = peer /\ clean' = clean
    BY DEF ConnectDials
  <2>2. /\ con'.entry = TRUE /\ con'.request = TRUE /\ con'.task = "dialing"
        /\ con'.upload = con.upload /\ con'.download = con.download
        /\ con'.credit = con.credit /\ con'.queue = con.queue /\ con'.drained = con.drained
        /\ con'.taken = con.taken /\ con'.got = con.got
    BY <1>1 DEF Con
  <2>3. /\ In(s2c', "Connect") = In(s2c, "Connect") - 1 /\ In(s2c', "Data") = In(s2c, "Data")
        /\ In(s2c', "WindowUpdate") = In(s2c, "WindowUpdate")
        /\ In(s2c', "Close") = In(s2c, "Close") /\ In(s2c', "Reset") = In(s2c, "Reset")
        /\ In(s2c, "Connect") > 0
    BY <1>1, ReceivedByConnector
  <2> QED BY <2>1, <2>2, <2>3
<1>3. con.task = "none"
  BY <1>2, Parts, ZenonT(60) DEF ConnectorPhases
<1>4. c2s = <<>> /\ con.queue = 0 /\ srv.answer # "ok" /\ In(c2s, "ConnectOk") = 0
  BY <1>2, <1>3, Known DEF ConnectorPhases
<1>5. srv.tunnel \in {"waiting", "open", "abandon", "done"} /\ s2c # <<>>
  BY <1>2, <1>1, ZenonT(40), Known DEF ServerPhases
<1>6. WssTypeOK'
  <2>1. con' \in Con
    BY <1>1, ZenonT(40) DEF Con
  <2>2. s2c' \in Seq(ToConnector)
    BY <1>1, ReceivedByConnector
  <2> QED BY <1>2, <2>1, <2>2, Types DEF WssTypeOK
<1>7. UpSum' = UpSum /\ DownSum' = DownSum
  BY <1>2 DEF UpSum, UpGrants, DownSum, DownGrants, One
<1>8. ServerPhases' /\ ResetDue'
  BY <1>2, <1>3, <1>4, <1>5, Known, ZenonT(60) DEF ServerPhases, StreamUsed, ResetDue, GivenUp
<1>9. ConnectorPhases'
  BY <1>2, <1>3, <1>4, <1>5, Known DEF ConnectorPhases
<1>10. UploadWhole'
  <2>1. CloseLast(s2c')
    BY <1>1, CloseLastTail, Parts, ZenonT(60) DEF UploadWhole
  <2> QED BY <1>2, <1>3, <1>4, <1>5, <2>1, Known, ZenonT(60) DEF UploadWhole, UploadKept, RequestOver, One
<1>11. DownloadWhole'
  BY <1>2, <1>3, <1>4, <1>5, Known, ZenonT(60) DEF DownloadWhole, One
<1> QED
  BY <1>6, <1>7, <1>8, <1>9, <1>10, <1>11, ZenonT(60) DEF WssInv

LEMMA ConnectRefusedKeeps ==
    ASSUME WssInv, ConnectRefused
    PROVE  WssInv'
<1>1. /\ con \in Con /\ s2c \in Seq(ToConnector) /\ s2c # <<>> /\ Head(s2c) = "Connect"
      /\ s2c' = Tail(s2c) /\ con' = [con EXCEPT !.task = "refused"]
  BY Types DEF ConnectRefused
<1>2. /\ peer = "up" /\ srv' = srv /\ c2s' = c2s /\ link' = link /\ drain' = drain
      /\ peer' = peer /\ clean' = clean /\ con'.entry = con.entry
      /\ con'.request = con.request /\ con'.task = "refused" /\ con'.upload = con.upload
      /\ con'.download = con.download /\ con'.credit = con.credit /\ con'.queue = con.queue
      /\ con'.drained = con.drained /\ con'.taken = con.taken /\ con'.got = con.got
      /\ In(s2c', "Connect") = In(s2c, "Connect") - 1 /\ In(s2c', "Data") = In(s2c, "Data")
      /\ In(s2c', "WindowUpdate") = In(s2c, "WindowUpdate")
      /\ In(s2c', "Close") = In(s2c, "Close") /\ In(s2c', "Reset") = In(s2c, "Reset")
      /\ In(s2c, "Connect") > 0
  <2>1. /\ peer = "up" /\ srv' = srv /\ c2s' = c2s /\ link' = link /\ drain' = drain
        /\ peer' = peer /\ clean' = clean
    BY DEF ConnectRefused
  <2>2. /\ con'.entry = con.entry /\ con'.request = con.request /\ con'.task = "refused"
        /\ con'.upload = con.upload /\ con'.download = con.download
        /\ con'.credit = con.credit /\ con'.queue = con.queue /\ con'.drained = con.drained
        /\ con'.taken = con.taken /\ con'.got = con.got
    BY <1>1 DEF Con
  <2>3. /\ In(s2c', "Connect") = In(s2c, "Connect") - 1 /\ In(s2c', "Data") = In(s2c, "Data")
        /\ In(s2c', "WindowUpdate") = In(s2c, "WindowUpdate")
        /\ In(s2c', "Close") = In(s2c, "Close") /\ In(s2c', "Reset") = In(s2c, "Reset")
        /\ In(s2c, "Connect") > 0
    BY <1>1, ReceivedByConnector
  <2> QED BY <2>1, <2>2, <2>3
<1>3. con.task = "none"
  BY <1>2, Parts, ZenonT(60) DEF ConnectorPhases
<1>4. c2s = <<>> /\ con.queue = 0 /\ srv.answer # "ok" /\ In(c2s, "ConnectOk") = 0
  BY <1>2, <1>3, Known DEF ConnectorPhases
<1>5. srv.tunnel \in {"waiting", "open", "abandon", "done"} /\ s2c # <<>>
  BY <1>2, <1>1, ZenonT(40), Known DEF ServerPhases
<1>6. WssTypeOK'
  <2>1. con' \in Con
    BY <1>1, ZenonT(40) DEF Con
  <2>2. s2c' \in Seq(ToConnector)
    BY <1>1, ReceivedByConnector
  <2> QED BY <1>2, <2>1, <2>2, Types DEF WssTypeOK
<1>7. UpSum' = UpSum /\ DownSum' = DownSum
  BY <1>2 DEF UpSum, UpGrants, DownSum, DownGrants, One
<1>8. ServerPhases' /\ ResetDue'
  BY <1>2, <1>3, <1>4, <1>5, Known, ZenonT(60) DEF ServerPhases, StreamUsed, ResetDue, GivenUp
<1>9. ConnectorPhases'
  BY <1>2, <1>3, <1>4, <1>5, Known DEF ConnectorPhases
<1>10. UploadWhole'
  <2>1. CloseLast(s2c')
    BY <1>1, CloseLastTail, Parts, ZenonT(60) DEF UploadWhole
  <2> QED BY <1>2, <1>3, <1>4, <1>5, <2>1, Known, ZenonT(60) DEF UploadWhole, UploadKept, RequestOver, One
<1>11. DownloadWhole'
  BY <1>2, <1>3, <1>4, <1>5, Known, ZenonT(60) DEF DownloadWhole, One
<1> QED
  BY <1>6, <1>7, <1>8, <1>9, <1>10, <1>11, ZenonT(60) DEF WssInv

LEMMA DialAcceptedKeeps ==
    ASSUME WssInv, DialAccepted
    PROVE  WssInv'
<1>1. /\ con \in Con /\ con' = [con EXCEPT !.task = "accepted"]
  BY Types DEF DialAccepted
<1>2. /\ con.task = "dialing" /\ srv' = srv /\ s2c' = s2c /\ c2s' = c2s /\ link' = link
      /\ drain' = drain /\ peer' = peer /\ clean' = clean /\ con'.entry = con.entry
      /\ con'.request = con.request /\ con'.task = "accepted" /\ con'.upload = con.upload
      /\ con'.download = con.download /\ con'.credit = con.credit /\ con'.queue = con.queue
      /\ con'.drained = con.drained /\ con'.taken = con.taken /\ con'.got = con.got
  <2>1. /\ con.task = "dialing" /\ srv' = srv /\ s2c' = s2c /\ c2s' = c2s /\ link' = link
        /\ drain' = drain /\ peer' = peer /\ clean' = clean
    BY DEF DialAccepted
  <2>2. /\ con'.entry = con.entry /\ con'.request = con.request /\ con'.task = "accepted"
        /\ con'.upload = con.upload /\ con'.download = con.download
        /\ con'.credit = con.credit /\ con'.queue = con.queue /\ con'.drained = con.drained
        /\ con'.taken = con.taken /\ con'.got = con.got
    BY <1>1 DEF Con
  <2> QED BY <2>1, <2>2
<1>3. WssTypeOK'
  <2>1. con' \in Con
    BY <1>1, ZenonT(40) DEF Con
  <2> QED BY <1>2, <2>1, Types DEF WssTypeOK
<1>4. UpSum' = UpSum /\ DownSum' = DownSum
  BY <1>2 DEF UpSum, UpGrants, DownSum, DownGrants, One
<1>5. ServerPhases' /\ ResetDue'
  BY <1>2, Known, ZenonT(60) DEF ServerPhases, StreamUsed, ResetDue, GivenUp
<1>6. ConnectorPhases'
  BY <1>2, Known, ZenonT(60) DEF ConnectorPhases
<1>7. UploadWhole'
  BY <1>2, Known, ZenonT(60) DEF UploadWhole, UploadKept, RequestOver, One
<1>8. DownloadWhole'
  BY <1>2, Known, ZenonT(60) DEF DownloadWhole, One
<1> QED
  BY <1>3, <1>4, <1>5, <1>6, <1>7, <1>8, ZenonT(60) DEF WssInv

LEMMA DialRefusedKeeps ==
    ASSUME WssInv, DialRefused
    PROVE  WssInv'
<1>1. /\ con \in Con /\ con' = [con EXCEPT !.task = "refused"]
  BY Types DEF DialRefused
<1>2. /\ con.task = "dialing" /\ srv' = srv /\ s2c' = s2c /\ c2s' = c2s /\ link' = link
      /\ drain' = drain /\ peer' = peer /\ clean' = clean /\ con'.entry = con.entry
      /\ con'.request = con.request /\ con'.task = "refused" /\ con'.upload = con.upload
      /\ con'.download = con.download /\ con'.credit = con.credit /\ con'.queue = con.queue
      /\ con'.drained = con.drained /\ con'.taken = con.taken /\ con'.got = con.got
  <2>1. /\ con.task = "dialing" /\ srv' = srv /\ s2c' = s2c /\ c2s' = c2s /\ link' = link
        /\ drain' = drain /\ peer' = peer /\ clean' = clean
    BY DEF DialRefused
  <2>2. /\ con'.entry = con.entry /\ con'.request = con.request /\ con'.task = "refused"
        /\ con'.upload = con.upload /\ con'.download = con.download
        /\ con'.credit = con.credit /\ con'.queue = con.queue /\ con'.drained = con.drained
        /\ con'.taken = con.taken /\ con'.got = con.got
    BY <1>1 DEF Con
  <2> QED BY <2>1, <2>2
<1>3. WssTypeOK'
  <2>1. con' \in Con
    BY <1>1, ZenonT(40) DEF Con
  <2> QED BY <1>2, <2>1, Types DEF WssTypeOK
<1>4. UpSum' = UpSum /\ DownSum' = DownSum
  BY <1>2 DEF UpSum, UpGrants, DownSum, DownGrants, One
<1>5. ServerPhases' /\ ResetDue'
  BY <1>2, Known, ZenonT(60) DEF ServerPhases, StreamUsed, ResetDue, GivenUp
<1>6. ConnectorPhases'
  BY <1>2, Known, ZenonT(60) DEF ConnectorPhases
<1>7. UploadWhole'
  BY <1>2, Known, ZenonT(60) DEF UploadWhole, UploadKept, RequestOver, One
<1>8. DownloadWhole'
  BY <1>2, Known, ZenonT(60) DEF DownloadWhole, One
<1> QED
  BY <1>3, <1>4, <1>5, <1>6, <1>7, <1>8, ZenonT(60) DEF WssInv

\* The refusal is the only message of its stream.
LEMMA ReplyErrKeeps ==
    ASSUME WssInv, ReplyConnectErr, peer = "up"
    PROVE  WssInv'
<1>1. /\ con \in Con /\ c2s \in Seq(ToServer) /\ c2s' = Append(c2s, "ConnectErr")
      /\ con' = [con EXCEPT !.task = "done"]
  BY Types DEF ReplyConnectErr, Reply
<1>2. /\ con.task = "refused" /\ srv' = srv /\ s2c' = s2c /\ link' = link /\ drain' = drain
      /\ peer' = peer /\ clean' = clean /\ con'.entry = con.entry
      /\ con'.request = con.request /\ con'.task = "done" /\ con'.upload = con.upload
      /\ con'.download = con.download /\ con'.credit = con.credit /\ con'.queue = con.queue
      /\ con'.drained = con.drained /\ con'.taken = con.taken /\ con'.got = con.got
      /\ In(c2s', "ConnectOk") = In(c2s, "ConnectOk")
      /\ In(c2s', "ConnectErr") = In(c2s, "ConnectErr") + 1
      /\ In(c2s', "Data") = In(c2s, "Data")
      /\ In(c2s', "WindowUpdate") = In(c2s, "WindowUpdate")
      /\ In(c2s', "Close") = In(c2s, "Close")
  <2>1. /\ con.task = "refused" /\ srv' = srv /\ s2c' = s2c /\ link' = link /\ drain' = drain
        /\ peer' = peer /\ clean' = clean
    BY DEF ReplyConnectErr, Reply
  <2>2. /\ con'.entry = con.entry /\ con'.request = con.request /\ con'.task = "done"
        /\ con'.upload = con.upload /\ con'.download = con.download
        /\ con'.credit = con.credit /\ con'.queue = con.queue /\ con'.drained = con.drained
        /\ con'.taken = con.taken /\ con'.got = con.got
    BY <1>1 DEF Con
  <2>3. /\ In(c2s', "ConnectOk") = In(c2s, "ConnectOk")
        /\ In(c2s', "ConnectErr") = In(c2s, "ConnectErr") + 1
        /\ In(c2s', "Data") = In(c2s, "Data")
        /\ In(c2s', "WindowUpdate") = In(c2s, "WindowUpdate")
        /\ In(c2s', "Close") = In(c2s, "Close")
    BY <1>1, SentToServer DEF ToServer
  <2> QED BY <2>1, <2>2, <2>3
<1>3. c2s = <<>> /\ con.upload = "off" /\ con.download = "off" /\ In(c2s, "ConnectOk") = 0
  BY <1>2, Known DEF ConnectorPhases
<1>4. WssTypeOK'
  <2>1. con' \in Con
    BY <1>1, ZenonT(40) DEF Con
  <2>2. c2s' \in Seq(ToServer)
    BY <1>1, SentToServer DEF ToServer
  <2> QED BY <1>2, <2>1, <2>2, Types DEF WssTypeOK
<1>5. UpSum' = UpSum /\ DownSum' = DownSum
  BY <1>2 DEF UpSum, UpGrants, DownSum, DownGrants, One
<1>6. ServerPhases' /\ ResetDue'
  BY <1>2, <1>3, Known, ZenonT(60) DEF ServerPhases, StreamUsed, ResetDue, GivenUp
<1>7. ConnectorPhases'
  <2>1. /\ c2s' # <<>>
        /\ c2s # <<>> => Head(c2s') = Head(c2s)
        /\ c2s = <<>> => Head(c2s') = "ConnectErr"
    BY <1>1, SentToServer DEF ToServer
  <2>2. CloseLast(c2s')
    BY <1>1, CloseLastAppend, Parts, ZenonT(60) DEF ConnectorPhases, ToServer
  <2> QED BY <1>2, <1>3, <2>1, <2>2, Known, ZenonT(60) DEF ConnectorPhases
<1>8. UploadWhole'
  BY <1>2, <1>3, Known, ZenonT(60) DEF UploadWhole, UploadKept, RequestOver, One
<1>9. DownloadWhole'
  BY <1>2, <1>3, Known, ZenonT(60) DEF DownloadWhole, One
<1> QED
  BY <1>4, <1>5, <1>6, <1>7, <1>8, <1>9, ZenonT(60) DEF WssInv

\* ... which a session that is over does not take.
LEMMA ReplyErrDownKeeps ==
    ASSUME WssInv, ReplyConnectErr, peer = "down"
    PROVE  WssInv'
<1>1. /\ con \in Con /\ con' = [con EXCEPT !.task = "done"]
  BY Types DEF ReplyConnectErr, Reply
<1>2. /\ con.task = "refused" /\ srv' = srv /\ s2c' = s2c /\ c2s' = c2s /\ link' = link
      /\ drain' = drain /\ peer' = peer /\ clean' = clean /\ con'.entry = con.entry
      /\ con'.request = con.request /\ con'.task = "done" /\ con'.upload = con.upload
      /\ con'.download = con.download /\ con'.credit = con.credit /\ con'.queue = con.queue
      /\ con'.drained = con.drained /\ con'.taken = con.taken /\ con'.got = con.got
  <2>1. /\ con.task = "refused" /\ srv' = srv /\ s2c' = s2c /\ c2s' = c2s /\ link' = link
        /\ drain' = drain /\ peer' = peer /\ clean' = clean
    BY DEF ReplyConnectErr, Reply
  <2>2. /\ con'.entry = con.entry /\ con'.request = con.request /\ con'.task = "done"
        /\ con'.upload = con.upload /\ con'.download = con.download
        /\ con'.credit = con.credit /\ con'.queue = con.queue /\ con'.drained = con.drained
        /\ con'.taken = con.taken /\ con'.got = con.got
    BY <1>1 DEF Con
  <2> QED BY <2>1, <2>2
<1>3. c2s = <<>> /\ con.upload = "off" /\ con.download = "off" /\ In(c2s, "ConnectOk") = 0
  BY <1>2, Known DEF ConnectorPhases
<1>4. WssTypeOK'
  <2>1. con' \in Con
    BY <1>1, ZenonT(40) DEF Con
  <2> QED BY <1>2, <2>1, Types DEF WssTypeOK
<1>5. UpSum' = UpSum /\ DownSum' = DownSum
  BY <1>2 DEF UpSum, UpGrants, DownSum, DownGrants, One
<1>6. ServerPhases' /\ ResetDue'
  BY <1>2, <1>3, Known, ZenonT(60) DEF ServerPhases, StreamUsed, ResetDue, GivenUp
<1>7. ConnectorPhases'
  BY <1>2, <1>3, Known, ZenonT(60) DEF ConnectorPhases
<1>8. UploadWhole'
  BY <1>2, <1>3, Known, ZenonT(60) DEF UploadWhole, UploadKept, RequestOver, One
<1>9. DownloadWhole'
  BY <1>2, <1>3, Known, ZenonT(60) DEF DownloadWhole, One
<1> QED
  BY <1>4, <1>5, <1>6, <1>7, <1>8, <1>9, ZenonT(60) DEF WssInv

\* ConnectOk is the first message back.
LEMMA ReplyOkKeeps ==
    ASSUME WssInv, ReplyConnectOk
    PROVE  WssInv'
<1>1. /\ con \in Con /\ c2s \in Seq(ToServer) /\ c2s' = Append(c2s, "ConnectOk")
      /\ con' = [con EXCEPT !.task = "pump", !.upload = "recv", !.download = "read"]
  BY Types DEF ReplyConnectOk, Reply
<1>2. /\ con.task = "accepted" /\ srv' = srv /\ s2c' = s2c /\ link' = link /\ drain' = drain
      /\ peer' = peer /\ clean' = clean /\ con'.entry = con.entry
      /\ con'.request = con.request /\ con'.task = "pump" /\ con'.upload = "recv"
      /\ con'.download = "read" /\ con'.credit = con.credit /\ con'.queue = con.queue
      /\ con'.drained = con.drained /\ con'.taken = con.taken /\ con'.got = con.got
      /\ In(c2s', "ConnectOk") = In(c2s, "ConnectOk") + 1
      /\ In(c2s', "ConnectErr") = In(c2s, "ConnectErr")
      /\ In(c2s', "Data") = In(c2s, "Data")
      /\ In(c2s', "WindowUpdate") = In(c2s, "WindowUpdate")
      /\ In(c2s', "Close") = In(c2s, "Close")
  <2>1. /\ con.task = "accepted" /\ srv' = srv /\ s2c' = s2c /\ link' = link /\ drain' = drain
        /\ peer' = peer /\ clean' = clean
    BY DEF ReplyConnectOk, Reply
  <2>2. /\ con'.entry = con.entry /\ con'.request = con.request /\ con'.task = "pump"
        /\ con'.upload = "recv" /\ con'.download = "read" /\ con'.credit = con.credit
        /\ con'.queue = con.queue /\ con'.drained = con.drained /\ con'.taken = con.taken
        /\ con'.got = con.got
    BY <1>1 DEF Con
  <2>3. /\ In(c2s', "ConnectOk") = In(c2s, "ConnectOk") + 1
        /\ In(c2s', "ConnectErr") = In(c2s, "ConnectErr")
        /\ In(c2s', "Data") = In(c2s, "Data")
        /\ In(c2s', "WindowUpdate") = In(c2s, "WindowUpdate")
        /\ In(c2s', "Close") = In(c2s, "Close")
    BY <1>1, SentToServer DEF ToServer
  <2> QED BY <2>1, <2>2, <2>3
<1>3. c2s = <<>> /\ con.upload = "off" /\ con.download = "off" /\ In(c2s, "ConnectOk") = 0
  BY <1>2, Known DEF ConnectorPhases
<1>4. con.request = TRUE
  BY <1>2, Known, ZenonT(60) DEF ConnectorPhases
<1>5. ~RequestOver' /\ ~RequestOver
  BY <1>2, <1>4 DEF RequestOver
<1>6. UploadKept' => UploadKept
  BY <1>2, <1>5 DEF UploadKept
<1>7. WssTypeOK'
  <2>1. con' \in Con
    BY <1>1, ZenonT(40) DEF Con
  <2>2. c2s' \in Seq(ToServer)
    BY <1>1, SentToServer DEF ToServer
  <2> QED BY <1>2, <2>1, <2>2, Types DEF WssTypeOK
<1>8. UpSum' = UpSum /\ DownSum' = DownSum
  BY <1>2, <1>3, <1>4, <1>5, <1>6 DEF UpSum, UpGrants, DownSum, DownGrants, One
<1>9. ServerPhases' /\ ResetDue'
  BY <1>2, <1>3, <1>4, <1>5, <1>6, Known, ZenonT(60) DEF ServerPhases, StreamUsed, ResetDue, GivenUp
<1>10. ConnectorPhases'
  <2>1. /\ c2s' # <<>>
        /\ c2s # <<>> => Head(c2s') = Head(c2s)
        /\ c2s = <<>> => Head(c2s') = "ConnectOk"
    BY <1>1, SentToServer DEF ToServer
  <2>2. CloseLast(c2s')
    BY <1>1, CloseLastAppend, Parts, ZenonT(60) DEF ConnectorPhases, ToServer
  <2> QED BY <1>2, <1>3, <1>4, <1>5, <1>6, <2>1, <2>2, Known DEF ConnectorPhases
<1>11. UploadWhole'
  BY <1>2, <1>5, <1>6, Parts, ZenonT(60) DEF UploadWhole, One
<1>12. DownloadWhole'
  BY <1>2, <1>3, <1>4, <1>5, <1>6, Known DEF DownloadWhole, One
<1> QED
  BY <1>7, <1>8, <1>9, <1>10, <1>11, <1>12, ZenonT(60) DEF WssInv

LEMMA BackendPayloadKeeps ==
    ASSUME WssInv, BackendPayload
    PROVE  WssInv'
<1>1. /\ con \in Con /\ con' = [con EXCEPT !.download = "have", !.taken = @ + 1]
  BY Types DEF BackendPayload
<1>2. /\ con.task = "pump" /\ con.download = "read" /\ srv' = srv /\ s2c' = s2c
      /\ c2s' = c2s /\ link' = link /\ drain' = drain /\ peer' = peer /\ clean' = clean
      /\ con'.entry = con.entry /\ con'.request = con.request /\ con'.task = con.task
      /\ con'.upload = con.upload /\ con'.download = "have" /\ con'.credit = con.credit
      /\ con'.queue = con.queue /\ con'.drained = con.drained /\ con'.taken = con.taken + 1
      /\ con'.got = con.got
  <2>1. /\ con.task = "pump" /\ con.download = "read" /\ srv' = srv /\ s2c' = s2c
        /\ c2s' = c2s /\ link' = link /\ drain' = drain /\ peer' = peer /\ clean' = clean
    BY DEF BackendPayload
  <2>2. /\ con'.entry = con.entry /\ con'.request = con.request /\ con'.task = con.task
        /\ con'.upload = con.upload /\ con'.download = "have" /\ con'.credit = con.credit
        /\ con'.queue = con.queue /\ con'.drained = con.drained /\ con'.taken = con.taken + 1
        /\ con'.got = con.got
    BY <1>1 DEF Con
  <2> QED BY <2>1, <2>2
<1>3. WssTypeOK'
  <2>1. con.taken + 1 \in Nat
    BY Numbers
  <2>2. con' \in Con
    BY <2>1, <1>1, ZenonT(40) DEF Con
  <2> QED BY <1>2, <2>1, <2>2, Types DEF WssTypeOK
<1>4. UpSum' = UpSum /\ DownSum' = DownSum
  BY <1>2 DEF UpSum, UpGrants, DownSum, DownGrants, One
<1>5. ServerPhases' /\ ResetDue'
  BY <1>2, Known, ZenonT(60) DEF ServerPhases, StreamUsed, ResetDue, GivenUp
<1>6. ConnectorPhases'
  BY <1>2, Known, ZenonT(60) DEF ConnectorPhases
<1>7. UploadWhole'
  BY <1>2, Known, ZenonT(60) DEF UploadWhole, UploadKept, RequestOver, One
<1>8. DownloadWhole'
  BY <1>2, Known DEF DownloadWhole, One
<1> QED
  BY <1>3, <1>4, <1>5, <1>6, <1>7, <1>8, ZenonT(60) DEF WssInv

LEMMA BackendEndsKeeps ==
    ASSUME WssInv, BackendEnds
    PROVE  WssInv'
<1>1. /\ con \in Con /\ con' = [con EXCEPT !.download = "close"]
  BY Types DEF BackendEnds
<1>2. /\ con.task = "pump" /\ con.download = "read" /\ srv' = srv /\ s2c' = s2c
      /\ c2s' = c2s /\ link' = link /\ drain' = drain /\ peer' = peer /\ clean' = clean
      /\ con'.entry = con.entry /\ con'.request = con.request /\ con'.task = con.task
      /\ con'.upload = con.upload /\ con'.download = "close" /\ con'.credit = con.credit
      /\ con'.queue = con.queue /\ con'.drained = con.drained /\ con'.taken = con.taken
      /\ con'.got = con.got
  <2>1. /\ con.task = "pump" /\ con.download = "read" /\ srv' = srv /\ s2c' = s2c
        /\ c2s' = c2s /\ link' = link /\ drain' = drain /\ peer' = peer /\ clean' = clean
    BY DEF BackendEnds
  <2>2. /\ con'.entry = con.entry /\ con'.request = con.request /\ con'.task = con.task
        /\ con'.upload = con.upload /\ con'.download = "close" /\ con'.credit = con.credit
        /\ con'.queue = con.queue /\ con'.drained = con.drained /\ con'.taken = con.taken
        /\ con'.got = con.got
    BY <1>1 DEF Con
  <2> QED BY <2>1, <2>2
<1>3. WssTypeOK'
  <2>1. con' \in Con
    BY <1>1, ZenonT(40) DEF Con
  <2> QED BY <1>2, <2>1, Types DEF WssTypeOK
<1>4. UpSum' = UpSum /\ DownSum' = DownSum
  BY <1>2 DEF UpSum, UpGrants, DownSum, DownGrants, One
<1>5. ServerPhases' /\ ResetDue'
  BY <1>2, Known, ZenonT(60) DEF ServerPhases, StreamUsed, ResetDue, GivenUp
<1>6. ConnectorPhases'
  BY <1>2, Known, ZenonT(60) DEF ConnectorPhases
<1>7. UploadWhole'
  BY <1>2, Known, ZenonT(60) DEF UploadWhole, UploadKept, RequestOver, One
<1>8. DownloadWhole'
  BY <1>2, Known, ZenonT(60) DEF DownloadWhole, One
<1> QED
  BY <1>3, <1>4, <1>5, <1>6, <1>7, <1>8, ZenonT(60) DEF WssInv

LEMMA BackendAcquireKeeps ==
    ASSUME WssInv, BackendAcquire
    PROVE  WssInv'
<1>1. /\ con \in Con /\ con' = [con EXCEPT !.download = "paid", !.credit = @ - 1]
  BY Types DEF BackendAcquire
<1>2. /\ con.task = "pump" /\ con.download = "have" /\ con.credit >= 1 /\ srv' = srv
      /\ s2c' = s2c /\ c2s' = c2s /\ link' = link /\ drain' = drain /\ peer' = peer
      /\ clean' = clean /\ con'.entry = con.entry /\ con'.request = con.request
      /\ con'.task = con.task /\ con'.upload = con.upload /\ con'.download = "paid"
      /\ con'.credit = con.credit - 1 /\ con'.queue = con.queue
      /\ con'.drained = con.drained /\ con'.taken = con.taken /\ con'.got = con.got
  <2>1. /\ con.task = "pump" /\ con.download = "have" /\ con.credit >= 1 /\ srv' = srv
        /\ s2c' = s2c /\ c2s' = c2s /\ link' = link /\ drain' = drain /\ peer' = peer
        /\ clean' = clean
    BY DEF BackendAcquire
  <2>2. /\ con'.entry = con.entry /\ con'.request = con.request /\ con'.task = con.task
        /\ con'.upload = con.upload /\ con'.download = "paid" /\ con'.credit = con.credit - 1
        /\ con'.queue = con.queue /\ con'.drained = con.drained /\ con'.taken = con.taken
        /\ con'.got = con.got
    BY <1>1 DEF Con
  <2> QED BY <2>1, <2>2
<1>3. WssTypeOK'
  <2>1. con.credit - 1 \in Nat
    BY <1>2, Numbers
  <2>2. con' \in Con
    BY <2>1, <1>1, ZenonT(40) DEF Con
  <2> QED BY <1>2, <2>1, <2>2, Types DEF WssTypeOK
<1>4. UpSum' = UpSum
  BY <1>2 DEF UpSum, UpGrants, One
<1>5. DownSum' <= Window
  <2>1. /\ con.credit >= 1 /\ One(con.download = "paid") = 0
    BY <1>2 DEF One
  <2>2. /\ con'.credit = con.credit - 1 /\ One(con'.download = "paid") = 1
        /\ In(c2s', "Data") = In(c2s, "Data") /\ srv'.queue = srv.queue
        /\ srv'.drained = srv.drained /\ DownGrants' = DownGrants
    BY <1>2 DEF One, DownGrants
  <2>3. (con.credit - 1) + 1 + In(c2s, "Data")
          + srv.queue + srv.drained + DownGrants <= Window
    BY <2>1, DownTerms
  <2> QED BY <2>2, <2>3 DEF DownSum
<1>6. ServerPhases' /\ ResetDue'
  BY <1>2, Known, ZenonT(60) DEF ServerPhases, StreamUsed, ResetDue, GivenUp
<1>7. ConnectorPhases'
  BY <1>2, Known, ZenonT(60) DEF ConnectorPhases
<1>8. UploadWhole'
  BY <1>2, Known, ZenonT(60) DEF UploadWhole, UploadKept, RequestOver, One
<1>9. DownloadWhole'
  BY <1>2, Known, ZenonT(60) DEF DownloadWhole, One
<1> QED
  BY <1>3, <1>4, <1>5, <1>6, <1>7, <1>8, <1>9, ZenonT(60) DEF WssInv

LEMMA BackendSendKeeps ==
    ASSUME WssInv, BackendSend
    PROVE  WssInv'
<1>1. /\ con \in Con /\ c2s \in Seq(ToServer) /\ c2s' = Append(c2s, "Data")
      /\ con' = [con EXCEPT !.download = "read"]
  BY Types DEF BackendSend, Reply
<1>2. /\ con.task = "pump" /\ con.download = "paid" /\ srv' = srv /\ s2c' = s2c
      /\ link' = link /\ drain' = drain /\ peer' = peer /\ clean' = clean
      /\ con'.entry = con.entry /\ con'.request = con.request /\ con'.task = con.task
      /\ con'.upload = con.upload /\ con'.download = "read" /\ con'.credit = con.credit
      /\ con'.queue = con.queue /\ con'.drained = con.drained /\ con'.taken = con.taken
      /\ con'.got = con.got /\ In(c2s', "ConnectOk") = In(c2s, "ConnectOk")
      /\ In(c2s', "ConnectErr") = In(c2s, "ConnectErr")
      /\ In(c2s', "Data") = In(c2s, "Data") + 1
      /\ In(c2s', "WindowUpdate") = In(c2s, "WindowUpdate")
      /\ In(c2s', "Close") = In(c2s, "Close") /\ In(c2s, "Close") = 0
  <2>1. /\ con.task = "pump" /\ con.download = "paid" /\ srv' = srv /\ s2c' = s2c
        /\ link' = link /\ drain' = drain /\ peer' = peer /\ clean' = clean
    BY DEF BackendSend, Reply
  <2>2. /\ con'.entry = con.entry /\ con'.request = con.request /\ con'.task = con.task
        /\ con'.upload = con.upload /\ con'.download = "read" /\ con'.credit = con.credit
        /\ con'.queue = con.queue /\ con'.drained = con.drained /\ con'.taken = con.taken
        /\ con'.got = con.got
    BY <1>1 DEF Con
  <2>3. /\ In(c2s', "ConnectOk") = In(c2s, "ConnectOk")
        /\ In(c2s', "ConnectErr") = In(c2s, "ConnectErr")
        /\ In(c2s', "Data") = In(c2s, "Data") + 1
        /\ In(c2s', "WindowUpdate") = In(c2s, "WindowUpdate")
        /\ In(c2s', "Close") = In(c2s, "Close")
    BY <1>1, SentToServer DEF ToServer
  <2>4. In(c2s, "Close") = 0
    BY <2>1, Known DEF ConnectorPhases
  <2> QED BY <2>1, <2>2, <2>3, <2>4
<1>3. In(c2s, "ConnectOk") > 0 => c2s # <<>>
  BY InEmpty
<1>4. In(c2s, "Close") = 0 /\ In(c2s, "ConnectErr") = 0
  BY <1>2, Known DEF ConnectorPhases
<1>5. WssTypeOK'
  <2>1. con' \in Con
    BY <1>1, ZenonT(40) DEF Con
  <2>2. c2s' \in Seq(ToServer)
    BY <1>1, SentToServer DEF ToServer
  <2> QED BY <1>2, <2>1, <2>2, Types DEF WssTypeOK
<1>6. UpSum' = UpSum
  BY <1>2 DEF UpSum, UpGrants, One
<1>7. DownSum' <= Window
  <2>1. /\ One(con.download = "paid") = 1
    BY <1>2 DEF One
  <2>2. /\ con'.credit = con.credit /\ One(con'.download = "paid") = 0
        /\ In(c2s', "Data") = In(c2s, "Data") + 1 /\ srv'.queue = srv.queue
        /\ srv'.drained = srv.drained /\ DownGrants' = DownGrants
    BY <1>2 DEF One, DownGrants
  <2>3. con.credit + 0 + (In(c2s, "Data") + 1)
          + srv.queue + srv.drained + DownGrants <= Window
    BY <2>1, DownTerms
  <2> QED BY <2>2, <2>3 DEF DownSum
<1>8. ServerPhases' /\ ResetDue'
  BY <1>2, <1>3, <1>4, Known, ZenonT(60) DEF ServerPhases, StreamUsed, ResetDue, GivenUp
<1>9. ConnectorPhases'
  <2>1. /\ c2s' # <<>>
        /\ c2s # <<>> => Head(c2s') = Head(c2s)
        /\ c2s = <<>> => Head(c2s') = "Data"
    BY <1>1, SentToServer DEF ToServer
  <2>2. CloseLast(c2s')
    BY <1>1, <1>2, CloseLastAppend, Parts, ZenonT(60) DEF ConnectorPhases, ToServer
  <2> QED BY <1>2, <1>3, <1>4, <2>1, <2>2, Known, ZenonT(60) DEF ConnectorPhases
<1>10. UploadWhole'
  BY <1>2, <1>3, <1>4, Known, ZenonT(60) DEF UploadWhole, UploadKept, RequestOver, One
<1>11. DownloadWhole'
  BY <1>2, Known DEF DownloadWhole, One
<1> QED
  BY <1>5, <1>6, <1>7, <1>8, <1>9, <1>10, <1>11, ZenonT(60) DEF WssInv

LEMMA BackendCloseKeeps ==
    ASSUME WssInv, BackendClose
    PROVE  WssInv'
<1>1. /\ con \in Con /\ c2s \in Seq(ToServer) /\ c2s' = Append(c2s, "Close")
      /\ con' = [con EXCEPT !.task = "done"]
  BY Types DEF BackendClose, Reply
<1>2. /\ con.task = "pump" /\ con.download = "close" /\ srv' = srv /\ s2c' = s2c
      /\ link' = link /\ drain' = drain /\ peer' = peer /\ clean' = clean
      /\ con'.entry = con.entry /\ con'.request = con.request /\ con'.task = "done"
      /\ con'.upload = con.upload /\ con'.download = con.download
      /\ con'.credit = con.credit /\ con'.queue = con.queue /\ con'.drained = con.drained
      /\ con'.taken = con.taken /\ con'.got = con.got
      /\ In(c2s', "ConnectOk") = In(c2s, "ConnectOk")
      /\ In(c2s', "ConnectErr") = In(c2s, "ConnectErr")
      /\ In(c2s', "Data") = In(c2s, "Data")
      /\ In(c2s', "WindowUpdate") = In(c2s, "WindowUpdate")
      /\ In(c2s', "Close") = In(c2s, "Close") + 1
  <2>1. /\ con.task = "pump" /\ con.download = "close" /\ srv' = srv /\ s2c' = s2c
        /\ link' = link /\ drain' = drain /\ peer' = peer /\ clean' = clean
    BY DEF BackendClose, Reply
  <2>2. /\ con'.entry = con.entry /\ con'.request = con.request /\ con'.task = "done"
        /\ con'.upload = con.upload /\ con'.download = con.download
        /\ con'.credit = con.credit /\ con'.queue = con.queue /\ con'.drained = con.drained
        /\ con'.taken = con.taken /\ con'.got = con.got
    BY <1>1 DEF Con
  <2>3. /\ In(c2s', "ConnectOk") = In(c2s, "ConnectOk")
        /\ In(c2s', "ConnectErr") = In(c2s, "ConnectErr")
        /\ In(c2s', "Data") = In(c2s, "Data")
        /\ In(c2s', "WindowUpdate") = In(c2s, "WindowUpdate")
        /\ In(c2s', "Close") = In(c2s, "Close") + 1
    BY <1>1, SentToServer DEF ToServer
  <2> QED BY <2>1, <2>2, <2>3
<1>3. In(c2s, "ConnectOk") > 0 => c2s # <<>>
  BY InEmpty
<1>4. In(c2s, "Close") = 0 /\ In(c2s, "ConnectErr") = 0
  BY <1>2, Known DEF ConnectorPhases
<1>5. WssTypeOK'
  <2>1. con' \in Con
    BY <1>1, ZenonT(40) DEF Con
  <2>2. c2s' \in Seq(ToServer)
    BY <1>1, SentToServer DEF ToServer
  <2> QED BY <1>2, <2>1, <2>2, Types DEF WssTypeOK
<1>6. UpSum' = UpSum /\ DownSum' = DownSum
  BY <1>2 DEF UpSum, UpGrants, DownSum, DownGrants, One
<1>7. ServerPhases' /\ ResetDue'
  BY <1>2, <1>3, <1>4, Known, ZenonT(60) DEF ServerPhases, StreamUsed, ResetDue, GivenUp
<1>8. ConnectorPhases'
  <2>1. /\ c2s' # <<>>
        /\ c2s # <<>> => Head(c2s') = Head(c2s)
        /\ c2s = <<>> => Head(c2s') = "Close"
    BY <1>1, SentToServer DEF ToServer
  <2>2. CloseLast(c2s')
    BY <1>1, CloseLastAppend, Parts, ZenonT(60) DEF ConnectorPhases, ToServer
  <2> QED BY <1>2, <1>3, <1>4, <2>1, <2>2, Known, ZenonT(60) DEF ConnectorPhases
<1>9. UploadWhole'
  BY <1>2, <1>3, <1>4, Known, ZenonT(60) DEF UploadWhole, UploadKept, RequestOver, One
<1>10. DownloadWhole'
  BY <1>2, <1>3, <1>4, Known, ZenonT(60) DEF DownloadWhole, One
<1> QED
  BY <1>5, <1>6, <1>7, <1>8, <1>9, <1>10, ZenonT(60) DEF WssInv

LEMMA BackendTakesKeeps ==
    ASSUME WssInv, BackendTakes
    PROVE  WssInv'
<1>1. /\ con \in Con
      /\ con' = [con EXCEPT !.queue = @ - 1, !.got = @ + 1, !.drained = @ + 1]
  BY Types DEF BackendTakes
<1>2. /\ con.task = "pump" /\ con.upload = "recv" /\ con.queue > 0 /\ srv' = srv
      /\ s2c' = s2c /\ c2s' = c2s /\ link' = link /\ drain' = drain /\ peer' = peer
      /\ clean' = clean /\ con'.entry = con.entry /\ con'.request = con.request
      /\ con'.task = con.task /\ con'.upload = con.upload /\ con'.download = con.download
      /\ con'.credit = con.credit /\ con'.queue = con.queue - 1
      /\ con'.drained = con.drained + 1 /\ con'.taken = con.taken /\ con'.got = con.got + 1
  <2>1. /\ con.task = "pump" /\ con.upload = "recv" /\ con.queue > 0 /\ srv' = srv
        /\ s2c' = s2c /\ c2s' = c2s /\ link' = link /\ drain' = drain /\ peer' = peer
        /\ clean' = clean
    BY DEF BackendTakes
  <2>2. /\ con'.entry = con.entry /\ con'.request = con.request /\ con'.task = con.task
        /\ con'.upload = con.upload /\ con'.download = con.download
        /\ con'.credit = con.credit /\ con'.queue = con.queue - 1
        /\ con'.drained = con.drained + 1 /\ con'.taken = con.taken /\ con'.got = con.got + 1
    BY <1>1 DEF Con
  <2> QED BY <2>1, <2>2
<1>3. WssTypeOK'
  <2>1. con.queue - 1 \in Nat /\ con.got + 1 \in Nat /\ con.drained + 1 \in Nat
    BY <1>2, Numbers
  <2>2. con' \in Con
    BY <2>1, <1>1, ZenonT(40) DEF Con
  <2> QED BY <1>2, <2>1, <2>2, Types DEF WssTypeOK
<1>4. UpSum' <= Window
  <2>1. /\ con.queue > 0
    BY <1>2 DEF One
  <2>2. /\ srv'.credit = srv.credit /\ One(srv'.upload = "paid") = One(srv.upload = "paid")
        /\ In(s2c', "Data") = In(s2c, "Data") /\ con'.queue = con.queue - 1
        /\ con'.drained = con.drained + 1 /\ UpGrants' = UpGrants
    BY <1>2 DEF One, UpGrants
  <2>3. srv.credit + One(srv.upload = "paid") + In(s2c, "Data")
          + (con.queue - 1) + (con.drained + 1) + UpGrants <= Window
    BY <2>1, UpTerms
  <2> QED BY <2>2, <2>3 DEF UpSum
<1>5. DownSum' = DownSum
  BY <1>2 DEF DownSum, DownGrants, One
<1>6. ServerPhases' /\ ResetDue'
  BY <1>2, Known, ZenonT(60) DEF ServerPhases, StreamUsed, ResetDue, GivenUp
<1>7. ConnectorPhases'
  BY <1>2, Known, ZenonT(60) DEF ConnectorPhases
<1>8. UploadWhole'
  BY <1>2, Known DEF UploadWhole, UploadKept, RequestOver, One
<1>9. DownloadWhole'
  BY <1>2, Known, ZenonT(60) DEF DownloadWhole, One
<1> QED
  BY <1>3, <1>4, <1>5, <1>6, <1>7, <1>8, <1>9, ZenonT(60) DEF WssInv

LEMMA BackendTakesAndGrantsKeeps ==
    ASSUME WssInv, BackendTakesAndGrants
    PROVE  WssInv'
<1>1. /\ con \in Con
      /\ con' = [con EXCEPT !.queue = @ - 1, !.got = @ + 1, !.drained = 0, !.upload = "update"]
  BY Types DEF BackendTakesAndGrants
<1>2. /\ con.task = "pump" /\ con.upload = "recv" /\ con.queue > 0
      /\ con.drained + 1 >= Threshold /\ srv' = srv /\ s2c' = s2c /\ c2s' = c2s
      /\ link' = link /\ drain' = drain /\ peer' = peer /\ clean' = clean
      /\ con'.entry = con.entry /\ con'.request = con.request /\ con'.task = con.task
      /\ con'.upload = "update" /\ con'.download = con.download /\ con'.credit = con.credit
      /\ con'.queue = con.queue - 1 /\ con'.drained = 0 /\ con'.taken = con.taken
      /\ con'.got = con.got + 1
  <2>1. /\ con.task = "pump" /\ con.upload = "recv" /\ con.queue > 0
        /\ con.drained + 1 >= Threshold /\ srv' = srv /\ s2c' = s2c /\ c2s' = c2s
        /\ link' = link /\ drain' = drain /\ peer' = peer /\ clean' = clean
    BY DEF BackendTakesAndGrants
  <2>2. /\ con'.entry = con.entry /\ con'.request = con.request /\ con'.task = con.task
        /\ con'.upload = "update" /\ con'.download = con.download /\ con'.credit = con.credit
        /\ con'.queue = con.queue - 1 /\ con'.drained = 0 /\ con'.taken = con.taken
        /\ con'.got = con.got + 1
    BY <1>1 DEF Con
  <2> QED BY <2>1, <2>2
<1>3. WssTypeOK'
  <2>1. con.queue - 1 \in Nat /\ con.got + 1 \in Nat /\ 0 \in Nat
    BY <1>2, Numbers
  <2>2. con' \in Con
    BY <2>1, <1>1, ZenonT(40) DEF Con
  <2> QED BY <1>2, <2>1, <2>2, Types DEF WssTypeOK
<1>4. UpSum' <= Window
  <2>1. /\ con.queue > 0 /\ con.drained + 1 >= Threshold
    BY <1>2 DEF One
  <2>2. /\ srv'.credit = srv.credit /\ One(srv'.upload = "paid") = One(srv.upload = "paid")
        /\ In(s2c', "Data") = In(s2c, "Data") /\ con'.queue = con.queue - 1
        /\ con'.drained = 0
    BY <1>2 DEF One
  <2>3. UpGrants' = UpGrants + Threshold
    <3>1. One(con'.upload = "update") + In(c2s', "WindowUpdate") = In(c2s, "WindowUpdate") + 1
      BY <1>2, Numbers DEF One
    <3>2. One(con.upload = "update") + In(c2s, "WindowUpdate") = In(c2s, "WindowUpdate")
      BY <1>2, Numbers DEF One
    <3> QED BY <1>2, <3>1, <3>2, Numbers, OneMore, WindowAssumption DEF UpGrants
  <2>4. srv.credit + One(srv.upload = "paid") + In(s2c, "Data")
          + (con.queue - 1) + 0 + (UpGrants + Threshold) <= Window
    BY <2>1, UpTerms
  <2> QED BY <2>2, <2>3, <2>4 DEF UpSum
<1>5. DownSum' = DownSum
  BY <1>2 DEF DownSum, DownGrants, One
<1>6. ServerPhases' /\ ResetDue'
  BY <1>2, Known, ZenonT(60) DEF ServerPhases, StreamUsed, ResetDue, GivenUp
<1>7. ConnectorPhases'
  BY <1>2, Known, ZenonT(60) DEF ConnectorPhases
<1>8. UploadWhole'
  BY <1>2, Known DEF UploadWhole, UploadKept, RequestOver, One
<1>9. DownloadWhole'
  BY <1>2, Known, ZenonT(60) DEF DownloadWhole, One
<1> QED
  BY <1>3, <1>4, <1>5, <1>6, <1>7, <1>8, <1>9, ZenonT(60) DEF WssInv

LEMMA BackendFailsKeeps ==
    ASSUME WssInv, BackendFails
    PROVE  WssInv'
<1>1. /\ con \in Con /\ con' = [con EXCEPT !.upload = "failed"]
  BY Types DEF BackendFails
<1>2. /\ con.task = "pump" /\ con.upload = "recv" /\ srv' = srv /\ s2c' = s2c /\ c2s' = c2s
      /\ link' = link /\ drain' = drain /\ peer' = peer /\ clean' = clean
      /\ con'.entry = con.entry /\ con'.request = con.request /\ con'.task = con.task
      /\ con'.upload = "failed" /\ con'.download = con.download /\ con'.credit = con.credit
      /\ con'.queue = con.queue /\ con'.drained = con.drained /\ con'.taken = con.taken
      /\ con'.got = con.got
  <2>1. /\ con.task = "pump" /\ con.upload = "recv" /\ srv' = srv /\ s2c' = s2c /\ c2s' = c2s
        /\ link' = link /\ drain' = drain /\ peer' = peer /\ clean' = clean
    BY DEF BackendFails
  <2>2. /\ con'.entry = con.entry /\ con'.request = con.request /\ con'.task = con.task
        /\ con'.upload = "failed" /\ con'.download = con.download /\ con'.credit = con.credit
        /\ con'.queue = con.queue /\ con'.drained = con.drained /\ con'.taken = con.taken
        /\ con'.got = con.got
    BY <1>1 DEF Con
  <2> QED BY <2>1, <2>2
<1>3. WssTypeOK'
  <2>1. con' \in Con
    BY <1>1, ZenonT(40) DEF Con
  <2> QED BY <1>2, <2>1, Types DEF WssTypeOK
<1>4. UpSum' = UpSum /\ DownSum' = DownSum
  BY <1>2 DEF UpSum, UpGrants, DownSum, DownGrants, One
<1>5. ServerPhases' /\ ResetDue'
  BY <1>2, Known, ZenonT(60) DEF ServerPhases, StreamUsed, ResetDue, GivenUp
<1>6. ConnectorPhases'
  BY <1>2, Known, ZenonT(60) DEF ConnectorPhases
<1>7. UploadWhole'
  BY <1>2, Known, ZenonT(60) DEF UploadWhole, UploadKept, RequestOver, One
<1>8. DownloadWhole'
  BY <1>2, Known, ZenonT(60) DEF DownloadWhole, One
<1> QED
  BY <1>3, <1>4, <1>5, <1>6, <1>7, <1>8, ZenonT(60) DEF WssInv

LEMMA BackendUpdateKeeps ==
    ASSUME WssInv, BackendUpdate
    PROVE  WssInv'
<1>1. /\ con \in Con /\ c2s \in Seq(ToServer) /\ c2s' = Append(c2s, "WindowUpdate")
      /\ con' = [con EXCEPT !.upload = "recv"]
  BY Types DEF BackendUpdate, Reply
<1>2. /\ con.task = "pump" /\ con.upload = "update" /\ srv' = srv /\ s2c' = s2c
      /\ link' = link /\ drain' = drain /\ peer' = peer /\ clean' = clean
      /\ con'.entry = con.entry /\ con'.request = con.request /\ con'.task = con.task
      /\ con'.upload = "recv" /\ con'.download = con.download /\ con'.credit = con.credit
      /\ con'.queue = con.queue /\ con'.drained = con.drained /\ con'.taken = con.taken
      /\ con'.got = con.got /\ In(c2s', "ConnectOk") = In(c2s, "ConnectOk")
      /\ In(c2s', "ConnectErr") = In(c2s, "ConnectErr")
      /\ In(c2s', "Data") = In(c2s, "Data")
      /\ In(c2s', "WindowUpdate") = In(c2s, "WindowUpdate") + 1
      /\ In(c2s', "Close") = In(c2s, "Close")
  <2>1. /\ con.task = "pump" /\ con.upload = "update" /\ srv' = srv /\ s2c' = s2c
        /\ link' = link /\ drain' = drain /\ peer' = peer /\ clean' = clean
    BY DEF BackendUpdate, Reply
  <2>2. /\ con'.entry = con.entry /\ con'.request = con.request /\ con'.task = con.task
        /\ con'.upload = "recv" /\ con'.download = con.download /\ con'.credit = con.credit
        /\ con'.queue = con.queue /\ con'.drained = con.drained /\ con'.taken = con.taken
        /\ con'.got = con.got
    BY <1>1 DEF Con
  <2>3. /\ In(c2s', "ConnectOk") = In(c2s, "ConnectOk")
        /\ In(c2s', "ConnectErr") = In(c2s, "ConnectErr")
        /\ In(c2s', "Data") = In(c2s, "Data")
        /\ In(c2s', "WindowUpdate") = In(c2s, "WindowUpdate") + 1
        /\ In(c2s', "Close") = In(c2s, "Close")
    BY <1>1, SentToServer DEF ToServer
  <2> QED BY <2>1, <2>2, <2>3
<1>3. In(c2s, "ConnectOk") > 0 => c2s # <<>>
  BY InEmpty
<1>4. In(c2s, "Close") = 0 /\ In(c2s, "ConnectErr") = 0
  BY <1>2, Known DEF ConnectorPhases
<1>5. WssTypeOK'
  <2>1. con' \in Con
    BY <1>1, ZenonT(40) DEF Con
  <2>2. c2s' \in Seq(ToServer)
    BY <1>1, SentToServer DEF ToServer
  <2> QED BY <1>2, <2>1, <2>2, Types DEF WssTypeOK
<1>6. UpSum' <= Window
  <2>1. /\ srv'.credit = srv.credit /\ One(srv'.upload = "paid") = One(srv.upload = "paid")
        /\ In(s2c', "Data") = In(s2c, "Data") /\ con'.queue = con.queue
        /\ con'.drained = con.drained
    BY <1>2 DEF One
  <2>2. UpGrants' = UpGrants
    <3>1. One(con'.upload = "update") + In(c2s', "WindowUpdate") = In(c2s, "WindowUpdate") + 1
      BY <1>2, Numbers DEF One
    <3>2. One(con.upload = "update") + In(c2s, "WindowUpdate") = In(c2s, "WindowUpdate") + 1
      BY <1>2, Numbers DEF One
    <3> QED BY <1>2, <3>1, <3>2, Numbers, OneMore, WindowAssumption DEF UpGrants
  <2>3. srv.credit + One(srv.upload = "paid") + In(s2c, "Data")
          + con.queue + con.drained + UpGrants <= Window
    BY UpTerms
  <2> QED BY <2>1, <2>2, <2>3 DEF UpSum
<1>7. DownSum' = DownSum
  BY <1>2 DEF DownSum, DownGrants, One
<1>8. ServerPhases' /\ ResetDue'
  BY <1>2, <1>3, <1>4, Known, ZenonT(60) DEF ServerPhases, StreamUsed, ResetDue, GivenUp
<1>9. ConnectorPhases'
  <2>1. /\ c2s' # <<>>
        /\ c2s # <<>> => Head(c2s') = Head(c2s)
        /\ c2s = <<>> => Head(c2s') = "WindowUpdate"
    BY <1>1, SentToServer DEF ToServer
  <2>2. CloseLast(c2s')
    BY <1>1, CloseLastAppend, Parts, ZenonT(60) DEF ConnectorPhases, ToServer
  <2> QED BY <1>2, <1>3, <1>4, <2>1, <2>2, Known, ZenonT(60) DEF ConnectorPhases
<1>10. UploadWhole'
  BY <1>2, <1>3, <1>4, Known, ZenonT(60) DEF UploadWhole, UploadKept, RequestOver, One
<1>11. DownloadWhole'
  BY <1>2, <1>3, <1>4, Known, ZenonT(60) DEF DownloadWhole, One
<1> QED
  BY <1>5, <1>6, <1>7, <1>8, <1>9, <1>10, <1>11, ZenonT(60) DEF WssInv

\* The whole request has been written when the backend is half-closed.
LEMMA BackendHalfCloseKeeps ==
    ASSUME WssInv, BackendHalfClose
    PROVE  WssInv'
<1>1. /\ con \in Con /\ con' = [con EXCEPT !.upload = "eof"]
  BY Types, Ranges DEF BackendHalfClose
<1>2. /\ con.task = "pump" /\ con.upload = "recv" /\ con.queue = 0 /\ con.request = FALSE
      /\ srv' = srv /\ s2c' = s2c /\ c2s' = c2s /\ link' = link /\ drain' = drain
      /\ peer' = peer /\ clean' = clean /\ con'.entry = con.entry
      /\ con'.request = con.request /\ con'.task = con.task /\ con'.upload = "eof"
      /\ con'.download = con.download /\ con'.credit = con.credit /\ con'.queue = con.queue
      /\ con'.drained = con.drained /\ con'.taken = con.taken /\ con'.got = con.got
  <2>1. /\ con.task = "pump" /\ con.upload = "recv" /\ con.queue = 0 /\ con.request = FALSE
        /\ srv' = srv /\ s2c' = s2c /\ c2s' = c2s /\ link' = link /\ drain' = drain
        /\ peer' = peer /\ clean' = clean
    BY Ranges DEF BackendHalfClose
  <2>2. /\ con'.entry = con.entry /\ con'.request = con.request /\ con'.task = con.task
        /\ con'.upload = "eof" /\ con'.download = con.download /\ con'.credit = con.credit
        /\ con'.queue = con.queue /\ con'.drained = con.drained /\ con'.taken = con.taken
        /\ con'.got = con.got
    BY <1>1 DEF Con
  <2> QED BY <2>1, <2>2
<1>3. WssTypeOK'
  <2>1. con' \in Con
    BY <1>1, ZenonT(40) DEF Con
  <2> QED BY <1>2, <2>1, Types DEF WssTypeOK
<1>4. UpSum' = UpSum /\ DownSum' = DownSum
  BY <1>2 DEF UpSum, UpGrants, DownSum, DownGrants, One
<1>5. ServerPhases' /\ ResetDue'
  BY <1>2, Known, ZenonT(60) DEF ServerPhases, StreamUsed, ResetDue, GivenUp
<1>6. ConnectorPhases'
  BY <1>2, Known, ZenonT(60) DEF ConnectorPhases
<1>7. UploadWhole'
  BY <1>2, Known DEF UploadWhole, UploadKept, RequestOver, One
<1>8. DownloadWhole'
  BY <1>2, Known, ZenonT(60) DEF DownloadWhole, One
<1> QED
  BY <1>3, <1>4, <1>5, <1>6, <1>7, <1>8, ZenonT(60) DEF WssInv

LEMMA DrainPendingStepKeeps ==
    ASSUME WssInv, DrainPendingStep
    PROVE  WssInv'
<1>1. /\ srv \in Srv
      /\ srv' = [srv EXCEPT !.answer = IF @ = "pending" THEN "err" ELSE @]
  BY Types DEF DrainPendingStep
<1>2. /\ link = "down" \/ clean' = FALSE
      /\ clean' = FALSE \/ clean' = clean
      /\ drain' = "pending" /\ con' = con /\ s2c' = s2c /\ c2s' = c2s /\ link' = link
      /\ peer' = peer /\ srv'.tunnel = srv.tunnel /\ srv'.inMap = srv.inMap
      /\ srv'.answer = IF srv.answer = "pending" THEN "err" ELSE srv.answer
      /\ srv'.upload = srv.upload /\ srv'.download = srv.download
      /\ srv'.credit = srv.credit /\ srv'.queue = srv.queue /\ srv'.drained = srv.drained
      /\ srv'.taken = srv.taken /\ srv'.got = srv.got
  <2>1. /\ link = "down" \/ clean' = FALSE
        /\ clean' = FALSE \/ clean' = clean
        /\ drain' = "pending" /\ con' = con /\ s2c' = s2c /\ c2s' = c2s /\ link' = link
        /\ peer' = peer
    BY DEF DrainPendingStep
  <2>2. /\ srv'.tunnel = srv.tunnel /\ srv'.inMap = srv.inMap
        /\ srv'.answer = IF srv.answer = "pending" THEN "err" ELSE srv.answer
        /\ srv'.upload = srv.upload /\ srv'.download = srv.download
        /\ srv'.credit = srv.credit /\ srv'.queue = srv.queue /\ srv'.drained = srv.drained
        /\ srv'.taken = srv.taken /\ srv'.got = srv.got
    BY <1>1 DEF Srv
  <2> QED BY <2>1, <2>2
<1>3. WssTypeOK'
  <2>1. srv' \in Srv
    BY <1>1, ZenonT(40) DEF Srv
  <2> QED BY <1>2, <2>1, Types, ZenonT(40) DEF WssTypeOK
<1>4. UpSum' = UpSum /\ DownSum' = DownSum
  BY <1>2 DEF UpSum, UpGrants, DownSum, DownGrants, One
<1>5. ServerPhases' /\ ResetDue'
  BY <1>2, Known, ZenonT(60) DEF ServerPhases, StreamUsed, ResetDue, GivenUp
<1>6. ConnectorPhases'
  BY <1>2, Known, ZenonT(60) DEF ConnectorPhases
<1>7. UploadWhole'
  BY <1>2, Known, ZenonT(60) DEF UploadWhole, UploadKept, RequestOver, One
<1>8. DownloadWhole'
  BY <1>2, Known, ZenonT(60) DEF DownloadWhole, One
<1> QED
  BY <1>3, <1>4, <1>5, <1>6, <1>7, <1>8, ZenonT(60) DEF WssInv

LEMMA DrainStreamsKeeps ==
    ASSUME WssInv, DrainStreams
    PROVE  WssInv'
<1>1. /\ srv \in Srv /\ srv' = [srv EXCEPT !.inMap = FALSE]
  BY Types DEF DrainStreams
<1>2. /\ drain = "pending" /\ drain' = "done" /\ con' = con /\ s2c' = s2c /\ c2s' = c2s
      /\ link' = link /\ peer' = peer /\ clean' = clean /\ srv'.tunnel = srv.tunnel
      /\ srv'.inMap = FALSE /\ srv'.answer = srv.answer /\ srv'.upload = srv.upload
      /\ srv'.download = srv.download /\ srv'.credit = srv.credit /\ srv'.queue = srv.queue
      /\ srv'.drained = srv.drained /\ srv'.taken = srv.taken /\ srv'.got = srv.got
  <2>1. /\ drain = "pending" /\ drain' = "done" /\ con' = con /\ s2c' = s2c /\ c2s' = c2s
        /\ link' = link /\ peer' = peer /\ clean' = clean
    BY DEF DrainStreams
  <2>2. /\ srv'.tunnel = srv.tunnel /\ srv'.inMap = FALSE /\ srv'.answer = srv.answer
        /\ srv'.upload = srv.upload /\ srv'.download = srv.download
        /\ srv'.credit = srv.credit /\ srv'.queue = srv.queue /\ srv'.drained = srv.drained
        /\ srv'.taken = srv.taken /\ srv'.got = srv.got
    BY <1>1 DEF Srv
  <2> QED BY <2>1, <2>2
<1>3. WssTypeOK'
  <2>1. srv' \in Srv
    BY <1>1, ZenonT(40) DEF Srv
  <2> QED BY <1>2, <2>1, Types DEF WssTypeOK
<1>4. UpSum' = UpSum /\ DownSum' = DownSum
  BY <1>2 DEF UpSum, UpGrants, DownSum, DownGrants, One
<1>5. ServerPhases' /\ ResetDue'
  BY <1>2, Known, ZenonT(60) DEF ServerPhases, StreamUsed, ResetDue, GivenUp
<1>6. ConnectorPhases'
  BY <1>2, Known, ZenonT(60) DEF ConnectorPhases
<1>7. UploadWhole'
  BY <1>2, Known, ZenonT(60) DEF UploadWhole, UploadKept, RequestOver, One
<1>8. DownloadWhole'
  BY <1>2, Known, ZenonT(60) DEF DownloadWhole, One
<1> QED
  BY <1>3, <1>4, <1>5, <1>6, <1>7, <1>8, ZenonT(60) DEF WssInv

LEMMA EndLoopsKeeps ==
    ASSUME WssInv, EndLoops
    PROVE  WssInv'
<1>1. /\ link = "up" /\ link' = "down" /\ clean' = FALSE /\ srv' = srv /\ con' = con
      /\ s2c' = s2c /\ c2s' = c2s /\ drain' = drain /\ peer' = peer
  BY DEF EndLoops
<1>2. WssTypeOK'
  BY <1>1, Types, ZenonT(40) DEF WssTypeOK
<1>3. UpSum' = UpSum /\ DownSum' = DownSum
  BY <1>1 DEF UpSum, UpGrants, DownSum, DownGrants, One
<1>4. ServerPhases' /\ ResetDue'
  BY <1>1, Known, ZenonT(60) DEF ServerPhases, StreamUsed, ResetDue, GivenUp
<1>5. ConnectorPhases'
  BY <1>1, Known, ZenonT(60) DEF ConnectorPhases
<1>6. UploadWhole'
  BY <1>1, Known, ZenonT(60) DEF UploadWhole, UploadKept, RequestOver, One
<1>7. DownloadWhole'
  BY <1>1, Known, ZenonT(60) DEF DownloadWhole, One
<1> QED
  BY <1>2, <1>3, <1>4, <1>5, <1>6, <1>7, ZenonT(60) DEF WssInv

\* The end of the connector's session closes the backend ...
LEMMA EndPeerKeeps ==
    ASSUME WssInv, EndPeer, con.entry = TRUE
    PROVE  WssInv'
<1>1. /\ con \in Con
      /\ con' = [con EXCEPT !.entry = FALSE, !.request = FALSE, !.task = IF @ = "done" THEN "done" ELSE "aborted"]
  BY Types DEF EndPeer, Dropped
<1>2. /\ peer' = "down" /\ clean' = FALSE /\ srv' = srv /\ s2c' = s2c /\ c2s' = c2s
      /\ link' = link /\ drain' = drain /\ con'.entry = FALSE /\ con'.request = FALSE
      /\ con'.task = IF con.task = "done" THEN "done" ELSE "aborted"
      /\ con'.upload = con.upload /\ con'.download = con.download
      /\ con'.credit = con.credit /\ con'.queue = con.queue /\ con'.drained = con.drained
      /\ con'.taken = con.taken /\ con'.got = con.got
  <2>1. /\ peer' = "down" /\ clean' = FALSE /\ srv' = srv /\ s2c' = s2c /\ c2s' = c2s
        /\ link' = link /\ drain' = drain
    BY DEF EndPeer, Dropped
  <2>2. /\ con'.entry = FALSE /\ con'.request = FALSE
        /\ con'.task = IF con.task = "done" THEN "done" ELSE "aborted"
        /\ con'.upload = con.upload /\ con'.download = con.download
        /\ con'.credit = con.credit /\ con'.queue = con.queue /\ con'.drained = con.drained
        /\ con'.taken = con.taken /\ con'.got = con.got
    BY <1>1 DEF Con
  <2> QED BY <2>1, <2>2
<1>3. con.task # "none"
  BY Known, ZenonT(60) DEF ConnectorPhases
<1>4. WssTypeOK'
  <2>1. con' \in Con
    BY <1>1, ZenonT(40) DEF Con
  <2> QED BY <1>2, <2>1, Types, ZenonT(40) DEF WssTypeOK
<1>5. UpSum' = UpSum /\ DownSum' = DownSum
  BY <1>2 DEF UpSum, UpGrants, DownSum, DownGrants, One
<1>6. ServerPhases' /\ ResetDue'
  BY <1>2, <1>3, Known, ZenonT(60) DEF ServerPhases, StreamUsed, ResetDue, GivenUp
<1>7. ConnectorPhases'
  BY <1>2, <1>3, Known, ZenonT(60) DEF ConnectorPhases
<1>8. UploadWhole'
  BY <1>2, <1>3, Known, ZenonT(60) DEF UploadWhole, UploadKept, RequestOver, One
<1>9. DownloadWhole'
  BY <1>2, <1>3, Known, ZenonT(60) DEF DownloadWhole, One
<1> QED
  BY <1>4, <1>5, <1>6, <1>7, <1>8, <1>9, ZenonT(60) DEF WssInv

\* ... if there is one.
LEMMA EndPeerIdleKeeps ==
    ASSUME WssInv, EndPeer, con.entry = FALSE
    PROVE  WssInv'
<1>1. /\ peer' = "down" /\ clean' = FALSE /\ srv' = srv /\ con' = con /\ s2c' = s2c
      /\ c2s' = c2s /\ link' = link /\ drain' = drain
  BY DEF EndPeer, Dropped
<1>2. WssTypeOK'
  BY <1>1, Types, ZenonT(40) DEF WssTypeOK
<1>3. UpSum' = UpSum /\ DownSum' = DownSum
  BY <1>1 DEF UpSum, UpGrants, DownSum, DownGrants, One
<1>4. ServerPhases' /\ ResetDue'
  BY <1>1, Known, ZenonT(60) DEF ServerPhases, StreamUsed, ResetDue, GivenUp
<1>5. ConnectorPhases'
  BY <1>1, Known, ZenonT(60) DEF ConnectorPhases
<1>6. UploadWhole'
  BY <1>1, Known, ZenonT(60) DEF UploadWhole, UploadKept, RequestOver, One
<1>7. DownloadWhole'
  BY <1>1, Known, ZenonT(60) DEF DownloadWhole, One
<1> QED
  BY <1>2, <1>3, <1>4, <1>5, <1>6, <1>7, ZenonT(60) DEF WssInv

-----------------------------------------------------------------------------
(* The invariant.                                                          *)

LEMMA WssInitInv == Init => WssInv
<1> SUFFICES ASSUME Init PROVE WssInv
  OBVIOUS
<1>1. Window \in Nat /\ Threshold \in Nat
  BY WindowAssumption
<1>2. srv \in Srv /\ con \in Con
  BY <1>1 DEF Init, Srv, Con
<1>3. WssTypeOK
  BY <1>2 DEF Init, WssTypeOK
<1>4. \A m : In(s2c, m) = 0 /\ In(c2s, m) = 0
  BY InEmpty DEF Init
<1>5. /\ In(s2c, "Data") = 0 /\ In(s2c, "Connect") = 0 /\ In(s2c, "WindowUpdate") = 0
      /\ In(s2c, "Close") = 0 /\ In(s2c, "Reset") = 0
      /\ In(c2s, "Data") = 0 /\ In(c2s, "ConnectOk") = 0 /\ In(c2s, "WindowUpdate") = 0
      /\ In(c2s, "Close") = 0 /\ In(c2s, "ConnectErr") = 0
  BY <1>4
<1>6. CloseLast(s2c) /\ CloseLast(c2s)
  BY DEF Init, CloseLast
<1>7. UpSum <= Window /\ DownSum <= Window
  <2>1. Threshold * 0 = 0
    BY <1>1
  <2>2. UpGrants = 0 /\ DownGrants = 0
    BY <1>5, <2>1 DEF UpGrants, DownGrants, One, Init
  <2> QED BY <1>1, <1>5, <2>2 DEF UpSum, DownSum, One, Init
<1>8. ServerPhases
  BY <1>5 DEF Init, ServerPhases, StreamUsed
<1>9. ConnectorPhases
  BY <1>5, <1>6 DEF Init, ConnectorPhases
<1>10. UploadWhole
  BY <1>5, <1>6 DEF Init, UploadWhole, UploadKept, RequestOver, One
<1>11. DownloadWhole
  BY <1>5 DEF Init, DownloadWhole, One
<1>12. ResetDue
  BY DEF Init, ResetDue, GivenUp
<1> QED
  BY <1>3, <1>7, <1>8, <1>9, <1>10, <1>11, <1>12, ZenonT(60) DEF WssInv

LEMMA StutterKeeps == ASSUME WssInv, UNCHANGED vars PROVE WssInv'
<1>1. /\ srv' = srv /\ con' = con /\ s2c' = s2c /\ c2s' = c2s /\ link' = link
      /\ drain' = drain /\ peer' = peer /\ clean' = clean
  BY DEF vars
<1>2. WssTypeOK'
  BY <1>1, Types DEF WssTypeOK
<1>3. UpSum' = UpSum /\ DownSum' = DownSum
  BY <1>1 DEF UpSum, UpGrants, DownSum, DownGrants
<1>4. ServerPhases'
  BY <1>1, Parts, ZenonT(60) DEF ServerPhases, StreamUsed
<1>5. ConnectorPhases'
  BY <1>1, Parts, ZenonT(60) DEF ConnectorPhases
<1>6. UploadWhole'
  BY <1>1, Parts, ZenonT(60) DEF UploadWhole, UploadKept, RequestOver
<1>7. DownloadWhole'
  BY <1>1, Parts, ZenonT(60) DEF DownloadWhole
<1>8. ResetDue'
  BY <1>1, Parts, ZenonT(60) DEF ResetDue, GivenUp
<1> QED
  BY <1>2, <1>3, <1>4, <1>5, <1>6, <1>7, <1>8, Parts, ZenonT(60) DEF WssInv

LEMMA WssNextInv == ASSUME WssInv, [Next]_vars PROVE WssInv'
<1>0. link \in {"up", "down"} /\ peer \in {"up", "down"} /\ clean \in BOOLEAN
  BY Types
<1>1. CASE Tunnel
  <2>1. CASE SendAbandonReset
    BY <1>0, <2>1, AbandonResetKeeps, AbandonDownKeeps
  <2> QED
    BY <1>1, <2>1, RegisterPendingKeeps, RegisterStreamKeeps, SendConnectKeeps,
       ConnectNotSentKeeps, ConnectSucceededKeeps, ConnectFailedKeeps, ConnectTimeoutKeeps,
       FinishTunnelKeeps DEF Tunnel
<1>2. CASE Upload
  <2>1. CASE UploadRead
    <3>1. ReadPayload \/ ReadEof \/ ReadAbort
      BY <2>1 DEF UploadRead, ReadPayload, ReadEof, ReadAbort
    <3> QED BY <3>1, ReadPayloadKeeps, ReadEofKeeps, ReadAbortKeeps
  <2>2. CASE UploadAcquire
    <3>1. UploadPays \/ UploadStops
      BY <2>2 DEF UploadAcquire, UploadPays, UploadStops
    <3> QED BY <3>1, UploadPaysKeeps, UploadStopsKeeps
  <2>3. CASE UploadSend
    <3>1. link = "down" => UploadStops
      BY <2>3 DEF UploadSend, Send, SendFails, UploadStops
    <3> QED BY <1>0, <2>3, <3>1, UploadSendKeeps, UploadStopsKeeps
  <2>4. CASE UploadEof
    <3>1. link = "down" => UploadStops
      BY <2>4 DEF UploadEof, TrySend, Send, SendFails, UploadStops
    <3> QED BY <1>0, <2>4, <3>1, UploadEofKeeps, UploadStopsKeeps
  <2>5. CASE UploadAbort
    BY <1>0, <2>5, UploadAbortKeeps, UploadAbortDownKeeps
  <2> QED BY <1>2, <2>1, <2>2, <2>3, <2>4, <2>5 DEF Upload
<1>3. CASE Download
  <2>1. CASE DownloadWrite
    <3>1. WritePayload \/ WriteAndGrant \/ WriteFails
      BY <2>1 DEF DownloadWrite, WritePayload, WriteAndGrant, WriteFails
    <3> QED BY <3>1, WritePayloadKeeps, WriteAndGrantKeeps, WriteFailsKeeps
  <2>2. CASE DownloadUpdate
    BY <1>0, <2>2, DownloadUpdateKeeps, DownloadUpdateFailsKeeps
  <2>3. CASE DownloadReset
    BY <1>0, <2>3, DownloadResetKeeps, DownloadResetDownKeeps
  <2> QED BY <1>3, <2>1, <2>2, <2>3, DownloadEndKeeps DEF Download
<1>4. CASE ServerReceive
  <2>1. Head(c2s) \in ToServer
    <3>1. c2s \in Seq(ToServer) /\ c2s # <<>>
      BY <1>4, Types DEF ServerReceive
    <3> QED BY <3>1
  <2>2. srv.inMap = TRUE \/ srv.inMap = FALSE
    BY Ranges
  <2> QED
    BY <1>4, <2>1, <2>2, ConnectOkArrivesKeeps, ConnectErrArrivesKeeps, ResponseArrivesKeeps,
       ResponseLateKeeps, CreditArrivesKeeps, CreditLateKeeps, ResponseEndsKeeps DEF ToServer
<1>5. CASE ConnectorReceive
  <2>1. Head(s2c) \in ToConnector \ {"Connect"}
    <3>1. s2c \in Seq(ToConnector) /\ s2c # <<>> /\ Head(s2c) # "Connect"
      BY <1>5, Types DEF ConnectorReceive
    <3> QED BY <3>1
  <2>2. (con.entry = TRUE \/ con.entry = FALSE) /\ (con.request = TRUE \/ con.request = FALSE)
    BY Ranges
  <2> QED
    BY <1>5, <2>1, <2>2, RequestArrivesKeeps, RequestAfterEndKeeps, RequestIgnoredKeeps,
       RequestEndsKeeps, CloseIgnoredKeeps, ResetArrivesKeeps, ResetIgnoredKeeps,
       GrantArrivesKeeps, GrantIgnoredKeeps DEF ToConnector
<1>6. CASE ConnectorConnect
  <2>1. ConnectDials \/ ConnectRefused
    BY <1>6 DEF ConnectorConnect, ConnectDials, ConnectRefused
  <2> QED BY <2>1, ConnectDialsKeeps, ConnectRefusedKeeps
<1>7. CASE Handler
  <2>1. Dial => DialAccepted \/ DialRefused
    BY DEF Dial, DialAccepted, DialRefused
  <2> QED
    BY <1>0, <1>7, <2>1, DialAcceptedKeeps, DialRefusedKeeps, ReplyErrKeeps, ReplyErrDownKeeps,
       ReplyOkKeeps DEF Handler
<1>8. CASE BackendDownload
  <2>1. BackendRead => BackendPayload \/ BackendEnds
    BY DEF BackendRead, BackendPayload, BackendEnds
  <2> QED
    BY <1>8, <2>1, BackendPayloadKeeps, BackendEndsKeeps, BackendAcquireKeeps, BackendSendKeeps,
       BackendCloseKeeps DEF BackendDownload
<1>9. CASE BackendUpload
  <2>1. BackendWrite => BackendTakes \/ BackendTakesAndGrants \/ BackendFails
    BY DEF BackendWrite, BackendTakes, BackendTakesAndGrants, BackendFails
  <2> QED
    BY <1>9, <2>1, BackendTakesKeeps, BackendTakesAndGrantsKeeps, BackendFailsKeeps,
       BackendUpdateKeeps, BackendHalfCloseKeeps DEF BackendUpload
<1>10. CASE Sessions
  <2>1. Kick \/ UnregisterManager => DrainPendingStep
    BY <1>0 DEF Kick, UnregisterManager, DrainPending, DrainPendingStep
  <2>2. con.entry = TRUE \/ con.entry = FALSE
    BY Ranges
  <2> QED
    BY <1>10, <2>1, <2>2, DrainPendingStepKeeps, DrainStreamsKeeps, EndLoopsKeeps, EndPeerKeeps,
       EndPeerIdleKeeps DEF Sessions
<1>11. CASE Over \/ UNCHANGED vars
  BY <1>11, StutterKeeps DEF Over
<1> QED
  BY <1>1, <1>2, <1>3, <1>4, <1>5, <1>6, <1>7, <1>8, <1>9, <1>10, <1>11 DEF Next

LEMMA WssInvHolds == Spec => []WssInv
<1> QED BY WssInitInv, WssNextInv, PTL DEF Spec

\* Neither side ever has more than a window queued, so handle_message never resets the
\* peer for it, and a backend that is still being dialled has been sent nothing: the
\* branches for early data and for an early Close in stream_handler are not taken.
\* For every window, threshold and channel capacity.
THEOREM PeersAlwaysBehave == Spec => []PeersBehave
<1>1. ASSUME WssInv PROVE PeersBehave
  <2>1. Window \in Nat
    BY WindowAssumption
  <2>2. One(srv.upload = "paid") \in Nat /\ One(con.download = "paid") \in Nat
    BY DEF One
  <2>3. srv.queue <= Window
    <3>1. DownSum <= Window
      BY <1>1, ZenonT(60) DEF WssInv
    <3> QED BY <1>1, <2>1, <2>2, <3>1, Ranges, Grants DEF DownSum
  <2>4. con.queue <= Window
    <3>1. UpSum <= Window
      BY <1>1, ZenonT(60) DEF WssInv
    <3> QED BY <1>1, <2>1, <2>2, <3>1, Ranges, Grants DEF UpSum
  <2>5. con.task = "dialing" => con.request /\ con.queue = 0
    BY <1>1, Parts, ZenonT(60) DEF ConnectorPhases
  <2> QED BY <2>3, <2>4, <2>5 DEF PeersBehave
<1> QED BY <1>1, WssInvHolds, PTL

\* Neither direction is cut short: a response that nothing interrupted is written to the
\* client to its last payload although Close removes the entry before that, and the
\* backend is half-closed only when the whole request has been written to it.
THEOREM NothingIsTruncated == Spec => []NoTruncation
<1>1. ASSUME WssInv PROVE NoTruncation
  <2>1. con.upload = "eof" => con.got = srv.taken
    BY <1>1, Parts, ZenonT(60) DEF UploadWhole
  <2>2. ASSUME clean, srv.tunnel = "done", srv.answer = "ok" PROVE srv.got = con.taken
    <3>1. srv.queue = 0 /\ con.download = "close" /\ In(c2s, "Data") = 0
      BY <1>1, <2>2, Parts, ZenonT(60) DEF DownloadWhole
    <3>2. con.taken = One(con.download \in {"have", "paid"}) + In(c2s, "Data") + srv.queue + srv.got
      BY <1>1, <2>2, Parts, ZenonT(60) DEF DownloadWhole
    <3> QED BY <1>1, <3>1, <3>2, Ranges DEF One
  <2> QED BY <2>1, <2>2 DEF NoTruncation
<1> QED BY <1>1, WssInvHolds, PTL

\* A tunnel that the server has given up leaves no backend behind while the sessions
\* last: when the connector has read the server's messages, the Reset was among them.
THEOREM NoBackendIsOrphaned == Spec => []NoOrphanBackend
<1>1. ASSUME WssInv PROVE NoOrphanBackend
  <2>1. s2c = <<>> => In(s2c, "Reset") = 0
    BY InEmpty
  <2> QED BY <1>1, <2>1, Parts DEF ResetDue, GivenUp, NoOrphanBackend
<1> QED BY <1>1, WssInvHolds, PTL

=============================================================================
