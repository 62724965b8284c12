--------------------------- MODULE WssServerProofs ---------------------------
(***************************************************************************)
(* What is known of a channel after a message is sent or received, what    *)
(* the invariant of WssTunnel says of a state, and that the steps of the   *)
(* server preserve it: the tunnel, its two pumps and the read loop.        *)
(***************************************************************************)
EXTENDS WssInvariant, FiniteSetTheorems, TLAPS


-----------------------------------------------------------------------------
(* Counting messages in a channel.                                         *)

LEMMA InFinite ==
    ASSUME NEW S, NEW q \in Seq(S), NEW m
    PROVE  IsFiniteSet({i \in 1 .. Len(q) : q[i] = m}) /\ In(q, m) \in Nat
<1>1. IsFiniteSet(1 .. Len(q))
  BY FS_Interval
<1>2. {i \in 1 .. Len(q) : q[i] = m} \in SUBSET (1 .. Len(q))
  OBVIOUS
<1> QED
  BY <1>1, <1>2, FS_Subset, FS_CardinalityType DEF In

LEMMA InEmpty == \A m : In(<<>>, m) = 0
<1> TAKE m
<1>1. {i \in 1 .. Len(<<>>) : <<>>[i] = m} = {}
  OBVIOUS
<1> QED
  BY <1>1, FS_EmptySet DEF In

LEMMA InAppend ==
    ASSUME NEW S, NEW q \in Seq(S), NEW x \in S, NEW m
    PROVE  In(Append(q, x), m) = IF x = m THEN In(q, m) + 1 ELSE In(q, m)
<1> DEFINE P == {i \in 1 .. Len(q) : q[i] = m}
           R == {i \in 1 .. Len(Append(q, x)) : Append(q, x)[i] = m}
           n == Len(q) + 1
<1>1. IsFiniteSet(P) /\ Cardinality(P) \in Nat
  BY InFinite DEF In
<1>5. n \notin P
  OBVIOUS
<1>2. Len(Append(q, x)) = n /\ Append(q, x)[n] = x /\ \A i \in 1 .. Len(q) : Append(q, x)[i] = q[i]
  OBVIOUS
<1>3. CASE x = m
  <2>1. R = P \cup {n}
    BY <1>2, <1>3
  <2>2. Cardinality(P \cup {n}) = Cardinality(P) + 1
    BY <1>1, <1>5, FS_AddElement
  <2> QED BY <1>3, <2>1, <2>2 DEF In
<1>4. CASE x # m
  <2>1. R = P
    BY <1>2, <1>4
  <2>2. In(Append(q, x), m) = In(q, m) /\ In(q, m) \in Nat
    BY <1>1, <2>1 DEF In
  <2> QED BY <1>4, <2>2
<1> QED
  BY <1>3, <1>4

LEMMA InTail ==
    ASSUME NEW S, NEW q \in Seq(S), q # <<>>, NEW m
    PROVE  In(q, m) = IF Head(q) = m THEN In(Tail(q), m) + 1 ELSE In(Tail(q), m)
<1> DEFINE P == {i \in 1 .. Len(q) : q[i] = m}
           T == {i \in 1 .. Len(Tail(q)) : Tail(q)[i] = m}
           f == [i \in T |-> i + 1]
<1>1. Tail(q) \in Seq(S) /\ Len(Tail(q)) = Len(q) - 1 /\ Len(q) \in Nat \ {0}
      /\ \A i \in 1 .. Len(q) - 1 : Tail(q)[i] = q[i + 1]
  OBVIOUS
<1>2. Head(q) = q[1]
  OBVIOUS
<1>3. IsFiniteSet(T) /\ Cardinality(T) \in Nat
  BY <1>1, InFinite DEF In
<1>4. IsFiniteSet(P) /\ Cardinality(P) \in Nat
  BY InFinite DEF In
<1>5. f \in Bijection(T, P \ {1})
  <2>1. \A i \in T : i + 1 \in P \ {1}
    BY <1>1
  <2>2. f \in [T -> P \ {1}]
    BY <2>1
  <2>3. \A i, j \in DOMAIN f : f[i] = f[j] => i = j
    BY <1>1
  <2>4. \A j \in P \ {1} : j - 1 \in T /\ f[j - 1] = j
    BY <1>1
  <2>5. f \in Surjection(T, P \ {1})
    BY <2>2, <2>4 DEF Surjection
  <2> QED BY <2>2, <2>3, <2>5 DEF Bijection, Injection, IsInjective
<1>6. Cardinality(P \ {1}) = Cardinality(T)
  <2> HIDE DEF P, T, f
  <2>1. ExistsBijection(T, P \ {1})
    BY <1>5 DEF ExistsBijection
  <2> QED BY <1>3, <2>1, FS_Bijection
<1>7. Cardinality(P \ {1}) = IF 1 \in P THEN Cardinality(P) - 1 ELSE Cardinality(P)
  BY <1>4, FS_RemoveElement
<1>8. 1 \in P <=> Head(q) = m
  BY <1>1, <1>2
<1> HIDE DEF P, T
<1>9. Cardinality(P) = IF Head(q) = m THEN Cardinality(T) + 1 ELSE Cardinality(T)
  BY <1>3, <1>4, <1>6, <1>7, <1>8
<1> QED
  BY <1>9 DEF P, T, In

LEMMA CloseLastAppend ==
    ASSUME NEW S, NEW q \in Seq(S), NEW x \in S, CloseLast(q), x = "Data" => In(q, "Close") = 0
    PROVE  CloseLast(Append(q, x))
<1>1. x = "Data" => \A i \in 1 .. Len(q) : q[i] # "Close"
  <2> SUFFICES ASSUME x = "Data", NEW i \in 1 .. Len(q), q[i] = "Close" PROVE FALSE
    OBVIOUS
  <2>1. IsFiniteSet({k \in 1 .. Len(q) : q[k] = "Close"})
    BY InFinite
  <2>2. {k \in 1 .. Len(q) : q[k] = "Close"} = {}
    BY <2>1, FS_EmptySet DEF In
  <2> QED BY <2>2
<1> QED
  BY <1>1 DEF CloseLast

LEMMA CloseLastTail ==
    ASSUME NEW S, NEW q \in Seq(S), q # <<>>, CloseLast(q)
    PROVE  /\ CloseLast(Tail(q))
           /\ Head(q) = "Close" => In(Tail(q), "Data") = 0
<1>1. Len(Tail(q)) = Len(q) - 1 /\ Len(q) \in Nat \ {0}
      /\ \A i \in 1 .. Len(q) - 1 : Tail(q)[i] = q[i + 1]
  OBVIOUS
<1>2. CloseLast(Tail(q))
  BY <1>1 DEF CloseLast
<1>3. ASSUME Head(q) = "Close" PROVE In(Tail(q), "Data") = 0
  <2>1. \A i \in 1 .. Len(Tail(q)) : Tail(q)[i] # "Data"
    BY <1>1, <1>3 DEF CloseLast
  <2>2. {i \in 1 .. Len(Tail(q)) : Tail(q)[i] = "Data"} = {}
    BY <2>1
  <2> QED BY <2>2, FS_EmptySet DEF In
<1> QED
  BY <1>2, <1>3

\* A message is sent: what the invariant says of a channel after it.
LEMMA SentToConnector ==
    ASSUME s2c \in Seq(ToConnector), NEW x \in ToConnector, s2c' = Append(s2c, x)
    PROVE  /\ s2c' \in Seq(ToConnector) /\ s2c' # <<>>
           /\ Head(s2c') = IF s2c = <<>> THEN x ELSE Head(s2c)
           /\ In(s2c', "Connect") = IF x = "Connect" THEN In(s2c, "Connect") + 1 ELSE In(s2c, "Connect")
           /\ In(s2c', "Data") = IF x = "Data" THEN In(s2c, "Data") + 1 ELSE In(s2c, "Data")
           /\ In(s2c', "WindowUpdate") = IF x = "WindowUpdate" THEN In(s2c, "WindowUpdate") + 1 ELSE In(s2c, "WindowUpdate")
           /\ In(s2c', "Close") = IF x = "Close" THEN In(s2c, "Close") + 1 ELSE In(s2c, "Close")
           /\ In(s2c', "Reset") = IF x = "Reset" THEN In(s2c, "Reset") + 1 ELSE In(s2c, "Reset")
<1>1. s2c' \in Seq(ToConnector) /\ s2c' # <<>> /\ Head(s2c') = IF s2c = <<>> THEN x ELSE Head(s2c)
  OBVIOUS
<1>2. \A m : In(s2c', m) = IF x = m THEN In(s2c, m) + 1 ELSE In(s2c, m)
  BY InAppend
<1> QED BY <1>1, <1>2, ZenonT(40)

LEMMA SentToServer ==
    ASSUME c2s \in Seq(ToServer), NEW x \in ToServer, c2s' = Append(c2s, x)
    PROVE  /\ c2s' \in Seq(ToServer) /\ c2s' # <<>>
           /\ Head(c2s') = IF c2s = <<>> THEN x ELSE Head(c2s)
           /\ In(c2s', "ConnectOk") = IF x = "ConnectOk" THEN In(c2s, "ConnectOk") + 1 ELSE In(c2s, "ConnectOk")
           /\ In(c2s', "ConnectErr") = IF x = "ConnectErr" THEN In(c2s, "ConnectErr") + 1 ELSE In(c2s, "ConnectErr")
           /\ In(c2s', "Data") = IF x = "Data" THEN In(c2s, "Data") + 1 ELSE In(c2s, "Data")
           /\ In(c2s', "WindowUpdate") = IF x = "WindowUpdate" THEN In(c2s, "WindowUpdate") + 1 ELSE In(c2s, "WindowUpdate")
           /\ In(c2s', "Close") = IF x = "Close" THEN In(c2s, "Close") + 1 ELSE In(c2s, "Close")
<1>1. c2s' \in Seq(ToServer) /\ c2s' # <<>> /\ Head(c2s') = IF c2s = <<>> THEN x ELSE Head(c2s)
  OBVIOUS
<1>2. \A m : In(c2s', m) = IF x = m THEN In(c2s, m) + 1 ELSE In(c2s, m)
  BY InAppend
<1> QED BY <1>1, <1>2, ZenonT(40)

\* A message is received.
LEMMA ReceivedByConnector ==
    ASSUME s2c \in Seq(ToConnector), s2c # <<>>, s2c' = Tail(s2c)
    PROVE  /\ s2c' \in Seq(ToConnector) /\ Head(s2c) \in ToConnector
           /\ In(s2c', "Connect") = IF Head(s2c) = "Connect" THEN In(s2c, "Connect") - 1 ELSE In(s2c, "Connect")
           /\ In(s2c', "Data") = IF Head(s2c) = "Data" THEN In(s2c, "Data") - 1 ELSE In(s2c, "Data")
           /\ In(s2c', "WindowUpdate") = IF Head(s2c) = "WindowUpdate" THEN In(s2c, "WindowUpdate") - 1 ELSE In(s2c, "WindowUpdate")
           /\ In(s2c', "Close") = IF Head(s2c) = "Close" THEN In(s2c, "Close") - 1 ELSE In(s2c, "Close")
           /\ In(s2c', "Reset") = IF Head(s2c) = "Reset" THEN In(s2c, "Reset") - 1 ELSE In(s2c, "Reset")
           /\ Head(s2c) = "Connect" => In(s2c, "Connect") > 0
           /\ Head(s2c) = "Data" => In(s2c, "Data") > 0
           /\ Head(s2c) = "WindowUpdate" => In(s2c, "WindowUpdate") > 0
           /\ Head(s2c) = "Close" => In(s2c, "Close") > 0
           /\ Head(s2c) = "Reset" => In(s2c, "Reset") > 0
<1>1. s2c' \in Seq(ToConnector) /\ Head(s2c) \in ToConnector
  OBVIOUS
<1>2. ASSUME NEW m
      PROVE  /\ In(s2c', m) = IF Head(s2c) = m THEN In(s2c, m) - 1 ELSE In(s2c, m)
             /\ Head(s2c) = m => In(s2c, m) > 0
  <2>1. In(s2c, m) \in Nat /\ In(s2c', m) \in Nat
    BY <1>1, InFinite
  <2>2. In(s2c, m) = IF Head(s2c) = m THEN In(s2c', m) + 1 ELSE In(s2c', m)
    BY InTail
  <2> QED BY <2>1, <2>2
<1> QED BY <1>1, <1>2, ZenonT(40)

LEMMA ReceivedByServer ==
    ASSUME c2s \in Seq(ToServer), c2s # <<>>, c2s' = Tail(c2s)
    PROVE  /\ c2s' \in Seq(ToServer) /\ Head(c2s) \in ToServer
           /\ In(c2s', "ConnectOk") = IF Head(c2s) = "ConnectOk" THEN In(c2s, "ConnectOk") - 1 ELSE In(c2s, "ConnectOk")
           /\ In(c2s', "ConnectErr") = IF Head(c2s) = "ConnectErr" THEN In(c2s, "ConnectErr") - 1 ELSE In(c2s, "ConnectErr")
           /\ In(c2s', "Data") = IF Head(c2s) = "Data" THEN In(c2s, "Data") - 1 ELSE In(c2s, "Data")
           /\ In(c2s', "WindowUpdate") = IF Head(c2s) = "WindowUpdate" THEN In(c2s, "WindowUpdate") - 1 ELSE In(c2s, "WindowUpdate")
           /\ In(c2s', "Close") = IF Head(c2s) = "Close" THEN In(c2s, "Close") - 1 ELSE In(c2s, "Close")
           /\ Head(c2s) = "ConnectOk" => In(c2s, "ConnectOk") > 0
           /\ Head(c2s) = "ConnectErr" => In(c2s, "ConnectErr") > 0
           /\ Head(c2s) = "Data" => In(c2s, "Data") > 0
           /\ Head(c2s) = "WindowUpdate" => In(c2s, "WindowUpdate") > 0
           /\ Head(c2s) = "Close" => In(c2s, "Close") > 0
<1>1. c2s' \in Seq(ToServer) /\ Head(c2s) \in ToServer
  OBVIOUS
<1>2. ASSUME NEW m
      PROVE  /\ In(c2s', m) = IF Head(c2s) = m THEN In(c2s, m) - 1 ELSE In(c2s, m)
             /\ Head(c2s) = m => In(c2s, m) > 0
  <2>1. In(c2s, m) \in Nat /\ In(c2s', m) \in Nat
    BY <1>1, InFinite
  <2>2. In(c2s, m) = IF Head(c2s) = m THEN In(c2s', m) + 1 ELSE In(c2s', m)
    BY InTail
  <2> QED BY <2>1, <2>2
<1> QED BY <1>1, <1>2, ZenonT(40)

-----------------------------------------------------------------------------
(* What the invariant says of the parts of the state.                      *)

LEMMA Types ==
    ASSUME WssInv
    PROVE  /\ srv \in Srv /\ con \in Con
           /\ s2c \in Seq(ToConnector) /\ c2s \in Seq(ToServer)
           /\ link \in {"up", "down"} /\ peer \in {"up", "down"}
           /\ drain \in {"no", "pending", "done"} /\ clean \in BOOLEAN
BY DEF WssInv, WssTypeOK

LEMMA Parts ==
    ASSUME WssInv
    PROVE  /\ UpSum <= Window /\ DownSum <= Window
           /\ ServerPhases /\ ConnectorPhases /\ UploadWhole /\ DownloadWhole /\ ResetDue
BY DEF WssInv

LEMMA Ranges ==
    ASSUME WssInv
    PROVE  /\ srv.tunnel \in {"reserved", "registering", "connecting", "waiting", "open",
                              "abandon", "done"}
           /\ srv.inMap \in BOOLEAN
           /\ srv.answer \in {"none", "pending", "ok", "err"}
           /\ srv.upload \in {"off", "read", "have", "paid", "eof", "abort", "done"}
           /\ srv.download \in {"off", "recv", "update", "reset", "done"}
           /\ srv.credit \in Nat /\ srv.queue \in Nat /\ srv.drained \in Nat
           /\ srv.taken \in Nat /\ srv.got \in Nat
           /\ con.entry \in BOOLEAN /\ con.request \in BOOLEAN
           /\ con.task \in {"none", "dialing", "refused", "accepted", "pump", "done", "aborted"}
           /\ con.upload \in {"off", "recv", "update", "eof", "failed"}
           /\ con.download \in {"off", "read", "have", "paid", "close"}
           /\ con.credit \in Nat /\ con.queue \in Nat /\ con.drained \in Nat
           /\ con.taken \in Nat /\ con.got \in Nat
           /\ In(s2c, "Connect") \in Nat /\ In(s2c, "Data") \in Nat
           /\ In(s2c, "WindowUpdate") \in Nat /\ In(s2c, "Close") \in Nat
           /\ In(s2c, "Reset") \in Nat
           /\ In(c2s, "ConnectOk") \in Nat /\ In(c2s, "ConnectErr") \in Nat
           /\ In(c2s, "Data") \in Nat /\ In(c2s, "WindowUpdate") \in Nat
           /\ In(c2s, "Close") \in Nat
<1>1. \A m : In(s2c, m) \in Nat /\ In(c2s, m) \in Nat
  BY InFinite, Types
<1>2. srv \in Srv /\ con \in Con
  BY Types
<1> QED BY <1>1, <1>2 DEF Srv, Con

LEMMA Known ==
    ASSUME WssInv
    PROVE  /\ srv.tunnel \in {"reserved", "registering", "connecting", "waiting", "open",
                              "abandon", "done"}
           /\ srv.inMap \in BOOLEAN
           /\ srv.answer \in {"none", "pending", "ok", "err"}
           /\ srv.upload \in {"off", "read", "have", "paid", "eof", "abort", "done"}
           /\ srv.download \in {"off", "recv", "update", "reset", "done"}
           /\ srv.credit \in Nat /\ srv.queue \in Nat /\ srv.drained \in Nat
           /\ srv.taken \in Nat /\ srv.got \in Nat
           /\ con.entry \in BOOLEAN /\ con.request \in BOOLEAN
           /\ con.task \in {"none", "dialing", "refused", "accepted", "pump", "done", "aborted"}
           /\ con.upload \in {"off", "recv", "update", "eof", "failed"}
           /\ con.download \in {"off", "read", "have", "paid", "close"}
           /\ con.credit \in Nat /\ con.queue \in Nat /\ con.drained \in Nat
           /\ con.taken \in Nat /\ con.got \in Nat
           /\ In(s2c, "Connect") \in Nat /\ In(s2c, "Data") \in Nat
           /\ In(s2c, "WindowUpdate") \in Nat /\ In(s2c, "Close") \in Nat
           /\ In(s2c, "Reset") \in Nat
           /\ In(c2s, "ConnectOk") \in Nat /\ In(c2s, "ConnectErr") \in Nat
           /\ In(c2s, "Data") \in Nat /\ In(c2s, "WindowUpdate") \in Nat
           /\ In(c2s, "Close") \in Nat
           /\ UpSum <= Window /\ DownSum <= Window
           /\ ServerPhases /\ ConnectorPhases /\ UploadWhole /\ DownloadWhole /\ ResetDue
BY Ranges, Parts

LEMMA Numbers ==
    ASSUME WssInv
    PROVE  /\ srv.credit \in Nat /\ srv.queue \in Nat /\ srv.drained \in Nat
           /\ srv.taken \in Nat /\ srv.got \in Nat
           /\ con.credit \in Nat /\ con.queue \in Nat /\ con.drained \in Nat
           /\ con.taken \in Nat /\ con.got \in Nat
           /\ In(s2c, "Data") \in Nat /\ In(s2c, "WindowUpdate") \in Nat
           /\ In(c2s, "Data") \in Nat /\ In(c2s, "WindowUpdate") \in Nat
BY Ranges

LEMMA Grants == ASSUME WssInv PROVE UpGrants \in Nat /\ DownGrants \in Nat
<1>1. Threshold \in Nat
  BY WindowAssumption
<1>2. One(con.upload = "update") + In(c2s, "WindowUpdate") \in Nat
  BY Numbers DEF One
<1>3. One(srv.download = "update") + In(s2c, "WindowUpdate") \in Nat
  BY Numbers DEF One
<1> QED BY <1>1, <1>2, <1>3 DEF UpGrants, DownGrants

\* The terms of the two sums.
LEMMA UpTerms ==
    ASSUME WssInv
    PROVE  /\ srv.credit \in Nat /\ One(srv.upload = "paid") \in Nat /\ In(s2c, "Data") \in Nat
           /\ con.queue \in Nat /\ con.drained \in Nat /\ UpGrants \in Nat
           /\ Window \in Nat /\ Threshold \in Nat
           /\ srv.credit + One(srv.upload = "paid") + In(s2c, "Data")
                + con.queue + con.drained + UpGrants <= Window
<1>1. UpSum <= Window
  BY Parts
<1> QED BY <1>1, Numbers, Grants, WindowAssumption DEF UpSum, One

LEMMA DownTerms ==
    ASSUME WssInv
    PROVE  /\ con.credit \in Nat /\ One(con.download = "paid") \in Nat /\ In(c2s, "Data") \in Nat
           /\ srv.queue \in Nat /\ srv.drained \in Nat /\ DownGrants \in Nat
           /\ Window \in Nat /\ Threshold \in Nat
           /\ con.credit + One(con.download = "paid") + In(c2s, "Data")
                + srv.queue + srv.drained + DownGrants <= Window
<1>1. DownSum <= Window
  BY Parts
<1> QED BY <1>1, Numbers, Grants, WindowAssumption DEF DownSum, One

LEMMA OneMore == \A n \in Nat : Threshold * (n + 1) = Threshold * n + Threshold
<1>1. Threshold \in Nat
  BY WindowAssumption
<1> QED BY <1>1

\* An open stream has been answered, so the connector is past its connect phase.
LEMMA OpenFacts ==
    ASSUME WssInv, srv.tunnel = "open"
    PROVE  srv.answer = "ok" /\ con.task \in {"pump", "done", "aborted"}
BY Parts, ZenonT(60) DEF ServerPhases, StreamUsed, ConnectorPhases

\* remove_stream, field by field.
LEMMA Removed ==
    ASSUME NEW s \in Srv
    PROVE  /\ RemoveStream(s) \in Srv
           /\ RemoveStream(s).inMap = FALSE
           /\ \/ RemoveStream(s).answer = s.answer
              \/ s.answer = "pending" /\ RemoveStream(s).answer = "err"
           /\ RemoveStream(s).tunnel = s.tunnel
           /\ RemoveStream(s).upload = s.upload /\ RemoveStream(s).download = s.download
           /\ RemoveStream(s).credit = s.credit /\ RemoveStream(s).queue = s.queue
           /\ RemoveStream(s).drained = s.drained /\ RemoveStream(s).taken = s.taken
           /\ RemoveStream(s).got = s.got
<1>1. CASE s.inMap
  <2>1. RemoveStream(s) = [s EXCEPT !.inMap = FALSE, !.answer = IF @ = "pending" THEN "err" ELSE @]
    BY <1>1 DEF RemoveStream
  <2> QED BY <2>1 DEF Srv
<1>2. CASE ~s.inMap
  <2>1. RemoveStream(s) = s
    BY <1>2 DEF RemoveStream
  <2> QED BY <1>2, <2>1 DEF Srv
<1> QED BY <1>1, <1>2

\* A grant never takes the credit past a window.
LEMMA CappedCredit ==
    ASSUME WssInv
    PROVE  /\ Capped(srv.credit + Threshold) \in Nat
           /\ Capped(srv.credit + Threshold) <= srv.credit + Threshold
           /\ Capped(con.credit + Threshold) \in Nat
           /\ Capped(con.credit + Threshold) <= con.credit + Threshold
BY Numbers, WindowAssumption DEF Capped

\* A message reaches the server: the connector is past its connect phase, and ConnectOk
\* is never behind another message.
LEMMA ServerHears ==
    ASSUME WssInv, c2s # <<>>
    PROVE  /\ con.task \in {"pump", "done", "aborted"}
           /\ srv.tunnel \in {"waiting", "open", "abandon", "done"}
           /\ srv.answer # "none"
           /\ Head(c2s) # "ConnectOk" => In(c2s, "ConnectOk") = 0
<1>1. con.task \in {"pump", "done", "aborted"}
  BY Ranges, Parts, ZenonT(60) DEF ConnectorPhases
<1>2. srv.tunnel \in {"waiting", "open", "abandon", "done"} /\ srv.answer # "none"
  BY <1>1, Ranges, Parts, ZenonT(60) DEF ServerPhases
<1>3. Head(c2s) # "ConnectOk" => In(c2s, "ConnectOk") = 0
  BY Ranges, Parts DEF ConnectorPhases
<1> QED BY <1>1, <1>2, <1>3

\* A message other than Connect reaches the connector: Connect came before it.
LEMMA ConnectorHears ==
    ASSUME WssInv, s2c # <<>>, Head(s2c) # "Connect"
    PROVE  /\ con.task # "none" /\ In(s2c, "Connect") = 0
           /\ srv.tunnel \in {"waiting", "open", "abandon", "done"}
<1>1. con.task # "none"
  BY Parts, ZenonT(60) DEF ConnectorPhases
<1>2. In(s2c, "Connect") = 0
  BY <1>1, Ranges, Parts DEF ConnectorPhases
<1>3. srv.tunnel \in {"waiting", "open", "abandon", "done"}
  BY Ranges, Parts, ZenonT(60) DEF ServerPhases
<1> QED BY <1>1, <1>2, <1>3

\* ... and only Reset can come before the server has seen ConnectOk.
LEMMA StreamHeard ==
    ASSUME WssInv, In(s2c, "Data") > 0 \/ In(s2c, "WindowUpdate") > 0 \/ In(s2c, "Close") > 0
    PROVE  srv.answer = "ok" /\ con.task \in {"pump", "done", "aborted"}
BY Parts, ZenonT(60) DEF ServerPhases, StreamUsed, ConnectorPhases

LEMMA RegisterPendingKeeps ==
    ASSUME WssInv, RegisterPending
    PROVE  WssInv'
<1>1. /\ srv \in Srv /\ srv' = [srv EXCEPT !.tunnel = "registering", !.answer = "pending"]
  BY Types DEF RegisterPending
<1>2. /\ srv.tunnel = "reserved" /\ con' = con /\ s2c' = s2c /\ c2s' = c2s /\ link' = link
      /\ drain' = drain /\ peer' = peer /\ clean' = clean /\ srv'.tunnel = "registering"
      /\ srv'.inMap = srv.inMap /\ srv'.answer = "pending" /\ srv'.upload = srv.upload
      /\ srv'.download = srv.download /\ srv'.credit = srv.credit /\ srv'.queue = srv.queue
      /\ srv'.drained = srv.drained /\ srv'.taken = srv.taken /\ srv'.got = srv.got
  <2>1. /\ srv.tunnel = "reserved" /\ con' = con /\ s2c' = s2c /\ c2s' = c2s /\ link' = link
        /\ drain' = drain /\ peer' = peer /\ clean' = clean
    BY DEF RegisterPending
  <2>2. /\ srv'.tunnel = "registering" /\ srv'.inMap = srv.inMap /\ srv'.answer = "pending"
        /\ srv'.upload = srv.upload /\ srv'.download = srv.download
        /\ srv'.credit = srv.credit /\ srv'.queue = srv.queue /\ srv'.drained = srv.drained
        /\ srv'.taken = srv.taken /\ srv'.got = srv.got
    BY <1>1 DEF Srv
  <2> QED BY <2>1, <2>2
<1>3. WssTypeOK'
  <2>1. srv' \in Srv
    BY <1>1, ZenonT(40) DEF Srv
  <2> QED BY <1>2, <2>1, Types DEF WssTypeOK
<1>4. UpSum' = UpSum /\ DownSum' = DownSum
  BY <1>2 DEF UpSum, UpGrants, DownSum, DownGrants, One
<1>5. ServerPhases' /\ ResetDue'
  BY <1>2, Known, ZenonT(60) DEF ServerPhases, StreamUsed, ConnectorPhases, ResetDue, GivenUp
<1>6. ConnectorPhases'
  BY <1>2, Known, ZenonT(60) DEF ConnectorPhases
<1>7. UploadWhole'
  BY <1>2, Known, ZenonT(60) DEF UploadWhole, UploadKept, RequestOver, One, ServerPhases
<1>8. DownloadWhole'
  BY <1>2, Known, ZenonT(60) DEF DownloadWhole, One, ServerPhases, ConnectorPhases
<1> QED
  BY <1>3, <1>4, <1>5, <1>6, <1>7, <1>8, ZenonT(60) DEF WssInv

LEMMA RegisterStreamKeeps ==
    ASSUME WssInv, RegisterStream
    PROVE  WssInv'
<1>1. /\ srv \in Srv /\ srv' = [srv EXCEPT !.tunnel = "connecting", !.inMap = TRUE]
  BY Types DEF RegisterStream
<1>2. /\ srv.tunnel = "registering" /\ con' = con /\ s2c' = s2c /\ c2s' = c2s
      /\ link' = link /\ drain' = drain /\ peer' = peer /\ clean' = clean
      /\ srv'.tunnel = "connecting" /\ srv'.inMap = TRUE /\ srv'.answer = srv.answer
      /\ srv'.upload = srv.upload /\ srv'.download = srv.download
      /\ srv'.credit = srv.credit /\ srv'.queue = srv.queue /\ srv'.drained = srv.drained
      /\ srv'.taken = srv.taken /\ srv'.got = srv.got
  <2>1. /\ srv.tunnel = "registering" /\ con' = con /\ s2c' = s2c /\ c2s' = c2s
        /\ link' = link /\ drain' = drain /\ peer' = peer /\ clean' = clean
    BY DEF RegisterStream
  <2>2. /\ srv'.tunnel = "connecting" /\ srv'.inMap = TRUE /\ srv'.answer = srv.answer
        /\ srv'.upload = srv.upload /\ srv'.download = srv.download
        /\ srv'.credit = srv.credit /\ srv'.queue = srv.queue /\ srv'.drained = srv.drained
        /\ srv'.taken = srv.taken /\ srv'.got = srv.got
    BY <1>1 DEF Srv
  <2> QED BY <2>1, <2>2
<1>3. WssTypeOK'
  <2>1. srv' \in Srv
    BY <1>1, ZenonT(40) DEF Srv
  <2> QED BY <1>2, <2>1, Types DEF WssTypeOK
<1>4. UpSum' = UpSum /\ DownSum' = DownSum
  BY <1>2 DEF UpSum, UpGrants, DownSum, DownGrants, One
<1>5. ServerPhases' /\ ResetDue'
  BY <1>2, Known, ZenonT(60) DEF ServerPhases, StreamUsed, ResetDue, GivenUp
<1>6. ConnectorPhases'
  BY <1>2, Known, ZenonT(60) DEF ConnectorPhases
<1>7. UploadWhole'
  BY <1>2, Known, ZenonT(60) DEF UploadWhole, UploadKept, RequestOver, One
<1>8. DownloadWhole'
  BY <1>2, ZenonT(40), Known DEF DownloadWhole, One, ServerPhases
<1> QED
  BY <1>3, <1>4, <1>5, <1>6, <1>7, <1>8, ZenonT(60) DEF WssInv

LEMMA SendConnectKeeps ==
    ASSUME WssInv, SendConnect
    PROVE  WssInv'
<1>1. /\ srv \in Srv /\ s2c \in Seq(ToConnector) /\ srv' = [srv EXCEPT !.tunnel = "waiting"]
      /\ s2c' = Append(s2c, "Connect")
  BY Types DEF SendConnect, Send
<1>2. /\ srv.tunnel = "connecting" /\ link = "up" /\ con' = con /\ c2s' = c2s
      /\ link' = link /\ drain' = drain /\ peer' = peer /\ clean' = clean
      /\ srv'.tunnel = "waiting" /\ srv'.inMap = srv.inMap /\ srv'.answer = srv.answer
      /\ srv'.upload = srv.upload /\ srv'.download = srv.download
      /\ srv'.credit = srv.credit /\ srv'.queue = srv.queue /\ srv'.drained = srv.drained
      /\ srv'.taken = srv.taken /\ srv'.got = srv.got
      /\ In(s2c', "Connect") = In(s2c, "Connect") + 1 /\ In(s2c', "Data") = In(s2c, "Data")
      /\ In(s2c', "WindowUpdate") = In(s2c, "WindowUpdate")
      /\ In(s2c', "Close") = In(s2c, "Close") /\ In(s2c', "Reset") = In(s2c, "Reset")
  <2>1. /\ srv.tunnel = "connecting" /\ link = "up" /\ con' = con /\ c2s' = c2s
        /\ link' = link /\ drain' = drain /\ peer' = peer /\ clean' = clean
    BY DEF SendConnect, Send
  <2>2. /\ srv'.tunnel = "waiting" /\ srv'.inMap = srv.inMap /\ srv'.answer = srv.answer
        /\ srv'.upload = srv.upload /\ srv'.download = srv.download
        /\ srv'.credit = srv.credit /\ srv'.queue = srv.queue /\ srv'.drained = srv.drained
        /\ srv'.taken = srv.taken /\ srv'.got = srv.got
    BY <1>1 DEF Srv
  <2>3. /\ In(s2c', "Connect") = In(s2c, "Connect") + 1 /\ In(s2c', "Data") = In(s2c, "Data")
        /\ In(s2c', "WindowUpdate") = In(s2c, "WindowUpdate")
        /\ In(s2c', "Close") = In(s2c, "Close") /\ In(s2c', "Reset") = In(s2c, "Reset")
    BY <1>1, SentToConnector DEF ToConnector
  <2> QED BY <2>1, <2>2, <2>3
<1>3. s2c = <<>> /\ In(s2c, "Connect") = 0 /\ con.task = "none" /\ srv.download = "off"
  BY <1>2, InEmpty, Parts, ZenonT(60) DEF ServerPhases
<1>4. WssTypeOK'
  <2>1. srv' \in Srv
    BY <1>1, ZenonT(40) DEF Srv
  <2>2. s2c' \in Seq(ToConnector)
    BY <1>1, SentToConnector DEF ToConnector
  <2> QED BY <1>2, <2>1, <2>2, Types DEF WssTypeOK
<1>5. UpSum' = UpSum /\ DownSum' = DownSum
  BY <1>2 DEF UpSum, UpGrants, DownSum, DownGrants, One
<1>6. ServerPhases' /\ ResetDue'
  BY <1>2, <1>3, Known, ZenonT(60) DEF ServerPhases, StreamUsed, ResetDue, GivenUp
<1>7. ConnectorPhases'
  <2>1. /\ s2c' # <<>>
        /\ s2c # <<>> => Head(s2c') = Head(s2c)
        /\ s2c = <<>> => Head(s2c') = "Connect"
    BY <1>1, SentToConnector DEF ToConnector
  <2> QED BY <1>2, <1>3, <2>1, Known DEF ConnectorPhases
<1>8. UploadWhole'
  <2>1. CloseLast(s2c')
    BY <1>1, CloseLastAppend, Parts, ZenonT(60) DEF UploadWhole, ToConnector
  <2> QED BY <1>2, Known, <2>1, ZenonT(60) DEF UploadWhole, UploadKept, RequestOver, One
<1>9. DownloadWhole'
  BY <1>2, Known, ZenonT(60) DEF DownloadWhole
<1> QED
  BY <1>4, <1>5, <1>6, <1>7, <1>8, <1>9, ZenonT(60) DEF WssInv

\* The first message finds the channel empty, so only the end of the session prevents it.
LEMMA ConnectNotSentKeeps ==
    ASSUME WssInv, ConnectNotSent
    PROVE  WssInv'
<1>1. /\ srv \in Srv /\ srv' = [RemoveStream(srv) EXCEPT !.tunnel = "done"]
  BY Types DEF ConnectNotSent
<1>2. /\ srv.tunnel = "connecting" /\ clean' = FALSE /\ con' = con /\ s2c' = s2c
      /\ c2s' = c2s /\ link' = link /\ drain' = drain /\ peer' = peer
      /\ srv'.tunnel = "done" /\ srv'.inMap = FALSE
      /\ srv'.answer = srv.answer \/ (srv.answer = "pending" /\ srv'.answer = "err")
      /\ srv'.upload = srv.upload /\ srv'.download = srv.download
      /\ srv'.credit = srv.credit /\ srv'.queue = srv.queue /\ srv'.drained = srv.drained
      /\ srv'.taken = srv.taken /\ srv'.got = srv.got
  <2>1. /\ srv.tunnel = "connecting" /\ clean' = FALSE /\ con' = con /\ s2c' = s2c
        /\ c2s' = c2s /\ link' = link /\ drain' = drain /\ peer' = peer
    BY DEF ConnectNotSent
  <2>2. /\ srv'.tunnel = "done" /\ srv'.inMap = FALSE
        /\ srv'.answer = srv.answer \/ (srv.answer = "pending" /\ srv'.answer = "err")
        /\ srv'.upload = srv.upload /\ srv'.download = srv.download
        /\ srv'.credit = srv.credit /\ srv'.queue = srv.queue /\ srv'.drained = srv.drained
        /\ srv'.taken = srv.taken /\ srv'.got = srv.got
    <3>1. PICK r \in Srv :
            /\ r = RemoveStream(srv) /\ r.inMap = FALSE
            /\ r.answer = srv.answer \/ (srv.answer = "pending" /\ r.answer = "err")
            /\ r.tunnel = srv.tunnel /\ r.upload = srv.upload /\ r.download = srv.download
            /\ r.credit = srv.credit /\ r.queue = srv.queue /\ r.drained = srv.drained
            /\ r.taken = srv.taken /\ r.got = srv.got
      BY Types, Removed, ZenonT(40)
    <3> QED BY <2>1, <1>1, <3>1 DEF Srv
  <2> QED BY <2>1, <2>2
<1>3. s2c = <<>>
  BY <1>2, Parts, ZenonT(60) DEF ServerPhases
<1>4. link = "down"
  BY <1>3, WindowAssumption DEF ConnectNotSent
<1>5. WssTypeOK'
  <2>1. RemoveStream(srv) \in Srv
    BY Types, Removed, ZenonT(40)
  <2>2. srv' \in Srv
    BY <1>1, <2>1, ZenonT(40) DEF Srv
  <2> QED BY <1>2, <2>1, <2>2, Types, ZenonT(40) DEF WssTypeOK
<1>6. UpSum' = UpSum /\ DownSum' = DownSum
  BY <1>2 DEF UpSum, UpGrants, DownSum, DownGrants, One
<1>7. ServerPhases' /\ ResetDue'
  BY <1>2, <1>3, <1>4, Known, ZenonT(60) DEF ServerPhases, StreamUsed, ResetDue, GivenUp
<1>8. ConnectorPhases'
  BY <1>2, <1>3, <1>4, Known, ZenonT(60) DEF ConnectorPhases
<1>9. UploadWhole'
  BY <1>2, <1>3, <1>4, Known, ZenonT(60) DEF UploadWhole, UploadKept, RequestOver, One
<1>10. DownloadWhole'
  BY <1>2, <1>3, <1>4, Known, ZenonT(60) DEF DownloadWhole, One
<1> QED
  BY <1>5, <1>6, <1>7, <1>8, <1>9, <1>10, ZenonT(60) DEF WssInv

LEMMA ConnectSucceededKeeps ==
    ASSUME WssInv, ConnectSucceeded
    PROVE  WssInv'
<1>1. /\ srv \in Srv
      /\ srv' = [srv EXCEPT !.tunnel = "open", !.upload = "read", !.download = "recv"]
  BY Types DEF ConnectSucceeded
<1>2. /\ srv.tunnel = "waiting" /\ srv.answer = "ok" /\ con' = con /\ s2c' = s2c
      /\ c2s' = c2s /\ link' = link /\ drain' = drain /\ peer' = peer /\ clean' = clean
      /\ srv'.tunnel = "open" /\ srv'.inMap = srv.inMap /\ srv'.answer = srv.answer
      /\ srv'.upload = "read" /\ srv'.download = "recv" /\ srv'.credit = srv.credit
      /\ srv'.queue = srv.queue /\ srv'.drained = srv.drained /\ srv'.taken = srv.taken
      /\ srv'.got = srv.got
  <2>1. /\ srv.tunnel = "waiting" /\ srv.answer = "ok" /\ con' = con /\ s2c' = s2c
        /\ c2s' = c2s /\ link' = link /\ drain' = drain /\ peer' = peer /\ clean' = clean
    BY DEF ConnectSucceeded
  <2>2. /\ srv'.tunnel = "open" /\ srv'.inMap = srv.inMap /\ srv'.answer = srv.answer
        /\ srv'.upload = "read" /\ srv'.download = "recv" /\ srv'.credit = srv.credit
        /\ srv'.queue = srv.queue /\ srv'.drained = srv.drained /\ srv'.taken = srv.taken
        /\ srv'.got = srv.got
    BY <1>1 DEF Srv
  <2> QED BY <2>1, <2>2
<1>3. srv.upload = "off" /\ srv.download = "off" /\ con.task \in {"pump", "done", "aborted"}
  BY <1>2, Parts, ZenonT(60) DEF ServerPhases, ConnectorPhases
<1>4. WssTypeOK'
  <2>1. srv' \in Srv
    BY <1>1, ZenonT(40) DEF Srv
  <2> QED BY <1>2, <2>1, Types DEF WssTypeOK
<1>5. UpSum' = UpSum /\ DownSum' = DownSum
  BY <1>2, <1>3 DEF UpSum, UpGrants, DownSum, DownGrants, One
<1>6. ServerPhases' /\ ResetDue'
  BY <1>2, <1>3, Known, ZenonT(60) DEF ServerPhases, StreamUsed, ResetDue, GivenUp
<1>7. ConnectorPhases'
  BY <1>2, <1>3, Known, ZenonT(60) DEF ConnectorPhases
<1>8. UploadWhole'
  BY <1>2, <1>3, Known, ZenonT(60) DEF UploadWhole, UploadKept, RequestOver, One
<1>9. DownloadWhole'
  BY <1>2, <1>3, Known, ZenonT(60) DEF DownloadWhole, One
<1> QED
  BY <1>4, <1>5, <1>6, <1>7, <1>8, <1>9, ZenonT(60) DEF WssInv

LEMMA ConnectFailedKeeps ==
    ASSUME WssInv, ConnectFailed
    PROVE  WssInv'
<1>1. /\ srv \in Srv /\ srv' = [RemoveStream(srv) EXCEPT !.tunnel = "abandon"]
  BY Types DEF ConnectFailed
<1>2. /\ srv.tunnel = "waiting" /\ srv.answer = "err" /\ con' = con /\ s2c' = s2c
      /\ c2s' = c2s /\ link' = link /\ drain' = drain /\ peer' = peer /\ clean' = clean
      /\ srv'.tunnel = "abandon" /\ srv'.inMap = FALSE /\ srv'.answer = "err"
      /\ srv'.upload = srv.upload /\ srv'.download = srv.download
      /\ srv'.credit = srv.credit /\ srv'.queue = srv.queue /\ srv'.drained = srv.drained
      /\ srv'.taken = srv.taken /\ srv'.got = srv.got
  <2>1. /\ srv.tunnel = "waiting" /\ srv.answer = "err" /\ con' = con /\ s2c' = s2c
        /\ c2s' = c2s /\ link' = link /\ drain' = drain /\ peer' = peer /\ clean' = clean
    BY DEF ConnectFailed
  <2>2. /\ srv'.tunnel = "abandon" /\ srv'.inMap = FALSE /\ srv'.answer = "err"
        /\ srv'.upload = srv.upload /\ srv'.download = srv.download
        /\ srv'.credit = srv.credit /\ srv'.queue = srv.queue /\ srv'.drained = srv.drained
        /\ srv'.taken = srv.taken /\ srv'.got = srv.got
    <3>1. PICK r \in Srv :
            /\ r = RemoveStream(srv) /\ r.inMap = FALSE
            /\ r.answer = srv.answer \/ (srv.answer = "pending" /\ r.answer = "err")
            /\ r.tunnel = srv.tunnel /\ r.upload = srv.upload /\ r.download = srv.download
            /\ r.credit = srv.credit /\ r.queue = srv.queue /\ r.drained = srv.drained
            /\ r.taken = srv.taken /\ r.got = srv.got
      BY Types, Removed, ZenonT(40)
    <3> QED BY <2>1, <1>1, <3>1 DEF Srv
  <2> QED BY <2>1, <2>2
<1>3. srv.upload = "off" /\ srv.download = "off"
  BY <1>2, Parts, ZenonT(60) DEF ServerPhases
<1>4. WssTypeOK'
  <2>1. RemoveStream(srv) \in Srv
    BY Types, Removed, ZenonT(40)
  <2>2. srv' \in Srv
    BY <1>1, <2>1, ZenonT(40) DEF Srv
  <2> QED BY <1>2, <2>1, <2>2, Types DEF WssTypeOK
<1>5. UpSum' = UpSum /\ DownSum' = DownSum
  BY <1>2 DEF UpSum, UpGrants, DownSum, DownGrants, One
<1>6. ServerPhases' /\ ResetDue'
  BY <1>2, <1>3, Known, ZenonT(60) DEF ServerPhases, StreamUsed, ResetDue, GivenUp
<1>7. ConnectorPhases'
  BY <1>2, <1>3, Known, ZenonT(60) DEF ConnectorPhases
<1>8. UploadWhole'
  BY <1>2, <1>3, Known, ZenonT(60) DEF UploadWhole, UploadKept, RequestOver, One
<1>9. DownloadWhole'
  BY <1>2, <1>3, Known, ZenonT(60) DEF DownloadWhole, One
<1> QED
  BY <1>4, <1>5, <1>6, <1>7, <1>8, <1>9, ZenonT(60) DEF WssInv

LEMMA ConnectTimeoutKeeps ==
    ASSUME WssInv, ConnectTimeout
    PROVE  WssInv'
<1>1. /\ srv \in Srv /\ srv' = [RemoveStream(srv) EXCEPT !.tunnel = "abandon"]
  BY Types DEF ConnectTimeout
<1>2. /\ srv.tunnel = "waiting" /\ srv.answer = "pending" /\ clean' = FALSE /\ con' = con
      /\ s2c' = s2c /\ c2s' = c2s /\ link' = link /\ drain' = drain /\ peer' = peer
      /\ srv'.tunnel = "abandon" /\ srv'.inMap = FALSE
      /\ srv'.answer = srv.answer \/ (srv.answer = "pending" /\ srv'.answer = "err")
      /\ srv'.upload = srv.upload /\ srv'.download = srv.download
      /\ srv'.credit = srv.credit /\ srv'.queue = srv.queue /\ srv'.drained = srv.drained
      /\ srv'.taken = srv.taken /\ srv'.got = srv.got
  <2>1. /\ srv.tunnel = "waiting" /\ srv.answer = "pending" /\ clean' = FALSE /\ con' = con
        /\ s2c' = s2c /\ c2s' = c2s /\ link' = link /\ drain' = drain /\ peer' = peer
    BY DEF ConnectTimeout
  <2>2. /\ srv'.tunnel = "abandon" /\ srv'.inMap = FALSE
        /\ srv'.answer = srv.answer \/ (srv.answer = "pending" /\ srv'.answer = "err")
        /\ srv'.upload = srv.upload /\ srv'.download = srv.download
        /\ srv'.credit = srv.credit /\ srv'.queue = srv.queue /\ srv'.drained = srv.drained
        /\ srv'.taken = srv.taken /\ srv'.got = srv.got
    <3>1. PICK r \in Srv :
            /\ r = RemoveStream(srv) /\ r.inMap = FALSE
            /\ r.answer = srv.answer \/ (srv.answer = "pending" /\ r.answer = "err")
            /\ r.tunnel = srv.tunnel /\ r.upload = srv.upload /\ r.download = srv.download
            /\ r.credit = srv.credit /\ r.queue = srv.queue /\ r.drained = srv.drained
            /\ r.taken = srv.taken /\ r.got = srv.got
      BY Types, Removed, ZenonT(40)
    <3> QED BY <2>1, <1>1, <3>1 DEF Srv
  <2> QED BY <2>1, <2>2
<1>3. srv.upload = "off" /\ srv.download = "off"
  BY <1>2, Parts, ZenonT(60) DEF ServerPhases
<1>4. WssTypeOK'
  <2>1. RemoveStream(srv) \in Srv
    BY Types, Removed, ZenonT(40)
  <2>2. srv' \in Srv
    BY <1>1, <2>1, ZenonT(40) DEF Srv
  <2> QED BY <1>2, <2>1, <2>2, Types, ZenonT(40) DEF WssTypeOK
<1>5. UpSum' = UpSum /\ DownSum' = DownSum
  BY <1>2 DEF UpSum, UpGrants, DownSum, DownGrants, One
<1>6. ServerPhases'
  BY <1>2, <1>3, Known, ZenonT(60) DEF ServerPhases, StreamUsed
<1>7. ConnectorPhases'
  BY <1>2, <1>3, Known, ZenonT(60) DEF ConnectorPhases
<1>8. UploadWhole'
  BY <1>2, <1>3, Known, ZenonT(60) DEF UploadWhole, UploadKept, RequestOver, One
<1>9. DownloadWhole'
  BY <1>2, <1>3, Known, ZenonT(60) DEF DownloadWhole, One
<1>10. ResetDue'
  BY <1>2, <1>3, Known, ZenonT(60) DEF ResetDue, GivenUp
<1> QED
  BY <1>4, <1>5, <1>6, <1>7, <1>8, <1>9, <1>10, ZenonT(60) DEF WssInv

\* The Reset for a connect that was given up.
LEMMA AbandonResetKeeps ==
    ASSUME WssInv, SendAbandonReset, link = "up"
    PROVE  WssInv'
<1>1. /\ srv \in Srv /\ s2c \in Seq(ToConnector) /\ srv' = [srv EXCEPT !.tunnel = "done"]
      /\ s2c' = Append(s2c, "Reset")
  BY Types DEF SendAbandonReset, TrySend, Send, SendFails
<1>2. /\ srv.tunnel = "abandon" /\ con' = con /\ c2s' = c2s /\ link' = link
      /\ drain' = drain /\ peer' = peer /\ clean' = clean /\ srv'.tunnel = "done"
      /\ srv'.inMap = srv.inMap /\ srv'.answer = srv.answer /\ srv'.upload = srv.upload
      /\ srv'.download = srv.download /\ srv'.credit = srv.credit /\ srv'.queue = srv.queue
      /\ srv'.drained = srv.drained /\ srv'.taken = srv.taken /\ srv'.got = srv.got
      /\ In(s2c', "Connect") = In(s2c, "Connect") /\ In(s2c', "Data") = In(s2c, "Data")
      /\ In(s2c', "WindowUpdate") = In(s2c, "WindowUpdate")
      /\ In(s2c', "Close") = In(s2c, "Close") /\ In(s2c', "Reset") = In(s2c, "Reset") + 1
  <2>1. /\ srv.tunnel = "abandon" /\ con' = con /\ c2s' = c2s /\ link' = link
        /\ drain' = drain /\ peer' = peer /\ clean' = clean
    BY DEF SendAbandonReset, TrySend, Send, SendFails
  <2>2. /\ srv'.tunnel = "done" /\ srv'.inMap = srv.inMap /\ srv'.answer = srv.answer
        /\ srv'.upload = srv.upload /\ srv'.download = srv.download
        /\ srv'.credit = srv.credit /\ srv'.queue = srv.queue /\ srv'.drained = srv.drained
        /\ srv'.taken = srv.taken /\ srv'.got = srv.got
    BY <1>1 DEF Srv
  <2>3. /\ In(s2c', "Connect") = In(s2c, "Connect") /\ In(s2c', "Data") = In(s2c, "Data")
        /\ In(s2c', "WindowUpdate") = In(s2c, "WindowUpdate")
        /\ In(s2c', "Close") = In(s2c, "Close") /\ In(s2c', "Reset") = In(s2c, "Reset") + 1
    BY <1>1, SentToConnector DEF ToConnector
  <2> QED BY <2>1, <2>2, <2>3
<1>3. WssTypeOK'
  <2>1. srv' \in Srv
    BY <1>1, ZenonT(40) DEF Srv
  <2>2. s2c' \in Seq(ToConnector)
    BY <1>1, SentToConnector DEF ToConnector
  <2> QED BY <1>2, <2>1, <2>2, Types DEF WssTypeOK
<1>4. UpSum' = UpSum /\ DownSum' = DownSum
  BY <1>2 DEF UpSum, UpGrants, DownSum, DownGrants, One
<1>5. ServerPhases' /\ ResetDue'
  BY <1>2, Known DEF ServerPhases, StreamUsed, ResetDue, GivenUp
<1>6. ConnectorPhases'
  <2>1. /\ s2c' # <<>>
        /\ s2c # <<>> => Head(s2c') = Head(s2c)
        /\ s2c = <<>> => Head(s2c') = "Reset"
    BY <1>1, SentToConnector DEF ToConnector
  <2> QED BY <1>2, Known, <2>1, ZenonT(60) DEF ConnectorPhases
<1>7. UploadWhole'
  <2>1. CloseLast(s2c')
    BY <1>1, CloseLastAppend, Parts, ZenonT(60) DEF UploadWhole, ToConnector
  <2> QED BY <1>2, <2>1, Known, ZenonT(60) DEF UploadWhole, UploadKept, RequestOver, One
<1>8. DownloadWhole'
  BY <1>2, Known, ZenonT(60) DEF DownloadWhole, One
<1> QED
  BY <1>3, <1>4, <1>5, <1>6, <1>7, <1>8, ZenonT(60) DEF WssInv

\* ... which the session no longer takes.
LEMMA AbandonDownKeeps ==
    ASSUME WssInv, SendAbandonReset, link = "down"
    PROVE  WssInv'
<1>1. /\ srv \in Srv /\ srv' = [srv EXCEPT !.tunnel = "done"]
  BY Types DEF SendAbandonReset, TrySend, Send, SendFails
<1>2. /\ srv.tunnel = "abandon" /\ con' = con /\ s2c' = s2c /\ c2s' = c2s /\ link' = link
      /\ drain' = drain /\ peer' = peer /\ clean' = clean /\ srv'.tunnel = "done"
      /\ srv'.inMap = srv.inMap /\ srv'.answer = srv.answer /\ srv'.upload = srv.upload
      /\ srv'.download = srv.download /\ srv'.credit = srv.credit /\ srv'.queue = srv.queue
      /\ srv'.drained = srv.drained /\ srv'.taken = srv.taken /\ srv'.got = srv.got
  <2>1. /\ srv.tunnel = "abandon" /\ con' = con /\ s2c' = s2c /\ c2s' = c2s /\ link' = link
        /\ drain' = drain /\ peer' = peer /\ clean' = clean
    BY DEF SendAbandonReset, TrySend, Send, SendFails
  <2>2. /\ srv'.tunnel = "done" /\ srv'.inMap = srv.inMap /\ srv'.answer = srv.answer
        /\ srv'.upload = srv.upload /\ srv'.download = srv.download
        /\ srv'.credit = srv.credit /\ srv'.queue = srv.queue /\ srv'.drained = srv.drained
        /\ srv'.taken = srv.taken /\ srv'.got = srv.got
    BY <1>1 DEF Srv
  <2> QED BY <2>1, <2>2
<1>3. WssTypeOK'
  <2>1. srv' \in Srv
    BY <1>1, ZenonT(40) DEF Srv
  <2> QED BY <1>2, <2>1, Types DEF WssTypeOK
<1>4. UpSum' = UpSum /\ DownSum' = DownSum
  BY <1>2 DEF UpSum, UpGrants, DownSum, DownGrants, One
<1>5. ServerPhases' /\ ResetDue'
  BY <1>2, Known, ZenonT(60) DEF ServerPhases, StreamUsed, ResetDue, GivenUp
<1>6. ConnectorPhases'
  BY <1>2, Known, ZenonT(60) DEF ConnectorPhases
<1>7. UploadWhole'
  BY <1>2, Known, ZenonT(60) DEF UploadWhole, UploadKept, RequestOver, One
<1>8. DownloadWhole'
  BY <1>2, Known, ZenonT(60) DEF DownloadWhole, One
<1> QED
  BY <1>3, <1>4, <1>5, <1>6, <1>7, <1>8, ZenonT(60) DEF WssInv

LEMMA FinishTunnelKeeps ==
    ASSUME WssInv, FinishTunnel
    PROVE  WssInv'
<1>1. /\ srv \in Srv
      /\ srv' = [RemoveStream(srv) EXCEPT !.tunnel = "done", !.upload = "done"]
  BY Types DEF FinishTunnel
<1>2. /\ srv.tunnel = "open" /\ srv.download = "done" /\ con' = con /\ s2c' = s2c
      /\ c2s' = c2s /\ link' = link /\ drain' = drain /\ peer' = peer /\ clean' = clean
      /\ srv'.tunnel = "done" /\ srv'.inMap = FALSE /\ srv'.answer = srv.answer
      /\ srv'.upload = "done" /\ srv'.download = srv.download /\ srv'.credit = srv.credit
      /\ srv'.queue = srv.queue /\ srv'.drained = srv.drained /\ srv'.taken = srv.taken
      /\ srv'.got = srv.got
  <2>1. /\ srv.tunnel = "open" /\ srv.download = "done" /\ con' = con /\ s2c' = s2c
        /\ c2s' = c2s /\ link' = link /\ drain' = drain /\ peer' = peer /\ clean' = clean
    BY DEF FinishTunnel
  <2>2. /\ srv'.tunnel = "done" /\ srv'.inMap = FALSE /\ srv'.answer = srv.answer
        /\ srv'.upload = "done" /\ srv'.download = srv.download /\ srv'.credit = srv.credit
        /\ srv'.queue = srv.queue /\ srv'.drained = srv.drained /\ srv'.taken = srv.taken
        /\ srv'.got = srv.got
    <3>1. PICK r \in Srv :
            /\ r = RemoveStream(srv) /\ r.inMap = FALSE
            /\ r.answer = srv.answer \/ (srv.answer = "pending" /\ r.answer = "err")
            /\ r.tunnel = srv.tunnel /\ r.upload = srv.upload /\ r.download = srv.download
            /\ r.credit = srv.credit /\ r.queue = srv.queue /\ r.drained = srv.drained
            /\ r.taken = srv.taken /\ r.got = srv.got
      BY Types, Removed, ZenonT(40)
    <3> QED BY <2>1, <1>1, <3>1, OpenFacts DEF Srv
  <2> QED BY <2>1, <2>2
<1>3. WssTypeOK'
  <2>1. RemoveStream(srv) \in Srv
    BY Types, Removed, ZenonT(40)
  <2>2. srv' \in Srv
    BY <1>1, <2>1, ZenonT(40) DEF Srv
  <2> QED BY <1>2, <2>1, <2>2, Types DEF WssTypeOK
<1>4. UpSum' <= Window
  <2>1. /\ srv'.credit = srv.credit /\ One(srv'.upload = "paid") = 0
        /\ In(s2c', "Data") = In(s2c, "Data") /\ con'.queue = con.queue
        /\ con'.drained = con.drained /\ UpGrants' = UpGrants
    BY <1>2 DEF One, UpGrants
  <2>2. srv.credit + 0 + In(s2c, "Data")
          + con.queue + con.drained + UpGrants <= Window
    BY UpTerms
  <2> QED BY <2>1, <2>2 DEF UpSum
<1>5. DownSum' = DownSum
  BY <1>2 DEF DownSum, DownGrants, One
<1>6. ServerPhases' /\ ResetDue'
  BY <1>2, OpenFacts, Known, ZenonT(60) DEF ServerPhases, StreamUsed, ResetDue, GivenUp
<1>7. ConnectorPhases'
  BY <1>2, OpenFacts, Known, ZenonT(60) DEF ConnectorPhases
<1>8. UploadWhole'
  BY <1>2, Known, ZenonT(60) DEF UploadWhole, UploadKept, RequestOver, One
<1>9. DownloadWhole'
  BY <1>2, Known, ZenonT(60) DEF DownloadWhole, One
<1> QED
  BY <1>3, <1>4, <1>5, <1>6, <1>7, <1>8, <1>9, ZenonT(60) DEF WssInv

LEMMA ReadPayloadKeeps ==
    ASSUME WssInv, ReadPayload
    PROVE  WssInv'
<1>1. /\ srv \in Srv /\ srv' = [srv EXCEPT !.upload = "have", !.taken = @ + 1]
  BY Types DEF ReadPayload
<1>2. /\ srv.tunnel = "open" /\ srv.upload = "read" /\ con' = con /\ s2c' = s2c
      /\ c2s' = c2s /\ link' = link /\ drain' = drain /\ peer' = peer /\ clean' = clean
      /\ srv'.tunnel = srv.tunnel /\ srv'.inMap = srv.inMap /\ srv'.answer = srv.answer
      /\ srv'.upload = "have" /\ srv'.download = srv.download /\ srv'.credit = srv.credit
      /\ srv'.queue = srv.queue /\ srv'.drained = srv.drained /\ srv'.taken = srv.taken + 1
      /\ srv'.got = srv.got
  <2>1. /\ srv.tunnel = "open" /\ srv.upload = "read" /\ con' = con /\ s2c' = s2c
        /\ c2s' = c2s /\ link' = link /\ drain' = drain /\ peer' = peer /\ clean' = clean
    BY DEF ReadPayload
  <2>2. /\ srv'.tunnel = srv.tunnel /\ srv'.inMap = srv.inMap /\ srv'.answer = srv.answer
        /\ srv'.upload = "have" /\ srv'.download = srv.download /\ srv'.credit = srv.credit
        /\ srv'.queue = srv.queue /\ srv'.drained = srv.drained /\ srv'.taken = srv.taken + 1
        /\ srv'.got = srv.got
    BY <1>1 DEF Srv
  <2> QED BY <2>1, <2>2
<1>3. WssTypeOK'
  <2>1. srv.taken + 1 \in Nat
    BY Numbers
  <2>2. srv' \in Srv
    BY <2>1, <1>1, ZenonT(40) DEF Srv
  <2> QED BY <1>2, <2>1, <2>2, Types DEF WssTypeOK
<1>4. UpSum' = UpSum /\ DownSum' = DownSum
  BY <1>2 DEF UpSum, UpGrants, DownSum, DownGrants, One
<1>5. ServerPhases' /\ ResetDue'
  BY <1>2, Known, ZenonT(60) DEF ServerPhases, StreamUsed, ResetDue, GivenUp
<1>6. ConnectorPhases'
  BY <1>2, Known, ZenonT(60) DEF ConnectorPhases
<1>7. UploadWhole'
  BY <1>2, Known DEF UploadWhole, UploadKept, RequestOver, One
<1>8. DownloadWhole'
  BY <1>2, Known, ZenonT(60) DEF DownloadWhole, One
<1> QED
  BY <1>3, <1>4, <1>5, <1>6, <1>7, <1>8, ZenonT(60) DEF WssInv

LEMMA ReadEofKeeps ==
    ASSUME WssInv, ReadEof
    PROVE  WssInv'
<1>1. /\ srv \in Srv /\ srv' = [srv EXCEPT !.upload = "eof"]
  BY Types DEF ReadEof
<1>2. /\ srv.tunnel = "open" /\ srv.upload = "read" /\ con' = con /\ s2c' = s2c
      /\ c2s' = c2s /\ link' = link /\ drain' = drain /\ peer' = peer /\ clean' = clean
      /\ srv'.tunnel = srv.tunnel /\ srv'.inMap = srv.inMap /\ srv'.answer = srv.answer
      /\ srv'.upload = "eof" /\ srv'.download = srv.download /\ srv'.credit = srv.credit
      /\ srv'.queue = srv.queue /\ srv'.drained = srv.drained /\ srv'.taken = srv.taken
      /\ srv'.got = srv.got
  <2>1. /\ srv.tunnel = "open" /\ srv.upload = "read" /\ con' = con /\ s2c' = s2c
        /\ c2s' = c2s /\ link' = link /\ drain' = drain /\ peer' = peer /\ clean' = clean
    BY DEF ReadEof
  <2>2. /\ srv'.tunnel = srv.tunnel /\ srv'.inMap = srv.inMap /\ srv'.answer = srv.answer
        /\ srv'.upload = "eof" /\ srv'.download = srv.download /\ srv'.credit = srv.credit
        /\ srv'.queue = srv.queue /\ srv'.drained = srv.drained /\ srv'.taken = srv.taken
        /\ srv'.got = srv.got
    BY <1>1 DEF Srv
  <2> QED BY <2>1, <2>2
<1>3. WssTypeOK'
  <2>1. srv' \in Srv
    BY <1>1, ZenonT(40) DEF Srv
  <2> QED BY <1>2, <2>1, Types DEF WssTypeOK
<1>4. UpSum' = UpSum /\ DownSum' = DownSum
  BY <1>2 DEF UpSum, UpGrants, DownSum, DownGrants, One
<1>5. ServerPhases' /\ ResetDue'
  BY <1>2, Known, ZenonT(60) DEF ServerPhases, StreamUsed, ResetDue, GivenUp
<1>6. ConnectorPhases'
  BY <1>2, Known, ZenonT(60) DEF ConnectorPhases
<1>7. UploadWhole'
  BY <1>2, Known, ZenonT(60) DEF UploadWhole, UploadKept, RequestOver, One
<1>8. DownloadWhole'
  BY <1>2, Known, ZenonT(60) DEF DownloadWhole, One
<1> QED
  BY <1>3, <1>4, <1>5, <1>6, <1>7, <1>8, ZenonT(60) DEF WssInv

LEMMA ReadAbortKeeps ==
    ASSUME WssInv, ReadAbort
    PROVE  WssInv'
<1>1. /\ srv \in Srv /\ srv' = [srv EXCEPT !.upload = "abort"]
  BY Types DEF ReadAbort
<1>2. /\ srv.tunnel = "open" /\ srv.upload = "read" /\ clean' = FALSE /\ con' = con
      /\ s2c' = s2c /\ c2s' = c2s /\ link' = link /\ drain' = drain /\ peer' = peer
      /\ srv'.tunnel = srv.tunnel /\ srv'.inMap = srv.inMap /\ srv'.answer = srv.answer
      /\ srv'.upload = "abort" /\ srv'.download = srv.download /\ srv'.credit = srv.credit
      /\ srv'.queue = srv.queue /\ srv'.drained = srv.drained /\ srv'.taken = srv.taken
      /\ srv'.got = srv.got
  <2>1. /\ srv.tunnel = "open" /\ srv.upload = "read" /\ clean' = FALSE /\ con' = con
        /\ s2c' = s2c /\ c2s' = c2s /\ link' = link /\ drain' = drain /\ peer' = peer
    BY DEF ReadAbort
  <2>2. /\ srv'.tunnel = srv.tunnel /\ srv'.inMap = srv.inMap /\ srv'.answer = srv.answer
        /\ srv'.upload = "abort" /\ srv'.download = srv.download /\ srv'.credit = srv.credit
        /\ srv'.queue = srv.queue /\ srv'.drained = srv.drained /\ srv'.taken = srv.taken
        /\ srv'.got = srv.got
    BY <1>1 DEF Srv
  <2> QED BY <2>1, <2>2
<1>3. WssTypeOK'
  <2>1. srv' \in Srv
    BY <1>1, ZenonT(40) DEF Srv
  <2> QED BY <1>2, <2>1, Types, ZenonT(40) DEF WssTypeOK
<1>4. UpSum' = UpSum /\ DownSum' = DownSum
  BY <1>2 DEF UpSum, UpGrants, DownSum, DownGrants, One
<1>5. ServerPhases' /\ ResetDue'
  BY <1>2, Known, ZenonT(60) DEF ServerPhases, StreamUsed, ResetDue, GivenUp
<1>6. ConnectorPhases'
  BY <1>2, Known, ZenonT(60) DEF ConnectorPhases
<1>7. UploadWhole'
  BY <1>2, Known, ZenonT(60) DEF UploadWhole, UploadKept, RequestOver, One
<1>8. DownloadWhole'
  BY <1>2, Known, ZenonT(60) DEF DownloadWhole, One
<1> QED
  BY <1>3, <1>4, <1>5, <1>6, <1>7, <1>8, ZenonT(60) DEF WssInv

LEMMA UploadPaysKeeps ==
    ASSUME WssInv, UploadPays
    PROVE  WssInv'
<1>1. /\ srv \in Srv /\ srv' = [srv EXCEPT !.upload = "paid", !.credit = @ - 1]
  BY Types DEF UploadPays
<1>2. /\ srv.tunnel = "open" /\ srv.upload = "have" /\ srv.credit >= 1 /\ con' = con
      /\ s2c' = s2c /\ c2s' = c2s /\ link' = link /\ drain' = drain /\ peer' = peer
      /\ clean' = clean /\ srv'.tunnel = srv.tunnel /\ srv'.inMap = srv.inMap
      /\ srv'.answer = srv.answer /\ srv'.upload = "paid" /\ srv'.download = srv.download
      /\ srv'.credit = srv.credit - 1 /\ srv'.queue = srv.queue
      /\ srv'.drained = srv.drained /\ srv'.taken = srv.taken /\ srv'.got = srv.got
  <2>1. /\ srv.tunnel = "open" /\ srv.upload = "have" /\ srv.credit >= 1 /\ con' = con
        /\ s2c' = s2c /\ c2s' = c2s /\ link' = link /\ drain' = drain /\ peer' = peer
        /\ clean' = clean
    BY DEF UploadPays
  <2>2. /\ srv'.tunnel = srv.tunnel /\ srv'.inMap = srv.inMap /\ srv'.answer = srv.answer
        /\ srv'.upload = "paid" /\ srv'.download = srv.download
        /\ srv'.credit = srv.credit - 1 /\ srv'.queue = srv.queue
        /\ srv'.drained = srv.drained /\ srv'.taken = srv.taken /\ srv'.got = srv.got
    BY <1>1 DEF Srv
  <2> QED BY <2>1, <2>2
<1>3. WssTypeOK'
  <2>1. srv.credit - 1 \in Nat
    BY <1>2, Numbers
  <2>2. srv' \in Srv
    BY <2>1, <1>1, ZenonT(40) DEF Srv
  <2> QED BY <1>2, <2>1, <2>2, Types DEF WssTypeOK
<1>4. UpSum' <= Window
  <2>1. /\ srv.credit >= 1 /\ One(srv.upload = "paid") = 0
    BY <1>2 DEF One
  <2>2. /\ srv'.credit = srv.credit - 1 /\ One(srv'.upload = "paid") = 1
        /\ In(s2c', "Data") = In(s2c, "Data") /\ con'.queue = con.queue
        /\ con'.drained = con.drained /\ UpGrants' = UpGrants
    BY <1>2 DEF One, UpGrants
  <2>3. (srv.credit - 1) + 1 + In(s2c, "Data")
          + con.queue + con.drained + UpGrants <= Window
    BY <2>1, UpTerms
  <2> QED BY <2>2, <2>3 DEF UpSum
<1>5. DownSum' = DownSum
  BY <1>2 DEF DownSum, DownGrants, One
<1>6. ServerPhases' /\ ResetDue'
  BY <1>2, Known, ZenonT(60) DEF ServerPhases, StreamUsed, ResetDue, GivenUp
<1>7. ConnectorPhases'
  BY <1>2, Known, ZenonT(60) DEF ConnectorPhases
<1>8. UploadWhole'
  BY <1>2, Known, ZenonT(60) DEF UploadWhole, UploadKept, RequestOver, One
<1>9. DownloadWhole'
  BY <1>2, Known, ZenonT(60) DEF DownloadWhole, One
<1> QED
  BY <1>3, <1>4, <1>5, <1>6, <1>7, <1>8, <1>9, ZenonT(60) DEF WssInv

LEMMA UploadStopsKeeps ==
    ASSUME WssInv, UploadStops
    PROVE  WssInv'
<1>1. /\ srv \in Srv /\ srv' = [srv EXCEPT !.upload = "done"]
  BY Types DEF UploadStops
<1>2. /\ srv.tunnel = "open" /\ srv.upload \in {"have", "paid", "eof"} /\ con' = con
      /\ s2c' = s2c /\ c2s' = c2s /\ link' = link /\ drain' = drain /\ peer' = peer
      /\ clean' = clean /\ srv'.tunnel = srv.tunnel /\ srv'.inMap = srv.inMap
      /\ srv'.answer = srv.answer /\ srv'.upload = "done" /\ srv'.download = srv.download
      /\ srv'.credit = srv.credit /\ srv'.queue = srv.queue /\ srv'.drained = srv.drained
      /\ srv'.taken = srv.taken /\ srv'.got = srv.got
  <2>1. /\ srv.tunnel = "open" /\ srv.upload \in {"have", "paid", "eof"} /\ con' = con
        /\ s2c' = s2c /\ c2s' = c2s /\ link' = link /\ drain' = drain /\ peer' = peer
        /\ clean' = clean
    BY DEF UploadStops
  <2>2. /\ srv'.tunnel = srv.tunnel /\ srv'.inMap = srv.inMap /\ srv'.answer = srv.answer
        /\ srv'.upload = "done" /\ srv'.download = srv.download /\ srv'.credit = srv.credit
        /\ srv'.queue = srv.queue /\ srv'.drained = srv.drained /\ srv'.taken = srv.taken
        /\ srv'.got = srv.got
    BY <1>1 DEF Srv
  <2> QED BY <2>1, <2>2
<1>3. WssTypeOK'
  <2>1. srv' \in Srv
    BY <1>1, ZenonT(40) DEF Srv
  <2> QED BY <1>2, <2>1, Types DEF WssTypeOK
<1>4. UpSum' <= Window
  <2>1. /\ srv'.credit = srv.credit /\ One(srv'.upload = "paid") = 0
        /\ In(s2c', "Data") = In(s2c, "Data") /\ con'.queue = con.queue
        /\ con'.drained = con.drained /\ UpGrants' = UpGrants
    BY <1>2 DEF One, UpGrants
  <2>2. srv.credit + 0 + In(s2c, "Data")
          + con.queue + con.drained + UpGrants <= Window
    BY UpTerms
  <2> QED BY <2>1, <2>2 DEF UpSum
<1>5. DownSum' = DownSum
  BY <1>2 DEF DownSum, DownGrants, One
<1>6. ServerPhases' /\ ResetDue'
  BY <1>2, Known, ZenonT(60) DEF ServerPhases, StreamUsed, ResetDue, GivenUp
<1>7. ConnectorPhases'
  BY <1>2, Known, ZenonT(60) DEF ConnectorPhases
<1>8. UploadWhole'
  BY <1>2, Known, ZenonT(60) DEF UploadWhole, UploadKept, RequestOver, One
<1>9. DownloadWhole'
  BY <1>2, Known, ZenonT(60) DEF DownloadWhole, One
<1> QED
  BY <1>3, <1>4, <1>5, <1>6, <1>7, <1>8, <1>9, ZenonT(60) DEF WssInv

\* A payload that is paid for is sent.
LEMMA UploadSendKeeps ==
    ASSUME WssInv, UploadSend, link = "up"
    PROVE  WssInv'
<1>1. /\ srv \in Srv /\ s2c \in Seq(ToConnector) /\ s2c' = Append(s2c, "Data")
      /\ srv' = [srv EXCEPT !.upload = "read"]
  BY Types DEF UploadSend, Send, SendFails
<1>2. /\ srv.tunnel = "open" /\ srv.upload = "paid" /\ con' = con /\ c2s' = c2s
      /\ link' = link /\ drain' = drain /\ peer' = peer /\ clean' = clean
      /\ srv'.tunnel = srv.tunnel /\ srv'.inMap = srv.inMap /\ srv'.answer = srv.answer
      /\ srv'.upload = "read" /\ srv'.download = srv.download /\ srv'.credit = srv.credit
      /\ srv'.queue = srv.queue /\ srv'.drained = srv.drained /\ srv'.taken = srv.taken
      /\ srv'.got = srv.got /\ In(s2c', "Connect") = In(s2c, "Connect")
      /\ In(s2c', "Data") = In(s2c, "Data") + 1
      /\ In(s2c', "WindowUpdate") = In(s2c, "WindowUpdate")
      /\ In(s2c', "Close") = In(s2c, "Close") /\ In(s2c', "Reset") = In(s2c, "Reset")
      /\ In(s2c, "Close") = 0
  <2>1. /\ srv.tunnel = "open" /\ srv.upload = "paid" /\ con' = con /\ c2s' = c2s
        /\ link' = link /\ drain' = drain /\ peer' = peer /\ clean' = clean
    BY DEF UploadSend, Send, SendFails
  <2>2. /\ srv'.tunnel = srv.tunnel /\ srv'.inMap = srv.inMap /\ srv'.answer = srv.answer
        /\ srv'.upload = "read" /\ srv'.download = srv.download /\ srv'.credit = srv.credit
        /\ srv'.queue = srv.queue /\ srv'.drained = srv.drained /\ srv'.taken = srv.taken
        /\ srv'.got = srv.got
    BY <1>1 DEF Srv
  <2>3. /\ In(s2c', "Connect") = In(s2c, "Connect") /\ In(s2c', "Data") = In(s2c, "Data") + 1
        /\ In(s2c', "WindowUpdate") = In(s2c, "WindowUpdate")
        /\ In(s2c', "Close") = In(s2c, "Close") /\ In(s2c', "Reset") = In(s2c, "Reset")
    BY <1>1, SentToConnector DEF ToConnector
  <2>4. In(s2c, "Close") = 0
    BY <2>1, Known DEF UploadWhole
  <2> QED BY <2>1, <2>2, <2>3, <2>4
<1>3. WssTypeOK'
  <2>1. srv' \in Srv
    BY <1>1, ZenonT(40) DEF Srv
  <2>2. s2c' \in Seq(ToConnector)
    BY <1>1, SentToConnector DEF ToConnector
  <2> QED BY <1>2, <2>1, <2>2, Types DEF WssTypeOK
<1>4. UpSum' <= Window
  <2>1. /\ One(srv.upload = "paid") = 1
    BY <1>2 DEF One
  <2>2. /\ srv'.credit = srv.credit /\ One(srv'.upload = "paid") = 0
        /\ In(s2c', "Data") = In(s2c, "Data") + 1 /\ con'.queue = con.queue
        /\ con'.drained = con.drained /\ UpGrants' = UpGrants
    BY <1>2 DEF One, UpGrants
  <2>3. srv.credit + 0 + (In(s2c, "Data") + 1)
          + con.queue + con.drained + UpGrants <= Window
    BY <2>1, UpTerms
  <2> QED BY <2>2, <2>3 DEF UpSum
<1>5. DownSum' = DownSum
  BY <1>2 DEF DownSum, DownGrants, One
<1>6. ServerPhases' /\ ResetDue'
  BY <1>2, OpenFacts, Known, ZenonT(60) DEF ServerPhases, StreamUsed, ResetDue, GivenUp
<1>7. ConnectorPhases'
  <2>1. /\ s2c' # <<>>
        /\ s2c # <<>> => Head(s2c') = Head(s2c)
        /\ s2c = <<>> => Head(s2c') = "Data"
    BY <1>1, SentToConnector DEF ToConnector
  <2> QED BY <1>2, <2>1, ZenonT(40), Known DEF ConnectorPhases
<1>8. UploadWhole'
  <2>1. CloseLast(s2c')
    BY <1>1, <1>2, CloseLastAppend, Parts, ZenonT(60) DEF UploadWhole, ToConnector
  <2> QED BY <1>2, <2>1, Known DEF UploadWhole, UploadKept, RequestOver, One
<1>9. DownloadWhole'
  BY <1>2, Known, ZenonT(60) DEF DownloadWhole, One
<1> QED
  BY <1>3, <1>4, <1>5, <1>6, <1>7, <1>8, <1>9, ZenonT(60) DEF WssInv

\* Close follows the last payload.
LEMMA UploadEofKeeps ==
    ASSUME WssInv, UploadEof, link = "up"
    PROVE  WssInv'
<1>1. /\ srv \in Srv /\ s2c \in Seq(ToConnector) /\ s2c' = Append(s2c, "Close")
      /\ srv' = [srv EXCEPT !.upload = "done"]
  BY Types DEF UploadEof, TrySend, Send, SendFails
<1>2. /\ srv.tunnel = "open" /\ srv.upload = "eof" /\ con' = con /\ c2s' = c2s
      /\ link' = link /\ drain' = drain /\ peer' = peer /\ clean' = clean
      /\ srv'.tunnel = srv.tunnel /\ srv'.inMap = srv.inMap /\ srv'.answer = srv.answer
      /\ srv'.upload = "done" /\ srv'.download = srv.download /\ srv'.credit = srv.credit
      /\ srv'.queue = srv.queue /\ srv'.drained = srv.drained /\ srv'.taken = srv.taken
      /\ srv'.got = srv.got /\ In(s2c', "Connect") = In(s2c, "Connect")
      /\ In(s2c', "Data") = In(s2c, "Data")
      /\ In(s2c', "WindowUpdate") = In(s2c, "WindowUpdate")
      /\ In(s2c', "Close") = In(s2c, "Close") + 1 /\ In(s2c', "Reset") = In(s2c, "Reset")
  <2>1. /\ srv.tunnel = "open" /\ srv.upload = "eof" /\ con' = con /\ c2s' = c2s
        /\ link' = link /\ drain' = drain /\ peer' = peer /\ clean' = clean
    BY DEF UploadEof, TrySend, Send, SendFails
  <2>2. /\ srv'.tunnel = srv.tunnel /\ srv'.inMap = srv.inMap /\ srv'.answer = srv.answer
        /\ srv'.upload = "done" /\ srv'.download = srv.download /\ srv'.credit = srv.credit
        /\ srv'.queue = srv.queue /\ srv'.drained = srv.drained /\ srv'.taken = srv.taken
        /\ srv'.got = srv.got
    BY <1>1 DEF Srv
  <2>3. /\ In(s2c', "Connect") = In(s2c, "Connect") /\ In(s2c', "Data") = In(s2c, "Data")
        /\ In(s2c', "WindowUpdate") = In(s2c, "WindowUpdate")
        /\ In(s2c', "Close") = In(s2c, "Close") + 1 /\ In(s2c', "Reset") = In(s2c, "Reset")
    BY <1>1, SentToConnector DEF ToConnector
  <2> QED BY <2>1, <2>2, <2>3
<1>3. WssTypeOK'
  <2>1. srv' \in Srv
    BY <1>1, ZenonT(40) DEF Srv
  <2>2. s2c' \in Seq(ToConnector)
    BY <1>1, SentToConnector DEF ToConnector
  <2> QED BY <1>2, <2>1, <2>2, Types DEF WssTypeOK
<1>4. UpSum' = UpSum /\ DownSum' = DownSum
  BY <1>2 DEF UpSum, UpGrants, DownSum, DownGrants, One
<1>5. ServerPhases' /\ ResetDue'
  BY <1>2, OpenFacts, Known, ZenonT(60) DEF ServerPhases, StreamUsed, ResetDue, GivenUp
<1>6. ConnectorPhases'
  <2>1. /\ s2c' # <<>>
        /\ s2c # <<>> => Head(s2c') = Head(s2c)
        /\ s2c = <<>> => Head(s2c') = "Close"
    BY <1>1, SentToConnector DEF ToConnector
  <2> QED BY <1>2, <2>1, ZenonT(40), Known DEF ConnectorPhases
<1>7. UploadWhole'
  <2>1. CloseLast(s2c')
    BY <1>1, CloseLastAppend, Parts, ZenonT(60) DEF UploadWhole, ToConnector
  <2> QED BY <1>2, <2>1, Known, ZenonT(60) DEF UploadWhole, UploadKept, RequestOver, One
<1>8. DownloadWhole'
  BY <1>2, Known, ZenonT(60) DEF DownloadWhole, One
<1> QED
  BY <1>3, <1>4, <1>5, <1>6, <1>7, <1>8, ZenonT(60) DEF WssInv

\* A client that fails ends the stream with a Reset.
LEMMA UploadAbortKeeps ==
    ASSUME WssInv, UploadAbort, link = "up"
    PROVE  WssInv'
<1>1. /\ srv \in Srv /\ s2c \in Seq(ToConnector) /\ s2c' = Append(s2c, "Reset")
      /\ srv' = [RemoveStream(srv) EXCEPT !.upload = "done"]
  BY Types DEF UploadAbort, TrySend, Send, SendFails
<1>2. /\ srv.tunnel = "open" /\ srv.upload = "abort" /\ con' = con /\ c2s' = c2s
      /\ link' = link /\ drain' = drain /\ peer' = peer /\ clean' = clean
      /\ srv'.tunnel = srv.tunnel /\ srv'.inMap = FALSE /\ srv'.answer = srv.answer
      /\ srv'.upload = "done" /\ srv'.download = srv.download /\ srv'.credit = srv.credit
      /\ srv'.queue = srv.queue /\ srv'.drained = srv.drained /\ srv'.taken = srv.taken
      /\ srv'.got = srv.got /\ In(s2c', "Connect") = In(s2c, "Connect")
      /\ In(s2c', "Data") = In(s2c, "Data")
      /\ In(s2c', "WindowUpdate") = In(s2c, "WindowUpdate")
      /\ In(s2c', "Close") = In(s2c, "Close") /\ In(s2c', "Reset") = In(s2c, "Reset") + 1
  <2>1. /\ srv.tunnel = "open" /\ srv.upload = "abort" /\ con' = con /\ c2s' = c2s
        /\ link' = link /\ drain' = drain /\ peer' = peer /\ clean' = clean
    BY DEF UploadAbort, TrySend, Send, SendFails
  <2>2. /\ srv'.tunnel = srv.tunnel /\ srv'.inMap = FALSE /\ srv'.answer = srv.answer
        /\ srv'.upload = "done" /\ srv'.download = srv.download /\ srv'.credit = srv.credit
        /\ srv'.queue = srv.queue /\ srv'.drained = srv.drained /\ srv'.taken = srv.taken
        /\ srv'.got = srv.got
    <3>1. PICK r \in Srv :
            /\ r = RemoveStream(srv) /\ r.inMap = FALSE
            /\ r.answer = srv.answer \/ (srv.answer = "pending" /\ r.answer = "err")
            /\ r.tunnel = srv.tunnel /\ r.upload = srv.upload /\ r.download = srv.download
            /\ r.credit = srv.credit /\ r.queue = srv.queue /\ r.drained = srv.drained
            /\ r.taken = srv.taken /\ r.got = srv.got
      BY Types, Removed, ZenonT(40)
    <3> QED BY <2>1, <1>1, <3>1, OpenFacts DEF Srv
  <2>3. /\ In(s2c', "Connect") = In(s2c, "Connect") /\ In(s2c', "Data") = In(s2c, "Data")
        /\ In(s2c', "WindowUpdate") = In(s2c, "WindowUpdate")
        /\ In(s2c', "Close") = In(s2c, "Close") /\ In(s2c', "Reset") = In(s2c, "Reset") + 1
    BY <1>1, SentToConnector DEF ToConnector
  <2> QED BY <2>1, <2>2, <2>3
<1>3. WssTypeOK'
  <2>1. RemoveStream(srv) \in Srv
    BY Types, Removed, ZenonT(40)
  <2>2. srv' \in Srv
    BY <1>1, <2>1, ZenonT(40) DEF Srv
  <2>3. s2c' \in Seq(ToConnector)
    BY <1>1, SentToConnector DEF ToConnector
  <2> QED BY <1>2, <2>1, <2>2, <2>3, Types DEF WssTypeOK
<1>4. UpSum' = UpSum /\ DownSum' = DownSum
  BY <1>2 DEF UpSum, UpGrants, DownSum, DownGrants, One
<1>5. ServerPhases' /\ ResetDue'
  BY <1>2, Known DEF ServerPhases, StreamUsed, ResetDue, GivenUp
<1>6. ConnectorPhases'
  <2>1. /\ s2c' # <<>>
        /\ s2c # <<>> => Head(s2c') = Head(s2c)
        /\ s2c = <<>> => Head(s2c') = "Reset"
    BY <1>1, SentToConnector DEF ToConnector
  <2> QED BY <1>2, <2>1, ZenonT(40), Known DEF ConnectorPhases
<1>7. UploadWhole'
  <2>1. CloseLast(s2c')
    BY <1>1, CloseLastAppend, Parts, ZenonT(60) DEF UploadWhole, ToConnector
  <2> QED BY <1>2, <2>1, Known, ZenonT(60) DEF UploadWhole, UploadKept, RequestOver, One
<1>8. DownloadWhole'
  BY <1>2, Known, ZenonT(60) DEF DownloadWhole, One
<1> QED
  BY <1>3, <1>4, <1>5, <1>6, <1>7, <1>8, ZenonT(60) DEF WssInv

\* ... which a session that is over does not take.
LEMMA UploadAbortDownKeeps ==
    ASSUME WssInv, UploadAbort, link = "down"
    PROVE  WssInv'
<1>1. /\ srv \in Srv /\ srv' = [RemoveStream(srv) EXCEPT !.upload = "done"]
  BY Types DEF UploadAbort, TrySend, Send, SendFails
<1>2. /\ srv.tunnel = "open" /\ srv.upload = "abort" /\ con' = con /\ s2c' = s2c
      /\ c2s' = c2s /\ link' = link /\ drain' = drain /\ peer' = peer /\ clean' = clean
      /\ srv'.tunnel = srv.tunnel /\ srv'.inMap = FALSE /\ srv'.answer = srv.answer
      /\ srv'.upload = "done" /\ srv'.download = srv.download /\ srv'.credit = srv.credit
      /\ srv'.queue = srv.queue /\ srv'.drained = srv.drained /\ srv'.taken = srv.taken
      /\ srv'.got = srv.got
  <2>1. /\ srv.tunnel = "open" /\ srv.upload = "abort" /\ con' = con /\ s2c' = s2c
        /\ c2s' = c2s /\ link' = link /\ drain' = drain /\ peer' = peer /\ clean' = clean
    BY DEF UploadAbort, TrySend, Send, SendFails
  <2>2. /\ srv'.tunnel = srv.tunnel /\ srv'.inMap = FALSE /\ srv'.answer = srv.answer
        /\ srv'.upload = "done" /\ srv'.download = srv.download /\ srv'.credit = srv.credit
        /\ srv'.queue = srv.queue /\ srv'.drained = srv.drained /\ srv'.taken = srv.taken
        /\ srv'.got = srv.got
    <3>1. PICK r \in Srv :
            /\ r = RemoveStream(srv) /\ r.inMap = FALSE
            /\ r.answer = srv.answer \/ (srv.answer = "pending" /\ r.answer = "err")
            /\ r.tunnel = srv.tunnel /\ r.upload = srv.upload /\ r.download = srv.download
            /\ r.credit = srv.credit /\ r.queue = srv.queue /\ r.drained = srv.drained
            /\ r.taken = srv.taken /\ r.got = srv.got
      BY Types, Removed, ZenonT(40)
    <3> QED BY <2>1, <1>1, <3>1, OpenFacts DEF Srv
  <2> QED BY <2>1, <2>2
<1>3. WssTypeOK'
  <2>1. RemoveStream(srv) \in Srv
    BY Types, Removed, ZenonT(40)
  <2>2. srv' \in Srv
    BY <1>1, <2>1, ZenonT(40) DEF Srv
  <2> QED BY <1>2, <2>1, <2>2, Types DEF WssTypeOK
<1>4. UpSum' = UpSum /\ DownSum' = DownSum
  BY <1>2 DEF UpSum, UpGrants, DownSum, DownGrants, One
<1>5. ServerPhases' /\ ResetDue'
  BY <1>2, Known, ZenonT(60) DEF ServerPhases, StreamUsed, ResetDue, GivenUp
<1>6. ConnectorPhases'
  BY <1>2, Known, ZenonT(60) DEF ConnectorPhases
<1>7. UploadWhole'
  BY <1>2, Known, ZenonT(60) DEF UploadWhole, UploadKept, RequestOver, One
<1>8. DownloadWhole'
  BY <1>2, Known, ZenonT(60) DEF DownloadWhole, One
<1> QED
  BY <1>3, <1>4, <1>5, <1>6, <1>7, <1>8, ZenonT(60) DEF WssInv

LEMMA WritePayloadKeeps ==
    ASSUME WssInv, WritePayload
    PROVE  WssInv'
<1>1. /\ srv \in Srv
      /\ srv' = [srv EXCEPT !.queue = @ - 1, !.got = @ + 1, !.drained = @ + 1]
  BY Types DEF WritePayload
<1>2. /\ srv.tunnel = "open" /\ srv.download = "recv" /\ srv.queue > 0 /\ con' = con
      /\ s2c' = s2c /\ c2s' = c2s /\ link' = link /\ drain' = drain /\ peer' = peer
      /\ clean' = clean /\ srv'.tunnel = srv.tunnel /\ srv'.inMap = srv.inMap
      /\ srv'.answer = srv.answer /\ srv'.upload = srv.upload
      /\ srv'.download = srv.download /\ srv'.credit = srv.credit
      /\ srv'.queue = srv.queue - 1 /\ srv'.drained = srv.drained + 1
      /\ srv'.taken = srv.taken /\ srv'.got = srv.got + 1
  <2>1. /\ srv.tunnel = "open" /\ srv.download = "recv" /\ srv.queue > 0 /\ con' = con
        /\ s2c' = s2c /\ c2s' = c2s /\ link' = link /\ drain' = drain /\ peer' = peer
        /\ clean' = clean
    BY DEF WritePayload
  <2>2. /\ srv'.tunnel = srv.tunnel /\ srv'.inMap = srv.inMap /\ srv'.answer = srv.answer
        /\ srv'.upload = srv.upload /\ srv'.download = srv.download
        /\ srv'.credit = srv.credit /\ srv'.queue = srv.queue - 1
        /\ srv'.drained = srv.drained + 1 /\ srv'.taken = srv.taken /\ srv'.got = srv.got + 1
    BY <1>1 DEF Srv
  <2> QED BY <2>1, <2>2
<1>3. WssTypeOK'
  <2>1. srv.queue - 1 \in Nat /\ srv.got + 1 \in Nat /\ srv.drained + 1 \in Nat
    BY <1>2, Numbers
  <2>2. srv' \in Srv
    BY <2>1, <1>1, ZenonT(40) DEF Srv
  <2> QED BY <1>2, <2>1, <2>2, Types DEF WssTypeOK
<1>4. UpSum' = UpSum
  BY <1>2 DEF UpSum, UpGrants, One
<1>5. DownSum' <= Window
  <2>1. /\ srv.queue > 0
    BY <1>2 DEF One
  <2>2. /\ con'.credit = con.credit
        /\ One(con'.download = "paid") = One(con.download = "paid")
        /\ In(c2s', "Data") = In(c2s, "Data") /\ srv'.queue = srv.queue - 1
        /\ srv'.drained = srv.drained + 1 /\ DownGrants' = DownGrants
    BY <1>2 DEF One, DownGrants
  <2>3. con.credit + One(con.download = "paid") + In(c2s, "Data")
          + (srv.queue - 1) + (srv.drained + 1) + DownGrants <= Window
    BY <2>1, DownTerms
  <2> QED BY <2>2, <2>3 DEF DownSum
<1>6. ServerPhases' /\ ResetDue'
  BY <1>2, Known, ZenonT(60) DEF ServerPhases, StreamUsed, ResetDue, GivenUp
<1>7. ConnectorPhases'
  BY <1>2, Known, ZenonT(60) DEF ConnectorPhases
<1>8. UploadWhole'
  BY <1>2, Known, ZenonT(60) DEF UploadWhole, UploadKept, RequestOver, One
<1>9. DownloadWhole'
  BY <1>2, Known DEF DownloadWhole, One
<1> QED
  BY <1>3, <1>4, <1>5, <1>6, <1>7, <1>8, <1>9, ZenonT(60) DEF WssInv

LEMMA WriteAndGrantKeeps ==
    ASSUME WssInv, WriteAndGrant
    PROVE  WssInv'
<1>1. /\ srv \in Srv
      /\ srv' = [srv EXCEPT !.queue = @ - 1, !.got = @ + 1, !.drained = 0, !.download = "update"]
  BY Types DEF WriteAndGrant
<1>2. /\ srv.tunnel = "open" /\ srv.download = "recv" /\ srv.queue > 0
      /\ srv.drained + 1 >= Threshold /\ con' = con /\ s2c' = s2c /\ c2s' = c2s
      /\ link' = link /\ drain' = drain /\ peer' = peer /\ clean' = clean
      /\ srv'.tunnel = srv.tunnel /\ srv'.inMap = srv.inMap /\ srv'.answer = srv.answer
      /\ srv'.upload = srv.upload /\ srv'.download = "update" /\ srv'.credit = srv.credit
      /\ srv'.queue = srv.queue - 1 /\ srv'.drained = 0 /\ srv'.taken = srv.taken
      /\ srv'.got = srv.got + 1
  <2>1. /\ srv.tunnel = "open" /\ srv.download = "recv" /\ srv.queue > 0
        /\ srv.drained + 1 >= Threshold /\ con' = con /\ s2c' = s2c /\ c2s' = c2s
        /\ link' = link /\ drain' = drain /\ peer' = peer /\ clean' = clean
    BY DEF WriteAndGrant
  <2>2. /\ srv'.tunnel = srv.tunnel /\ srv'.inMap = srv.inMap /\ srv'.answer = srv.answer
        /\ srv'.upload = srv.upload /\ srv'.download = "update" /\ srv'.credit = srv.credit
        /\ srv'.queue = srv.queue - 1 /\ srv'.drained = 0 /\ srv'.taken = srv.taken
        /\ srv'.got = srv.got + 1
    BY <1>1 DEF Srv
  <2> QED BY <2>1, <2>2
<1>3. WssTypeOK'
  <2>1. srv.queue - 1 \in Nat /\ srv.got + 1 \in Nat /\ 0 \in Nat
    BY <1>2, Numbers
  <2>2. srv' \in Srv
    BY <2>1, <1>1, ZenonT(40) DEF Srv
  <2> QED BY <1>2, <2>1, <2>2, Types DEF WssTypeOK
<1>4. UpSum' = UpSum
  BY <1>2 DEF UpSum, UpGrants, One
<1>5. DownSum' <= Window
  <2>1. /\ srv.queue > 0 /\ srv.drained + 1 >= Threshold
    BY <1>2 DEF One
  <2>2. /\ con'.credit = con.credit
        /\ One(con'.download = "paid") = One(con.download = "paid")
        /\ In(c2s', "Data") = In(c2s, "Data") /\ srv'.queue = srv.queue - 1
        /\ srv'.drained = 0
    BY <1>2 DEF One
  <2>3. DownGrants' = DownGrants + Threshold
    <3>1. One(srv'.download = "update") + In(s2c', "WindowUpdate") = In(s2c, "WindowUpdate") + 1
      BY <1>2, Numbers DEF One
    <3>2. One(srv.download = "update") + In(s2c, "WindowUpdate") = In(s2c, "WindowUpdate")
      BY <1>2, Numbers DEF One
    <3> QED BY <1>2, <3>1, <3>2, Numbers, OneMore, WindowAssumption DEF DownGrants
  <2>4. con.credit + One(con.download = "paid") + In(c2s, "Data")
          + (srv.queue - 1) + 0 + (DownGrants + Threshold) <= Window
    BY <2>1, DownTerms
  <2> QED BY <2>2, <2>3, <2>4 DEF DownSum
<1>6. ServerPhases' /\ ResetDue'
  BY <1>2, Known, ZenonT(60) DEF ServerPhases, StreamUsed, ResetDue, GivenUp
<1>7. ConnectorPhases'
  BY <1>2, Known, ZenonT(60) DEF ConnectorPhases
<1>8. UploadWhole'
  BY <1>2, Known, ZenonT(60) DEF UploadWhole, UploadKept, RequestOver, One
<1>9. DownloadWhole'
  BY <1>2, Known DEF DownloadWhole, One
<1> QED
  BY <1>3, <1>4, <1>5, <1>6, <1>7, <1>8, <1>9, ZenonT(60) DEF WssInv

LEMMA WriteFailsKeeps ==
    ASSUME WssInv, WriteFails
    PROVE  WssInv'
<1>1. /\ srv \in Srv /\ srv' = [srv EXCEPT !.download = "reset"]
  BY Types DEF WriteFails
<1>2. /\ srv.tunnel = "open" /\ srv.download = "recv" /\ clean' = FALSE /\ con' = con
      /\ s2c' = s2c /\ c2s' = c2s /\ link' = link /\ drain' = drain /\ peer' = peer
      /\ srv'.tunnel = srv.tunnel /\ srv'.inMap = srv.inMap /\ srv'.answer = srv.answer
      /\ srv'.upload = srv.upload /\ srv'.download = "reset" /\ srv'.credit = srv.credit
      /\ srv'.queue = srv.queue /\ srv'.drained = srv.drained /\ srv'.taken = srv.taken
      /\ srv'.got = srv.got
  <2>1. /\ srv.tunnel = "open" /\ srv.download = "recv" /\ clean' = FALSE /\ con' = con
        /\ s2c' = s2c /\ c2s' = c2s /\ link' = link /\ drain' = drain /\ peer' = peer
    BY DEF WriteFails
  <2>2. /\ srv'.tunnel = srv.tunnel /\ srv'.inMap = srv.inMap /\ srv'.answer = srv.answer
        /\ srv'.upload = srv.upload /\ srv'.download = "reset" /\ srv'.credit = srv.credit
        /\ srv'.queue = srv.queue /\ srv'.drained = srv.drained /\ srv'.taken = srv.taken
        /\ srv'.got = srv.got
    BY <1>1 DEF Srv
  <2> QED BY <2>1, <2>2
<1>3. WssTypeOK'
  <2>1. srv' \in Srv
    BY <1>1, ZenonT(40) DEF Srv
  <2> QED BY <1>2, <2>1, Types, ZenonT(40) DEF WssTypeOK
<1>4. UpSum' = UpSum /\ DownSum' = DownSum
  BY <1>2 DEF UpSum, UpGrants, DownSum, DownGrants, One
<1>5. ServerPhases' /\ ResetDue'
  BY <1>2, Known, ZenonT(60) DEF ServerPhases, StreamUsed, ResetDue, GivenUp
<1>6. ConnectorPhases'
  BY <1>2, Known, ZenonT(60) DEF ConnectorPhases
<1>7. UploadWhole'
  BY <1>2, Known, ZenonT(60) DEF UploadWhole, UploadKept, RequestOver, One
<1>8. DownloadWhole'
  BY <1>2, Known, ZenonT(60) DEF DownloadWhole, One
<1> QED
  BY <1>3, <1>4, <1>5, <1>6, <1>7, <1>8, ZenonT(60) DEF WssInv

\* The WindowUpdate that is due is sent.
LEMMA DownloadUpdateKeeps ==
    ASSUME WssInv, DownloadUpdate, link = "up"
    PROVE  WssInv'
<1>1. /\ srv \in Srv /\ s2c \in Seq(ToConnector) /\ s2c' = Append(s2c, "WindowUpdate")
      /\ srv' = [srv EXCEPT !.download = "recv"]
  BY Types DEF DownloadUpdate, Send, SendFails
<1>2. /\ srv.tunnel = "open" /\ srv.download = "update" /\ con' = con /\ c2s' = c2s
      /\ link' = link /\ drain' = drain /\ peer' = peer /\ clean' = clean
      /\ srv'.tunnel = srv.tunnel /\ srv'.inMap = srv.inMap /\ srv'.answer = srv.answer
      /\ srv'.upload = srv.upload /\ srv'.download = "recv" /\ srv'.credit = srv.credit
      /\ srv'.queue = srv.queue /\ srv'.drained = srv.drained /\ srv'.taken = srv.taken
      /\ srv'.got = srv.got /\ In(s2c', "Connect") = In(s2c, "Connect")
      /\ In(s2c', "Data") = In(s2c, "Data")
      /\ In(s2c', "WindowUpdate") = In(s2c, "WindowUpdate") + 1
      /\ In(s2c', "Close") = In(s2c, "Close") /\ In(s2c', "Reset") = In(s2c, "Reset")
  <2>1. /\ srv.tunnel = "open" /\ srv.download = "update" /\ con' = con /\ c2s' = c2s
        /\ link' = link /\ drain' = drain /\ peer' = peer /\ clean' = clean
    BY DEF DownloadUpdate, Send, SendFails
  <2>2. /\ srv'.tunnel = srv.tunnel /\ srv'.inMap = srv.inMap /\ srv'.answer = srv.answer
        /\ srv'.upload = srv.upload /\ srv'.download = "recv" /\ srv'.credit = srv.credit
        /\ srv'.queue = srv.queue /\ srv'.drained = srv.drained /\ srv'.taken = srv.taken
        /\ srv'.got = srv.got
    BY <1>1 DEF Srv
  <2>3. /\ In(s2c', "Connect") = In(s2c, "Connect") /\ In(s2c', "Data") = In(s2c, "Data")
        /\ In(s2c', "WindowUpdate") = In(s2c, "WindowUpdate") + 1
        /\ In(s2c', "Close") = In(s2c, "Close") /\ In(s2c', "Reset") = In(s2c, "Reset")
    BY <1>1, SentToConnector DEF ToConnector
  <2> QED BY <2>1, <2>2, <2>3
<1>3. WssTypeOK'
  <2>1. srv' \in Srv
    BY <1>1, ZenonT(40) DEF Srv
  <2>2. s2c' \in Seq(ToConnector)
    BY <1>1, SentToConnector DEF ToConnector
  <2> QED BY <1>2, <2>1, <2>2, Types DEF WssTypeOK
<1>4. UpSum' = UpSum
  BY <1>2 DEF UpSum, UpGrants, One
<1>5. DownSum' <= Window
  <2>1. /\ con'.credit = con.credit
        /\ One(con'.download = "paid") = One(con.download = "paid")
        /\ In(c2s', "Data") = In(c2s, "Data") /\ srv'.queue = srv.queue
        /\ srv'.drained = srv.drained
    BY <1>2 DEF One
  <2>2. DownGrants' = DownGrants
    <3>1. One(srv'.download = "update") + In(s2c', "WindowUpdate") = In(s2c, "WindowUpdate") + 1
      BY <1>2, Numbers DEF One
    <3>2. One(srv.download = "update") + In(s2c, "WindowUpdate") = In(s2c, "WindowUpdate") + 1
      BY <1>2, Numbers DEF One
    <3> QED BY <1>2, <3>1, <3>2, Numbers, OneMore, WindowAssumption DEF DownGrants
  <2>3. con.credit + One(con.download = "paid") + In(c2s, "Data")
          + srv.queue + srv.drained + DownGrants <= Window
    BY DownTerms
  <2> QED BY <2>1, <2>2, <2>3 DEF DownSum
<1>6. ServerPhases' /\ ResetDue'
  BY <1>2, OpenFacts, Known, ZenonT(60) DEF ServerPhases, StreamUsed, ResetDue, GivenUp
<1>7. ConnectorPhases'
  <2>1. /\ s2c' # <<>>
        /\ s2c # <<>> => Head(s2c') = Head(s2c)
        /\ s2c = <<>> => Head(s2c') = "WindowUpdate"
    BY <1>1, SentToConnector DEF ToConnector
  <2> QED BY <1>2, <2>1, ZenonT(40), Known DEF ConnectorPhases
<1>8. UploadWhole'
  <2>1. CloseLast(s2c')
    BY <1>1, CloseLastAppend, Parts, ZenonT(60) DEF UploadWhole, ToConnector
  <2> QED BY <1>2, <2>1, Known, ZenonT(60) DEF UploadWhole, UploadKept, RequestOver, One
<1>9. DownloadWhole'
  BY <1>2, Known, ZenonT(60) DEF DownloadWhole, One
<1> QED
  BY <1>3, <1>4, <1>5, <1>6, <1>7, <1>8, <1>9, ZenonT(60) DEF WssInv

\* ... or the session is over, which ends the download.
LEMMA DownloadUpdateFailsKeeps ==
    ASSUME WssInv, DownloadUpdate, link = "down"
    PROVE  WssInv'
<1>1. /\ srv \in Srv /\ srv' = [srv EXCEPT !.download = "done"]
  BY Types DEF DownloadUpdate, Send, SendFails
<1>2. /\ srv.tunnel = "open" /\ srv.download = "update" /\ con' = con /\ s2c' = s2c
      /\ c2s' = c2s /\ link' = link /\ drain' = drain /\ peer' = peer /\ clean' = clean
      /\ srv'.tunnel = srv.tunnel /\ srv'.inMap = srv.inMap /\ srv'.answer = srv.answer
      /\ srv'.upload = srv.upload /\ srv'.download = "done" /\ srv'.credit = srv.credit
      /\ srv'.queue = srv.queue /\ srv'.drained = srv.drained /\ srv'.taken = srv.taken
      /\ srv'.got = srv.got
  <2>1. /\ srv.tunnel = "open" /\ srv.download = "update" /\ con' = con /\ s2c' = s2c
        /\ c2s' = c2s /\ link' = link /\ drain' = drain /\ peer' = peer /\ clean' = clean
    BY DEF DownloadUpdate, Send, SendFails
  <2>2. /\ srv'.tunnel = srv.tunnel /\ srv'.inMap = srv.inMap /\ srv'.answer = srv.answer
        /\ srv'.upload = srv.upload /\ srv'.download = "done" /\ srv'.credit = srv.credit
        /\ srv'.queue = srv.queue /\ srv'.drained = srv.drained /\ srv'.taken = srv.taken
        /\ srv'.got = srv.got
    BY <1>1 DEF Srv
  <2> QED BY <2>1, <2>2
<1>3. WssTypeOK'
  <2>1. srv' \in Srv
    BY <1>1, ZenonT(40) DEF Srv
  <2> QED BY <1>2, <2>1, Types DEF WssTypeOK
<1>4. UpSum' = UpSum
  BY <1>2 DEF UpSum, UpGrants, One
<1>5. DownSum' <= Window
  <2>1. /\ con'.credit = con.credit
        /\ One(con'.download = "paid") = One(con.download = "paid")
        /\ In(c2s', "Data") = In(c2s, "Data") /\ srv'.queue = srv.queue
        /\ srv'.drained = srv.drained
    BY <1>2 DEF One
  <2>2. DownGrants' = DownGrants - Threshold
    <3>1. One(srv'.download = "update") + In(s2c', "WindowUpdate") = In(s2c, "WindowUpdate")
      BY <1>2, Numbers DEF One
    <3>2. One(srv.download = "update") + In(s2c, "WindowUpdate") = In(s2c, "WindowUpdate") + 1
      BY <1>2, Numbers DEF One
    <3> QED BY <1>2, <3>1, <3>2, Numbers, OneMore, WindowAssumption DEF DownGrants
  <2>3. con.credit + One(con.download = "paid") + In(c2s, "Data")
          + srv.queue + srv.drained + (DownGrants - Threshold) <= Window
    BY DownTerms
  <2> QED BY <2>1, <2>2, <2>3 DEF DownSum
<1>6. ServerPhases' /\ ResetDue'
  BY <1>2, Known, ZenonT(60) DEF ServerPhases, StreamUsed, ResetDue, GivenUp
<1>7. ConnectorPhases'
  BY <1>2, Known, ZenonT(60) DEF ConnectorPhases
<1>8. UploadWhole'
  BY <1>2, Known, ZenonT(60) DEF UploadWhole, UploadKept, RequestOver, One
<1>9. DownloadWhole'
  BY <1>2, Known, ZenonT(60) DEF DownloadWhole, One
<1> QED
  BY <1>3, <1>4, <1>5, <1>6, <1>7, <1>8, <1>9, ZenonT(60) DEF WssInv

\* The entry is gone and everything queued is written.
LEMMA DownloadEndKeeps ==
    ASSUME WssInv, DownloadEnd
    PROVE  WssInv'
<1>1. /\ srv \in Srv /\ srv' = [srv EXCEPT !.download = "done"]
  BY Types, Ranges DEF DownloadEnd
<1>2. /\ srv.tunnel = "open" /\ srv.download = "recv" /\ srv.queue = 0 /\ srv.inMap = FALSE
      /\ con' = con /\ s2c' = s2c /\ c2s' = c2s /\ link' = link /\ drain' = drain
      /\ peer' = peer /\ clean' = clean /\ srv'.tunnel = srv.tunnel
      /\ srv'.inMap = srv.inMap /\ srv'.answer = srv.answer /\ srv'.upload = srv.upload
      /\ srv'.download = "done" /\ srv'.credit = srv.credit /\ srv'.queue = srv.queue
      /\ srv'.drained = srv.drained /\ srv'.taken = srv.taken /\ srv'.got = srv.got
  <2>1. /\ srv.tunnel = "open" /\ srv.download = "recv" /\ srv.queue = 0 /\ srv.inMap = FALSE
        /\ con' = con /\ s2c' = s2c /\ c2s' = c2s /\ link' = link /\ drain' = drain
        /\ peer' = peer /\ clean' = clean
    BY Ranges DEF DownloadEnd
  <2>2. /\ srv'.tunnel = srv.tunnel /\ srv'.inMap = srv.inMap /\ srv'.answer = srv.answer
        /\ srv'.upload = srv.upload /\ srv'.download = "done" /\ srv'.credit = srv.credit
        /\ srv'.queue = srv.queue /\ srv'.drained = srv.drained /\ srv'.taken = srv.taken
        /\ srv'.got = srv.got
    BY <1>1 DEF Srv
  <2> QED BY <2>1, <2>2
<1>3. WssTypeOK'
  <2>1. srv' \in Srv
    BY <1>1, ZenonT(40) DEF Srv
  <2> QED BY <1>2, <2>1, Types DEF WssTypeOK
<1>4. UpSum' = UpSum /\ DownSum' = DownSum
  BY <1>2 DEF UpSum, UpGrants, DownSum, DownGrants, One
<1>5. ServerPhases' /\ ResetDue'
  BY <1>2, Known, ZenonT(60) DEF ServerPhases, StreamUsed, ResetDue, GivenUp
<1>6. ConnectorPhases'
  BY <1>2, Known, ZenonT(60) DEF ConnectorPhases
<1>7. UploadWhole'
  BY <1>2, Known, ZenonT(60) DEF UploadWhole, UploadKept, RequestOver, One
<1>8. DownloadWhole'
  BY <1>2, Known, ZenonT(60) DEF DownloadWhole, One
<1> QED
  BY <1>3, <1>4, <1>5, <1>6, <1>7, <1>8, ZenonT(60) DEF WssInv

\* A client that takes nothing more ends the stream with a Reset.
LEMMA DownloadResetKeeps ==
    ASSUME WssInv, DownloadReset, link = "up"
    PROVE  WssInv'
<1>1. /\ srv \in Srv /\ s2c \in Seq(ToConnector) /\ s2c' = Append(s2c, "Reset")
      /\ srv' = [srv EXCEPT !.download = "done"]
  BY Types DEF DownloadReset, TrySend, Send, SendFails
<1>2. /\ srv.tunnel = "open" /\ srv.download = "reset" /\ con' = con /\ c2s' = c2s
      /\ link' = link /\ drain' = drain /\ peer' = peer /\ clean' = clean
      /\ srv'.tunnel = srv.tunnel /\ srv'.inMap = srv.inMap /\ srv'.answer = srv.answer
      /\ srv'.upload = srv.upload /\ srv'.download = "done" /\ srv'.credit = srv.credit
      /\ srv'.queue = srv.queue /\ srv'.drained = srv.drained /\ srv'.taken = srv.taken
      /\ srv'.got = srv.got /\ In(s2c', "Connect") = In(s2c, "Connect")
      /\ In(s2c', "Data") = In(s2c, "Data")
      /\ In(s2c', "WindowUpdate") = In(s2c, "WindowUpdate")
      /\ In(s2c', "Close") = In(s2c, "Close") /\ In(s2c', "Reset") = In(s2c, "Reset") + 1
  <2>1. /\ srv.tunnel = "open" /\ srv.download = "reset" /\ con' = con /\ c2s' = c2s
        /\ link' = link /\ drain' = drain /\ peer' = peer /\ clean' = clean
    BY DEF DownloadReset, TrySend, Send, SendFails
  <2>2. /\ srv'.tunnel = srv.tunnel /\ srv'.inMap = srv.inMap /\ srv'.answer = srv.answer
        /\ srv'.upload = srv.upload /\ srv'.download = "done" /\ srv'.credit = srv.credit
        /\ srv'.queue = srv.queue /\ srv'.drained = srv.drained /\ srv'.taken = srv.taken
        /\ srv'.got = srv.got
    BY <1>1 DEF Srv
  <2>3. /\ In(s2c', "Connect") = In(s2c, "Connect") /\ In(s2c', "Data") = In(s2c, "Data")
        /\ In(s2c', "WindowUpdate") = In(s2c, "WindowUpdate")
        /\ In(s2c', "Close") = In(s2c, "Close") /\ In(s2c', "Reset") = In(s2c, "Reset") + 1
    BY <1>1, SentToConnector DEF ToConnector
  <2> QED BY <2>1, <2>2, <2>3
<1>3. WssTypeOK'
  <2>1. srv' \in Srv
    BY <1>1, ZenonT(40) DEF Srv
  <2>2. s2c' \in Seq(ToConnector)
    BY <1>1, SentToConnector DEF ToConnector
  <2> QED BY <1>2, <2>1, <2>2, Types DEF WssTypeOK
<1>4. UpSum' = UpSum /\ DownSum' = DownSum
  BY <1>2 DEF UpSum, UpGrants, DownSum, DownGrants, One
<1>5. ServerPhases' /\ ResetDue'
  BY <1>2, Known DEF ServerPhases, StreamUsed, ResetDue, GivenUp
<1>6. ConnectorPhases'
  <2>1. /\ s2c' # <<>>
        /\ s2c # <<>> => Head(s2c') = Head(s2c)
        /\ s2c = <<>> => Head(s2c') = "Reset"
    BY <1>1, SentToConnector DEF ToConnector
  <2> QED BY <1>2, <2>1, ZenonT(40), Known DEF ConnectorPhases
<1>7. UploadWhole'
  <2>1. CloseLast(s2c')
    BY <1>1, CloseLastAppend, Parts, ZenonT(60) DEF UploadWhole, ToConnector
  <2> QED BY <1>2, <2>1, Known, ZenonT(60) DEF UploadWhole, UploadKept, RequestOver, One
<1>8. DownloadWhole'
  BY <1>2, Known, ZenonT(60) DEF DownloadWhole, One
<1> QED
  BY <1>3, <1>4, <1>5, <1>6, <1>7, <1>8, ZenonT(60) DEF WssInv

\* ... which a session that is over does not take.
LEMMA DownloadResetDownKeeps ==
    ASSUME WssInv, DownloadReset, link = "down"
    PROVE  WssInv'
<1>1. /\ srv \in Srv /\ srv' = [srv EXCEPT !.download = "done"]
  BY Types DEF DownloadReset, TrySend, Send, SendFails
<1>2. /\ srv.tunnel = "open" /\ srv.download = "reset" /\ con' = con /\ s2c' = s2c
      /\ c2s' = c2s /\ link' = link /\ drain' = drain /\ peer' = peer /\ clean' = clean
      /\ srv'.tunnel = srv.tunnel /\ srv'.inMap = srv.inMap /\ srv'.answer = srv.answer
      /\ srv'.upload = srv.upload /\ srv'.download = "done" /\ srv'.credit = srv.credit
      /\ srv'.queue = srv.queue /\ srv'.drained = srv.drained /\ srv'.taken = srv.taken
      /\ srv'.got = srv.got
  <2>1. /\ srv.tunnel = "open" /\ srv.download = "reset" /\ con' = con /\ s2c' = s2c
        /\ c2s' = c2s /\ link' = link /\ drain' = drain /\ peer' = peer /\ clean' = clean
    BY DEF DownloadReset, TrySend, Send, SendFails
  <2>2. /\ srv'.tunnel = srv.tunnel /\ srv'.inMap = srv.inMap /\ srv'.answer = srv.answer
        /\ srv'.upload = srv.upload /\ srv'.download = "done" /\ srv'.credit = srv.credit
        /\ srv'.queue = srv.queue /\ srv'.drained = srv.drained /\ srv'.taken = srv.taken
        /\ srv'.got = srv.got
    BY <1>1 DEF Srv
  <2> QED BY <2>1, <2>2
<1>3. WssTypeOK'
  <2>1. srv' \in Srv
    BY <1>1, ZenonT(40) DEF Srv
  <2> QED BY <1>2, <2>1, Types DEF WssTypeOK
<1>4. UpSum' = UpSum /\ DownSum' = DownSum
  BY <1>2 DEF UpSum, UpGrants, DownSum, DownGrants, One
<1>5. ServerPhases' /\ ResetDue'
  BY <1>2, Known, ZenonT(60) DEF ServerPhases, StreamUsed, ResetDue, GivenUp
<1>6. ConnectorPhases'
  BY <1>2, Known, ZenonT(60) DEF ConnectorPhases
<1>7. UploadWhole'
  BY <1>2, Known, ZenonT(60) DEF UploadWhole, UploadKept, RequestOver, One
<1>8. DownloadWhole'
  BY <1>2, Known, ZenonT(60) DEF DownloadWhole, One
<1> QED
  BY <1>3, <1>4, <1>5, <1>6, <1>7, <1>8, ZenonT(60) DEF WssInv

\* ConnectOk answers a connect that still waits.
LEMMA ConnectOkArrivesKeeps ==
    ASSUME WssInv, ServerReceive, Head(c2s) = "ConnectOk"
    PROVE  WssInv'
<1>1. /\ srv \in Srv /\ c2s \in Seq(ToServer) /\ c2s # <<>> /\ Head(c2s) = "ConnectOk"
      /\ c2s' = Tail(c2s)
      /\ srv' = [srv EXCEPT !.answer = IF @ = "pending" THEN "ok" ELSE @]
  BY Types DEF ServerReceive, OnServerMessage
<1>2. /\ link = "up" /\ con' = con /\ s2c' = s2c /\ link' = link /\ drain' = drain
      /\ peer' = peer /\ clean' = clean /\ srv'.tunnel = srv.tunnel
      /\ srv'.inMap = srv.inMap
      /\ srv'.answer = IF srv.answer = "pending" THEN "ok" ELSE srv.answer
      /\ srv'.upload = srv.upload /\ srv'.download = srv.download
      /\ srv'.credit = srv.credit /\ srv'.queue = srv.queue /\ srv'.drained = srv.drained
      /\ srv'.taken = srv.taken /\ srv'.got = srv.got
      /\ In(c2s', "ConnectOk") = In(c2s, "ConnectOk") - 1
      /\ In(c2s', "ConnectErr") = In(c2s, "ConnectErr")
      /\ In(c2s', "Data") = In(c2s, "Data")
      /\ In(c2s', "WindowUpdate") = In(c2s, "WindowUpdate")
      /\ In(c2s', "Close") = In(c2s, "Close") /\ In(c2s, "ConnectOk") > 0
  <2>1. /\ link = "up" /\ con' = con /\ s2c' = s2c /\ link' = link /\ drain' = drain
        /\ peer' = peer /\ clean' = clean
    BY DEF ServerReceive, OnServerMessage
  <2>2. /\ srv'.tunnel = srv.tunnel /\ srv'.inMap = srv.inMap
        /\ srv'.answer = IF srv.answer = "pending" THEN "ok" ELSE srv.answer
        /\ srv'.upload = srv.upload /\ srv'.download = srv.download
        /\ srv'.credit = srv.credit /\ srv'.queue = srv.queue /\ srv'.drained = srv.drained
        /\ srv'.taken = srv.taken /\ srv'.got = srv.got
    BY <1>1 DEF Srv
  <2>3. /\ In(c2s', "ConnectOk") = In(c2s, "ConnectOk") - 1
        /\ In(c2s', "ConnectErr") = In(c2s, "ConnectErr")
        /\ In(c2s', "Data") = In(c2s, "Data")
        /\ In(c2s', "WindowUpdate") = In(c2s, "WindowUpdate")
        /\ In(c2s', "Close") = In(c2s, "Close") /\ In(c2s, "ConnectOk") > 0
    BY <1>1, ReceivedByServer
  <2> QED BY <2>1, <2>2, <2>3
<1>3. con.task \in {"pump", "done", "aborted"} /\ srv.tunnel \in {"waiting", "open", "abandon", "done"}
      /\ srv.answer # "none"
  BY <1>2, <1>1, ServerHears
<1>4. clean /\ srv.answer = "pending" => srv.inMap = TRUE
  BY <1>2, <1>3, Known, ZenonT(60) DEF DownloadWhole
<1>5. WssTypeOK'
  <2>1. srv' \in Srv
    BY <1>1, ZenonT(40) DEF Srv
  <2>2. c2s' \in Seq(ToServer)
    BY <1>1, ReceivedByServer
  <2> QED BY <1>2, <2>1, <2>2, Types DEF WssTypeOK
<1>6. UpSum' = UpSum /\ DownSum' = DownSum
  BY <1>2 DEF UpSum, UpGrants, DownSum, DownGrants, One
<1>7. ServerPhases' /\ ResetDue'
  BY <1>2, <1>3, <1>4, Known, ZenonT(60) DEF ServerPhases, StreamUsed, ResetDue, GivenUp
<1>8. ConnectorPhases'
  <2>1. CloseLast(c2s')
    BY <1>1, CloseLastTail, Parts, ZenonT(60) DEF ConnectorPhases
  <2> QED BY <1>2, <1>3, <1>4, <2>1, <1>1, SMTT(30), Known DEF ConnectorPhases
<1>9. UploadWhole'
  BY <1>2, <1>3, <1>4, Known, ZenonT(60) DEF UploadWhole, UploadKept, RequestOver, One
<1>10. DownloadWhole'
  BY <1>2, <1>3, <1>4, Known, ZenonT(60) DEF DownloadWhole, One
<1> QED
  BY <1>5, <1>6, <1>7, <1>8, <1>9, <1>10, ZenonT(60) DEF WssInv

\* ConnectErr fails it.
LEMMA ConnectErrArrivesKeeps ==
    ASSUME WssInv, ServerReceive, Head(c2s) = "ConnectErr"
    PROVE  WssInv'
<1>1. /\ srv \in Srv /\ c2s \in Seq(ToServer) /\ c2s # <<>> /\ Head(c2s) = "ConnectErr"
      /\ c2s' = Tail(c2s)
      /\ srv' = [srv EXCEPT !.answer = IF @ = "pending" THEN "err" ELSE @]
  BY Types DEF ServerReceive, OnServerMessage
<1>2. /\ link = "up" /\ con' = con /\ s2c' = s2c /\ link' = link /\ drain' = drain
      /\ peer' = peer /\ clean' = clean /\ srv'.tunnel = srv.tunnel
      /\ srv'.inMap = srv.inMap
      /\ srv'.answer = IF srv.answer = "pending" THEN "err" ELSE srv.answer
      /\ srv'.upload = srv.upload /\ srv'.download = srv.download
      /\ srv'.credit = srv.credit /\ srv'.queue = srv.queue /\ srv'.drained = srv.drained
      /\ srv'.taken = srv.taken /\ srv'.got = srv.got
      /\ In(c2s', "ConnectOk") = In(c2s, "ConnectOk")
      /\ In(c2s', "ConnectErr") = In(c2s, "ConnectErr") - 1
      /\ In(c2s', "Data") = In(c2s, "Data")
      /\ In(c2s', "WindowUpdate") = In(c2s, "WindowUpdate")
      /\ In(c2s', "Close") = In(c2s, "Close") /\ In(c2s, "ConnectErr") > 0
  <2>1. /\ link = "up" /\ con' = con /\ s2c' = s2c /\ link' = link /\ drain' = drain
        /\ peer' = peer /\ clean' = clean
    BY DEF ServerReceive, OnServerMessage
  <2>2. /\ srv'.tunnel = srv.tunnel /\ srv'.inMap = srv.inMap
        /\ srv'.answer = IF srv.answer = "pending" THEN "err" ELSE srv.answer
        /\ srv'.upload = srv.upload /\ srv'.download = srv.download
        /\ srv'.credit = srv.credit /\ srv'.queue = srv.queue /\ srv'.drained = srv.drained
        /\ srv'.taken = srv.taken /\ srv'.got = srv.got
    BY <1>1 DEF Srv
  <2>3. /\ In(c2s', "ConnectOk") = In(c2s, "ConnectOk")
        /\ In(c2s', "ConnectErr") = In(c2s, "ConnectErr") - 1
        /\ In(c2s', "Data") = In(c2s, "Data")
        /\ In(c2s', "WindowUpdate") = In(c2s, "WindowUpdate")
        /\ In(c2s', "Close") = In(c2s, "Close") /\ In(c2s, "ConnectErr") > 0
    BY <1>1, ReceivedByServer
  <2> QED BY <2>1, <2>2, <2>3
<1>3. con.task \in {"pump", "done", "aborted"} /\ srv.tunnel \in {"waiting", "open", "abandon", "done"}
      /\ srv.answer # "none" /\ In(c2s, "ConnectOk") = 0
  BY <1>2, <1>1, ServerHears
<1>4. con.task = "done" /\ con.download = "off"
  BY <1>2, <1>3, Parts, ZenonT(60) DEF ConnectorPhases
<1>5. WssTypeOK'
  <2>1. srv' \in Srv
    BY <1>1, ZenonT(40) DEF Srv
  <2>2. c2s' \in Seq(ToServer)
    BY <1>1, ReceivedByServer
  <2> QED BY <1>2, <2>1, <2>2, Types DEF WssTypeOK
<1>6. UpSum' = UpSum /\ DownSum' = DownSum
  BY <1>2 DEF UpSum, UpGrants, DownSum, DownGrants, One
<1>7. ServerPhases' /\ ResetDue'
  BY <1>2, <1>3, <1>4, Known, ZenonT(60) DEF ServerPhases, StreamUsed, ResetDue, GivenUp
<1>8. ConnectorPhases'
  <2>1. CloseLast(c2s')
    BY <1>1, CloseLastTail, Parts, ZenonT(60) DEF ConnectorPhases
  <2> QED BY <1>2, <1>3, <1>4, <2>1, Known, ZenonT(60) DEF ConnectorPhases
<1>9. UploadWhole'
  BY <1>2, <1>3, <1>4, Known, ZenonT(60) DEF UploadWhole, UploadKept, RequestOver, One
<1>10. DownloadWhole'
  BY <1>2, <1>3, <1>4, Known, ZenonT(60) DEF DownloadWhole, One
<1> QED
  BY <1>5, <1>6, <1>7, <1>8, <1>9, <1>10, ZenonT(60) DEF WssInv

\* A payload of the backend is queued for the client ...
LEMMA ResponseArrivesKeeps ==
    ASSUME WssInv, ServerReceive, Head(c2s) = "Data", srv.inMap = TRUE
    PROVE  WssInv'
<1>1. /\ srv \in Srv /\ c2s \in Seq(ToServer) /\ c2s # <<>> /\ Head(c2s) = "Data"
      /\ c2s' = Tail(c2s) /\ srv' = [srv EXCEPT !.queue = @ + 1]
  BY Types DEF ServerReceive, OnServerMessage
<1>2. /\ link = "up" /\ srv.inMap = TRUE /\ con' = con /\ s2c' = s2c /\ link' = link
      /\ drain' = drain /\ peer' = peer /\ clean' = clean /\ srv'.tunnel = srv.tunnel
      /\ srv'.inMap = srv.inMap /\ srv'.answer = srv.answer /\ srv'.upload = srv.upload
      /\ srv'.download = srv.download /\ srv'.credit = srv.credit
      /\ srv'.queue = srv.queue + 1 /\ srv'.drained = srv.drained /\ srv'.taken = srv.taken
      /\ srv'.got = srv.got /\ In(c2s', "ConnectOk") = In(c2s, "ConnectOk")
      /\ In(c2s', "ConnectErr") = In(c2s, "ConnectErr")
      /\ In(c2s', "Data") = In(c2s, "Data") - 1
      /\ In(c2s', "WindowUpdate") = In(c2s, "WindowUpdate")
      /\ In(c2s', "Close") = In(c2s, "Close") /\ In(c2s, "Data") > 0
  <2>1. /\ link = "up" /\ srv.inMap = TRUE /\ con' = con /\ s2c' = s2c /\ link' = link
        /\ drain' = drain /\ peer' = peer /\ clean' = clean
    BY DEF ServerReceive, OnServerMessage
  <2>2. /\ srv'.tunnel = srv.tunnel /\ srv'.inMap = srv.inMap /\ srv'.answer = srv.answer
        /\ srv'.upload = srv.upload /\ srv'.download = srv.download
        /\ srv'.credit = srv.credit /\ srv'.queue = srv.queue + 1
        /\ srv'.drained = srv.drained /\ srv'.taken = srv.taken /\ srv'.got = srv.got
    BY <1>1 DEF Srv
  <2>3. /\ In(c2s', "ConnectOk") = In(c2s, "ConnectOk")
        /\ In(c2s', "ConnectErr") = In(c2s, "ConnectErr")
        /\ In(c2s', "Data") = In(c2s, "Data") - 1
        /\ In(c2s', "WindowUpdate") = In(c2s, "WindowUpdate")
        /\ In(c2s', "Close") = In(c2s, "Close") /\ In(c2s, "Data") > 0
    BY <1>1, ReceivedByServer
  <2> QED BY <2>1, <2>2, <2>3
<1>3. con.task \in {"pump", "done", "aborted"} /\ srv.tunnel \in {"waiting", "open", "abandon", "done"}
      /\ srv.answer # "none" /\ In(c2s, "ConnectOk") = 0
  BY <1>2, <1>1, ServerHears
<1>4. con.download # "off"
  BY <1>2, <1>3, Parts, ZenonT(60) DEF ConnectorPhases
<1>5. PICK o \in Nat : o = One(con.download \in {"have", "paid"})
  BY DEF One
<1>6. clean => con.taken = o + In(c2s, "Data") + srv.queue + srv.got
  BY <1>5, Parts, ZenonT(60) DEF DownloadWhole
<1>7. In(c2s', "Data") + srv'.queue = In(c2s, "Data") + srv.queue /\ srv'.got = srv.got /\ In(c2s', "Data") \in Nat /\ srv'.queue \in Nat
  BY <1>2, Numbers
<1>8. clean => con.taken = o + In(c2s', "Data") + srv'.queue + srv'.got
  BY <1>5, <1>6, <1>7, Numbers
<1>9. WssTypeOK'
  <2>1. srv.queue + 1 \in Nat
    BY Numbers
  <2>2. srv' \in Srv
    BY <2>1, <1>1, ZenonT(40) DEF Srv
  <2>3. c2s' \in Seq(ToServer)
    BY <1>1, ReceivedByServer
  <2> QED BY <1>2, <2>1, <2>2, <2>3, Types DEF WssTypeOK
<1>10. UpSum' = UpSum
  BY <1>2 DEF UpSum, UpGrants, One
<1>11. DownSum' <= Window
  <2>1. /\ con'.credit = con.credit
        /\ One(con'.download = "paid") = One(con.download = "paid")
        /\ In(c2s', "Data") = In(c2s, "Data") - 1 /\ srv'.queue = srv.queue + 1
        /\ srv'.drained = srv.drained /\ DownGrants' = DownGrants
    BY <1>2 DEF One, DownGrants
  <2>2. con.credit + One(con.download = "paid") + (In(c2s, "Data") - 1)
          + (srv.queue + 1) + srv.drained + DownGrants <= Window
    BY DownTerms
  <2> QED BY <2>1, <2>2 DEF DownSum
<1>12. ServerPhases' /\ ResetDue'
  BY <1>2, <1>3, <1>4, <1>5, <1>6, <1>7, <1>8, Known, ZenonT(60) DEF ServerPhases, StreamUsed, ResetDue, GivenUp
<1>13. ConnectorPhases'
  <2>1. CloseLast(c2s')
    BY <1>1, CloseLastTail, Parts, ZenonT(60) DEF ConnectorPhases
  <2> QED BY <1>2, <1>3, <1>4, <1>5, <1>6, <1>7, <1>8, <2>1, Known, ZenonT(60) DEF ConnectorPhases
<1>14. UploadWhole'
  BY <1>2, <1>3, <1>4, <1>5, <1>6, <1>7, <1>8, Known, ZenonT(60) DEF UploadWhole, UploadKept, RequestOver, One
<1>15. DownloadWhole'
  BY <1>2, <1>3, <1>4, <1>5, <1>6, <1>7, <1>8, Known, ZenonT(60) DEF DownloadWhole
<1> QED
  BY <1>9, <1>10, <1>11, <1>12, <1>13, <1>14, <1>15, ZenonT(60) DEF WssInv

\* ... or comes too late.
LEMMA ResponseLateKeeps ==
    ASSUME WssInv, ServerReceive, Head(c2s) = "Data", srv.inMap = FALSE
    PROVE  WssInv'
<1>1. /\ c2s \in Seq(ToServer) /\ c2s # <<>> /\ Head(c2s) = "Data" /\ c2s' = Tail(c2s)
  BY Types DEF ServerReceive, OnServerMessage
<1>2. /\ link = "up" /\ srv.inMap = FALSE /\ srv' = srv /\ con' = con /\ s2c' = s2c
      /\ link' = link /\ drain' = drain /\ peer' = peer /\ clean' = clean
      /\ In(c2s', "ConnectOk") = In(c2s, "ConnectOk")
      /\ In(c2s', "ConnectErr") = In(c2s, "ConnectErr")
      /\ In(c2s', "Data") = In(c2s, "Data") - 1
      /\ In(c2s', "WindowUpdate") = In(c2s, "WindowUpdate")
      /\ In(c2s', "Close") = In(c2s, "Close") /\ In(c2s, "Data") > 0
  <2>1. /\ link = "up" /\ srv.inMap = FALSE /\ srv' = srv /\ con' = con /\ s2c' = s2c
        /\ link' = link /\ drain' = drain /\ peer' = peer /\ clean' = clean
    BY DEF ServerReceive, OnServerMessage
  <2>2. /\ In(c2s', "ConnectOk") = In(c2s, "ConnectOk")
        /\ In(c2s', "ConnectErr") = In(c2s, "ConnectErr")
        /\ In(c2s', "Data") = In(c2s, "Data") - 1
        /\ In(c2s', "WindowUpdate") = In(c2s, "WindowUpdate")
        /\ In(c2s', "Close") = In(c2s, "Close") /\ In(c2s, "Data") > 0
    BY <1>1, ReceivedByServer
  <2> QED BY <2>1, <2>2
<1>3. con.task \in {"pump", "done", "aborted"} /\ srv.tunnel \in {"waiting", "open", "abandon", "done"}
      /\ srv.answer # "none" /\ In(c2s, "ConnectOk") = 0
  BY <1>2, <1>1, ServerHears
<1>4. con.download # "off"
  BY <1>2, <1>3, Parts, ZenonT(60) DEF ConnectorPhases
<1>5. ~clean
  BY <1>2, <1>3, <1>4, Known DEF DownloadWhole
<1>6. WssTypeOK'
  <2>1. c2s' \in Seq(ToServer)
    BY <1>1, ReceivedByServer
  <2> QED BY <1>2, <2>1, Types DEF WssTypeOK
<1>7. UpSum' = UpSum
  BY <1>2 DEF UpSum, UpGrants, One
<1>8. DownSum' <= Window
  <2>1. /\ con'.credit = con.credit
        /\ One(con'.download = "paid") = One(con.download = "paid")
        /\ In(c2s', "Data") = In(c2s, "Data") - 1 /\ srv'.queue = srv.queue
        /\ srv'.drained = srv.drained /\ DownGrants' = DownGrants
    BY <1>2 DEF One, DownGrants
  <2>2. con.credit + One(con.download = "paid") + (In(c2s, "Data") - 1)
          + srv.queue + srv.drained + DownGrants <= Window
    BY DownTerms
  <2> QED BY <2>1, <2>2 DEF DownSum
<1>9. ServerPhases' /\ ResetDue'
  BY <1>2, <1>3, <1>4, <1>5, Known, ZenonT(60) DEF ServerPhases, StreamUsed, ResetDue, GivenUp
<1>10. ConnectorPhases'
  <2>1. CloseLast(c2s')
    BY <1>1, CloseLastTail, Parts, ZenonT(60) DEF ConnectorPhases
  <2> QED BY <1>2, <1>3, <1>4, <1>5, <2>1, Known, ZenonT(60) DEF ConnectorPhases
<1>11. UploadWhole'
  BY <1>2, <1>3, <1>4, <1>5, Known, ZenonT(60) DEF UploadWhole, UploadKept, RequestOver, One
<1>12. DownloadWhole'
  BY <1>2, <1>3, <1>4, <1>5, ZenonT(60) DEF DownloadWhole
<1> QED
  BY <1>6, <1>7, <1>8, <1>9, <1>10, <1>11, <1>12, ZenonT(60) DEF WssInv

\* A WindowUpdate of the connector is added to the credit, up to a window ...
LEMMA CreditArrivesKeeps ==
    ASSUME WssInv, ServerReceive, Head(c2s) = "WindowUpdate", srv.inMap = TRUE
    PROVE  WssInv'
<1>1. /\ srv \in Srv /\ c2s \in Seq(ToServer) /\ c2s # <<>> /\ Head(c2s) = "WindowUpdate"
      /\ c2s' = Tail(c2s) /\ srv' = [srv EXCEPT !.credit = Capped(@ + Threshold)]
  BY Types DEF ServerReceive, OnServerMessage
<1>2. /\ link = "up" /\ con' = con /\ s2c' = s2c /\ link' = link /\ drain' = drain
      /\ peer' = peer /\ clean' = clean /\ srv'.tunnel = srv.tunnel
      /\ srv'.inMap = srv.inMap /\ srv'.answer = srv.answer /\ srv'.upload = srv.upload
      /\ srv'.download = srv.download /\ srv'.credit = Capped(srv.credit + Threshold)
      /\ srv'.queue = srv.queue /\ srv'.drained = srv.drained /\ srv'.taken = srv.taken
      /\ srv'.got = srv.got /\ In(c2s', "ConnectOk") = In(c2s, "ConnectOk")
      /\ In(c2s', "ConnectErr") = In(c2s, "ConnectErr")
      /\ In(c2s', "Data") = In(c2s, "Data")
      /\ In(c2s', "WindowUpdate") = In(c2s, "WindowUpdate") - 1
      /\ In(c2s', "Close") = In(c2s, "Close") /\ In(c2s, "WindowUpdate") > 0
  <2>1. /\ link = "up" /\ con' = con /\ s2c' = s2c /\ link' = link /\ drain' = drain
        /\ peer' = peer /\ clean' = clean
    BY DEF ServerReceive, OnServerMessage
  <2>2. /\ srv'.tunnel = srv.tunnel /\ srv'.inMap = srv.inMap /\ srv'.answer = srv.answer
        /\ srv'.upload = srv.upload /\ srv'.download = srv.download
        /\ srv'.credit = Capped(srv.credit + Threshold) /\ srv'.queue = srv.queue
        /\ srv'.drained = srv.drained /\ srv'.taken = srv.taken /\ srv'.got = srv.got
    BY <1>1 DEF Srv
  <2>3. /\ In(c2s', "ConnectOk") = In(c2s, "ConnectOk")
        /\ In(c2s', "ConnectErr") = In(c2s, "ConnectErr")
        /\ In(c2s', "Data") = In(c2s, "Data")
        /\ In(c2s', "WindowUpdate") = In(c2s, "WindowUpdate") - 1
        /\ In(c2s', "Close") = In(c2s, "Close") /\ In(c2s, "WindowUpdate") > 0
    BY <1>1, ReceivedByServer
  <2> QED BY <2>1, <2>2, <2>3
<1>3. con.task \in {"pump", "done", "aborted"} /\ srv.tunnel \in {"waiting", "open", "abandon", "done"}
      /\ srv.answer # "none" /\ In(c2s, "ConnectOk") = 0
  BY <1>2, <1>1, ServerHears
<1>4. WssTypeOK'
  <2>1. Capped(srv.credit + Threshold) \in Nat
    BY CappedCredit
  <2>2. srv' \in Srv
    BY <2>1, <1>1, ZenonT(40) DEF Srv
  <2>3. c2s' \in Seq(ToServer)
    BY <1>1, ReceivedByServer
  <2> QED BY <1>2, <2>1, <2>2, <2>3, Types DEF WssTypeOK
<1>5. UpSum' <= Window
  <2>1. /\ Capped(srv.credit + Threshold) \in Nat
        /\ Capped(srv.credit + Threshold) <= srv.credit + Threshold
    BY <1>2, CappedCredit DEF One
  <2>2. /\ srv'.credit = Capped(srv.credit + Threshold)
        /\ One(srv'.upload = "paid") = One(srv.upload = "paid")
        /\ In(s2c', "Data") = In(s2c, "Data") /\ con'.queue = con.queue
        /\ con'.drained = con.drained
    BY <1>2 DEF One
  <2>3. UpGrants' = UpGrants - Threshold
    <3> DEFINE n == One(con.upload = "update") + In(c2s, "WindowUpdate") - 1
    <3>0. In(c2s, "WindowUpdate") > 0 /\ In(c2s, "WindowUpdate") \in Nat
      BY <1>2, Numbers
    <3>1. n \in Nat /\ One(con.upload = "update") + In(c2s, "WindowUpdate") = n + 1
      BY <3>0 DEF One
    <3>2. One(con'.upload = "update") + In(c2s', "WindowUpdate") = n
      BY <1>2, Numbers DEF One
    <3>3. Threshold * (n + 1) = Threshold * n + Threshold /\ Threshold * n \in Int /\ Threshold \in Int
      BY <3>1, OneMore, WindowAssumption
    <3> HIDE DEF n
    <3> QED BY <3>1, <3>2, <3>3 DEF UpGrants
  <2>4. (Capped(srv.credit + Threshold)) + One(srv.upload = "paid") + In(s2c, "Data")
          + con.queue + con.drained + (UpGrants - Threshold) <= Window
    BY <2>1, UpTerms
  <2> QED BY <2>2, <2>3, <2>4 DEF UpSum
<1>6. DownSum' = DownSum
  BY <1>2 DEF DownSum, DownGrants, One
<1>7. ServerPhases' /\ ResetDue'
  BY <1>2, <1>3, Known, ZenonT(60) DEF ServerPhases, StreamUsed, ResetDue, GivenUp
<1>8. ConnectorPhases'
  <2>1. CloseLast(c2s')
    BY <1>1, CloseLastTail, Parts, ZenonT(60) DEF ConnectorPhases
  <2> QED BY <1>2, <1>3, <2>1, Known, ZenonT(60) DEF ConnectorPhases
<1>9. UploadWhole'
  BY <1>2, <1>3, Known, ZenonT(60) DEF UploadWhole, UploadKept, RequestOver, One
<1>10. DownloadWhole'
  BY <1>2, <1>3, Known, ZenonT(60) DEF DownloadWhole, One
<1> QED
  BY <1>4, <1>5, <1>6, <1>7, <1>8, <1>9, <1>10, ZenonT(60) DEF WssInv

\* ... or comes too late.
LEMMA CreditLateKeeps ==
    ASSUME WssInv, ServerReceive, Head(c2s) = "WindowUpdate", srv.inMap = FALSE
    PROVE  WssInv'
<1>1. /\ c2s \in Seq(ToServer) /\ c2s # <<>> /\ Head(c2s) = "WindowUpdate"
      /\ c2s' = Tail(c2s)
  BY Types DEF ServerReceive, OnServerMessage
<1>2. /\ link = "up" /\ srv' = srv /\ con' = con /\ s2c' = s2c /\ link' = link
      /\ drain' = drain /\ peer' = peer /\ clean' = clean
      /\ In(c2s', "ConnectOk") = In(c2s, "ConnectOk")
      /\ In(c2s', "ConnectErr") = In(c2s, "ConnectErr")
      /\ In(c2s', "Data") = In(c2s, "Data")
      /\ In(c2s', "WindowUpdate") = In(c2s, "WindowUpdate") - 1
      /\ In(c2s', "Close") = In(c2s, "Close") /\ In(c2s, "WindowUpdate") > 0
  <2>1. /\ link = "up" /\ srv' = srv /\ con' = con /\ s2c' = s2c /\ link' = link
        /\ drain' = drain /\ peer' = peer /\ clean' = clean
    BY DEF ServerReceive, OnServerMessage
  <2>2. /\ In(c2s', "ConnectOk") = In(c2s, "ConnectOk")
        /\ In(c2s', "ConnectErr") = In(c2s, "ConnectErr")
        /\ In(c2s', "Data") = In(c2s, "Data")
        /\ In(c2s', "WindowUpdate") = In(c2s, "WindowUpdate") - 1
        /\ In(c2s', "Close") = In(c2s, "Close") /\ In(c2s, "WindowUpdate") > 0
    BY <1>1, ReceivedByServer
  <2> QED BY <2>1, <2>2
<1>3. con.task \in {"pump", "done", "aborted"} /\ srv.tunnel \in {"waiting", "open", "abandon", "done"}
      /\ srv.answer # "none" /\ In(c2s, "ConnectOk") = 0
  BY <1>2, <1>1, ServerHears
<1>4. WssTypeOK'
  <2>1. c2s' \in Seq(ToServer)
    BY <1>1, ReceivedByServer
  <2> QED BY <1>2, <2>1, Types DEF WssTypeOK
<1>5. UpSum' <= Window
  <2>1. /\ srv'.credit = srv.credit /\ One(srv'.upload = "paid") = One(srv.upload = "paid")
        /\ In(s2c', "Data") = In(s2c, "Data") /\ con'.queue = con.queue
        /\ con'.drained = con.drained
    BY <1>2 DEF One
  <2>2. UpGrants' = UpGrants - Threshold
    <3> DEFINE n == One(con.upload = "update") + In(c2s, "WindowUpdate") - 1
    <3>0. In(c2s, "WindowUpdate") > 0 /\ In(c2s, "WindowUpdate") \in Nat
      BY <1>2, Numbers
    <3>1. n \in Nat /\ One(con.upload = "update") + In(c2s, "WindowUpdate") = n + 1
      BY <3>0 DEF One
    <3>2. One(con'.upload = "update") + In(c2s', "WindowUpdate") = n
      BY <1>2, Numbers DEF One
    <3>3. Threshold * (n + 1) = Threshold * n + Threshold /\ Threshold * n \in Int /\ Threshold \in Int
      BY <3>1, OneMore, WindowAssumption
    <3> HIDE DEF n
    <3> QED BY <3>1, <3>2, <3>3 DEF UpGrants
  <2>3. srv.credit + One(srv.upload = "paid") + In(s2c, "Data")
          + con.queue + con.drained + (UpGrants - Threshold) <= Window
    BY UpTerms
  <2> QED BY <2>1, <2>2, <2>3 DEF UpSum
<1>6. DownSum' = DownSum
  BY <1>2 DEF DownSum, DownGrants, One
<1>7. ServerPhases' /\ ResetDue'
  BY <1>2, <1>3, Known, ZenonT(60) DEF ServerPhases, StreamUsed, ResetDue, GivenUp
<1>8. ConnectorPhases'
  <2>1. CloseLast(c2s')
    BY <1>1, CloseLastTail, Parts, ZenonT(60) DEF ConnectorPhases
  <2> QED BY <1>2, <1>3, <2>1, Known, ZenonT(60) DEF ConnectorPhases
<1>9. UploadWhole'
  BY <1>2, <1>3, Known, ZenonT(60) DEF UploadWhole, UploadKept, RequestOver, One
<1>10. DownloadWhole'
  BY <1>2, <1>3, Known, ZenonT(60) DEF DownloadWhole, One
<1> QED
  BY <1>4, <1>5, <1>6, <1>7, <1>8, <1>9, <1>10, ZenonT(60) DEF WssInv

\* Close removes the entry; what is queued stays.
LEMMA ResponseEndsKeeps ==
    ASSUME WssInv, ServerReceive, Head(c2s) = "Close"
    PROVE  WssInv'
<1>1. /\ srv \in Srv /\ c2s \in Seq(ToServer) /\ c2s # <<>> /\ Head(c2s) = "Close"
      /\ c2s' = Tail(c2s) /\ srv' = RemoveStream(srv)
  BY Types DEF ServerReceive, OnServerMessage
<1>2. /\ link = "up" /\ con' = con /\ s2c' = s2c /\ link' = link /\ drain' = drain
      /\ peer' = peer /\ clean' = clean /\ srv'.tunnel = srv.tunnel /\ srv'.inMap = FALSE
      /\ srv'.answer = srv.answer \/ (srv.answer = "pending" /\ srv'.answer = "err")
      /\ srv'.upload = srv.upload /\ srv'.download = srv.download
      /\ srv'.credit = srv.credit /\ srv'.queue = srv.queue /\ srv'.drained = srv.drained
      /\ srv'.taken = srv.taken /\ srv'.got = srv.got
      /\ In(c2s', "ConnectOk") = In(c2s, "ConnectOk")
      /\ In(c2s', "ConnectErr") = In(c2s, "ConnectErr")
      /\ In(c2s', "Data") = In(c2s, "Data")
      /\ In(c2s', "WindowUpdate") = In(c2s, "WindowUpdate")
      /\ In(c2s', "Close") = In(c2s, "Close") - 1 /\ In(c2s, "Close") > 0
      /\ In(c2s', "Data") = 0
  <2>1. /\ link = "up" /\ con' = con /\ s2c' = s2c /\ link' = link /\ drain' = drain
        /\ peer' = peer /\ clean' = clean
    BY DEF ServerReceive, OnServerMessage
  <2>2. /\ srv'.tunnel = srv.tunnel /\ srv'.inMap = FALSE
        /\ srv'.answer = srv.answer \/ (srv.answer = "pending" /\ srv'.answer = "err")
        /\ srv'.upload = srv.upload /\ srv'.download = srv.download
        /\ srv'.credit = srv.credit /\ srv'.queue = srv.queue /\ srv'.drained = srv.drained
        /\ srv'.taken = srv.taken /\ srv'.got = srv.got
    <3>1. PICK r \in Srv :
            /\ r = RemoveStream(srv) /\ r.inMap = FALSE
            /\ r.answer = srv.answer \/ (srv.answer = "pending" /\ r.answer = "err")
            /\ r.tunnel = srv.tunnel /\ r.upload = srv.upload /\ r.download = srv.download
            /\ r.credit = srv.credit /\ r.queue = srv.queue /\ r.drained = srv.drained
            /\ r.taken = srv.taken /\ r.got = srv.got
      BY Types, Removed, ZenonT(40)
    <3> QED BY <2>1, <1>1, <3>1 DEF Srv
  <2>3. /\ In(c2s', "ConnectOk") = In(c2s, "ConnectOk")
        /\ In(c2s', "ConnectErr") = In(c2s, "ConnectErr")
        /\ In(c2s', "Data") = In(c2s, "Data")
        /\ In(c2s', "WindowUpdate") = In(c2s, "WindowUpdate")
        /\ In(c2s', "Close") = In(c2s, "Close") - 1 /\ In(c2s, "Close") > 0
    BY <1>1, ReceivedByServer
  <2>4. In(c2s', "Data") = 0
    BY <1>1, CloseLastTail, Parts, ZenonT(60) DEF ConnectorPhases
  <2> QED BY <2>1, <2>2, <2>3, <2>4
<1>3. con.task \in {"pump", "done", "aborted"} /\ srv.tunnel \in {"waiting", "open", "abandon", "done"}
      /\ srv.answer # "none" /\ In(c2s, "ConnectOk") = 0
  BY <1>2, <1>1, ServerHears
<1>4. con.task = "done" /\ con.download = "close"
  BY <1>2, <1>3, Parts, ZenonT(60) DEF ConnectorPhases
<1>5. clean => srv.answer = "ok"
  BY <1>2, <1>3, <1>4, Parts DEF DownloadWhole
<1>6. WssTypeOK'
  <2>1. RemoveStream(srv) \in Srv
    BY Types, Removed, ZenonT(40)
  <2>2. srv' \in Srv
    BY <1>1, <2>1
  <2>3. c2s' \in Seq(ToServer)
    BY <1>1, ReceivedByServer
  <2> QED BY <1>2, <2>1, <2>2, <2>3, Types DEF WssTypeOK
<1>7. UpSum' = UpSum /\ DownSum' = DownSum
  BY <1>2 DEF UpSum, UpGrants, DownSum, DownGrants, One
<1>8. ServerPhases' /\ ResetDue'
  BY <1>2, <1>3, <1>4, <1>5, Known, ZenonT(60) DEF ServerPhases, StreamUsed, ResetDue, GivenUp
<1>9. ConnectorPhases'
  <2>1. CloseLast(c2s')
    BY <1>1, CloseLastTail, Parts, ZenonT(60) DEF ConnectorPhases
  <2> QED BY <1>2, <1>3, <1>4, <1>5, <2>1, Known, ZenonT(60) DEF ConnectorPhases
<1>10. UploadWhole'
  BY <1>2, <1>3, <1>4, <1>5, Known, ZenonT(60) DEF UploadWhole, UploadKept, RequestOver, One
<1>11. DownloadWhole'
  BY <1>2, <1>3, <1>4, <1>5, Known, ZenonT(60) DEF DownloadWhole, One
<1> QED
  BY <1>6, <1>7, <1>8, <1>9, <1>10, <1>11, ZenonT(60) DEF WssInv
=============================================================================
