-------------------------- MODULE QuicTunnelsProofs --------------------------
(***************************************************************************)
(* The slots of StreamSlots and the splices of QuicTunnels, for any finite *)
(* set of tunnels, any limits and any amount of payload:                   *)
(*                                                                         *)
(*  - the accounting of StreamSlots;                                       *)
(*  - QuicTunnels implements StreamSlots, so the accounting is that of its *)
(*    tunnels too;                                                         *)
(*  - what a splice delivers.                                              *)
(***************************************************************************)
EXTENDS QuicTunnels, FiniteSetTheorems, SequenceTheorems, TLAPS

-----------------------------------------------------------------------------
\* The slots.

\* The inductive invariant.  Nothing is said of the counter between the two halves of
\* shutdown(), where it still counts the drained entries.
IInv == TypeOK /\ SlotsExact /\ NeverOvercounts

\* The tunnels that own a slot are finitely many.
LEMMA HoldingFinite == IsFiniteSet(Holding) /\ Cardinality(Holding) \in Nat
<1>1. Holding \subseteq Tunnels  BY DEF Holding
<1>2. IsFiniteSet(Holding)  BY <1>1, TunnelsAssumption, FS_Subset, SMTT(60)
<1> QED  BY <1>2, FS_CardinalityType

\* A tunnel that moves from "none" to another state adds one owner.
LEMMA OneMoreOwner ==
    ASSUME NEW t \in Tunnels, TypeOK, slot[t] = "none", Move(t, "reserved")
    PROVE  Cardinality(Holding') = Cardinality(Holding) + 1
<1>1. Holding' = Holding \cup {t}  BY DEF Holding, Move, TypeOK, Slots
<1>2. t \notin Holding  BY DEF Holding
<1> QED  BY <1>1, <1>2, HoldingFinite, FS_AddElement, Zenon

\* A tunnel that gives its slot back leaves one owner fewer.
LEMMA OneOwnerFewer ==
    ASSUME NEW t \in Tunnels, TypeOK, slot[t] = "freeing", Move(t, "none")
    PROVE  Cardinality(Holding') = Cardinality(Holding) - 1
<1>1. Holding' = Holding \ {t}  BY DEF Holding, Move, TypeOK, Slots
<1>2. t \in Holding  BY DEF Holding
<1> QED  BY <1>1, <1>2, HoldingFinite, FS_RemoveElement

\* Any other move keeps the owners.
LEMMA SameOwners ==
    ASSUME NEW t \in Tunnels, TypeOK, slot[t] # "none",
           NEW to \in Slots \ {"none"}, Move(t, to)
    PROVE  Holding' = Holding
BY DEF Holding, Move, TypeOK, Slots

LEMMA InitIInv == Init => IInv
<1> SUFFICES ASSUME Init PROVE IInv  OBVIOUS
<1>1. TypeOK  BY LimitAssumption DEF Init, TypeOK, Slots
<1>2. Holding = {}  BY DEF Init, Holding
<1>3. Cardinality(Holding) = 0  BY <1>2, FS_EmptySet, SMTT(60)
<1> QED  BY <1>1, <1>3 DEF Init, IInv, SlotsExact, NeverOvercounts

LEMMA NextIInv == IInv /\ [Next]_vars => IInv'
<1> SUFFICES ASSUME IInv, [Next]_vars PROVE IInv'  OBVIOUS
<1> USE LimitAssumption
<1>0. TypeOK /\ SlotsExact /\ NeverOvercounts  BY DEF IInv
<1>c. Cardinality(Holding) \in Nat  BY HoldingFinite, SMTT(60)
<1>1. ASSUME NEW t \in Tunnels, Reserve(t) PROVE IInv'
  <2>1. TypeOK'  BY <1>0, <1>1, SMTT(60) DEF TypeOK, Reserve, Move, Slots
  <2>2. Cardinality(Holding') = Cardinality(Holding) + 1
    BY <1>0, <1>1, OneMoreOwner DEF Reserve
  <2> QED  BY <1>0, <1>1, <1>c, <2>1, <2>2
           DEF IInv, TypeOK, Reserve, SlotsExact, NeverOvercounts
<1>2. ASSUME NEW t \in Tunnels, MapStream(t) \/ RemoveStream(t) \/ QuicTunnelEnds(t)
      PROVE  IInv'
  <2>1. TypeOK'
    BY <1>0, <1>2 DEF TypeOK, MapStream, RemoveStream, QuicTunnelEnds, Move, Slots
  <2>2. Holding' = Holding
    BY <1>0, <1>2, SameOwners DEF MapStream, RemoveStream, QuicTunnelEnds, Slots
  <2>3. active' = active /\ shutdown' = shutdown
    BY <1>2 DEF MapStream, RemoveStream, QuicTunnelEnds
  <2> QED  BY <1>0, <2>1, <2>2, <2>3, SMTT(60) DEF IInv, SlotsExact, NeverOvercounts
<1>3. ASSUME NEW t \in Tunnels, Release(t) PROVE IInv'
  <2>1. TypeOK'  BY <1>0, <1>3 DEF TypeOK, Release, Move, Slots
  <2>2. Cardinality(Holding') = Cardinality(Holding) - 1
    BY <1>0, <1>3, OneOwnerFewer, SMTT(60) DEF Release
  <2>3. Cardinality(Holding) > 0
    <3>1. t \in Holding  BY <1>3 DEF Release, Holding
    <3> QED  BY <3>1, <1>c, HoldingFinite, FS_EmptySet
  <2> QED  BY <1>0, <1>3, <1>c, <2>1, <2>2, <2>3, SMTT(60)
           DEF IInv, TypeOK, Release, SlotsExact, NeverOvercounts
<1>4. CASE Drain
  <2>1. TypeOK'  BY <1>0, <1>4 DEF TypeOK, Drain, Slots
  <2> QED  BY <1>4, <2>1 DEF IInv, Drain, SlotsExact, NeverOvercounts
<1>5. CASE ZeroCount
  <2>1. TypeOK'  BY <1>0, <1>5 DEF TypeOK, ZeroCount, Slots
  <2>2. Holding' = Holding  BY <1>5 DEF ZeroCount, Holding
  <2> QED  BY <1>5, <1>c, <2>1, <2>2 DEF IInv, ZeroCount, SlotsExact, NeverOvercounts
<1>6. CASE UNCHANGED vars
  BY <1>0, <1>6 DEF IInv, TypeOK, SlotsExact, NeverOvercounts, Holding, vars
<1> QED  BY <1>1, <1>2, <1>3, <1>4, <1>5, <1>6, SMTT(60) DEF Next

LEMMA Invariance == Spec => []IInv
BY InitIInv, NextIInv, PTL DEF Spec

\* active_streams never leaves 0..MAX_ACTIVE_STREAMS; in particular it never wraps.
THEOREM TypeCorrect == Spec => []TypeOK
<1>1. IInv => TypeOK  BY DEF IInv
<1> QED  BY <1>1, Invariance, PTL

\* No race between the ends of a tunnel leaks a slot or frees it twice
\* (try_reserve_stream_slot, remove_stream, release_stream_slot).
THEOREM SlotsAreExact == Spec => []SlotsExact
<1>1. IInv => SlotsExact  BY DEF IInv
<1> QED  BY <1>1, Invariance, PTL

\* A live session never runs more than MAX_ACTIVE_STREAMS tunnels.
THEOREM LimitHolds == Spec => []NeverOverLimit
<1>1. IInv => NeverOverLimit
  BY LimitAssumption DEF IInv, TypeOK, SlotsExact, NeverOverLimit
<1> QED  BY <1>1, Invariance, PTL

\* After shutdown() the counter never claims more tunnels than there are.
THEOREM ShutdownNeverOvercounts == Spec => []NeverOvercounts
<1>1. IInv => NeverOvercounts  BY DEF IInv
<1> QED  BY <1>1, Invariance, PTL

-----------------------------------------------------------------------------
\* QuicTunnels implements StreamSlots.

\* A step of a QUIC tunnel is a step of its slot, or leaves the slots alone.
LEMMA QuicSlotStep == [QuicNext]_allVars => [Next]_vars
<1> SUFFICES ASSUME [QuicNext]_allVars PROVE [Next]_vars
  OBVIOUS
<1>1. ASSUME NEW t \in Tunnels, Bridge(t) \/ SlotStep(t) PROVE Next
  BY <1>1, Zenon DEF Bridge, SlotStep, Next
<1>2. ASSUME NEW t \in Tunnels, GiveUp(t) \/ SpliceEnds(t) PROVE Next
  BY <1>2, Zenon DEF GiveUp, SpliceEnds, Return, Next
<1>3. ASSUME NEW t \in Tunnels, ServerStep(t) PROVE Next \/ UNCHANGED vars
  BY <1>2, <1>3, Zenon DEF ServerStep, OpenBi, WriteConnect, ReadReply, Upload, Download
<1>4. ASSUME NEW t \in Tunnels, ConnectorStep(t) \/ ClientEnds(t) \/ BackendEnds(t)
      PROVE  UNCHANGED vars
  BY <1>4, Zenon DEF ConnectorStep, Accept, ReadConnect, HeaderFails, Dial, WriteReply,
     ReplyFails, ToBackend, FromBackend, BackendSpliceEnds, TaskEnds, ClientEnds, BackendEnds
<1>5. CASE CloseAndDrain \/ (ZeroCount /\ UNCHANGED quic)
  BY <1>5, Zenon DEF CloseAndDrain, Next
<1>6. CASE (\E side \in Sides : LoseConnection(side)) \/ UNCHANGED allVars
  BY <1>6, Zenon DEF LoseConnection, allVars
<1>7. ASSUME NEW t \in Tunnels,
             \/ Bridge(t) \/ ServerStep(t) \/ ConnectorStep(t) \/ SlotStep(t)
             \/ ClientEnds(t) \/ BackendEnds(t)
      PROVE  Next \/ UNCHANGED vars
  BY <1>1, <1>3, <1>4, <1>7, Zenon
<1> QED BY <1>5, <1>6, <1>7, Zenon DEF QuicNext

\* The tunnels of a QUIC session take and free their slots as StreamSlots says, whatever
\* their streams and the connection do (ConnectorManager::bridge, quic_tunnel).
THEOREM QuicImplementsSlots == QuicSpec => Spec
<1>1. QuicInit => Init
  BY DEF QuicInit
<1> QED BY <1>1, QuicSlotStep, PTL DEF QuicSpec, Spec

\* No end of a QUIC tunnel (a timeout, a refused connect, a lost connection, the end of a
\* splice) leaks its slot or frees it twice.
THEOREM QuicSlotsAreExact == QuicSpec => []SlotsExact
BY QuicImplementsSlots, SlotsAreExact, PTL

-----------------------------------------------------------------------------
\* The payload of a stream.

\* Cells i + 1 to n of a payload.
Run(i, n) == [k \in 1..(n - i) |-> Cell("byte", i + k)]

\* The cells a stream carries.
Cells == {"length", "Connect", "ConnectOk", "ConnectErr", "byte"} \X Nat

\* A run of the payload is a sequence of cells of the length of the gap.
LEMMA Runs ==
    ASSUME NEW n \in Nat, NEW i \in 0..n
    PROVE  /\ Run(i, n) \in Seq(Cells) /\ Len(Run(i, n)) = n - i
           /\ Run(0, n) = Payload(n)
           /\ Run(n, n) = <<>>
           /\ Run(i, n) = <<>> => i = n
<1>1. ASSUME NEW k \in 1..(n - i) PROVE Cell("byte", i + k) \in Cells
  BY DEF Cell, Cells
<1>2. Run(i, n) \in Seq(Cells) /\ Len(Run(i, n)) = n - i
  BY <1>1 DEF Run
<1>3. Run(0, n) = Payload(n)
  <2>1. \A k \in 1..n : 0 + k = k
    OBVIOUS
  <2>2. n - 0 = n
    OBVIOUS
  <2> QED BY <2>1, <2>2 DEF Run, Payload
<1>4. Run(n, n) = <<>>
  BY DEF Run
<1>5. Run(i, n) = <<>> => i = n
  BY <1>2, SMTT(60)
<1> QED BY <1>2, <1>3, <1>4, <1>5

\* What the sender adds extends the run at its end.
LEMMA RunGrows ==
    ASSUME NEW n \in Nat, NEW i \in 0..n
    PROVE  Run(i, n) \o <<Cell("byte", n + 1)>> = Run(i, n + 1)
<1> DEFINE c == Cell("byte", n + 1)
<1>0. c \in Cells
  BY DEF Cell, Cells
<1> HIDE DEF c
<1>1. Run(i, n) \in Seq(Cells) /\ Len(Run(i, n)) = n - i /\ <<c>> \in Seq(Cells)
  BY <1>0, Runs
<1>2. Run(i, n + 1) \in Seq(Cells) /\ Len(Run(i, n + 1)) = n + 1 - i
  BY Runs
<1>3. ASSUME NEW k \in 1..(n + 1 - i)
      PROVE  (Run(i, n) \o <<c>>)[k] = Run(i, n + 1)[k]
  <2>1. CASE k <= n - i
    BY <1>1, <2>1, SMTT(60) DEF Run
  <2>2. CASE k = n + 1 - i
    <3>1. (Run(i, n) \o <<c>>)[k] = c
      BY <1>1, <2>2
    <3>2. Run(i, n + 1)[k] = Cell("byte", i + k) /\ i + k = n + 1
      BY <2>2 DEF Run
    <3> QED BY <3>1, <3>2, Zenon DEF c
  <2>3. k <= n - i \/ k = n + 1 - i
    OBVIOUS
  <2> QED BY <2>1, <2>2, <2>3, Zenon
<1> QED BY <1>1, <1>2, <1>3, SMTT(60) DEF c

\* What the reader takes is the next cell, and shortens the run at its front.
LEMMA RunShrinks ==
    ASSUME NEW n \in Nat, NEW i \in 0..n, Run(i, n) # <<>>
    PROVE  /\ i < n
           /\ Head(Run(i, n)) = Cell("byte", i + 1)
           /\ Tail(Run(i, n)) = Run(i + 1, n)
<1>1. i < n
  BY Runs
<1>2. /\ Run(i, n) \in Seq(Cells) /\ Len(Run(i, n)) = n - i
      /\ Run(i + 1, n) \in Seq(Cells) /\ Len(Run(i + 1, n)) = n - (i + 1)
  <2>1. i + 1 \in 0..n
    BY <1>1
  <2> QED BY <2>1, Runs, Zenon
<1>3. Head(Run(i, n)) = Cell("byte", i + 1)
  BY <1>1, <1>2 DEF Run
<1>4. ASSUME NEW k \in 1..(n - (i + 1)) PROVE Tail(Run(i, n))[k] = Run(i + 1, n)[k]
  <2>1. Tail(Run(i, n))[k] = Run(i, n)[k + 1]
    BY <1>1, <1>2
  <2>2. Run(i, n)[k + 1] = Cell("byte", i + (k + 1))
    BY DEF Run
  <2>3. Run(i + 1, n)[k] = Cell("byte", (i + 1) + k) /\ (i + 1) + k = i + (k + 1)
    BY DEF Run
  <2> QED BY <2>1, <2>2, <2>3, Zenon
<1>5. Tail(Run(i, n)) \in Seq(Cells) /\ Len(Tail(Run(i, n))) = n - (i + 1)
  BY <1>1, <1>2
<1> QED BY <1>1, <1>2, <1>3, <1>4, <1>5, SMTT(60)

\* The same for the payload as a whole.
LEMMA PayloadGrows ==
    ASSUME NEW n \in Nat
    PROVE  /\ Payload(n) \in Seq(Cells) /\ Len(Payload(n)) = n
           /\ Payload(n) \o <<Cell("byte", n + 1)>> = Payload(n + 1)
           /\ Append(Payload(n), Cell("byte", n + 1)) = Payload(n + 1)
<1>1. Payload(n) \in Seq(Cells) /\ Len(Payload(n)) = n
  BY Runs, 0 \in 0..n
<1>2. Payload(n) \o <<Cell("byte", n + 1)>> = Payload(n + 1)
  BY Runs, RunGrows, 0 \in 0..n, 0 \in 0..(n + 1), n + 1 \in Nat, ZenonT(60)
<1>3. Append(Payload(n), Cell("byte", n + 1)) = Payload(n) \o <<Cell("byte", n + 1)>>
  <2>1. Cell("byte", n + 1) \in Cells
    BY DEF Cell, Cells
  <2> QED BY <1>1, <2>1
<1> QED BY <1>1, <1>2, <1>3

\* What stands behind the two cells of a frame.
LEMMA BehindFrame ==
    ASSUME NEW S, NEW f \in Seq(S), Len(f) = 2, NEW p \in Seq(S)
    PROVE  /\ f \o p \in Seq(S) /\ Len(f \o p) = Len(p) + 2 /\ (f \o p)[2] = f[2]
           /\ SubSeq(f \o p, 3, Len(f \o p)) = p
<1> DEFINE w == f \o p
<1>1. /\ w \in Seq(S) /\ Len(w) = Len(p) + 2 /\ w[2] = f[2]
      /\ \A k \in 1..Len(p) : w[k + 2] = p[k]
  <2>1. /\ w \in Seq(S) /\ Len(w) = Len(f) + Len(p)
        /\ \A k \in 1..(Len(f) + Len(p)) : w[k] = IF k <= Len(f) THEN f[k] ELSE p[k - Len(f)]
    BY ConcatProperties, Zenon
  <2> HIDE DEF w
  <2>2. ASSUME NEW k \in 1..Len(p) PROVE w[k + 2] = p[k]
    BY <2>1
  <2> QED BY <2>1, <2>2
<1> HIDE DEF w
<1>2. \A k \in 3..Len(w) : w[k] \in S
  BY <1>1
<1>3. /\ SubSeq(w, 3, Len(w)) \in Seq(S) /\ Len(SubSeq(w, 3, Len(w))) = Len(p)
      /\ \A k \in 1..Len(p) : SubSeq(w, 3, Len(w))[k] = w[k + 2]
  BY <1>1, <1>2
<1>4. SubSeq(w, 3, Len(w)) = p
  BY <1>1, <1>3
<1> QED BY <1>1, <1>4 DEF w

\* A frame alone, and one with payload behind it: reading it leaves the payload.
LEMMA Frames ==
    ASSUME NEW kind \in {"Connect", "ConnectOk", "ConnectErr"}, NEW n \in Nat
    PROVE  /\ Frame(kind) \in Seq(Cells) /\ Len(Frame(kind)) = 2
           /\ Frame(kind)[2] = Cell(kind, 0) /\ Frame(kind) # <<>>
           /\ SubSeq(Frame(kind), 3, 2) = <<>>
           /\ LET whole == Frame(kind) \o Payload(n) IN
              /\ whole \in Seq(Cells) /\ whole[2] = Cell(kind, 0) /\ whole # <<>>
              /\ SubSeq(whole, 3, Len(whole)) = Run(0, n)
              /\ whole \o <<Cell("byte", n + 1)>> = Frame(kind) \o Payload(n + 1)
<1> DEFINE whole == Frame(kind) \o Payload(n)
           c == Cell("byte", n + 1)
<1>1. /\ Frame(kind) \in Seq(Cells) /\ Len(Frame(kind)) = 2
      /\ Frame(kind)[2] = Cell(kind, 0) /\ Frame(kind) # <<>>
  <2>1. Cell("length", 0) \in Cells /\ Cell(kind, 0) \in Cells
    BY DEF Cell, Cells
  <2> QED BY <2>1 DEF Frame
<1>2. SubSeq(Frame(kind), 3, 2) = <<>>
  BY <1>1, SubSeqEmpty
<1>3. /\ Payload(n) \in Seq(Cells) /\ Len(Payload(n)) = n /\ Payload(n) = Run(0, n)
      /\ Payload(n + 1) = Payload(n) \o <<c>>
  BY Runs, PayloadGrows, 0 \in 0..n, Zenon
<1>c. <<c>> \in Seq(Cells)
  <2>1. c \in Cells
    BY DEF Cell, Cells
  <2> HIDE DEF c
  <2> QED BY <2>1
<1> HIDE DEF c
<1>4. /\ whole \in Seq(Cells) /\ Len(whole) = n + 2 /\ whole[2] = Cell(kind, 0)
      /\ SubSeq(whole, 3, Len(whole)) = Run(0, n)
  <2>1. /\ whole \in Seq(Cells) /\ Len(whole) = Len(Payload(n)) + 2
        /\ whole[2] = Frame(kind)[2] /\ SubSeq(whole, 3, Len(whole)) = Payload(n)
    BY <1>1, <1>3, BehindFrame, ZenonT(60)
  <2> QED BY <1>1, <1>3, <2>1, Zenon
<1>5. whole # <<>>
  BY <1>4
<1>6. whole \o <<c>> = Frame(kind) \o Payload(n + 1)
  <2>1. ASSUME NEW f \in Seq(Cells), NEW p \in Seq(Cells), NEW x \in Seq(Cells)
        PROVE  (f \o p) \o x = f \o (p \o x)
    BY SMTT(60)
  <2>2. (Frame(kind) \o Payload(n)) \o <<c>> = Frame(kind) \o (Payload(n) \o <<c>>)
    BY <1>1, <1>3, <1>c, <2>1, Zenon
  <2> QED BY <1>3, <2>2, Zenon
<1> QED BY <1>1, <1>2, <1>4, <1>5, <1>6, Zenon DEF c

\* The types of a half, of a peer and of a tunnel.
Half == [q : Seq(Cells), end : {"none", "open", "fin"}, stop : BOOLEAN]
PeerEnd == [sent : Nat, got : Seq(Cells), end : {"no", "eof", "gone"},
            ended : {"no", "eof", "dropped"}]
Tunnel == [srv : {"idle", "open", "connect", "reply", "splice", "over"},
           con : {"none", "header", "dial", "ok", "err", "splice", "over"},
           up : Half, dn : Half, client : PeerEnd, backend : PeerEnd]

\* What cannot have happened yet.  Nothing is in the stream before the Connect, nothing
\* reaches the client before the ConnectOk, and neither peer sends before both know of it;
\* only a reader that is gone has stopped its half.
Begun(u) ==
    /\ u.srv \in {"idle", "open", "connect"} =>
        u.con = "none" /\ u.up.q = <<>> /\ u.up.end # "fin"
    /\ u.srv \notin {"splice", "over"} => u.client = NoPeer
    /\ u.con \notin {"splice", "over"} =>
        /\ u.srv # "splice" /\ u.client.sent = 0
        /\ u.backend = NoPeer /\ u.dn.q = <<>>
    /\ u.up.stop => u.con = "over"
    /\ u.dn.stop => u.srv = "over"

\* The way up.  While the connector splices, the stream holds exactly the cells between
\* what the backend got and what the client sent.
Upward(u) ==
    LET got == u.backend.got IN
    /\ got = Payload(Len(got))
    /\ u.con \in {"none", "header"} => u.up.q \in {<<>>, Frame("Connect")}
    /\ u.con \in {"dial", "ok", "err"} => u.up.q = <<>>
    /\ u.con = "splice" => Len(got) <= u.client.sent /\ u.up.q = Run(Len(got), u.client.sent)
    /\ u.backend.ended = "eof" => u.up.end = "fin" /\ Len(got) = u.client.sent

\* The way down.  The reply comes first and the payload right behind it; once the server
\* has read the reply, the stream holds exactly the cells the client has not got.
Downward(u) ==
    LET got == u.client.got IN
    /\ got = Payload(Len(got))
    /\ u.srv = "reply" /\ u.con = "splice" =>
        u.dn.q = Frame("ConnectOk") \o Payload(u.backend.sent)
    /\ u.srv = "reply" /\ u.con = "over" =>
        u.dn.q \in {<<>>, Frame("ConnectErr"), Frame("ConnectOk") \o Payload(u.backend.sent)}
    /\ u.srv = "splice" => Len(got) <= u.backend.sent /\ u.dn.q = Run(Len(got), u.backend.sent)
    /\ u.client.ended = "eof" => u.dn.end = "fin" /\ Len(got) = u.backend.sent

\* The inductive invariant of the splice: each tunnel by itself.
TunnelOK(u) == Begun(u) /\ Upward(u) /\ Downward(u)

TunnelsOK == tun \in [Tunnels -> Tunnel] /\ \A t \in Tunnels : TunnelOK(tun[t])

\* A step that moves one tunnel from a good record to a good record keeps the invariant.
LEMMA OneTunnel ==
    ASSUME TunnelsOK, NEW t \in Tunnels, NEW v \in Tunnel, TunnelOK(v),
           tun' = [tun EXCEPT ![t] = v]
    PROVE  TunnelsOK'
<1>1. tun' \in [Tunnels -> Tunnel]
  BY DEF TunnelsOK
<1>2. ASSUME NEW s \in Tunnels PROVE TunnelOK(tun'[s])
  <2>1. tun'[s] = IF s = t THEN v ELSE tun[s]
    BY DEF TunnelsOK
  <2>2. TunnelOK(tun[s])
    BY DEF TunnelsOK
  <2> QED BY <2>1, <2>2
<1> QED
  BY <1>1, <1>2 DEF TunnelsOK

\* A tunnel before bridge is good.
LEMMA Starts == Fresh \in Tunnel /\ TunnelOK(Fresh)
<1>1. NoHalf \in Half /\ NoPeer \in PeerEnd
  BY DEF NoHalf, Half, NoPeer, PeerEnd
<1>2. Fresh \in Tunnel
  BY <1>1, SMTT(60) DEF Fresh, Tunnel
<1>3. Payload(0) = <<>>
  BY SMTT(60) DEF Payload
<1>4. TunnelOK(Fresh)
  BY <1>3, SMTT(60) DEF Fresh, NoHalf, NoPeer, TunnelOK, Begun, Upward, Downward
<1> QED BY <1>2, <1>4, SMTT(60)

\* A tunnel that settles is as good as new.
LEMMA Settles ==
    ASSUME TunnelsOK, NEW t \in Tunnels, NEW v \in Tunnel, TunnelOK(v),
           tun' = [tun EXCEPT ![t] = Settled(v)]
    PROVE  TunnelsOK'
<1>1. Settled(v) \in Tunnel /\ TunnelOK(Settled(v))
  BY Starts, SMTT(60) DEF Settled
<1> QED BY <1>1, OneTunnel, Zenon

\* A peer that sent and got nothing.
LEMMA Silent ==
    /\ NoPeer.sent = 0 /\ NoPeer.got = <<>> /\ NoPeer.ended # "eof"
    /\ Len(NoPeer.got) = 0 /\ NoPeer.got = Payload(Len(NoPeer.got))
<1>1. Payload(0) = <<>> /\ Len(<<>>) = 0
  BY DEF Payload
<1> QED BY <1>1 DEF NoPeer

\* What the invariant says of one tunnel, with the types of its parts.
LEMMA Parts ==
    ASSUME TunnelsOK, NEW t \in Tunnels
    PROVE  LET u == tun[t] IN
           /\ u \in Tunnel /\ Begun(u) /\ Upward(u) /\ Downward(u)
           /\ u.up \in Half /\ u.dn \in Half /\ u.client \in PeerEnd /\ u.backend \in PeerEnd
           /\ u.up.q \in Seq(Cells) /\ u.dn.q \in Seq(Cells)
           /\ u.client.sent \in Nat /\ u.backend.sent \in Nat
           /\ u.client.got \in Seq(Cells) /\ u.backend.got \in Seq(Cells)
           /\ Len(u.client.got) \in Nat /\ Len(u.backend.got) \in Nat
<1>1. tun[t] \in Tunnel /\ TunnelOK(tun[t])
  BY DEF TunnelsOK
<1>2. /\ tun[t].up \in Half /\ tun[t].dn \in Half
      /\ tun[t].client \in PeerEnd /\ tun[t].backend \in PeerEnd
  BY <1>1 DEF Tunnel
<1>3. \A h \in Half : h.q \in Seq(Cells)
  BY SMTT(60) DEF Half
<1>4. \A p \in PeerEnd : p.sent \in Nat /\ p.got \in Seq(Cells) /\ Len(p.got) \in Nat
  BY SMTT(60) DEF PeerEnd
<1> QED BY <1>1, <1>2, <1>3, <1>4, Zenon DEF TunnelOK

\* A step that leaves the way up alone keeps it in order; the end of the connector's task
\* ends it.
LEMMA UpwardKept ==
    ASSUME NEW u, NEW v, Upward(u),
           (v.con = u.con /\ v.up.q = u.up.q) \/ v.con = "over",
           v.backend.got = u.backend.got, v.client.sent = u.client.sent,
           v.backend.ended = "eof" => u.backend.ended = "eof",
           u.up.end = "fin" => v.up.end = "fin"
    PROVE  Upward(v)
BY SMTT(60) DEF Upward

\* The same for the way down, which the server's task ends, and which has not begun before
\* the reply is written.
LEMMA DownwardKept ==
    ASSUME NEW u, NEW v, Downward(u),
           \/ v.srv = u.srv /\ v.con = u.con /\ v.dn.q = u.dn.q
           \/ v.srv = "splice" /\ u.srv = "splice" /\ v.dn.q = u.dn.q
           \/ v.srv = "over"
           \/ v.srv # "splice" /\ v.con \notin {"splice", "over"},
           v.client.got = u.client.got, v.backend.sent = u.backend.sent,
           v.client.ended = "eof" => u.client.ended = "eof",
           u.dn.end = "fin" => v.dn.end = "fin"
    PROVE  Downward(v)
BY SMTT(60) DEF Downward

\* Download keeps the invariant.
LEMMA DownloadKeeps ==
    ASSUME TunnelsOK, NEW t \in Tunnels, Download(t)
    PROVE  TunnelsOK'
<1> DEFINE u == tun[t]
           n == Len(u.client.got)
<1>0. u.srv = "splice" /\ u.client.ended = "no"
  BY ZenonT(60) DEF Download
<1>1. /\ n \in 0..u.backend.sent /\ u.dn.q = Run(n, u.backend.sent) /\ u.client.got = Payload(n)
      /\ n \in Nat /\ u.backend.sent \in Nat
  <2>1. /\ n <= u.backend.sent /\ u.dn.q = Run(n, u.backend.sent) /\ u.client.got = Payload(n)
        /\ n \in Nat /\ u.backend.sent \in Nat
    BY <1>0, Parts, ZenonT(60) DEF Downward
  <2> QED BY <2>1
<1>2. CASE /\ u.dn.q # <<>>
           /\ tun' = [tun EXCEPT ![t].client.got = Append(@, Head(tun[t].dn.q)),
                                 ![t].dn.q = Tail(@)]
  <2> DEFINE client == [u.client EXCEPT !.got = Payload(n + 1)]
             dn == [u.dn EXCEPT !.q = Run(n + 1, u.backend.sent)]
             v == [u EXCEPT !.client = client, !.dn = dn]
  <2>1. n + 1 \in 0..u.backend.sent /\ n + 1 \in Nat
    <3>1. n < u.backend.sent
      BY <1>1, <1>2, RunShrinks, Zenon
    <3> QED BY <1>1, <3>1
  <2>2. /\ Append(u.client.got, Head(u.dn.q)) = Payload(n + 1)
        /\ Tail(u.dn.q) = Run(n + 1, u.backend.sent)
    BY <1>1, <1>2, RunShrinks, PayloadGrows, Zenon
  <2>3. tun' = [tun EXCEPT ![t] = v]
    BY <1>2, <2>2, ZenonT(60) DEF TunnelsOK
  <2>4. /\ client \in PeerEnd /\ client.sent = u.client.sent /\ client.got = Payload(n + 1)
        /\ Len(client.got) = n + 1 /\ client.ended = "no"
    BY <1>0, <2>1, Parts, PayloadGrows, ZenonT(60) DEF PeerEnd
  <2>5. /\ dn \in Half /\ dn.q = Run(n + 1, u.backend.sent) /\ dn.end = u.dn.end
        /\ dn.stop = u.dn.stop
    BY <1>1, <2>1, Parts, Runs, ZenonT(60) DEF Half
  <2> HIDE DEF client, dn
  <2>6. /\ v \in Tunnel
        /\ v.srv = u.srv /\ v.con = u.con /\ v.up = u.up /\ v.dn = dn
        /\ v.client = client /\ v.backend = u.backend
    BY <2>4, <2>5, Parts, ZenonT(60) DEF Tunnel
  <2> HIDE DEF v
  <2>7. Begun(v)
    BY <1>0, <2>4, <2>5, <2>6, Parts, ZenonT(60) DEF Begun
  <2>8. Upward(v)
    BY <2>4, <2>6, Parts, UpwardKept, ZenonT(60)
  <2>9. Downward(v)
    <3>1. n + 1 <= u.backend.sent
      BY <2>1
    <3> QED BY <1>0, <2>4, <2>5, <2>6, <3>1, ZenonT(60) DEF Downward
  <2> QED BY <2>3, <2>6, <2>7, <2>8, <2>9, OneTunnel, ZenonT(60) DEF TunnelOK
<1>3. CASE /\ u.dn.q = <<>> /\ u.dn.end = "fin"
           /\ tun' = [tun EXCEPT ![t].client.ended = "eof"]
  <2> DEFINE client == [u.client EXCEPT !.ended = "eof"]
             v == [u EXCEPT !.client = client]
  <2>1. n = u.backend.sent
    BY <1>1, <1>3, Runs, ZenonT(60)
  <2>2. tun' = [tun EXCEPT ![t] = v]
    BY <1>3, ZenonT(60) DEF TunnelsOK
  <2>3. /\ client \in PeerEnd /\ client.sent = u.client.sent /\ client.got = u.client.got
        /\ client.ended = "eof"
    BY Parts, ZenonT(60) DEF PeerEnd
  <2> HIDE DEF client
  <2>4. /\ v \in Tunnel
        /\ v.srv = u.srv /\ v.con = u.con /\ v.up = u.up /\ v.dn = u.dn
        /\ v.client = client /\ v.backend = u.backend
    BY <2>3, Parts, ZenonT(60) DEF Tunnel
  <2> HIDE DEF v
  <2>5. Begun(v) /\ Upward(v)
    BY <1>0, <2>3, <2>4, Parts, ZenonT(60) DEF Begun, Upward
  <2>6. Downward(v)
    BY <1>0, <1>3, <2>1, <2>3, <2>4, Parts, ZenonT(60) DEF Downward
  <2> QED BY <2>2, <2>4, <2>5, <2>6, OneTunnel, ZenonT(60) DEF TunnelOK
<1> QED
  BY <1>2, <1>3, ZenonT(60) DEF Download

\* A write to a half.
LEMMA Puts ==
    ASSUME NEW half \in Half, NEW cells \in Seq(Cells)
    PROVE  /\ Put(half, cells) \in Half
           /\ Put(half, cells).end = half.end /\ Put(half, cells).stop = half.stop
           /\ ~half.stop => Put(half, cells).q = half.q \o cells
           /\ half.stop => Put(half, cells).q = half.q
<1>1. half.q \o cells \in Seq(Cells)
  BY SMTT(60) DEF Half
<1> QED BY <1>1, ZenonT(60) DEF Put, Half

\* The end of a half: finished by its writer, stopped by its reader.
LEMMA HandleDrops ==
    ASSUME NEW half \in Half, NEW side
    PROVE  /\ Finished(side, half) \in Half
           /\ Finished(side, half).q = half.q /\ Finished(side, half).stop = half.stop
           /\ half.end = "fin" => Finished(side, half).end = "fin"
           /\ Stopped(side, half) \in Half
           /\ Stopped(side, half).end = half.end
           /\ Stopped(side, half).q \in {half.q, <<>>}
<1>1. <<>> \in Seq(Cells)
  OBVIOUS
<1>2. CASE side \in conn
  BY <1>1, <1>2, ZenonT(60) DEF Finished, Stopped, Half
<1>3. CASE side \notin conn
  BY <1>3 DEF Finished, Stopped
<1> QED BY <1>2, <1>3

\* A peer whose connection is dropped keeps what it sent and got.
LEMMA Shows ==
    ASSUME NEW peer \in PeerEnd
    PROVE  /\ Shown(peer) \in PeerEnd
           /\ Shown(peer).sent = peer.sent /\ Shown(peer).got = peer.got
           /\ Shown(peer).ended = "eof" => peer.ended = "eof"
BY DEF Shown, PeerEnd

\* Bridge keeps the invariant.
LEMMA BridgeKeeps ==
    ASSUME TunnelsOK, NEW t \in Tunnels, Bridge(t)
    PROVE  TunnelsOK'
<1> DEFINE u == tun[t]
           v == [u EXCEPT !.srv = "open"]
<1>1. u.srv = "idle" /\ tun' = [tun EXCEPT ![t] = v]
  BY Zenon DEF Bridge
<1>2. /\ v \in Tunnel
      /\ v.srv = "open" /\ v.con = u.con /\ v.up = u.up /\ v.dn = u.dn
      /\ v.client = u.client /\ v.backend = u.backend
  BY Parts, SMTT(60) DEF Tunnel
<1> HIDE DEF v
<1>3. Begun(v)
  BY <1>1, <1>2, Parts, ZenonT(60) DEF Begun
<1>4. Upward(v)
  BY <1>1, <1>2, Parts, ZenonT(60) DEF Upward
<1>5. Downward(v)
  BY <1>1, <1>2, Parts, ZenonT(60) DEF Downward
<1> QED BY <1>1, <1>2, <1>3, <1>4, <1>5, OneTunnel, Zenon DEF TunnelOK

\* OpenBi keeps the invariant.
LEMMA OpenBiKeeps ==
    ASSUME TunnelsOK, NEW t \in Tunnels, OpenBi(t)
    PROVE  TunnelsOK'
<1> DEFINE u == tun[t]
           up == [u.up EXCEPT !.end = "open"]
           dn == [u.dn EXCEPT !.end = "open"]
           v == [u EXCEPT !.srv = "connect", !.up = up, !.dn = dn]
<1>1. u.srv = "open" /\ tun' = [tun EXCEPT ![t] = v]
  BY ZenonT(60) DEF OpenBi, TunnelsOK
<1>2. /\ up \in Half /\ up.q = u.up.q /\ up.end = "open" /\ up.stop = u.up.stop
      /\ dn \in Half /\ dn.q = u.dn.q /\ dn.end = "open" /\ dn.stop = u.dn.stop
  BY Parts, SMTT(60) DEF Half
<1> HIDE DEF up, dn
<1>3. /\ v \in Tunnel
      /\ v.srv = "connect" /\ v.con = u.con /\ v.up = up /\ v.dn = dn
      /\ v.client = u.client /\ v.backend = u.backend
  BY <1>2, Parts, ZenonT(60) DEF Tunnel
<1> HIDE DEF v
<1>4. u.con = "none" /\ u.client = NoPeer /\ u.backend = NoPeer
  BY <1>1, Parts DEF Begun
<1>5. Begun(v)
  BY <1>1, <1>2, <1>3, Parts, ZenonT(60) DEF Begun
<1>6. Upward(v)
  <2>1. u.up.end # "fin"
    BY <1>1, Parts, Zenon DEF Begun
  <2> QED BY <1>2, <1>3, <2>1, Parts, UpwardKept, ZenonT(60)
<1>7. Downward(v)
  BY <1>3, <1>4, Silent, Zenon DEF Downward
<1> QED BY <1>1, <1>3, <1>5, <1>6, <1>7, OneTunnel, Zenon DEF TunnelOK

\* WriteConnect keeps the invariant.
LEMMA WriteConnectKeeps ==
    ASSUME TunnelsOK, NEW t \in Tunnels, WriteConnect(t)
    PROVE  TunnelsOK'
<1> DEFINE u == tun[t]
           up == [u.up EXCEPT !.q = Frame("Connect")]
           v == [u EXCEPT !.srv = "reply", !.up = up]
<1>1. u.srv = "connect" /\ tun' = [tun EXCEPT ![t] = v]
  BY Zenon DEF WriteConnect, TunnelsOK
<1>2. /\ up \in Half /\ up.q = Frame("Connect") /\ up.end = u.up.end /\ up.stop = u.up.stop
  BY Parts, Frames, 0 \in Nat, ZenonT(60) DEF Half
<1> HIDE DEF up
<1>3. /\ v \in Tunnel
      /\ v.srv = "reply" /\ v.con = u.con /\ v.up = up /\ v.dn = u.dn
      /\ v.client = u.client /\ v.backend = u.backend
  BY <1>2, Parts, ZenonT(60) DEF Tunnel
<1> HIDE DEF v
<1>4. u.con = "none" /\ u.client = NoPeer /\ u.backend = NoPeer
  BY <1>1, Parts, SMTT(60) DEF Begun
<1>5. Begun(v)
  BY <1>1, <1>2, <1>3, <1>4, Parts, ZenonT(60) DEF Begun
<1>6. Upward(v)
  BY <1>2, <1>3, <1>4, Parts, ZenonT(60) DEF Upward, NoPeer
<1>7. Downward(v)
  BY <1>3, <1>4, Parts, DownwardKept, ZenonT(60)
<1> QED BY <1>1, <1>3, <1>5, <1>6, <1>7, OneTunnel, Zenon DEF TunnelOK

\* Return keeps the invariant.
LEMMA ReturnKeeps ==
    ASSUME TunnelsOK, NEW t \in Tunnels, Return(t)
    PROVE  TunnelsOK'
<1> DEFINE u == tun[t]
           up == Finished("server", u.up)
           dn == Stopped("server", u.dn)
           client == Shown(u.client)
           v == [u EXCEPT !.srv = "over", !.up = up, !.dn = dn, !.client = client]
<1>1. tun' = [tun EXCEPT ![t] = Settled(v)]
  BY Zenon DEF Return, ServerDrops
<1>2. /\ up \in Half /\ up.q = u.up.q /\ up.stop = u.up.stop
      /\ u.up.end = "fin" => up.end = "fin"
      /\ dn \in Half /\ dn.end = u.dn.end /\ dn.q \in {u.dn.q, <<>>}
  BY Parts, HandleDrops, Zenon
<1>3. /\ client \in PeerEnd /\ client.sent = u.client.sent /\ client.got = u.client.got
      /\ client.ended = "eof" => u.client.ended = "eof"
  BY Parts, Shows, ZenonT(60)
<1> HIDE DEF up, dn, client
<1>4. /\ v \in Tunnel
      /\ v.srv = "over" /\ v.con = u.con /\ v.up = up /\ v.dn = dn
      /\ v.client = client /\ v.backend = u.backend
  BY <1>2, <1>3, Parts, ZenonT(60) DEF Tunnel
<1> HIDE DEF v
<1>5. Begun(v)
  BY <1>2, <1>3, <1>4, Parts, ZenonT(60) DEF Begun
<1>6. Upward(v)
  BY <1>2, <1>3, <1>4, Parts, UpwardKept, ZenonT(60)
<1>7. Downward(v)
  BY <1>2, <1>3, <1>4, Parts, DownwardKept, ZenonT(60)
<1> QED BY <1>1, <1>4, <1>5, <1>6, <1>7, Settles, Zenon DEF TunnelOK

\* TaskEnds keeps the invariant.
LEMMA TaskEndsKeeps ==
    ASSUME TunnelsOK, NEW t \in Tunnels, tun[t].con # "none", TaskEnds(t)
    PROVE  TunnelsOK'
<1> DEFINE u == tun[t]
           up == Stopped("connector", u.up)
           dn == Finished("connector", u.dn)
           backend == Shown(u.backend)
           v == [u EXCEPT !.con = "over", !.dn = dn, !.up = up, !.backend = backend]
<1>1. tun' = [tun EXCEPT ![t] = Settled(v)]
  BY Zenon DEF TaskEnds, ConnectorDrops
<1>2. /\ up \in Half /\ up.end = u.up.end /\ up.q \in {u.up.q, <<>>}
      /\ dn \in Half /\ dn.q = u.dn.q /\ dn.stop = u.dn.stop
      /\ u.dn.end = "fin" => dn.end = "fin"
  BY Parts, HandleDrops, Zenon
<1>3. /\ backend \in PeerEnd /\ backend.sent = u.backend.sent /\ backend.got = u.backend.got
      /\ backend.ended = "eof" => u.backend.ended = "eof"
  BY Parts, Shows, ZenonT(60)
<1> HIDE DEF up, dn, backend
<1>4. /\ v \in Tunnel
      /\ v.srv = u.srv /\ v.con = "over" /\ v.up = up /\ v.dn = dn
      /\ v.client = u.client /\ v.backend = backend
  BY <1>2, <1>3, Parts, ZenonT(60) DEF Tunnel
<1> HIDE DEF v
<1>5. Begun(v)
  BY <1>2, <1>3, <1>4, Parts, ZenonT(60) DEF Begun
<1>6. Upward(v)
  BY <1>2, <1>3, <1>4, Parts, UpwardKept, ZenonT(60)
<1>7. Downward(v)
  <2>1. u.con \notin {"splice", "over"} => u.dn.q = <<>>
    BY Parts DEF Begun
  <2> QED BY <1>2, <1>3, <1>4, <2>1, Parts, ZenonT(60) DEF Downward
<1> QED BY <1>1, <1>4, <1>5, <1>6, <1>7, Settles, Zenon DEF TunnelOK

\* ReadReply keeps the invariant.
LEMMA ReadReplyKeeps ==
    ASSUME TunnelsOK, NEW t \in Tunnels, ReadReply(t)
    PROVE  TunnelsOK'
<1> DEFINE u == tun[t]
           sent == u.backend.sent
           dn == [u.dn EXCEPT !.q = Run(0, sent)]
           v == [u EXCEPT !.srv = "splice", !.dn = dn]
<1>1. /\ u.srv = "reply" /\ Len(u.dn.q) >= 2 /\ u.dn.q[2] = Cell("ConnectOk", 0)
      /\ tun' = [tun EXCEPT ![t].srv = "splice", ![t].dn.q = SubSeq(@, 3, Len(@))]
  BY DEF ReadReply
<1>2. u.dn.q # <<>>
  BY <1>1, SMTT(60)
<1>3. u.con \in {"splice", "over"} /\ u.client = NoPeer
  BY <1>1, <1>2, Parts, ZenonT(60) DEF Begun
<1>4. u.dn.q # Frame("ConnectErr")
  <2>1. Frame("ConnectErr")[2] = Cell("ConnectErr", 0)
    BY Frames, 0 \in Nat, ZenonT(60)
  <2> QED BY <1>1, <2>1, SMTT(60) DEF Cell
<1>5. u.dn.q = Frame("ConnectOk") \o Payload(sent)
  BY <1>1, <1>2, <1>3, <1>4, Parts, Zenon DEF Downward
<1>6. SubSeq(u.dn.q, 3, Len(u.dn.q)) = Run(0, sent)
  BY <1>5, Parts, Frames, Zenon
<1>7. tun' = [tun EXCEPT ![t] = v]
  BY <1>1, <1>6, Zenon DEF TunnelsOK
<1>8. /\ dn \in Half /\ dn.q = Run(0, sent) /\ dn.end = u.dn.end /\ dn.stop = u.dn.stop
  BY Parts, Runs, 0 \in 0..sent, ZenonT(60) DEF Half
<1> HIDE DEF dn
<1>9. /\ v \in Tunnel
      /\ v.srv = "splice" /\ v.con = u.con /\ v.up = u.up /\ v.dn = dn
      /\ v.client = NoPeer /\ v.backend = u.backend
  BY <1>3, <1>8, Parts, ZenonT(60) DEF Tunnel
<1> HIDE DEF v
<1>10. Begun(v)
  BY <1>1, <1>3, <1>8, <1>9, Parts, ZenonT(60) DEF Begun
<1>11. Upward(v)
  BY <1>3, <1>9, Parts, UpwardKept, ZenonT(60)
<1>12. Downward(v)
  <2>1. 0 <= sent
    BY Parts
  <2>2. /\ v.client.got = Payload(Len(v.client.got)) /\ v.client.ended # "eof"
        /\ Len(v.client.got) <= v.backend.sent
        /\ v.dn.q = Run(Len(v.client.got), v.backend.sent)
    BY <1>8, <1>9, <2>1, Silent, Zenon
  <2> QED BY <1>9, <2>2, Zenon DEF Downward
<1> QED BY <1>7, <1>9, <1>10, <1>11, <1>12, OneTunnel, ZenonT(60) DEF TunnelOK

\* A cell of payload is a cell.
LEMMA OneCell ==
    ASSUME NEW n \in Nat
    PROVE  <<Cell("byte", n + 1)>> \in Seq(Cells)
<1> DEFINE c == Cell("byte", n + 1)
<1>1. c \in Cells
  BY DEF Cell, Cells
<1> HIDE DEF c
<1>2. <<c>> \in Seq(Cells)
  BY <1>1
<1> QED BY <1>2 DEF c

\* Upload keeps the invariant.
LEMMA UploadKeeps ==
    ASSUME TunnelsOK, NEW t \in Tunnels, Upload(t)
    PROVE  TunnelsOK'
<1> DEFINE u == tun[t]
           n == u.client.sent
           i == Len(u.backend.got)
<1>0. u.srv = "splice" /\ u.up.end = "open"
  BY SMTT(60) DEF Upload
<1>1. u.con \in {"splice", "over"}
  BY <1>0, Parts, SMTT(60) DEF Begun
<1>2. u.con = "splice" =>
        i \in 0..n /\ n \in Nat /\ u.up.q = Run(i, n) /\ ~u.up.stop
  <2>1. i \in Nat /\ n \in Nat
    BY Parts, Zenon
  <2>2. u.con = "splice" => i <= n /\ u.up.q = Run(i, n) /\ ~u.up.stop
    BY Parts, ZenonT(60) DEF Begun, Upward
  <2> QED BY <2>1, <2>2
<1>3. u.backend.ended # "eof"
  BY <1>0, Parts DEF Upward
<1>4. CASE tun' = [tun EXCEPT ![t].client.sent = @ + 1,
                              ![t].up = Put(@, <<Cell("byte", n + 1)>>)]
  <2> DEFINE client == [u.client EXCEPT !.sent = n + 1]
             up == Put(u.up, <<Cell("byte", n + 1)>>)
             v == [u EXCEPT !.client = client, !.up = up]
  <2>1. tun' = [tun EXCEPT ![t] = v]
    BY <1>4, Zenon DEF TunnelsOK
  <2>2. /\ client \in PeerEnd /\ client.sent = n + 1 /\ client.got = u.client.got
        /\ client.ended = u.client.ended
    BY Parts, SMTT(60) DEF PeerEnd
  <2>3. /\ up \in Half /\ up.end = u.up.end /\ up.stop = u.up.stop
        /\ ~u.up.stop => up.q = u.up.q \o <<Cell("byte", n + 1)>>
    BY OneCell, Parts, Puts, Zenon
  <2>4. u.con = "splice" => up.q = Run(i, n + 1)
    BY <1>2, <2>3, RunGrows, ZenonT(60)
  <2> HIDE DEF client, up
  <2>5. /\ v \in Tunnel
        /\ v.srv = "splice" /\ v.con = u.con /\ v.up = up /\ v.dn = u.dn
        /\ v.client = client /\ v.backend = u.backend
    BY <1>0, <2>2, <2>3, Parts, ZenonT(60) DEF Tunnel
  <2> HIDE DEF v
  <2>6. Begun(v)
    BY <1>0, <1>1, <2>2, <2>3, <2>5, Parts, ZenonT(60) DEF Begun
  <2>7. Upward(v)
    <3>1. u.con = "splice" => i <= n + 1
      BY <1>2
    <3> QED BY <1>1, <1>3, <2>2, <2>4, <2>5, <3>1, Parts, ZenonT(60) DEF Upward
  <2>8. Downward(v)
    BY <1>0, <2>2, <2>5, Parts, DownwardKept, ZenonT(60)
  <2> QED BY <2>1, <2>5, <2>6, <2>7, <2>8, OneTunnel, ZenonT(60) DEF TunnelOK
<1>5. CASE tun' = [tun EXCEPT ![t].up.end = "fin"]
  <2> DEFINE up == [u.up EXCEPT !.end = "fin"]
             v == [u EXCEPT !.up = up]
  <2>1. tun' = [tun EXCEPT ![t] = v]
    BY <1>5, ZenonT(60) DEF TunnelsOK
  <2>2. up \in Half /\ up.q = u.up.q /\ up.end = "fin" /\ up.stop = u.up.stop
    BY Parts DEF Half
  <2> HIDE DEF up
  <2>3. /\ v \in Tunnel
        /\ v.srv = "splice" /\ v.con = u.con /\ v.up = up /\ v.dn = u.dn
        /\ v.client = u.client /\ v.backend = u.backend
    BY <1>0, <2>2, Parts, ZenonT(60) DEF Tunnel
  <2> HIDE DEF v
  <2>4. Begun(v)
    BY <1>0, <1>1, <2>2, <2>3, Parts, ZenonT(60) DEF Begun
  <2>5. Upward(v)
    BY <1>3, <2>2, <2>3, Parts, UpwardKept, ZenonT(60)
  <2>6. Downward(v)
    BY <1>0, <2>3, Parts, DownwardKept, ZenonT(60)
  <2> QED BY <2>1, <2>3, <2>4, <2>5, <2>6, OneTunnel, ZenonT(60) DEF TunnelOK
<1> QED
  BY <1>4, <1>5, Zenon DEF Upload

\* ClientEnds keeps the invariant.
LEMMA ClientEndsKeeps ==
    ASSUME TunnelsOK, NEW t \in Tunnels, ClientEnds(t)
    PROVE  TunnelsOK'
<1>1. PICK how \in {"eof", "gone"} : tun' = [tun EXCEPT ![t].client.end = how]
  BY Zenon DEF ClientEnds
<1> DEFINE u == tun[t]
           client == [u.client EXCEPT !.end = how]
           v == [u EXCEPT !.client = client]
<1>2. tun' = [tun EXCEPT ![t] = v] /\ u.srv = "splice"
  BY <1>1, Zenon DEF TunnelsOK, ClientEnds
<1>3. /\ client \in PeerEnd /\ client.sent = u.client.sent /\ client.got = u.client.got
      /\ client.ended = u.client.ended
  BY Parts, SMTT(60) DEF PeerEnd
<1> HIDE DEF client
<1>4. /\ v \in Tunnel
      /\ v.srv = "splice" /\ v.con = u.con /\ v.up = u.up /\ v.dn = u.dn
      /\ v.client = client /\ v.backend = u.backend
  BY <1>2, <1>3, Parts, ZenonT(60) DEF Tunnel
<1> HIDE DEF v
<1>5. Begun(v)
  BY <1>2, <1>3, <1>4, Parts, ZenonT(60) DEF Begun
<1>6. Upward(v)
  BY <1>3, <1>4, Parts, UpwardKept, ZenonT(60)
<1>7. Downward(v)
  BY <1>2, <1>3, <1>4, Parts, DownwardKept, ZenonT(60)
<1> QED BY <1>2, <1>4, <1>5, <1>6, <1>7, OneTunnel, Zenon DEF TunnelOK

\* Accept keeps the invariant.
LEMMA AcceptKeeps ==
    ASSUME TunnelsOK, NEW t \in Tunnels, Accept(t)
    PROVE  TunnelsOK'
<1> DEFINE u == tun[t]
           v == [u EXCEPT !.con = "header"]
<1>1. /\ u.con = "none"
      /\ u.up.q # <<>> \/ u.up.end = "fin"
      /\ tun' = [tun EXCEPT ![t] = v]
  BY ZenonT(60) DEF Accept
<1>2. /\ v \in Tunnel
      /\ v.srv = u.srv /\ v.con = "header" /\ v.up = u.up /\ v.dn = u.dn
      /\ v.client = u.client /\ v.backend = u.backend
  BY Parts, SMTT(60) DEF Tunnel
<1> HIDE DEF v
<1>3. Begun(v)
  BY <1>1, <1>2, Parts, ZenonT(60) DEF Begun
<1>4. Upward(v)
  BY <1>1, <1>2, Parts, ZenonT(60) DEF Upward
<1>5. Downward(v)
  BY <1>2, Parts, DownwardKept, ZenonT(60)
<1> QED BY <1>1, <1>2, <1>3, <1>4, <1>5, OneTunnel, Zenon DEF TunnelOK

\* ReadConnect keeps the invariant.
LEMMA ReadConnectKeeps ==
    ASSUME TunnelsOK, NEW t \in Tunnels, ReadConnect(t)
    PROVE  TunnelsOK'
<1> DEFINE u == tun[t]
           up == [u.up EXCEPT !.q = <<>>]
           v == [u EXCEPT !.con = "dial", !.up = up]
<1>1. /\ u.con = "header" /\ Len(u.up.q) >= 2
      /\ tun' = [tun EXCEPT ![t].con = "dial", ![t].up.q = SubSeq(@, 3, Len(@))]
  BY SMTT(60) DEF ReadConnect
<1>2. u.up.q # <<>>
  BY <1>1, SMTT(60)
<1>3. u.up.q = Frame("Connect")
  BY <1>1, <1>2, Parts, ZenonT(60) DEF Upward
<1>4. SubSeq(u.up.q, 3, Len(u.up.q)) = <<>>
  <2>1. Len(Frame("Connect")) = 2 /\ SubSeq(Frame("Connect"), 3, 2) = <<>>
    BY Frames, 0 \in Nat, Zenon
  <2> QED BY <1>3, <2>1, ZenonT(60)
<1>5. tun' = [tun EXCEPT ![t] = v]
  BY <1>1, <1>4, ZenonT(60) DEF TunnelsOK
<1>6. up \in Half /\ up.q = <<>> /\ up.end = u.up.end /\ up.stop = u.up.stop
  BY Parts, <<>> \in Seq(Cells), Zenon DEF Half
<1> HIDE DEF up
<1>7. /\ v \in Tunnel
      /\ v.srv = u.srv /\ v.con = "dial" /\ v.up = up /\ v.dn = u.dn
      /\ v.client = u.client /\ v.backend = u.backend
  BY <1>6, Parts, ZenonT(60) DEF Tunnel
<1> HIDE DEF v
<1>8. Begun(v)
  BY <1>1, <1>2, <1>6, <1>7, Parts, ZenonT(60) DEF Begun
<1>9. Upward(v)
  BY <1>6, <1>7, Parts, ZenonT(60) DEF Upward
<1>10. Downward(v)
  BY <1>7, Parts, DownwardKept, ZenonT(60)
<1> QED BY <1>5, <1>7, <1>8, <1>9, <1>10, OneTunnel, ZenonT(60) DEF TunnelOK

\* Dial keeps the invariant.
LEMMA DialKeeps ==
    ASSUME TunnelsOK, NEW t \in Tunnels, Dial(t)
    PROVE  TunnelsOK'
<1>1. PICK reply \in {"ok", "err"} : tun' = [tun EXCEPT ![t].con = reply]
  BY ZenonT(60) DEF Dial
<1> DEFINE u == tun[t]
           v == [u EXCEPT !.con = reply]
<1>2. tun' = [tun EXCEPT ![t] = v] /\ u.con = "dial"
  BY <1>1, Zenon DEF Dial
<1>3. /\ v \in Tunnel
      /\ v.srv = u.srv /\ v.con = reply /\ v.up = u.up /\ v.dn = u.dn
      /\ v.client = u.client /\ v.backend = u.backend
  BY Parts, SMTT(60) DEF Tunnel
<1> HIDE DEF v
<1>4. Begun(v)
  BY <1>2, <1>3, Parts, ZenonT(60) DEF Begun
<1>5. Upward(v)
  BY <1>2, <1>3, Parts, ZenonT(60) DEF Upward
<1>6. Downward(v)
  BY <1>3, Parts, DownwardKept, ZenonT(60)
<1> QED BY <1>2, <1>3, <1>4, <1>5, <1>6, OneTunnel, ZenonT(60) DEF TunnelOK

\* WriteReply keeps the invariant.
LEMMA WriteReplyKeeps ==
    ASSUME TunnelsOK, NEW t \in Tunnels, WriteReply(t)
    PROVE  TunnelsOK'
<1> DEFINE u == tun[t]
<1>0. u.con \in {"ok", "err"}
  BY SMTT(60) DEF WriteReply
<1>1. /\ u.srv \in {"reply", "over"} /\ u.client.sent = 0 /\ u.backend = NoPeer
      /\ u.dn.q = <<>> /\ u.up.q = <<>> /\ ~u.up.stop
  <2>1. u.srv \in {"idle", "open", "connect", "reply", "splice", "over"}
    BY Parts, SMTT(60) DEF Tunnel
  <2> QED BY <1>0, <2>1, Parts, ZenonT(60) DEF Begun, Upward
<1>2. ASSUME NEW kind \in {"ConnectOk", "ConnectErr"}
      PROVE  LET dn == Put(u.dn, Frame(kind)) IN
             /\ dn \in Half /\ dn.end = u.dn.end /\ dn.stop = u.dn.stop
             /\ u.srv = "reply" => dn.q = Frame(kind)
  <2>1. Frame(kind) \in Seq(Cells)
    BY Frames, 0 \in Nat, ZenonT(60)
  <2>2. <<>> \o Frame(kind) = Frame(kind)
    BY <2>1, ConcatEmptySeq, SMTT(60)
  <2>3. u.srv = "reply" => ~u.dn.stop
    BY Parts DEF Begun
  <2>4. /\ Put(u.dn, Frame(kind)) \in Half
        /\ Put(u.dn, Frame(kind)).end = u.dn.end /\ Put(u.dn, Frame(kind)).stop = u.dn.stop
        /\ ~u.dn.stop => Put(u.dn, Frame(kind)).q = u.dn.q \o Frame(kind)
    BY <2>1, Parts, Puts, ZenonT(60)
  <2> QED BY <1>1, <2>2, <2>3, <2>4, ZenonT(60)
<1>p. /\ NoPeer.sent = 0 /\ NoPeer.got = <<>> /\ NoPeer.ended = "no" /\ Len(<<>>) = 0
      /\ Payload(0) = <<>> /\ Run(0, 0) = <<>>
  BY DEF NoPeer, Payload, Run
<1>3. CASE /\ u.con = "ok"
           /\ tun' = [tun EXCEPT ![t].con = "splice", ![t].dn = Put(@, Frame("ConnectOk"))]
  <2> DEFINE dn == Put(u.dn, Frame("ConnectOk"))
             v == [u EXCEPT !.con = "splice", !.dn = dn]
  <2>1. tun' = [tun EXCEPT ![t] = v]
    BY <1>3, ZenonT(60) DEF TunnelsOK
  <2>2. /\ dn \in Half /\ dn.end = u.dn.end /\ dn.stop = u.dn.stop
        /\ u.srv = "reply" => dn.q = Frame("ConnectOk") \o Payload(0)
    <3>1. Frame("ConnectOk") \o <<>> = Frame("ConnectOk")
      BY Frames, 0 \in Nat, ConcatEmptySeq, ZenonT(60)
    <3> QED BY <1>2, <1>p, <3>1, Zenon
  <2> HIDE DEF dn
  <2>3. /\ v \in Tunnel
        /\ v.srv = u.srv /\ v.con = "splice" /\ v.up = u.up /\ v.dn = dn
        /\ v.client = u.client /\ v.backend = NoPeer
    BY <1>1, <2>2, Parts, ZenonT(60) DEF Tunnel
  <2> HIDE DEF v
  <2>4. Begun(v)
    BY <1>1, <2>2, <2>3, Parts, ZenonT(60) DEF Begun
  <2>5. Upward(v)
    <3>1. u.up.q = <<>> /\ u.client.sent = 0
      BY <1>1, Parts, ZenonT(60) DEF Begun, Upward
    <3>2. Run(0, 0) = <<>> /\ 0 <= 0
      BY DEF Run
    <3> QED BY <2>3, <3>1, <3>2, Silent, ZenonT(60) DEF Upward
  <2>6. Downward(v)
    BY <1>1, <1>p, <2>2, <2>3, Parts, ZenonT(60) DEF Downward
  <2> QED BY <2>1, <2>3, <2>4, <2>5, <2>6, OneTunnel, ZenonT(60) DEF TunnelOK
<1>4. CASE /\ u.con = "err"
           /\ LET written == Put(tun[t].dn, Frame("ConnectErr")) IN
              tun' = [tun EXCEPT ![t] = ConnectorDrops([@ EXCEPT !.dn = written])]
  <2> DEFINE written == Put(u.dn, Frame("ConnectErr"))
             w == [u EXCEPT !.dn = written]
             dn == Finished("connector", w.dn)
             up == Stopped("connector", w.up)
             backend == Shown(w.backend)
             v == [w EXCEPT !.con = "over", !.dn = dn, !.up = up, !.backend = backend]
  <2>1. tun' = [tun EXCEPT ![t] = Settled(v)]
    BY <1>4, ZenonT(60) DEF ConnectorDrops
  <2>2. /\ written \in Half /\ written.end = u.dn.end /\ written.stop = u.dn.stop
        /\ u.srv = "reply" => written.q = Frame("ConnectErr")
    BY <1>2, SMTT(60)
  <2> HIDE DEF written
  <2>3. /\ w \in Tunnel /\ w.srv = u.srv /\ w.up = u.up /\ w.dn = written
        /\ w.client = u.client /\ w.backend = u.backend
    BY <2>2, Parts, SMTT(60) DEF Tunnel
  <2> HIDE DEF w
  <2>4. /\ up \in Half /\ up.end = u.up.end /\ up.q \in {u.up.q, <<>>}
        /\ dn \in Half /\ dn.q = written.q /\ dn.stop = written.stop
        /\ written.end = "fin" => dn.end = "fin"
    <3>1. w.up \in Half /\ w.dn \in Half
      BY <2>2, <2>3, Parts, ZenonT(60)
    <3>2. /\ up \in Half /\ up.end = w.up.end /\ up.q \in {w.up.q, <<>>}
          /\ dn \in Half /\ dn.q = w.dn.q /\ dn.stop = w.dn.stop
          /\ w.dn.end = "fin" => dn.end = "fin"
      BY <3>1, HandleDrops, ZenonT(60)
    <3> HIDE DEF up, dn
    <3> QED BY <2>3, <3>2, SMTT(60)
  <2>5. /\ backend \in PeerEnd /\ backend.sent = u.backend.sent
        /\ backend.got = u.backend.got
        /\ backend.ended = "eof" => u.backend.ended = "eof"
    BY <2>3, Parts, Shows, ZenonT(60)
  <2> HIDE DEF up, dn, backend
  <2>6. /\ v \in Tunnel
        /\ v.srv = u.srv /\ v.con = "over" /\ v.up = up /\ v.dn = dn
        /\ v.client = u.client /\ v.backend = backend
    BY <2>3, <2>4, <2>5, Parts, ZenonT(60) DEF Tunnel
  <2> HIDE DEF v
  <2>7. Begun(v)
    BY <1>1, <2>2, <2>4, <2>5, <2>6, Parts, ZenonT(60) DEF Begun
  <2>8. Upward(v)
    BY <2>4, <2>5, <2>6, Parts, UpwardKept, ZenonT(60)
  <2>9. Downward(v)
    BY <1>1, <2>2, <2>4, <2>5, <2>6, Parts, ZenonT(60) DEF Downward
  <2> QED BY <2>1, <2>6, <2>7, <2>8, <2>9, Settles, Zenon DEF TunnelOK
<1> QED
  BY <1>3, <1>4, Zenon DEF WriteReply

\* ToBackend keeps the invariant.
LEMMA ToBackendKeeps ==
    ASSUME TunnelsOK, NEW t \in Tunnels, ToBackend(t)
    PROVE  TunnelsOK'
<1> DEFINE u == tun[t]
           n == Len(u.backend.got)
<1>0. u.con = "splice" /\ u.backend.ended = "no"
  BY ZenonT(60) DEF ToBackend
<1>1. /\ n \in 0..u.client.sent /\ u.up.q = Run(n, u.client.sent) /\ u.backend.got = Payload(n)
      /\ n \in Nat /\ u.client.sent \in Nat
  <2>1. /\ n <= u.client.sent /\ u.up.q = Run(n, u.client.sent) /\ u.backend.got = Payload(n)
        /\ n \in Nat /\ u.client.sent \in Nat
    BY <1>0, Parts, ZenonT(60) DEF Upward
  <2> QED BY <2>1
<1>2. CASE /\ u.up.q # <<>>
           /\ tun' = [tun EXCEPT ![t].backend.got = Append(@, Head(tun[t].up.q)),
                                 ![t].up.q = Tail(@)]
  <2> DEFINE backend == [u.backend EXCEPT !.got = Payload(n + 1)]
             up == [u.up EXCEPT !.q = Run(n + 1, u.client.sent)]
             v == [u EXCEPT !.backend = backend, !.up = up]
  <2>1. n + 1 \in 0..u.client.sent /\ n + 1 \in Nat
    <3>1. n < u.client.sent
      BY <1>1, <1>2, RunShrinks, Zenon
    <3> QED BY <1>1, <3>1
  <2>2. /\ Append(u.backend.got, Head(u.up.q)) = Payload(n + 1)
        /\ Tail(u.up.q) = Run(n + 1, u.client.sent)
    BY <1>1, <1>2, RunShrinks, PayloadGrows, ZenonT(60)
  <2>3. tun' = [tun EXCEPT ![t] = v]
    BY <1>2, <2>2, ZenonT(60) DEF TunnelsOK
  <2>4. /\ backend \in PeerEnd /\ backend.sent = u.backend.sent /\ backend.got = Payload(n + 1)
        /\ Len(backend.got) = n + 1 /\ backend.ended = "no"
    BY <1>0, <2>1, Parts, PayloadGrows, ZenonT(60) DEF PeerEnd
  <2>5. /\ up \in Half /\ up.q = Run(n + 1, u.client.sent) /\ up.end = u.up.end
        /\ up.stop = u.up.stop
    BY <1>1, <2>1, Parts, Runs, ZenonT(60) DEF Half
  <2> HIDE DEF backend, up
  <2>6. /\ v \in Tunnel
        /\ v.srv = u.srv /\ v.con = "splice" /\ v.up = up /\ v.dn = u.dn
        /\ v.client = u.client /\ v.backend = backend
    BY <1>0, <2>4, <2>5, Parts, ZenonT(60) DEF Tunnel
  <2> HIDE DEF v
  <2>7. Begun(v)
    BY <1>0, <2>4, <2>5, <2>6, Parts, ZenonT(60) DEF Begun
  <2>8. Upward(v)
    <3>1. n + 1 <= u.client.sent
      BY <2>1
    <3> QED BY <1>0, <2>4, <2>5, <2>6, <3>1, ZenonT(60) DEF Upward
  <2>9. Downward(v)
    BY <1>0, <2>4, <2>6, Parts, DownwardKept, ZenonT(60)
  <2> QED BY <2>3, <2>6, <2>7, <2>8, <2>9, OneTunnel, ZenonT(60) DEF TunnelOK
<1>3. CASE /\ u.up.q = <<>> /\ u.up.end = "fin"
           /\ tun' = [tun EXCEPT ![t].backend.ended = "eof"]
  <2> DEFINE backend == [u.backend EXCEPT !.ended = "eof"]
             v == [u EXCEPT !.backend = backend]
  <2>1. n = u.client.sent
    BY <1>1, <1>3, Runs, ZenonT(60)
  <2>2. tun' = [tun EXCEPT ![t] = v]
    BY <1>3, ZenonT(60) DEF TunnelsOK
  <2>3. /\ backend \in PeerEnd /\ backend.sent = u.backend.sent /\ backend.got = u.backend.got
        /\ backend.ended = "eof"
    BY Parts, SMTT(60) DEF PeerEnd
  <2> HIDE DEF backend
  <2>4. /\ v \in Tunnel
        /\ v.srv = u.srv /\ v.con = "splice" /\ v.up = u.up /\ v.dn = u.dn
        /\ v.client = u.client /\ v.backend = backend
    BY <1>0, <2>3, Parts, ZenonT(60) DEF Tunnel
  <2> HIDE DEF v
  <2>5. Begun(v)
    BY <1>0, <2>3, <2>4, Parts, ZenonT(60) DEF Begun
  <2>6. Upward(v)
    BY <1>0, <1>3, <2>1, <2>3, <2>4, Parts, ZenonT(60) DEF Upward
  <2>7. Downward(v)
    BY <1>0, <2>3, <2>4, Parts, DownwardKept, ZenonT(60)
  <2> QED BY <2>2, <2>4, <2>5, <2>6, <2>7, OneTunnel, Zenon DEF TunnelOK
<1> QED
  BY <1>2, <1>3, ZenonT(60) DEF ToBackend

\* FromBackend keeps the invariant.
LEMMA FromBackendKeeps ==
    ASSUME TunnelsOK, NEW t \in Tunnels, FromBackend(t)
    PROVE  TunnelsOK'
<1> DEFINE u == tun[t]
           n == u.backend.sent
           i == Len(u.client.got)
           c == Cell("byte", n + 1)
<1>0. u.con = "splice" /\ u.dn.end = "open"
  BY SMTT(60) DEF FromBackend
<1>1. u.srv \in {"reply", "splice", "over"}
  <2>1. u.srv \in {"idle", "open", "connect", "reply", "splice", "over"}
    BY Parts, SMTT(60) DEF Tunnel
  <2> QED BY <1>0, <2>1, Parts, ZenonT(60) DEF Begun
<1>2. u.srv = "splice" => i \in 0..n /\ n \in Nat /\ u.dn.q = Run(i, n) /\ ~u.dn.stop
  <2>1. u.srv = "splice" => i <= n /\ u.dn.q = Run(i, n) /\ ~u.dn.stop
    BY Parts, Zenon DEF Begun, Downward
  <2>2. i \in Nat /\ n \in Nat
    BY Parts, Zenon
  <2> QED BY <2>1, <2>2
<1>3. u.srv = "reply" => u.dn.q = Frame("ConnectOk") \o Payload(n) /\ ~u.dn.stop
  BY <1>0, Parts, ZenonT(60) DEF Begun, Downward
<1>4. u.client.ended # "eof"
  BY <1>0, Parts, ZenonT(60) DEF Downward
<1>5. CASE tun' = [tun EXCEPT ![t].backend.sent = @ + 1, ![t].dn = Put(@, <<c>>)]
  <2> DEFINE backend == [u.backend EXCEPT !.sent = n + 1]
             dn == Put(u.dn, <<c>>)
             v == [u EXCEPT !.backend = backend, !.dn = dn]
  <2>1. tun' = [tun EXCEPT ![t] = v]
    BY <1>5, ZenonT(60) DEF TunnelsOK
  <2>2. /\ backend \in PeerEnd /\ backend.sent = n + 1 /\ backend.got = u.backend.got
        /\ backend.ended = u.backend.ended
    <3>1. u.backend \in PeerEnd /\ n + 1 \in Nat
      BY Parts, SMTT(60)
    <3> QED BY <3>1, SMTT(60) DEF PeerEnd
  <2>3. /\ dn \in Half /\ dn.end = u.dn.end /\ dn.stop = u.dn.stop
        /\ ~u.dn.stop => dn.q = u.dn.q \o <<c>>
    BY OneCell, Parts, Puts, Zenon
  <2>4. u.srv = "splice" => dn.q = Run(i, n + 1)
    BY <1>2, <2>3, RunGrows, ZenonT(60)
  <2>5. u.srv = "reply" => dn.q = Frame("ConnectOk") \o Payload(n + 1)
    <3>1. (Frame("ConnectOk") \o Payload(n)) \o <<c>> = Frame("ConnectOk") \o Payload(n + 1)
      BY Parts, Frames, ZenonT(60)
    <3> QED BY <1>3, <2>3, <3>1, Zenon
  <2> HIDE DEF backend, dn
  <2>6. /\ v \in Tunnel
        /\ v.srv = u.srv /\ v.con = "splice" /\ v.up = u.up /\ v.dn = dn
        /\ v.client = u.client /\ v.backend = backend
    BY <1>0, <2>2, <2>3, Parts, ZenonT(60) DEF Tunnel
  <2> HIDE DEF v
  <2>7. Begun(v)
    BY <1>0, <1>1, <2>2, <2>3, <2>6, Parts, ZenonT(60) DEF Begun
  <2>8. Upward(v)
    BY <1>0, <2>2, <2>6, Parts, UpwardKept, ZenonT(60)
  <2>9. Downward(v)
    <3>1. CASE u.srv = "splice"
      <4>1. i <= n + 1
        BY <1>2, <3>1, SMTT(60)
      <4> QED BY <1>4, <2>2, <2>4, <2>6, <3>1, <4>1, Parts, ZenonT(60) DEF Downward
    <3>2. CASE u.srv # "splice"
      BY <1>4, <2>2, <2>5, <2>6, <3>2, Parts, ZenonT(60) DEF Downward
    <3> QED BY <3>1, <3>2
  <2> QED BY <2>1, <2>6, <2>7, <2>8, <2>9, OneTunnel, ZenonT(60) DEF TunnelOK
<1>6. CASE tun' = [tun EXCEPT ![t].dn.end = "fin"]
  <2> DEFINE dn == [u.dn EXCEPT !.end = "fin"]
             v == [u EXCEPT !.dn = dn]
  <2>1. tun' = [tun EXCEPT ![t] = v]
    BY <1>6, Zenon DEF TunnelsOK
  <2>2. dn \in Half /\ dn.q = u.dn.q /\ dn.end = "fin" /\ dn.stop = u.dn.stop
    BY Parts, ZenonT(60) DEF Half
  <2> HIDE DEF dn
  <2>3. /\ v \in Tunnel
        /\ v.srv = u.srv /\ v.con = "splice" /\ v.up = u.up /\ v.dn = dn
        /\ v.client = u.client /\ v.backend = u.backend
    BY <1>0, <2>2, Parts, ZenonT(60) DEF Tunnel
  <2> HIDE DEF v
  <2>4. Begun(v)
    BY <1>0, <2>2, <2>3, Parts, ZenonT(60) DEF Begun
  <2>5. Upward(v)
    BY <1>0, <2>3, Parts, UpwardKept, ZenonT(60)
  <2>6. Downward(v)
    BY <1>0, <1>4, <2>2, <2>3, Parts, ZenonT(60) DEF Downward
  <2> QED BY <2>1, <2>3, <2>4, <2>5, <2>6, OneTunnel, ZenonT(60) DEF TunnelOK
<1> QED
  BY <1>5, <1>6, Zenon DEF FromBackend

\* BackendEnds keeps the invariant.
LEMMA BackendEndsKeeps ==
    ASSUME TunnelsOK, NEW t \in Tunnels, BackendEnds(t)
    PROVE  TunnelsOK'
<1>1. PICK how \in {"eof", "gone"} : tun' = [tun EXCEPT ![t].backend.end = how]
  BY ZenonT(60) DEF BackendEnds
<1> DEFINE u == tun[t]
           backend == [u.backend EXCEPT !.end = how]
           v == [u EXCEPT !.backend = backend]
<1>2. tun' = [tun EXCEPT ![t] = v] /\ u.con = "splice"
  BY <1>1, Zenon DEF TunnelsOK, BackendEnds
<1>3. /\ backend \in PeerEnd /\ backend.sent = u.backend.sent /\ backend.got = u.backend.got
      /\ backend.ended = u.backend.ended
  BY Parts, SMTT(60) DEF PeerEnd
<1> HIDE DEF backend
<1>4. /\ v \in Tunnel
      /\ v.srv = u.srv /\ v.con = "splice" /\ v.up = u.up /\ v.dn = u.dn
      /\ v.client = u.client /\ v.backend = backend
  BY <1>2, <1>3, Parts, ZenonT(60) DEF Tunnel
<1> HIDE DEF v
<1>5. Begun(v)
  BY <1>2, <1>3, <1>4, Parts, ZenonT(60) DEF Begun
<1>6. Upward(v)
  BY <1>2, <1>3, <1>4, Parts, UpwardKept, ZenonT(60)
<1>7. Downward(v)
  BY <1>2, <1>3, <1>4, Parts, DownwardKept, ZenonT(60)
<1> QED BY <1>2, <1>4, <1>5, <1>6, <1>7, OneTunnel, Zenon DEF TunnelOK

\* The invariant holds before the first bridge.
LEMMA SpliceStarts == QuicInit => TunnelsOK
BY Starts DEF QuicInit, TunnelsOK

\* Every step keeps the invariant: one lemma per action that moves a tunnel.
LEMMA SpliceStep == TunnelsOK /\ [QuicNext]_allVars => TunnelsOK'
<1> SUFFICES ASSUME TunnelsOK, [QuicNext]_allVars PROVE TunnelsOK'
  OBVIOUS
<1>1. ASSUME NEW t \in Tunnels, ServerStep(t) PROVE TunnelsOK'
  BY <1>1, OpenBiKeeps, WriteConnectKeeps, ReadReplyKeeps, ReturnKeeps, UploadKeeps,
     DownloadKeeps, Zenon DEF ServerStep, GiveUp, SpliceEnds
<1>2. ASSUME NEW t \in Tunnels, ConnectorStep(t) PROVE TunnelsOK'
  <2>1. CASE HeaderFails(t) \/ ReplyFails(t) \/ BackendSpliceEnds(t)
    <3>1. TaskEnds(t) /\ tun[t].con # "none"
      BY <2>1, SMTT(60) DEF HeaderFails, ReplyFails, BackendSpliceEnds
    <3> QED BY <3>1, TaskEndsKeeps
  <2> QED BY <1>2, <2>1, AcceptKeeps, ReadConnectKeeps, DialKeeps, WriteReplyKeeps,
             ToBackendKeeps, FromBackendKeeps, Zenon DEF ConnectorStep
<1>3. CASE UNCHANGED tun
  BY <1>3 DEF TunnelsOK
<1>4. CASE \/ \E t \in Tunnels : SlotStep(t)
           \/ CloseAndDrain \/ (ZeroCount /\ UNCHANGED quic)
           \/ \E side \in Sides : LoseConnection(side)
           \/ UNCHANGED allVars
  BY <1>3, <1>4, ZenonT(60) DEF SlotStep, CloseAndDrain, LoseConnection, quic, allVars
<1>5. ASSUME NEW t \in Tunnels, Bridge(t) \/ ClientEnds(t) \/ BackendEnds(t)
      PROVE  TunnelsOK'
  BY <1>5, BridgeKeeps, ClientEndsKeeps, BackendEndsKeeps, Zenon
<1>6. ASSUME NEW t \in Tunnels,
             \/ Bridge(t) \/ ServerStep(t) \/ ConnectorStep(t) \/ SlotStep(t)
             \/ ClientEnds(t) \/ BackendEnds(t)
      PROVE  TunnelsOK'
  BY <1>1, <1>2, <1>4, <1>5, <1>6, ZenonT(60)
<1> QED BY <1>4, <1>6, ZenonT(60) DEF QuicNext

\* For any amount of payload: what a splice delivers is what was put in, from the first
\* cell and without a gap, and an orderly end comes after the last one (quic_tunnel and
\* splice_data_stream).
THEOREM SplicesAreExact == QuicSpec => []SpliceExact
<1>1. TunnelsOK => SpliceExact
  BY Parts, ZenonT(60) DEF Upward, Downward, SpliceExact
<1> QED BY <1>1, SpliceStarts, SpliceStep, PTL DEF QuicSpec

=============================================================================
