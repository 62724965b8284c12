----------------------------- MODULE ProtoProofs -----------------------------
(***************************************************************************)
(* The parts of the wire protocol, each on its own.                        *)
(*                                                                         *)
(* SendCredit, for every window, every set of request and grant sizes and  *)
(* any number of threads calling add and close: no wakeup is lost, and the *)
(* loop of acquire implements the indivisible acquire of CreditGate.       *)
(* NoLostWakeup is not inductive: it says nothing of a sender that has     *)
(* re-checked one of the two conditions and is about to park.  WakeIsDue   *)
(* adds what each re-check has established so far.                         *)
(*                                                                         *)
(* StreamFlow, for every window, threshold, chunk size, channel capacity   *)
(* and source length: credit is conserved, an honest peer is never reset,  *)
(* the pump never starves, and payloads arrive in order.  None of these is *)
(* inductive alone.  The strengthening says that the messages under way    *)
(* and the queue tile the stream: wire goes from Received to sent, queue   *)
(* from written to Received, updates from Applied to granted, without gaps *)
(* or overlaps.                                                            *)
(*                                                                         *)
(* Codec, for every set of messages that the type Message admits, every    *)
(* byte sequence taken for a body, every limit that fits its field and     *)
(* wherever the bytes of a stream come to be read: decode undoes encode,   *)
(* no two bodies decode to one message, and a frame ends where the next    *)
(* bytes begin.  Field by field, what is written is read back (GetField)   *)
(* and what can be read was written (GotField); CodecInv adds that what is *)
(* here and what is due are, end to end, the frame and its tail.           *)
(*                                                                         *)
(* Obfs: the receiving task is never asleep on a socket that holds data.   *)
(***************************************************************************)
EXTENDS SendCredit, StreamFlow, Codec, Obfs, TLAPS, WellFoundedInduction

WakePending == waiter = "fired" \/ \E c \in Callers : caller[c] = "notify"

WakeIsDue ==
    /\ pc \in {"recheckClosed", "recheckCredit", "parked"} => waiter \in {"armed", "fired"}
    /\ pc \in {"recheckCredit", "parked"} /\ closed => WakePending
    /\ pc = "parked" /\ credit >= need => WakePending

CreditIInv == TypeOK /\ WakeIsDue

-----------------------------------------------------------------------------
LEMMA CreditInitIInv == Init => CreditIInv
<1> SUFFICES ASSUME Init PROVE CreditIInv
  OBVIOUS
<1>1. TypeOK
  <2>1. credit \in 0..Window
    BY WindowAssumption DEF Init
  <2>2. closed \in BOOLEAN /\ need \in Needs
    BY ZenonT(60) DEF Init
  <2>3. pc \in InLoop \cup Outside /\ waiter \in {"none", "armed", "fired"}
    BY DEF Init, InLoop, Outside
  <2>4. caller \in [Callers -> {"idle", "notify"}]
    BY DEF Init
  <2>. QED BY <2>1, <2>2, <2>3, <2>4 DEF TypeOK
<1>2. WakeIsDue
  BY DEF Init, WakeIsDue
<1>. QED BY <1>1, <1>2 DEF CreditIInv

\* Types are kept by every step.
LEMMA NextTypeOK == TypeOK /\ [Next]_vars => TypeOK'
<1> USE WindowAssumption, NeedsAssumption, GrantsAssumption DEF TypeOK, InLoop, Outside
<1> SUFFICES ASSUME TypeOK, [Next]_vars PROVE TypeOK'
  OBVIOUS
<1>1. CASE Acquire
  BY <1>1 DEF Acquire
<1>2. CASE Sender
  BY <1>2 DEF Sender, CheckClosed, TryTake, Arm, RecheckClosed, RecheckCredit, Wake
<1>3. CASE DropSender
  BY <1>3 DEF DropSender
<1>4. ASSUME NEW c \in Callers, AddStore(c) PROVE TypeOK'
  BY <1>4 DEF AddStore
<1>5. ASSUME NEW c \in Callers, CloseStore(c) PROVE TypeOK'
  BY <1>5 DEF CloseStore
<1>6. ASSUME NEW c \in Callers, NotifyWaiters(c) PROVE TypeOK'
  BY <1>6 DEF NotifyWaiters
<1>7. CASE UNCHANGED vars
  BY <1>7, ZenonT(60) DEF vars
<1>. QED BY <1>1, <1>2, <1>3, <1>4, <1>5, <1>6, <1>7, ZenonT(60) DEF Next

\* No step of the sender or of a caller leaves a due wakeup without someone to bring it.
LEMMA NextWakeIsDue == CreditIInv /\ [Next]_vars => WakeIsDue'
<1> USE DEF CreditIInv, WakeIsDue, WakePending
<1> SUFFICES ASSUME CreditIInv, [Next]_vars PROVE WakeIsDue'
  OBVIOUS
<1>1. CASE Acquire
  BY <1>1 DEF Acquire
<1>2. CASE CheckClosed
  BY <1>2 DEF CheckClosed
<1>3. CASE TryTake
  BY <1>3 DEF TryTake
<1>4. CASE Arm
  BY <1>4 DEF Arm
<1>5. CASE RecheckClosed
  BY <1>5 DEF RecheckClosed
<1>6. CASE RecheckCredit
  <2>1. CASE credit < need
    <3>1. ~(credit >= need)
      BY <2>1, NeedsAssumption, WindowAssumption DEF TypeOK
    <3>. QED BY <1>6, <2>1, <3>1 DEF RecheckCredit
  <2>2. CASE ~(credit < need)
    BY <1>6, <2>2 DEF RecheckCredit
  <2>. QED BY <2>1, <2>2
<1>7. CASE Wake
  BY <1>7 DEF Wake
<1>8. CASE DropSender
  BY <1>8 DEF DropSender
<1>9. ASSUME NEW c \in Callers, AddStore(c) PROVE WakeIsDue'
  <2>1. caller'[c] = "notify"
    BY <1>9 DEF AddStore, TypeOK
  <2>. QED BY <1>9, <2>1 DEF AddStore
<1>10. ASSUME NEW c \in Callers, CloseStore(c) PROVE WakeIsDue'
  <2>1. caller'[c] = "notify"
    BY <1>10 DEF CloseStore, TypeOK
  <2>. QED BY <1>10, <2>1 DEF CloseStore
<1>11. ASSUME NEW c \in Callers, NotifyWaiters(c) PROVE WakeIsDue'
  <2>1. pc \in {"recheckClosed", "recheckCredit", "parked"} => waiter' = "fired"
    BY <1>11 DEF NotifyWaiters
  <2>. QED BY <1>11, <2>1 DEF NotifyWaiters
<1>12. CASE UNCHANGED vars
  BY <1>12 DEF vars
<1>. QED
  BY <1>1, <1>2, <1>3, <1>4, <1>5, <1>6, <1>7, <1>8, <1>9, <1>10, <1>11, <1>12, ZenonT(60)
     DEF Next, Sender

LEMMA CreditInvariance == Spec => []CreditIInv
<1>1. CreditIInv /\ [Next]_vars => CreditIInv'
  BY NextTypeOK, NextWakeIsDue DEF CreditIInv
<1>. QED BY CreditInitIInv, <1>1, PTL DEF Spec

\* The credit stays within the window under any grants, and acquire never overdraws it.
THEOREM CreditTypeCorrect == Spec => []TypeOK
<1>1. CreditIInv => TypeOK
  BY DEF CreditIInv
<1>. QED BY <1>1, CreditInvariance, PTL

\* A grant or a close that arrives while acquire is on its way to its await is never
\* missed, however many threads call add and close at once.
THEOREM WakeupsAreNotLost == Spec => []NoLostWakeup
<1>1. CreditIInv => NoLostWakeup
  BY ZenonT(60) DEF CreditIInv, WakeIsDue, WakePending, NoLostWakeup
<1>. QED BY <1>1, CreditInvariance, PTL

-----------------------------------------------------------------------------
\* Each step of the atomics is a step of the gate, or changes nothing it can see.
LEMMA StepRefines == TypeOK /\ [Next]_vars => [Gate!Next]_(Gate!vars)
<1> USE WindowAssumption, NeedsAssumption, GrantsAssumption
    DEF TypeOK, InLoop, Outside, RequestOf, Gate!vars, Gate!Next
<1> SUFFICES ASSUME TypeOK, [Next]_vars PROVE [Gate!Next]_(Gate!vars)
  OBVIOUS
<1>1. CASE Acquire
  BY <1>1 DEF Acquire, Gate!Ask
<1>2. CASE CheckClosed
  BY <1>2 DEF CheckClosed, Gate!Refuse
<1>3. CASE TryTake
  BY <1>3 DEF TryTake, Gate!Grant
<1>4. CASE Arm \/ RecheckClosed \/ RecheckCredit \/ Wake
  BY <1>4 DEF Arm, RecheckClosed, RecheckCredit, Wake
<1>5. CASE DropSender
  BY <1>5 DEF DropSender, Gate!Drop
<1>6. ASSUME NEW c \in Callers, AddStore(c) PROVE [Gate!Next]_(Gate!vars)
  <2>1. credit' \in (credit + 1)..Window \/ credit' = credit
    BY <1>6 DEF AddStore
  <2>. QED BY <1>6, <2>1 DEF AddStore, Gate!Replenish
<1>7. ASSUME NEW c \in Callers, CloseStore(c) PROVE [Gate!Next]_(Gate!vars)
  BY <1>7 DEF CloseStore, Gate!Close
<1>8. ASSUME NEW c \in Callers, NotifyWaiters(c) PROVE [Gate!Next]_(Gate!vars)
  BY <1>8 DEF NotifyWaiters
<1>9. CASE UNCHANGED vars
  BY <1>9 DEF vars
<1>. QED
  BY <1>1, <1>2, <1>3, <1>4, <1>5, <1>6, <1>7, <1>8, <1>9, ZenonT(60) DEF Next, Sender

\* SendCredit's loop over atomics implements CreditGate's safety part: seen from
\* outside, acquire takes its bytes in one step and never more than there are.  (The
\* fairness part of ImplementsGate is checked by TLC.)
THEOREM AcquireIsAtomic == Spec => Gate!SafeSpec
<1>1. Init => Gate!Init
  BY DEF Init, Gate!Init, RequestOf, InLoop
<1>. QED BY <1>1, StepRefines, CreditTypeCorrect, PTL DEF Spec, Gate!SafeSpec

-----------------------------------------------------------------------------
\* s is a sequence of non-empty spans that tile the positions from lo to hi.  The
\* fourth conjunct follows from the last by induction on the sequence; stating it
\* keeps the proofs free of induction.
Chain(s, lo, hi) ==
    /\ s = <<>> => lo = hi
    /\ s # <<>> => s[1].lo = lo /\ s[Len(s)].hi = hi
    /\ \A i \in 1..Len(s) : s[i].lo < s[i].hi /\ lo <= s[i].lo /\ s[i].hi <= hi
    /\ \A i, j \in 1..Len(s) : i < j => s[i].hi <= s[j].lo
    /\ \A i \in 1..(Len(s) - 1) : s[i].hi = s[i + 1].lo

Tiled ==
    /\ Chain(wire, Received, sent)
    /\ Chain(queue, written, Received)
    /\ Chain(updates, Applied, granted)

\* The pump has at most one chunk in hand, and its credit is acquired all at once.
OneChunk ==
    /\ sent <= acquired /\ acquired <= read
    /\ read - sent <= Chunk
    /\ acquired \in {sent, read}

FlowIInv ==
    /\ FlowTypeOK
    /\ Tiled
    /\ OneChunk
    /\ CreditConserved
    /\ outstanding = Received - written
    /\ verdict = "open"

-----------------------------------------------------------------------------
\* The elements of a sequence of spans have natural bounds.
LEMMA SpanBounds ==
    ASSUME NEW s \in Seq(Spans)
    PROVE  \A i \in 1..Len(s) : s[i] \in Spans /\ s[i].lo \in Nat /\ s[i].hi \in Nat
<1>1. \A i \in 1..Len(s) : s[i] \in Spans
  OBVIOUS
<1>2. \A r \in Spans : r.lo \in Nat /\ r.hi \in Nat
  BY DEF Spans
<1>. QED BY <1>1, <1>2

\* A chain runs upwards.
LEMMA ChainAscends ==
    ASSUME NEW s \in Seq(Spans), NEW lo \in Nat, NEW hi \in Nat, Chain(s, lo, hi)
    PROVE  lo <= hi
<1>1. CASE s = <<>>
  BY <1>1 DEF Chain
<1>2. CASE s # <<>>
  <2>1. 1 \in 1..Len(s) /\ s[1] \in Spans
    BY <1>2
  <2>2. s[1].lo \in Nat /\ s[1].hi \in Nat /\ lo <= s[1].lo /\ s[1].lo < s[1].hi /\ s[1].hi <= hi
    BY <2>1, SpanBounds DEF Chain
  <2>. QED BY <2>2
<1>. QED BY <1>1, <1>2

\* Appending the span that starts where the chain ends extends the chain.
LEMMA ChainAppend ==
    ASSUME NEW s \in Seq(Spans), NEW lo \in Nat, NEW hi \in Nat, NEW new \in Nat,
           Chain(s, lo, hi), hi < new
    PROVE  /\ Append(s, Span(hi, new)) \in Seq(Spans)
           /\ Append(s, Span(hi, new)) # <<>>
           /\ Head(Append(s, Span(hi, new))).lo = lo
           /\ Chain(Append(s, Span(hi, new)), lo, new)
<1> DEFINE t == Append(s, Span(hi, new))
<1>1. Span(hi, new) \in Spans /\ Span(hi, new).lo = hi /\ Span(hi, new).hi = new
  BY DEF Span, Spans
<1>2. /\ t \in Seq(Spans) /\ t # <<>>
      /\ Len(t) = Len(s) + 1
      /\ t[Len(t)] = Span(hi, new)
      /\ \A i \in 1..Len(s) : t[i] = s[i]
  BY <1>1
<1>3. lo <= hi
  BY ChainAscends
<1>4. \A i \in 1..Len(s) : s[i].lo \in Nat /\ s[i].hi \in Nat
  BY SpanBounds
<1>5. t[1].lo = lo
  BY <1>1, <1>2, SMTT(30) DEF Chain
<1>6. \A i \in 1..Len(t) : t[i].lo < t[i].hi /\ lo <= t[i].lo /\ t[i].hi <= new
  BY <1>1, <1>2, <1>3, <1>4, SMTT(30) DEF Chain
<1>7. \A i, j \in 1..Len(t) : i < j => t[i].hi <= t[j].lo
  BY <1>1, <1>2, <1>4 DEF Chain
<1>8. \A i \in 1..(Len(t) - 1) : t[i].hi = t[i + 1].lo
  <2> SUFFICES ASSUME NEW i \in 1..(Len(t) - 1) PROVE t[i].hi = t[i + 1].lo
    OBVIOUS
  <2>1. CASE i = Len(s)
    BY <2>1, <1>1, <1>2, SMTT(30) DEF Chain
  <2>2. CASE i # Len(s)
    BY <2>2, <1>1, <1>2 DEF Chain
  <2>. QED BY <2>1, <2>2
<1>. HIDE DEF t
<1>9. Head(t).lo = lo
  BY <1>2, <1>5, SMTT(30)
<1>10. Chain(t, lo, new)
  BY <1>1, <1>2, <1>5, <1>6, <1>7, <1>8, ZenonT(60) DEF Chain
<1>. QED BY <1>2, <1>9, <1>10 DEF t

\* Taking the head off a chain leaves the chain that starts where the head ended.
LEMMA ChainTail ==
    ASSUME NEW s \in Seq(Spans), NEW lo \in Nat, NEW hi \in Nat,
           Chain(s, lo, hi), s # <<>>
    PROVE  /\ Head(s) \in Spans
           /\ Head(s).lo = lo /\ lo < Head(s).hi /\ Head(s).hi <= hi
           /\ Tail(s) \in Seq(Spans)
           /\ Chain(Tail(s), Head(s).hi, hi)
           /\ Tail(s) = <<>> => Head(s).hi = hi
           /\ Tail(s) # <<>> => Head(Tail(s)).lo = Head(s).hi
<1>1. /\ 1 \in 1..Len(s) /\ Head(s) = s[1] /\ s[1] \in Spans
      /\ Tail(s) \in Seq(Spans) /\ Len(Tail(s)) = Len(s) - 1
      /\ \A i \in 1..Len(Tail(s)) : Tail(s)[i] = s[i + 1] /\ i + 1 \in 1..Len(s)
  OBVIOUS
<1>2. \A i \in 1..Len(s) : s[i].lo \in Nat /\ s[i].hi \in Nat
  BY SpanBounds
<1>3. Head(s).lo = lo /\ lo < Head(s).hi /\ Head(s).hi <= hi
  BY <1>1, <1>2 DEF Chain
<1> DEFINE t == Tail(s)
<1>4. t = <<>> => Head(s).hi = hi
  <2> SUFFICES ASSUME t = <<>> PROVE Head(s).hi = hi
    OBVIOUS
  <2>1. Len(s) = 1
    BY <1>1, SMTT(60)
  <2>. QED BY <2>1, <1>1 DEF Chain
<1>5. t # <<>> => t[1].lo = Head(s).hi /\ t[Len(t)].hi = hi
  <2> SUFFICES ASSUME t # <<>> PROVE t[1].lo = Head(s).hi /\ t[Len(t)].hi = hi
    OBVIOUS
  <2>1. Len(t) \in Nat \ {0}
    BY <1>1
  <2>2. t[1] = s[2] /\ 1 \in 1..(Len(s) - 1)
    BY <2>1, <1>1
  <2>3. t[Len(t)] = s[Len(s)]
    BY <2>1, <1>1, SMTT(30)
  <2>. QED BY <2>2, <2>3, <1>1 DEF Chain
<1>6. \A i \in 1..Len(t) : t[i].lo < t[i].hi /\ Head(s).hi <= t[i].lo /\ t[i].hi <= hi
  BY <1>1 DEF Chain
<1>7. \A i, j \in 1..Len(t) : i < j => t[i].hi <= t[j].lo
  BY <1>1 DEF Chain
<1>8. \A i \in 1..(Len(t) - 1) : t[i].hi = t[i + 1].lo
  <2> SUFFICES ASSUME NEW i \in 1..(Len(t) - 1) PROVE t[i].hi = t[i + 1].lo
    OBVIOUS
  <2>1. t[i] = s[i + 1] /\ t[i + 1] = s[i + 2] /\ i + 1 \in 1..(Len(s) - 1)
    BY <1>1, SMTT(30)
  <2>. QED BY <2>1 DEF Chain
<1>9. Chain(t, Head(s).hi, hi)
  <2> HIDE DEF t
  <2>. QED BY <1>4, <1>5, <1>6, <1>7, <1>8, ZenonT(60) DEF Chain
<1>10. t # <<>> => Head(t).lo = Head(s).hi
  BY <1>1, <1>5
<1>. QED BY <1>1, <1>3, <1>4, <1>9, <1>10, ZenonT(60)

-----------------------------------------------------------------------------
\* What FlowIInv says of the positions, as inequalities.
LEMMA Positions ==
    ASSUME FlowIInv
    PROVE  /\ Received \in Nat /\ Applied \in Nat
           /\ Applied <= granted /\ granted <= written
           /\ written <= Received /\ Received <= sent
<1> USE FlowAssumption, TotalAssumption
<1>1. Received \in Nat
  BY SpanBounds DEF FlowIInv, FlowTypeOK, Received
<1>2. Applied \in Nat
  BY SpanBounds DEF FlowIInv, FlowTypeOK, Applied
<1>3. Received <= sent
  BY <1>1, ChainAscends DEF FlowIInv, FlowTypeOK, Tiled
<1>4. written <= Received
  BY <1>1, ChainAscends DEF FlowIInv, FlowTypeOK, Tiled
<1>5. Applied <= granted
  BY <1>2, ChainAscends DEF FlowIInv, FlowTypeOK, Tiled
<1>6. granted <= written
  BY SMTT(30) DEF FlowIInv, FlowTypeOK, CreditConserved
<1>. QED BY <1>1, <1>2, <1>3, <1>4, <1>5, <1>6, ZenonT(60)

LEMMA FlowInitIInv == FlowInit => FlowIInv
BY FlowAssumption, TotalAssumption
   DEF FlowInit, FlowIInv, FlowTypeOK, Tiled, Chain, OneChunk, CreditConserved, Received, Applied

\* Each step of the pumps and of the read loops keeps the tiling and the accounts.
LEMMA FlowNextIInv == FlowIInv /\ [FlowNext]_flowVars => FlowIInv'
<1> USE FlowAssumption, TotalAssumption
<1> SUFFICES ASSUME FlowIInv, [FlowNext]_flowVars PROVE FlowIInv'
  OBVIOUS
<1>0. /\ FlowTypeOK /\ Tiled /\ OneChunk /\ CreditConserved
      /\ outstanding = Received - written /\ verdict = "open"
  BY DEF FlowIInv
<1>p. /\ Received \in Nat /\ Applied \in Nat
      /\ Applied <= granted /\ granted <= written
      /\ written <= Received /\ Received <= sent
  BY Positions
<1>1. CASE ReadChunk
  <2>1. UNCHANGED <<Received, Applied>>
    BY <1>1 DEF ReadChunk, Received, Applied
  <2>2. FlowTypeOK'
    BY <1>0, <1>1, SMTT(30) DEF ReadChunk, FlowTypeOK
  <2>3. Tiled'
    BY <1>0, <1>1, <2>1, ZenonT(60) DEF ReadChunk, Tiled, Chain
  <2>4. OneChunk' /\ CreditConserved'
    BY <1>0, <1>1, <2>1 DEF ReadChunk, OneChunk, CreditConserved, FlowTypeOK
  <2>. QED BY <1>0, <1>1, <2>1, <2>2, <2>3, <2>4, ZenonT(60) DEF ReadChunk, FlowIInv
<1>2. CASE AcquireChunk
  <2>1. UNCHANGED <<Received, Applied>>
    BY <1>2, ZenonT(60) DEF AcquireChunk, Received, Applied
  <2>2. FlowTypeOK'
    BY <1>0, <1>2, SMTT(30) DEF AcquireChunk, FlowTypeOK
  <2>3. Tiled'
    BY <1>0, <1>2, <2>1, ZenonT(60) DEF AcquireChunk, Tiled, Chain
  <2>4. OneChunk' /\ CreditConserved'
    BY <1>0, <1>p, <1>2, <2>1, SMTT(30) DEF AcquireChunk, OneChunk, CreditConserved, FlowTypeOK
  <2>. QED BY <1>0, <1>2, <2>1, <2>2, <2>3, <2>4, ZenonT(60) DEF AcquireChunk, FlowIInv
<1>3. CASE SendData
  <2>1. /\ wire' \in Seq(Spans) /\ wire' # <<>>
        /\ Head(wire').lo = Received
        /\ Chain(wire', Received, sent')
    BY <1>0, <1>p, <1>3, ChainAppend, SMTT(60) DEF SendData, FlowTypeOK, Tiled
  <2>2. UNCHANGED <<Received, Applied>>
    BY <1>3, <2>1 DEF SendData, Received, Applied
  <2>3. FlowTypeOK'
    BY <1>0, <1>3, <2>1, SMTT(60) DEF SendData, FlowTypeOK
  <2>4. Tiled'
    BY <1>0, <1>3, <2>1, <2>2, ZenonT(60) DEF SendData, Tiled, Chain
  <2>5. OneChunk' /\ CreditConserved'
    BY <1>0, <1>3, <2>2 DEF SendData, OneChunk, CreditConserved, FlowTypeOK
  <2>. QED BY <1>0, <1>3, <2>2, <2>3, <2>4, <2>5, ZenonT(60) DEF SendData, FlowIInv
<1>4. CASE ReceiveData
  <2> DEFINE payload == Head(wire)
  <2>1. /\ payload \in Spans
        /\ payload.lo = Received /\ Received < payload.hi /\ payload.hi <= sent
        /\ Tail(wire) \in Seq(Spans)
        /\ Chain(Tail(wire), payload.hi, sent)
        /\ Tail(wire) = <<>> => payload.hi = sent
        /\ Tail(wire) # <<>> => Head(Tail(wire)).lo = payload.hi
    <3>1. /\ wire \in Seq(Spans) /\ sent \in Nat /\ wire # <<>>
          /\ Chain(wire, Received, sent)
      BY <1>0, <1>4, SMTT(30) DEF ReceiveData, FlowTypeOK, Tiled
    <3>. QED BY <3>1, <1>p, ChainTail, SMTT(60)
  <2>2. payload.hi \in Nat /\ payload = Span(Received, payload.hi)
    BY <2>1, ZenonT(60) DEF Spans, Span
  <2>3. Received' = payload.hi /\ Applied' = Applied
    BY <1>4, <2>1, ZenonT(60) DEF ReceiveData, Received, Applied
  <2>4. outstanding + Length(payload) = payload.hi - written
    BY <1>0, <1>p, <2>1, <2>2, SMTT(30) DEF Length, FlowTypeOK
  <2>5. payload.hi - written <= RecvWindow
    BY <1>0, <1>p, <2>1, <2>2, SMTT(30) DEF FlowTypeOK, OneChunk, CreditConserved
  <2>6. /\ outstanding' = payload.hi - written
        /\ verdict' = "open"
        /\ queue' = Append(queue, payload)
    BY <1>0, <1>4, <2>4, <2>5, SMTT(30) DEF ReceiveData
  <2>7. queue' \in Seq(Spans) /\ Chain(queue', written, payload.hi)
    BY <1>0, <1>p, <2>1, <2>2, <2>6, ChainAppend, SMTT(60) DEF FlowTypeOK, Tiled
  <2>8. FlowTypeOK'
    <3>1. outstanding' \in Nat /\ wire' \in Seq(Spans)
      <4>1. wire' = Tail(wire) /\ written \in Nat
        BY <1>0, <1>4 DEF ReceiveData, FlowTypeOK
      <4> HIDE DEF payload
      <4>. QED BY <4>1, <1>p, <2>1, <2>2, <2>6, SMTT(60)
    <3>. QED BY <3>1, <1>0, <1>4, <2>6, <2>7, ZenonT(60) DEF ReceiveData, FlowTypeOK
  <2>9. Tiled'
    BY <1>0, <1>4, <2>1, <2>3, <2>7, ZenonT(60) DEF ReceiveData, Tiled, Chain
  <2>10. OneChunk' /\ CreditConserved'
    BY <1>0, <1>4, <2>3, ZenonT(60) DEF ReceiveData, OneChunk, CreditConserved
  <2>. QED BY <1>4, <2>3, <2>6, <2>8, <2>9, <2>10, ZenonT(60) DEF ReceiveData, FlowIInv
<1>5. CASE Drain
  <2> DEFINE data == Head(queue)
  <2>1. /\ data \in Spans
        /\ data.lo = written /\ written < data.hi /\ data.hi <= Received
        /\ Tail(queue) \in Seq(Spans)
        /\ Chain(Tail(queue), data.hi, Received)
    BY <1>0, <1>p, <1>5, ChainTail DEF Drain, FlowTypeOK, Tiled
  <2>2. data.hi \in Nat /\ Length(data) = data.hi - written
    BY <2>1 DEF Spans, Length
  <2>3. UNCHANGED <<Received, Applied>>
    BY <1>5 DEF Drain, Received, Applied
  <2>4. written' = data.hi /\ outstanding' = Received - data.hi
    BY <1>0, <1>p, <1>5, <2>2, SMTT(30) DEF Drain, FlowTypeOK
  <2>a. /\ drained + Length(data) >= Threshold
              => drained' = 0 /\ grant' = drained + Length(data)
        /\ ~(drained + Length(data) >= Threshold)
              => drained' = drained + Length(data) /\ grant' = 0
        /\ granted' = granted /\ grant = 0
    BY <1>5 DEF Drain
  <2>b. /\ drained \in 0..(Threshold - 1) /\ granted \in Nat /\ written \in Nat
        /\ granted + grant + drained = written
    BY <1>0 DEF FlowTypeOK, CreditConserved
  <2> HIDE DEF data
  <2>5. granted' + grant' + drained' = written'
    BY <2>a, <2>b, <2>2, <2>4, SMTT(30)
  <2>6. FlowTypeOK'
    <3>1. drained' \in 0..(Threshold - 1) /\ grant' \in Nat
      BY <2>a, <2>b, <2>1, <2>2, SMTT(60)
    <3>2. written' \in 0..Total /\ outstanding' \in Nat
      BY <1>0, <1>p, <2>1, <2>2, <2>4, SMTT(60) DEF FlowTypeOK
    <3>3. queue' \in Seq(Spans)
      BY <1>5, <2>1, ZenonT(60) DEF Drain
    <3>. QED BY <3>1, <3>2, <3>3, <1>0, <1>5, ZenonT(60) DEF Drain, FlowTypeOK
  <2>7. Tiled'
    <3>1. queue' = Tail(queue) /\ UNCHANGED <<wire, sent, updates, granted>>
      BY <1>5, ZenonT(60) DEF Drain
    <3>. QED BY <3>1, <1>0, <2>1, <2>3, <2>4, ZenonT(60) DEF Tiled, Chain
  <2>8. OneChunk' /\ CreditConserved'
    BY <1>0, <1>5, <2>3, <2>5, ZenonT(60) DEF Drain, OneChunk, CreditConserved
  <2>. QED BY <1>0, <1>5, <2>3, <2>4, <2>6, <2>7, <2>8, ZenonT(60) DEF Drain, FlowIInv
<1>6. CASE SendUpdate
  <2>1. /\ updates' \in Seq(Spans) /\ updates' # <<>>
        /\ Head(updates').lo = Applied
        /\ Chain(updates', Applied, granted')
    BY <1>0, <1>p, <1>6, ChainAppend, SMTT(60) DEF SendUpdate, FlowTypeOK, Tiled
  <2>2. UNCHANGED <<Received, Applied>>
    BY <1>6, <2>1, ZenonT(60) DEF SendUpdate, Received, Applied
  <2>3. FlowTypeOK'
    BY <1>0, <1>6, <2>1, SMTT(60) DEF SendUpdate, FlowTypeOK
  <2>4. Tiled'
    BY <1>0, <1>6, <2>1, <2>2, ZenonT(60) DEF SendUpdate, Tiled, Chain
  <2>5. OneChunk' /\ CreditConserved'
    BY <1>0, <1>6, <2>2, SMTT(30) DEF SendUpdate, OneChunk, CreditConserved, FlowTypeOK
  <2>. QED BY <1>0, <1>6, <2>2, <2>3, <2>4, <2>5, ZenonT(60) DEF SendUpdate, FlowIInv
<1>7. CASE ReceiveUpdate
  <2> DEFINE update == Head(updates)
  <2>1. /\ update \in Spans
        /\ update.lo = Applied /\ Applied < update.hi /\ update.hi <= granted
        /\ Tail(updates) \in Seq(Spans)
        /\ Chain(Tail(updates), update.hi, granted)
        /\ Tail(updates) = <<>> => update.hi = granted
        /\ Tail(updates) # <<>> => Head(Tail(updates)).lo = update.hi
    BY <1>0, <1>p, <1>7, ChainTail, ZenonT(60) DEF ReceiveUpdate, FlowTypeOK, Tiled
  <2>2. update.hi \in Nat /\ Length(update) = update.hi - Applied
    BY <2>1, ZenonT(60) DEF Spans, Length
  <2>3. Applied' = update.hi /\ Received' = Received
    BY <1>7, <2>1 DEF ReceiveUpdate, Received, Applied
  <2>a. send_credit' = IF send_credit + Length(update) > RecvWindow THEN RecvWindow
                       ELSE send_credit + Length(update)
    BY <1>7 DEF ReceiveUpdate
  <2>b. /\ send_credit \in 0..RecvWindow /\ acquired \in Nat /\ sent \in Nat /\ granted \in Nat
        /\ written \in Nat
        /\ send_credit + (acquired - Applied) = RecvWindow
    BY <1>0, SMTT(30) DEF FlowTypeOK, CreditConserved
  <2>5. update.hi <= acquired
    BY <1>0, <1>p, <2>1, <2>2, <2>b, SMTT(30) DEF OneChunk, FlowTypeOK
  <2> HIDE DEF update
  <2>4. send_credit + Length(update) = RecvWindow - (acquired - update.hi)
    BY <1>p, <2>2, <2>b, SMTT(30)
  <2>6. send_credit' = RecvWindow - (acquired - update.hi) /\ send_credit' \in 0..RecvWindow
    <3>1. send_credit + Length(update) <= RecvWindow /\ send_credit + Length(update) >= 0
      BY <2>1, <2>2, <2>4, <2>5, <2>b, <1>p, SMTT(60)
    <3>2. send_credit' = send_credit + Length(update)
      BY <3>1, <2>a, <2>2, <2>b, <1>p
    <3>. QED BY <3>1, <3>2, <2>2, <2>4, <2>b, <1>p, SMTT(30)
  <2>7. FlowTypeOK'
    BY <1>0, <1>7, <2>1, <2>6, SMTT(60) DEF ReceiveUpdate, FlowTypeOK
  <2>8. Tiled'
    BY <1>0, <1>7, <2>1, <2>3, ZenonT(60) DEF ReceiveUpdate, Tiled, Chain
  <2>9. OneChunk' /\ CreditConserved'
    BY <1>0, <1>7, <2>2, <2>3, <2>6, SMTT(60) DEF ReceiveUpdate, OneChunk, CreditConserved, FlowTypeOK
  <2>. QED BY <1>0, <1>7, <2>3, <2>7, <2>8, <2>9, ZenonT(60) DEF ReceiveUpdate, FlowIInv
<1>8. CASE UNCHANGED flowVars
  BY <1>0, <1>8, ZenonT(60) DEF flowVars, FlowIInv, FlowTypeOK, Tiled, Chain, OneChunk, CreditConserved,
                    Received, Applied
<1>. QED
  BY <1>1, <1>2, <1>3, <1>4, <1>5, <1>6, <1>7, <1>8, ZenonT(60)
     DEF FlowNext, Pump, DrainLoop, Finished

-----------------------------------------------------------------------------
\* The strengthened invariant holds throughout.
LEMMA FlowInvariance == FlowSpec => []FlowIInv
<1>. QED BY FlowInitIInv, FlowNextIInv, PTL DEF FlowSpec

\* The pumps and read loops of one stream direction keep their counters in range: in
\* particular credit never leaves 0..Window, whatever the order of grants and sends.
THEOREM FlowTypeCorrect == FlowSpec => []FlowTypeOK
<1>1. FlowIInv => FlowTypeOK
  BY DEF FlowIInv
<1>. QED BY <1>1, FlowInvariance, PTL

\* SendCredit's counter, the bytes under way and the drain loop's counters always add
\* up to the window, so no grant is lost to the cap in SendCredit::add.
THEOREM CreditIsConserved == FlowSpec => []CreditConserved
<1>1. FlowIInv => CreditConserved
  BY DEF FlowIInv
<1>. QED BY <1>1, FlowInvariance, PTL

\* The receive queue never exceeds one window, so handle_message(Data) never resets a
\* peer whose pump acquires credit before it sends.
THEOREM HonestPeerNeverReset == FlowSpec => []NeverOverrun
<1>1. FlowIInv => NeverOverrun
  <2> SUFFICES ASSUME FlowIInv PROVE NeverOverrun
    OBVIOUS
  <2>1. /\ outstanding = Received - written /\ verdict = "open"
        /\ sent \in Nat /\ acquired \in Nat /\ granted \in Nat /\ written \in Nat
        /\ send_credit \in 0..RecvWindow
        /\ sent <= acquired
        /\ send_credit + (acquired - Applied) = RecvWindow
    BY TotalAssumption, SMTT(30) DEF FlowIInv, FlowTypeOK, OneChunk, CreditConserved
  <2>. QED BY <2>1, Positions, FlowAssumption DEF NeverOverrun
<1>. QED BY <1>1, FlowInvariance, PTL

\* A pump that waits in acquire while nothing is left to bring credit has enough of it:
\* the two window constants cannot stall a stream (Threshold + Chunk <= Window + 1).
THEOREM PumpNeverStarves == FlowSpec => []NoStarvation
<1>1. FlowIInv => NoStarvation
  <2> SUFFICES ASSUME FlowIInv, acquired < read, wire = <<>>, queue = <<>>,
                      updates = <<>>, grant = 0
               PROVE  send_credit >= read - acquired
    BY ZenonT(60) DEF NoStarvation
  <2>1. Received = sent /\ Applied = granted /\ written = Received
    BY DEF FlowIInv, Tiled, Chain, Received, Applied
  <2>2. /\ sent \in Nat /\ acquired \in Nat /\ read \in Nat /\ granted \in Nat
        /\ send_credit \in 0..RecvWindow /\ drained \in 0..(Threshold - 1)
    BY TotalAssumption DEF FlowIInv, FlowTypeOK
  <2>3. acquired = sent /\ read - sent <= Chunk
    BY <2>2 DEF FlowIInv, OneChunk
  <2>4. send_credit + (acquired - granted) = RecvWindow /\ granted + drained = written
    BY <2>1, <2>2 DEF FlowIInv, CreditConserved
  <2>5. send_credit = RecvWindow - drained
    <3>1. send_credit + (sent - granted) = RecvWindow /\ granted + drained = sent
      BY <2>1, <2>3, <2>4, ZenonT(60)
    <3> QED BY <2>2, <3>1, FlowAssumption, SMTT(30)
  <2>6. RecvWindow - drained >= Chunk
    BY <2>2, FlowAssumption, SMTT(30)
  <2>. QED BY <2>2, <2>3, <2>5, <2>6, FlowAssumption, SMTT(30)
<1>. QED BY <1>1, FlowInvariance, PTL

\* The drain loop writes the payloads in stream order, each exactly once.
THEOREM DeliveredInOrder == FlowSpec => InOrderDelivery
<1>1. FlowIInv /\ [FlowNext]_flowVars => [written' # written => Head(queue).lo = written]_flowVars
  <2> SUFFICES ASSUME FlowIInv, FlowNext, written' # written PROVE Head(queue).lo = written
    BY ZenonT(60)
  <2>1. Drain
    BY DEF FlowNext, Pump, DrainLoop, ReadChunk, AcquireChunk, SendData, ReceiveData, SendUpdate,
           ReceiveUpdate, Finished, flowVars
  <2>2. queue # <<>> /\ queue \in Seq(Spans) /\ Chain(queue, written, Received)
    BY <2>1 DEF Drain, FlowIInv, FlowTypeOK, Tiled
  <2>3. Head(queue) = queue[1]
    BY <2>2
  <2>. QED BY <2>2, <2>3 DEF Chain
<1>. QED BY <1>1, FlowInvariance, PTL DEF FlowSpec, InOrderDelivery

-----------------------------------------------------------------------------

-----------------------------------------------------------------------------
\* The two bytes of a u16, and the u16 of two bytes.
LEMMA U16Bytes ==
    ASSUME NEW n \in U16
    PROVE  /\ n \div 256 \in Byte /\ n % 256 \in Byte
           /\ n = (n \div 256) * 256 + (n % 256)
  BY SMTT(30) DEF U16, Byte

LEMMA U16Value ==
    ASSUME NEW a \in Byte, NEW b \in Byte
    PROVE  a * 256 + b \in U16 /\ be_u16(a * 256 + b) = <<a, b>>
<1>1. /\ a * 256 + b \in U16
      /\ (a * 256 + b) \div 256 = a /\ (a * 256 + b) % 256 = b
  BY SMTT(30) DEF U16, Byte
<1> QED BY <1>1, SMT DEF be_u16

\* put_u16 writes two bytes that hold the number.
LEMMA BeU16 ==
    ASSUME NEW n \in U16
    PROVE  /\ be_u16(n) \in Seq(Byte) /\ Len(be_u16(n)) = 2
           /\ n = be_u16(n)[1] * 256 + be_u16(n)[2]
  BY U16Bytes, SMT DEF be_u16

\* The value of four bytes.
Value32(a, b, c, d) == ((a * 256 + b) * 256 + c) * 256 + d

\* put_u32 writes four bytes that hold the number.
LEMMA BeU32 ==
    ASSUME NEW n \in U32
    PROVE  /\ be_u32(n) \in Seq(Byte) /\ Len(be_u32(n)) = 4
           /\ Value32(be_u32(n)[1], be_u32(n)[2], be_u32(n)[3], be_u32(n)[4]) = n
<1>1. /\ n \div 16777216 \in Byte /\ (n \div 65536) % 256 \in Byte
      /\ (n \div 256) % 256 \in Byte /\ n % 256 \in Byte
  BY SMTT(30) DEF U32, Byte
<1>2. (((n \div 16777216) * 256 + ((n \div 65536) % 256)) * 256 + ((n \div 256) % 256)) * 256 + (n % 256) = n
  BY SMTT(30) DEF U32
<1> QED BY <1>1, <1>2, SMT DEF be_u32, Value32

\* Facts about sequences of bytes that the leaves below need one at a time.
LEMMA Element ==
    ASSUME NEW s \in Seq(Byte), NEW i \in 1..Len(s)
    PROVE  s[i] \in Byte
  BY SMT

LEMMA NoBytes ==
    <<>> \in Seq(Byte) /\ Len(<<>>) = 0 /\ \A s \in Seq(Byte) : s # <<>> => Len(s) \in Nat \ {0}
  BY SMT

LEMMA NothingAdded ==
    ASSUME NEW s \in Seq(Byte)
    PROVE  s \o <<>> = s /\ <<>> \o s = s
  BY SMT

\* Any four bytes are the encoding of some u32.
LEMMA U32Of ==
    ASSUME NEW p \in Seq(Byte), Len(p) = 4
    PROVE  \E n \in U32 : be_u32(n) = p
<1>0. PICK a \in Byte, b \in Byte, c \in Byte, d \in Byte : p = <<a, b, c, d>>
  <2>1. 1 \in 1..Len(p) /\ 2 \in 1..Len(p) /\ 3 \in 1..Len(p) /\ 4 \in 1..Len(p)
    BY SMT
  <2>2. p[1] \in Byte /\ p[2] \in Byte /\ p[3] \in Byte /\ p[4] \in Byte
    BY <2>1, Element, ZenonT(60)
  <2>3. p = <<p[1], p[2], p[3], p[4]>>
    BY <2>2, SMT
  <2> QED BY <2>2, <2>3
<1>1. PICK n \in Nat : n = ((a * 256 + b) * 256 + c) * 256 + d
  BY SMT DEF Byte
<1>a. n \div 16777216 = a
  BY <1>1, SMTT(30) DEF Byte
<1>b. n \div 65536 = a * 256 + b /\ (a * 256 + b) % 256 = b
  BY <1>1, SMTT(30) DEF Byte
<1>c. n \div 256 = (a * 256 + b) * 256 + c /\ ((a * 256 + b) * 256 + c) % 256 = c
  BY <1>1, SMTT(30) DEF Byte
<1>d. n % 256 = d
  BY <1>1, SMTT(30) DEF Byte
<1>2. n \div 16777216 = a /\ (n \div 65536) % 256 = b /\ (n \div 256) % 256 = c /\ n % 256 = d
  BY <1>a, <1>b, <1>c, <1>d, SMT
<1>3. n \in U32
  BY <1>2, SMT DEF U32, Byte
<1> QED BY <1>0, <1>2, <1>3, SMT DEF be_u32

\* A concatenation can be cut where it was joined.
LEMMA Cut ==
    ASSUME NEW p \in Seq(Byte), NEW q \in Seq(Byte)
    PROVE  /\ p \o q \in Seq(Byte) /\ Len(p \o q) = Len(p) + Len(q)
           /\ SubSeq(p \o q, 1, Len(p)) = p
           /\ SubSeq(p \o q, Len(p) + 1, Len(p \o q)) = q
           /\ \A i \in 1..Len(p) : (p \o q)[i] = p[i]
<1>1. p \o q \in Seq(Byte) /\ Len(p \o q) = Len(p) + Len(q)
  BY SMT
<1>2. \A i \in 1..Len(p) : (p \o q)[i] = p[i]
  BY SMT
<1>3. SubSeq(p \o q, 1, Len(p)) = p
  BY SMT
<1>4. SubSeq(p \o q, Len(p) + 1, Len(p \o q)) = q
  BY SMT
<1> QED BY <1>1, <1>2, <1>3, <1>4

LEMMA Regroup ==
    ASSUME NEW a \in Seq(Byte), NEW b \in Seq(Byte), NEW c \in Seq(Byte)
    PROVE  (a \o b) \o c = a \o (b \o c)
  BY SMT

\* A byte that arrives moves from what is due to what is here.
LEMMA MoveOne ==
    ASSUME NEW h \in Seq(Byte), NEW d \in Seq(Byte), d # <<>>
    PROVE  /\ Append(h, Head(d)) \in Seq(Byte) /\ Tail(d) \in Seq(Byte)
           /\ Append(h, Head(d)) \o Tail(d) = h \o d
<1>1. PICK e \in Byte, t \in Seq(Byte) : e = Head(d) /\ t = Tail(d) /\ d = <<e>> \o t
  <2>1. Head(d) = d[1] /\ d[1] \in Byte /\ Tail(d) \in Seq(Byte) /\ d = <<d[1]>> \o Tail(d)
    BY SMT
  <2> QED BY <2>1, ZenonT(60)
<1>2. <<e>> \in Seq(Byte) /\ Append(h, e) = h \o <<e>> /\ Append(h, e) \in Seq(Byte)
  BY SMT
<1>3. (h \o <<e>>) \o t = h \o (<<e>> \o t)
  BY <1>2, Regroup, ZenonT(60)
<1> QED BY <1>1, <1>2, <1>3, ZenonT(60)

LEMMA SameBytes ==
    ASSUME NEW s \in Seq(Byte), NEW t \in Seq(Byte), Len(s) = Len(t), \A i \in 1..Len(s) : t[i] = s[i]
    PROVE  s = t
  BY SMT

\* A sequence is made of its first k elements and the others.
LEMMA Pieces ==
    ASSUME NEW b \in Seq(Byte), NEW k \in 0..Len(b), NEW s \in Seq(Byte), NEW t \in Seq(Byte),
           Len(s) = k, Len(t) = Len(b) - k,
           \A i \in 1..k : s[i] = b[i], \A i \in 1..(Len(b) - k) : t[i] = b[k + i]
    PROVE  b = s \o t
<1>1. s \o t \in Seq(Byte) /\ Len(b) = Len(s \o t)
  BY SMT
<1>2. \A i \in 1..Len(b) : (s \o t)[i] = b[i]
  BY SMTT(30)
<1> QED BY <1>1, <1>2, SameBytes, ZenonT(60)

LEMMA Joined ==
    ASSUME NEW b \in Seq(Byte), NEW k \in 0..Len(b)
    PROVE  /\ SubSeq(b, 1, k) \in Seq(Byte) /\ Len(SubSeq(b, 1, k)) = k
           /\ SubSeq(b, k + 1, Len(b)) \in Seq(Byte) /\ Len(SubSeq(b, k + 1, Len(b))) = Len(b) - k
           /\ b = SubSeq(b, 1, k) \o SubSeq(b, k + 1, Len(b))
<1>1. SubSeq(b, 1, k) \in Seq(Byte) /\ Len(SubSeq(b, 1, k)) = k
  BY SMT
<1>2. SubSeq(b, k + 1, Len(b)) \in Seq(Byte) /\ Len(SubSeq(b, k + 1, Len(b))) = Len(b) - k
  BY SMT
<1>3. \A i \in 1..k : SubSeq(b, 1, k)[i] = b[i]
  BY SMT
<1>4. \A i \in 1..(Len(b) - k) : SubSeq(b, k + 1, Len(b))[i] = b[k + i]
  BY SMT
<1>5. b = SubSeq(b, 1, k) \o SubSeq(b, k + 1, Len(b))
  BY <1>1, <1>2, <1>3, <1>4, Pieces, ZenonT(60)
<1> QED BY <1>1, <1>2, <1>5, ZenonT(60)

\* A field that was read, and the bytes behind it.
Got(value, text, rest) == [value |-> value, text |-> text, rest |-> rest]

\* get_u32 reads back what put_u32 wrote, and leaves what stands behind it.
LEMMA GetU32 ==
    ASSUME NEW n \in U32, NEW r \in Seq(Byte)
    PROVE  get_u32(be_u32(n) \o r) = Got(n, <<>>, r)
<1>1. PICK p \in Seq(Byte) : p = be_u32(n) /\ Len(p) = 4 /\ Value32(p[1], p[2], p[3], p[4]) = n
  BY BeU32
<1>2. PICK b \in Seq(Byte) : b = p \o r
  BY Cut, ZenonT(60)
<1>3. /\ Len(b) = Len(p) + Len(r) /\ SubSeq(b, Len(p) + 1, Len(b)) = r
      /\ \A i \in 1..Len(p) : b[i] = p[i]
  BY <1>2, Cut, ZenonT(60)
<1>4. ~(Len(b) < 4) /\ SubSeq(b, 5, Len(b)) = r
  BY <1>1, <1>3, SMT
<1>5. b[1] = p[1] /\ b[2] = p[2] /\ b[3] = p[3] /\ b[4] = p[4]
  BY <1>1, <1>3, SMT
<1>6. get_u32(b) = Got(Value32(b[1], b[2], b[3], b[4]), <<>>, r)
  BY <1>4, ZenonT(60) DEF get_u32, Value32, Got
<1> QED BY <1>1, <1>2, <1>5, <1>6, ZenonT(60)

\* What get_u32 returns was written by put_u32.
LEMMA GotU32 ==
    ASSUME NEW b \in Seq(Byte), Len(b) >= 4
    PROVE  \E n \in U32, r \in Seq(Byte) :
              b = be_u32(n) \o r /\ get_u32(b) = Got(n, <<>>, r) /\ Len(r) = Len(b) - 4
<1>1. PICK p \in Seq(Byte), r \in Seq(Byte) : b = p \o r /\ Len(p) = 4 /\ Len(r) = Len(b) - 4
  <2>1. 4 \in 0..Len(b)
    BY SMT
  <2> QED BY <2>1, Joined, ZenonT(60)
<1>3. PICK n \in U32 : be_u32(n) = p
  BY <1>1, U32Of
<1> QED BY <1>1, <1>3, GetU32, ZenonT(60)

\* A number below one that fits a field fits it too.
LEMMA U16Below ==
    ASSUME NEW k \in Nat, NEW m \in U16, k <= m
    PROVE  k \in U16
  BY SMTT(30) DEF U16

LEMMA U32Below ==
    ASSUME NEW k \in Nat, NEW m \in U32, k <= m
    PROVE  k \in U32
  BY SMTT(30) DEF U32

\* Taking as many bytes as there are leaves none.
LEMMA TakeAll ==
    ASSUME NEW s \in Seq(Byte)
    PROVE  Take(s, Len(s)) = Got(Len(s), s, <<>>)
<1>1. SubSeq(s, 1, Len(s)) = s /\ SubSeq(s, Len(s) + 1, Len(s)) = <<>>
  BY SMT
<1> QED BY <1>1 DEF Take, Got

\* get_str reads back a string within its limits that put_str wrote.
LEMMA GetStr ==
    ASSUME NEW s \in Seq(Byte), IsUtf8(s), NEW min \in Nat, NEW max \in U16, Len(s) \in min..max
    PROVE  get_str(be_u16(Len(s)) \o s, min, max) = Got(Len(s), s, <<>>)
<1>1. Len(s) \in U16
  <2>1. Len(s) \in Nat /\ Len(s) <= max /\ max \in Nat
    BY SMT DEF U16
  <2> QED BY <2>1, U16Below
<1>2. PICK p \in Seq(Byte) : p = be_u16(Len(s)) /\ Len(p) = 2 /\ Len(s) = p[1] * 256 + p[2]
  BY <1>1, BeU16
<1>3. PICK b \in Seq(Byte) : b = p \o s
  BY Cut, ZenonT(60)
<1>4. /\ Len(b) = Len(p) + Len(s) /\ SubSeq(b, Len(p) + 1, Len(b)) = s
      /\ \A i \in 1..Len(p) : b[i] = p[i]
  BY <1>3, Cut, ZenonT(60)
<1>5. ~(Len(b) < 2) /\ SubSeq(b, 3, Len(b)) = s /\ ~(Len(b) - 2 < Len(s))
  <2>1. ~(Len(b) < 2) /\ ~(Len(b) - 2 < Len(s)) /\ Len(p) + 1 = 3
    BY <1>2, <1>4, SMT
  <2> QED BY <1>4, <2>1, ZenonT(60)
<1>6. b[1] * 256 + b[2] = Len(s)
  BY <1>2, <1>4, SMTT(30)
<1>7. Take(s, Len(s)) = Got(Len(s), s, <<>>) /\ Got(Len(s), s, <<>>).text = s
  BY TakeAll DEF Got
<1>8. get_str(b, min, max) = Got(Len(s), s, <<>>)
  BY <1>5, <1>6, <1>7, ZenonT(60) DEF get_str
<1> QED BY <1>2, <1>3, <1>8, ZenonT(60)

\* A string that get_str ends the body with was written by put_str.
LEMMA GotStr ==
    ASSUME NEW b \in Seq(Byte), NEW min \in Nat, NEW max \in Nat,
           get_str(b, min, max) # Short, get_str(b, min, max).rest = <<>>
    PROVE  \E s \in Seq(Byte) : /\ b = be_u16(Len(s)) \o s /\ IsUtf8(s) /\ Len(s) \in min..max
                                /\ get_str(b, min, max) = Got(Len(s), s, <<>>)
<1>1. ~(Len(b) < 2)
  BY DEF get_str
<1>2. PICK p \in Seq(Byte), r \in Seq(Byte) :
         /\ b = p \o r /\ Len(p) = 2 /\ Len(r) = Len(b) - 2 /\ r = SubSeq(b, 3, Len(b))
  <2>1. 2 \in 0..Len(b) /\ 2 + 1 = 3
    BY <1>1, SMT
  <2> QED BY <2>1, Joined, ZenonT(60)
<1>3. p[1] \in Byte /\ p[2] \in Byte /\ p = <<p[1], p[2]>> /\ b[1] = p[1] /\ b[2] = p[2]
  BY <1>2, SMT
<1>4. PICK len \in U16 : len = b[1] * 256 + b[2] /\ be_u16(len) = p
  <2>1. p[1] \in Byte /\ p[2] \in Byte
    BY <1>3
  <2>2. p[1] * 256 + p[2] \in U16 /\ be_u16(p[1] * 256 + p[2]) = <<p[1], p[2]>>
    BY <2>1, U16Value, ZenonT(60)
  <2> QED BY <1>3, <2>2
<1>5. /\ get_str(b, min, max) = Take(r, len)
      /\ len \in min..max /\ ~(Len(b) - 2 < len) /\ IsUtf8(Take(r, len).text)
  <2>1. r = SubSeq(b, 3, Len(b)) /\ len = b[1] * 256 + b[2]
    BY <1>2, <1>4, ZenonT(60)
  <2>2. get_str(b, min, max) = IF len \notin min..max \/ Len(b) - 2 < len \/ ~IsUtf8(Take(r, len).text)
                               THEN Short ELSE Take(r, len)
    BY <1>1, <2>1, ZenonT(60) DEF get_str
  <2> QED BY <2>2, ZenonT(60)
<1>6. Take(r, len).rest = SubSeq(r, len + 1, Len(r)) /\ Take(r, len).text = SubSeq(r, 1, len)
  BY ZenonT(60) DEF Take
<1>7. len = Len(r)
  <2>1. len \in Nat /\ len <= Len(r)
    BY <1>2, <1>5, SMT DEF U16
  <2>2. SubSeq(r, len + 1, Len(r)) = <<>>
    BY <1>5, <1>6
  <2>3. Len(SubSeq(r, len + 1, Len(r))) = Len(r) - len
    <3>1. len \in 0..Len(r)
      BY <2>1, SMT
    <3> QED BY <3>1, Joined, ZenonT(60)
  <2>4. Len(r) - len = 0
    BY <2>2, <2>3, NoBytes, ZenonT(60)
  <2> QED BY <2>1, <2>4, SMT
<1>8. Take(r, len) = Got(Len(r), r, <<>>)
  BY <1>7, TakeAll, ZenonT(60)
<1>9. IsUtf8(r)
  BY <1>5, <1>8 DEF Got
<1> QED BY <1>2, <1>4, <1>5, <1>7, <1>8, <1>9, ZenonT(60)

\* A field that was read is not the error for too few bytes.
LEMMA NotShort ==
    ASSUME NEW n \in Nat, NEW text, NEW rest
    PROVE  Got(n, text, rest) # Short
<1>1. n # -1
  BY SMT
<1>2. Got(n, text, rest).value = n /\ Short.value = -1
  BY DEF Got, Short
<1> QED BY <1>1, <1>2

LEMMA GotParts ==
    ASSUME NEW value, NEW text, NEW rest
    PROVE  /\ Got(value, text, rest).value = value /\ Got(value, text, rest).text = text
           /\ Got(value, text, rest).rest = rest
  BY DEF Got

LEMMA DataLimit == MAX_DATA_PAYLOAD_LEN \in U32 /\ MAX_DATA_PAYLOAD_LEN \in Nat
  BY LimitsAssumption DEF U32

\* The same two facts for the payload of Data.
LEMMA GetData ==
    ASSUME NEW s \in Seq(Byte), Len(s) <= MAX_DATA_PAYLOAD_LEN
    PROVE  get_data(be_u32(Len(s)) \o s) = Got(Len(s), s, <<>>)
<1>1. Len(s) \in Nat /\ ~(Len(s) > MAX_DATA_PAYLOAD_LEN) /\ ~(Len(s) < Len(s))
  BY DataLimit, SMT
<1>2. Len(s) \in U32
  BY <1>1, DataLimit, U32Below
<1>3. get_u32(be_u32(Len(s)) \o s) = Got(Len(s), <<>>, s)
  BY <1>2, GetU32
<1>4. Got(Len(s), <<>>, s) # Short
  BY <1>1, NotShort
<1>5. PICK b : b = be_u32(Len(s)) \o s
  BY ZenonT(60)
<1>6. get_u32(b) # Short /\ get_u32(b).value = Len(s) /\ get_u32(b).rest = s
  BY <1>3, <1>4, <1>5, GotParts
<1>7. get_data(b) = Take(s, Len(s))
  BY <1>1, <1>6, ZenonT(60) DEF get_data
<1> QED BY <1>5, <1>7, TakeAll

LEMMA GotData ==
    ASSUME NEW b \in Seq(Byte), get_data(b) # Short, get_data(b).rest = <<>>
    PROVE  \E s \in Seq(Byte) : /\ b = be_u32(Len(s)) \o s /\ Len(s) <= MAX_DATA_PAYLOAD_LEN
                                /\ get_data(b) = Got(Len(s), s, <<>>)
<1>1. Len(b) >= 4
  <2>1. ~(Len(b) < 4)
    BY ZenonT(60) DEF get_data, get_u32
  <2> QED BY <2>1, SMT
<1>2. PICK n \in U32, r \in Seq(Byte) : b = be_u32(n) \o r /\ get_u32(b) = Got(n, <<>>, r)
  BY <1>1, GotU32
<1>3. get_data(b) = Take(r, n) /\ ~(n > MAX_DATA_PAYLOAD_LEN) /\ ~(Len(r) < n)
  <2>1. get_u32(b).value = n /\ get_u32(b).rest = r
    BY <1>2 DEF Got
  <2> QED BY <2>1, ZenonT(60) DEF get_data
<1>4. n \in 0..Len(r) /\ n <= MAX_DATA_PAYLOAD_LEN
  BY <1>3, DataLimit, SMT DEF U32
<1>5. n = Len(r)
  <2>1. Take(r, n).rest = SubSeq(r, n + 1, Len(r))
    BY ZenonT(60) DEF Take
  <2>2. SubSeq(r, n + 1, Len(r)) = <<>>
    BY <1>3, <2>1, ZenonT(60)
  <2>3. Len(SubSeq(r, n + 1, Len(r))) = Len(r) - n
    BY <1>4, Joined, ZenonT(60)
  <2>4. Len(r) - n = 0
    BY <2>2, <2>3, NoBytes, ZenonT(60)
  <2> QED BY <1>4, <2>4, SMT
<1>6. Take(r, n) = Got(Len(r), r, <<>>)
  BY <1>5, TakeAll
<1> QED BY <1>2, <1>3, <1>4, <1>5, <1>6, ZenonT(60)

\* A set of numbers that is not empty has a least element, and a largest when bounded.
LEMMA LeastNumber ==
    ASSUME NEW T, T \subseteq Nat, T # {}
    PROVE  \E x \in T : \A y \in T : x <= y
<1>1. PICK x \in T : \A y \in T : <<y, x>> \notin OpToRel(<, Nat)
  BY NatLessThanWellFounded, WFMin, ZenonT(60)
<1>2. \A y \in T : ~(y < x)
  BY <1>1, ZenonT(60) DEF OpToRel
<1> QED BY <1>2

LEMMA MaxOf ==
    ASSUME NEW n \in Nat, NEW S, S \subseteq 0..n, S # {}
    PROVE  Max(S) \in S
<1> DEFINE T == {k \in Nat : \A y \in S : y <= k}
<1>1. n \in T
  BY SMT
<1>2. PICK k \in T : \A j \in T : k <= j
  BY <1>1, LeastNumber, ZenonT(60)
<1>3. k \in Nat /\ \A y \in S : y <= k /\ y \in Nat
  BY <1>2, SMT
<1>4. k \in S
  <2> SUFFICES ASSUME k \notin S PROVE FALSE
    OBVIOUS
  <2>1. \A y \in S : y <= k - 1
    BY <1>3, SMT
  <2>2. PICK y \in S : y <= k - 1 /\ y \in Nat
    BY <1>3, <2>1, ZenonT(60)
  <2>3. k - 1 \in Nat
    BY <1>3, <2>2, SMT
  <2>4. k - 1 \in T
    BY <2>1, <2>3
  <2> QED BY <1>2, <1>3, <2>3, <2>4, SMT
<1>5. \E x \in S : \A y \in S : x >= y
  BY <1>3, <1>4, SMT
<1> QED BY <1>5, ZenonT(60) DEF Max

LEMMA ErrLimit == MAX_CONNECT_ERR_LEN \in Nat
  BY LimitsAssumption, SMT DEF U16

\* floor_char_boundary leaves a text within the limit alone; what it cuts is still UTF-8.
LEMMA CutWhole ==
    ASSUME NEW s \in Seq(Byte), Len(s) <= MAX_CONNECT_ERR_LEN
    PROVE  CutError(s) = s
<1>1. MAX_CONNECT_ERR_LEN >= Len(s)
  BY ErrLimit, SMT
<1>2. CutError(s) = SubSeq(s, 1, Len(s))
  BY <1>1, ZenonT(60) DEF CutError, floor_char_boundary
<1> QED BY <1>2, SMT

LEMMA CutUtf8 ==
    ASSUME NEW s \in Seq(Byte), IsUtf8(s), NEW k \in 0..Len(s), k < Len(s) => ~Continuation(s[k + 1])
    PROVE  IsUtf8(SubSeq(s, 1, k))
<1>1. PICK q \in Seq(Byte) : q = SubSeq(s, 1, k) /\ Len(q) = k /\ \A i \in 1..k : q[i] = s[i]
  <2>1. \A i \in 1..k : SubSeq(s, 1, k)[i] = s[i]
    BY SMT
  <2> QED BY <2>1, Joined, ZenonT(60)
<1>2. SUFFICES ASSUME NEW i \in 1..k
               PROVE  IF Continuation(q[i]) THEN InChar(q, i) ELSE CharAt(q, i)
  <2>1. DOMAIN q = 1..k
    BY <1>1, SMT
  <2> QED BY <1>1, <2>1, ZenonT(60) DEF IsUtf8
<1>3. q[i] = s[i] /\ i \in DOMAIN s
  BY <1>1, SMT
<1>4. CASE Continuation(s[i])
  <2>1. PICK j \in 1..3 : j < i /\ Width(s[i - j]) > j
    BY <1>3, <1>4, ZenonT(60) DEF IsUtf8, InChar
  <2>2. i - j \in 1..k
    BY <2>1, SMT
  <2>3. q[i - j] = s[i - j]
    BY <1>1, <2>2, ZenonT(60)
  <2> QED BY <1>3, <1>4, <2>1, <2>3, ZenonT(60) DEF InChar
<1>5. CASE ~Continuation(s[i])
  <2>1. CharAt(s, i)
    BY <1>3, <1>5, ZenonT(60) DEF IsUtf8
  <2>2. PICK w \in 1..4 : w = Width(s[i])
    BY <2>1, SMT DEF CharAt, Width
  <2>3. /\ i + w - 1 <= Len(s) /\ \A j \in 1..(w - 1) : Continuation(s[i + j])
        /\ w > 1 => Second(s[i], s[i + 1])
    BY <2>1, <2>2, ZenonT(60) DEF CharAt
  <2>4. i + w - 1 <= k
    <3> SUFFICES ASSUME ~(i + w - 1 <= k) PROVE FALSE
      BY ZenonT(60)
    <3>1. (k + 1) - i \in 1..(w - 1) /\ i + ((k + 1) - i) = k + 1 /\ k < Len(s)
      BY <2>3, SMT
    <3>2. Continuation(s[i + ((k + 1) - i)])
      BY <2>3, <3>1, ZenonT(60)
    <3> QED BY <3>1, <3>2, ZenonT(60)
  <2>5. \A j \in 1..(w - 1) : i + j \in 1..k
    BY <2>4, SMT
  <2>6. \A j \in 1..(w - 1) : Continuation(q[i + j])
    BY <1>1, <2>3, <2>5, ZenonT(60)
  <2>7. w > 1 => Second(q[i], q[i + 1])
    <3>1. w > 1 => 1 \in 1..(w - 1)
      BY SMT
    <3> QED BY <1>1, <1>3, <2>3, <2>5, <3>1, ZenonT(60)
  <2>8. w > 0 /\ Len(q) = k
    BY <1>1, SMT
  <2> QED BY <1>3, <1>5, <2>2, <2>4, <2>6, <2>7, <2>8, ZenonT(60) DEF CharAt
<1> QED BY <1>3, <1>4, <1>5, ZenonT(60)

\* The text of a ConnectErr fits its limit once it has been cut.
LEMMA CutErrorFits ==
    ASSUME NEW s \in Seq(Byte), IsUtf8(s)
    PROVE  CutError(s) \in Seq(Byte) /\ IsUtf8(CutError(s)) /\ Len(CutError(s)) <= MAX_CONNECT_ERR_LEN
<1>1. CASE MAX_CONNECT_ERR_LEN >= Len(s)
  <2>1. Len(s) <= MAX_CONNECT_ERR_LEN
    BY <1>1, ErrLimit, SMT
  <2> QED BY <2>1, CutWhole
<1>2. CASE ~(MAX_CONNECT_ERR_LEN >= Len(s))
  <2> DEFINE S == {i \in 0..MAX_CONNECT_ERR_LEN : ~Continuation(s[i + 1])}
  <2>1. MAX_CONNECT_ERR_LEN < Len(s)
    BY <1>2, ErrLimit, SMT
  <2>2. 0 \in S
    <3>1. 1 \in DOMAIN s /\ ~(1 > 1) /\ 0 \in 0..MAX_CONNECT_ERR_LEN /\ 0 + 1 = 1
      BY <2>1, ErrLimit, SMT
    <3>2. ~Continuation(s[1])
      <4>1. ~InChar(s, 1)
        BY SMT DEF InChar
      <4> QED BY <3>1, <4>1, ZenonT(60) DEF IsUtf8
    <3> QED BY <3>1, <3>2
  <2>3. S \subseteq 0..MAX_CONNECT_ERR_LEN /\ S # {}
    BY <2>2
  <2>4. Max(S) \in S
    BY <2>3, ErrLimit, MaxOf, ZenonT(60)
  <2>5. PICK k \in 0..MAX_CONNECT_ERR_LEN : k = Max(S) /\ ~Continuation(s[k + 1])
    BY <2>4, ZenonT(60)
  <2>6. CutError(s) = SubSeq(s, 1, k)
    BY <1>2, <2>5, ZenonT(60) DEF CutError, floor_char_boundary
  <2>7. k \in 0..Len(s) /\ k <= MAX_CONNECT_ERR_LEN
    BY <2>1, ErrLimit, SMT
  <2>8. IsUtf8(SubSeq(s, 1, k))
    BY <2>5, <2>7, CutUtf8, ZenonT(60)
  <2> QED BY <2>6, <2>7, <2>8, Joined, ZenonT(60)
<1> QED BY <1>1, <1>2

\* The types with a string, and those with nothing but their stream id.
TextTypes == {"Connect", "ConnectErr", "Auth"}
BareTypes == {"ConnectOk", "Close", "Reset"}

\* The types of messages and their numbers on the wire.
LEMMA Types ==
    /\ DOMAIN MessageType = TextTypes \cup BareTypes \cup {"Data", "WindowUpdate"}
    /\ \A t \in DOMAIN MessageType : MessageType[t] \in Byte
    /\ \A t, u \in DOMAIN MessageType : MessageType[t] = MessageType[u] => t = u
<1>1. DOMAIN MessageType = TextTypes \cup BareTypes \cup {"Data", "WindowUpdate"}
  BY SMT DEF MessageType, TextTypes, BareTypes
<1>2. \A t \in DOMAIN MessageType : MessageType[t] \in Byte
  BY SMT DEF MessageType, Byte
<1>3. \A t, u \in DOMAIN MessageType : MessageType[t] = MessageType[u] => t = u
  BY SMT DEF MessageType
<1> QED BY <1>1, <1>2, <1>3, ZenonT(60)

\* What decode makes of the bytes behind the type.
Decoded(t, r) ==
    LET id == get_id(t, r)
        field == get_field(t, id)
    IN  IF id = Short \/ ~Complete(field) THEN Bad
        ELSE Message(t, id.value, field.text, IF t = "WindowUpdate" THEN field.value ELSE 0)

\* decode finds the type in the first byte.
LEMMA DecodeType ==
    ASSUME NEW t \in DOMAIN MessageType, NEW r \in Seq(Byte)
    PROVE  decode(<<MessageType[t]>> \o r) = Decoded(t, r)
<1>1. PICK c \in Byte : c = MessageType[t]
  BY Types
<1>2. PICK b \in Seq(Byte) : b = <<c>> \o r /\ b # <<>> /\ b[1] = c /\ Tail(b) = r
  <2>1. /\ <<c>> \o r \in Seq(Byte) /\ <<c>> \o r # <<>> /\ (<<c>> \o r)[1] = c
    BY SMT
  <2>2. Tail(<<c>> \o r) = r
    BY SMT
  <2> QED BY <2>1, <2>2, ZenonT(60)
<1>3. \E u \in DOMAIN MessageType : MessageType[u] = b[1]
  BY <1>1, <1>2
<1>4. TypeOf(b) = t
  <2>1. TypeOf(b) \in DOMAIN MessageType /\ MessageType[TypeOf(b)] = b[1]
    BY <1>3, ZenonT(60) DEF TypeOf
  <2> QED BY <1>1, <1>2, <2>1, Types
<1>5. decode(b) = Decoded(t, r)
  BY <1>2, <1>3, <1>4, ZenonT(60) DEF decode, Decoded
<1> QED BY <1>1, <1>2, <1>5, ZenonT(60)

\* A body that decodes has a first byte that is a type, and complete fields.
LEMMA DecodedBody ==
    ASSUME NEW b \in Seq(Byte), decode(b) # Bad
    PROVE  \E t \in DOMAIN MessageType, r \in Seq(Byte) : b = <<MessageType[t]>> \o r
<1>1. b # <<>> /\ \E t \in DOMAIN MessageType : MessageType[t] = b[1]
  BY ZenonT(60) DEF decode
<1>2. PICK t \in DOMAIN MessageType : MessageType[t] = b[1]
  BY <1>1
<1>3. Tail(b) \in Seq(Byte) /\ b = <<b[1]>> \o Tail(b)
  BY <1>1, SMT
<1> QED BY <1>2, <1>3, ZenonT(60)

\* The stream id, which Auth does not have.
LEMMA GetId ==
    ASSUME NEW t, t # "Auth", NEW n \in U32, NEW r \in Seq(Byte)
    PROVE  get_id(t, be_u32(n) \o r) = Got(n, <<>>, r)
  BY GetU32, ZenonT(60) DEF get_id

LEMMA GotId ==
    ASSUME NEW t, t # "Auth", NEW b \in Seq(Byte), get_id(t, b) # Short
    PROVE  \E n \in U32, r \in Seq(Byte) : b = be_u32(n) \o r /\ get_id(t, b) = Got(n, <<>>, r)
<1>1. get_id(t, b) = get_u32(b)
  BY ZenonT(60) DEF get_id
<1>2. ~(Len(b) < 4)
  BY <1>1, ZenonT(60) DEF get_u32
<1>3. Len(b) >= 4
  BY <1>2, SMT
<1> QED BY <1>1, <1>3, GotU32, ZenonT(60)

-----------------------------------------------------------------------------
\* The limits of a string of type t.
TextMin(t) == IF t = "Auth" THEN 1 ELSE 0
TextMax(t) == IF t = "Connect" THEN MAX_CONNECT_TARGET_LEN
              ELSE IF t = "ConnectErr" THEN MAX_CONNECT_ERR_LEN ELSE MAX_AUTH_TOKEN_LEN

\* The bytes of the fields, and the limits they respect.
FieldBytes(x) ==
    IF x.type \in TextTypes THEN be_u16(Len(x.text)) \o x.text
    ELSE IF x.type = "Data" THEN be_u32(Len(x.text)) \o x.text
    ELSE IF x.type = "WindowUpdate" THEN be_u32(x.n) ELSE <<>>

InLimits(x) ==
    /\ x.type \in TextTypes => Len(x.text) \in TextMin(x.type)..TextMax(x.type)
    /\ x.type = "Data" => Len(x.text) <= MAX_DATA_PAYLOAD_LEN

\* The limits of a string are numbers that fit its length field.
LEMMA TextLimits ==
    ASSUME NEW t \in TextTypes
    PROVE  /\ TextMin(t) \in Nat /\ TextMax(t) \in U16 /\ TextMax(t) \in Nat
           /\ TextMax(t) <= MAX_CONNECT_TARGET_LEN
<1>1. /\ MAX_CONNECT_TARGET_LEN \in Nat /\ MAX_CONNECT_TARGET_LEN \in U16
      /\ MAX_CONNECT_ERR_LEN \in Nat /\ MAX_CONNECT_ERR_LEN <= MAX_CONNECT_TARGET_LEN
      /\ MAX_AUTH_TOKEN_LEN \in Nat /\ MAX_AUTH_TOKEN_LEN <= MAX_CONNECT_TARGET_LEN
  BY LimitsAssumption, SMT DEF U16
<1>2. TextMin(t) \in Nat
  BY SMT DEF TextMin
<1>3. TextMax(t) \in Nat /\ TextMax(t) <= MAX_CONNECT_TARGET_LEN
  BY <1>1, SMT DEF TextMax
<1> QED BY <1>1, <1>2, <1>3, U16Below, ZenonT(60)

\* Which reader get_field calls for which type.
LEMMA FieldKinds ==
    ASSUME NEW id
    PROVE  /\ \A t \in TextTypes : get_field(t, id) = get_str(id.rest, TextMin(t), TextMax(t))
           /\ get_field("Data", id) = get_data(id.rest)
           /\ get_field("WindowUpdate", id) = get_u32(id.rest)
           /\ \A t \in BareTypes : get_field(t, id) = id
<1>1. \A t \in TextTypes : get_field(t, id) = get_str(id.rest, TextMin(t), TextMax(t))
  BY SMT DEF get_field, TextTypes, TextMin, TextMax
<1>2. get_field("Data", id) = get_data(id.rest) /\ get_field("WindowUpdate", id) = get_u32(id.rest)
  BY SMT DEF get_field
<1>3. \A t \in BareTypes : get_field(t, id) = id
  BY SMT DEF get_field, BareTypes
<1> QED BY <1>1, <1>2, <1>3

LEMMA Kinds ==
    /\ "Data" \notin TextTypes /\ "WindowUpdate" \notin TextTypes /\ "Auth" \in TextTypes
    /\ "Data" \notin BareTypes /\ "WindowUpdate" \notin BareTypes
    /\ \A t \in BareTypes : t \notin TextTypes
  BY ZenonT(60) DEF TextTypes, BareTypes

\* get_field reads back the fields of a message within its limits.
LEMMA GetField ==
    ASSUME NEW x, WellFormed(x), InLimits(x), NEW n \in Nat
    PROVE  /\ FieldBytes(x) \in Seq(Byte)
           /\ \E v \in Nat :
                 /\ get_field(x.type, Got(n, <<>>, FieldBytes(x))) = Got(v, x.text, <<>>)
                 /\ x.type = "WindowUpdate" => v = x.n
<1> DEFINE id == Got(n, <<>>, FieldBytes(x))
<1>1. id.rest = FieldBytes(x)
  BY GotParts
<1> HIDE DEF id
<1>2. x.text \in Seq(Byte) /\ Len(x.text) \in Nat /\ x.n \in U32 /\ x.n \in Nat
  <2>1. x.text \in Seq(Byte) /\ x.n \in U32
    BY ZenonT(60) DEF WellFormed
  <2> QED BY <2>1, SMT DEF U32
<1>3. CASE x.type \in TextTypes
  <2>1. FieldBytes(x) = be_u16(Len(x.text)) \o x.text
    BY <1>3, ZenonT(60) DEF FieldBytes
  <2>2. IsUtf8(x.text) /\ Len(x.text) \in TextMin(x.type)..TextMax(x.type)
    BY <1>3, ZenonT(60) DEF WellFormed, InLimits, TextTypes
  <2>3. TextMin(x.type) \in Nat /\ TextMax(x.type) \in U16 /\ TextMax(x.type) \in Nat
    BY <1>3, TextLimits
  <2>4. Len(x.text) \in U16
    <3>1. Len(x.text) <= TextMax(x.type)
      BY <1>2, <2>2, <2>3, SMT
    <3> QED BY <1>2, <2>3, <3>1, U16Below, ZenonT(60)
  <2>5. FieldBytes(x) \in Seq(Byte)
    BY <1>2, <2>1, <2>4, BeU16, Cut, ZenonT(60)
  <2>6. get_str(FieldBytes(x), TextMin(x.type), TextMax(x.type)) = Got(Len(x.text), x.text, <<>>)
    BY <1>2, <2>1, <2>2, <2>3, GetStr, ZenonT(60)
  <2>7. get_field(x.type, id) = Got(Len(x.text), x.text, <<>>)
    BY <1>1, <1>3, <2>6, FieldKinds, ZenonT(60)
  <2> QED BY <1>2, <1>3, <2>5, <2>7, Kinds, ZenonT(60) DEF id
<1>4. CASE x.type = "Data"
  <2>1. FieldBytes(x) = be_u32(Len(x.text)) \o x.text
    BY <1>4, Kinds, ZenonT(60) DEF FieldBytes
  <2>2. Len(x.text) <= MAX_DATA_PAYLOAD_LEN
    BY <1>4, ZenonT(60) DEF InLimits
  <2>3. Len(x.text) \in U32
    BY <1>2, <2>2, DataLimit, U32Below, ZenonT(60)
  <2>4. FieldBytes(x) \in Seq(Byte)
    BY <1>2, <2>1, <2>3, BeU32, Cut, ZenonT(60)
  <2>5. get_data(FieldBytes(x)) = Got(Len(x.text), x.text, <<>>)
    BY <1>2, <2>1, <2>2, GetData, ZenonT(60)
  <2>6. get_field(x.type, id) = Got(Len(x.text), x.text, <<>>)
    BY <1>1, <1>4, <2>5, FieldKinds, ZenonT(60)
  <2> QED BY <1>2, <1>4, <2>4, <2>6 DEF id
<1>5. CASE x.type = "WindowUpdate"
  <2>1. FieldBytes(x) = be_u32(x.n) /\ x.text = <<>>
    BY <1>5, Kinds, ZenonT(60) DEF FieldBytes, WellFormed
  <2>2. be_u32(x.n) \in Seq(Byte) /\ <<>> \in Seq(Byte)
    BY <1>2, BeU32
  <2>3. be_u32(x.n) = be_u32(x.n) \o <<>>
    BY <2>2, NothingAdded, ZenonT(60)
  <2>4. get_u32(be_u32(x.n) \o <<>>) = Got(x.n, <<>>, <<>>)
    BY <1>2, <2>2, GetU32, ZenonT(60)
  <2>5. get_field(x.type, id) = Got(x.n, <<>>, <<>>)
    BY <1>1, <1>5, <2>1, <2>3, <2>4, FieldKinds, ZenonT(60)
  <2> QED BY <1>2, <2>1, <2>2, <2>5 DEF id
<1>6. CASE x.type \in BareTypes
  <2>1. FieldBytes(x) = <<>> /\ x.text = <<>>
    BY <1>6, Kinds, ZenonT(60) DEF FieldBytes, WellFormed, BareTypes
  <2>2. get_field(x.type, id) = Got(n, x.text, <<>>)
    BY <1>6, <2>1, FieldKinds DEF id
  <2>3. <<>> \in Seq(Byte) /\ x.type # "WindowUpdate"
    BY <1>6, Kinds
  <2> QED BY <2>1, <2>2, <2>3 DEF id
<1>7. x.type \in TextTypes \/ x.type \in BareTypes \/ x.type = "Data" \/ x.type = "WindowUpdate"
  BY Types, ZenonT(60) DEF WellFormed
<1> QED BY <1>3, <1>4, <1>5, <1>6, <1>7, ZenonT(60)

\* The bytes behind the type.
Behind(x) == IF x.type = "Auth" THEN FieldBytes(x) ELSE be_u32(x.stream_id) \o FieldBytes(x)

\* An encoding is the type, the stream id and the fields.
LEMMA HeadAndFields ==
    ASSUME NEW x, WellFormed(x), FieldBytes(x) \in Seq(Byte)
    PROVE  /\ Behind(x) \in Seq(Byte)
           /\ put_head(x) \o FieldBytes(x) = <<MessageType[x.type]>> \o Behind(x)
           /\ put_head(x) \in Seq(Byte) /\ Len(put_head(x)) = (IF x.type = "Auth" THEN 1 ELSE 5)
<1>1. PICK h \in Seq(Byte) : h = <<MessageType[x.type]>> /\ Len(h) = 1
  <2>1. PICK c \in Byte : c = MessageType[x.type]
    BY Types, ZenonT(60) DEF WellFormed
  <2>2. <<c>> \in Seq(Byte) /\ Len(<<c>>) = 1
    BY SMT
  <2> QED BY <2>1, <2>2, ZenonT(60)
<1>2. PICK i \in Seq(Byte) : i = be_u32(x.stream_id) /\ Len(i) = 4
  BY BeU32, ZenonT(60) DEF WellFormed
<1>3. PICK f \in Seq(Byte) : f = FieldBytes(x)
  OBVIOUS
<1>4. CASE x.type = "Auth"
  <2>1. put_head(x) = h /\ Behind(x) = f
    BY <1>1, <1>3, <1>4, ZenonT(60) DEF put_head, Behind
  <2> QED BY <1>1, <1>3, <1>4, <2>1, ZenonT(60)
<1>5. CASE x.type # "Auth"
  <2>1. put_head(x) = h \o i
    BY <1>1, <1>2, <1>5, ZenonT(60) DEF put_head
  <2>2. Behind(x) = i \o f
    BY <1>2, <1>3, <1>5, ZenonT(60) DEF Behind
  <2>3. i \o f \in Seq(Byte) /\ h \o i \in Seq(Byte) /\ Len(h \o i) = Len(h) + Len(i)
    BY Cut, ZenonT(60)
  <2>4. Len(h) + Len(i) = 5
    BY <1>1, <1>2, SMT
  <2>5. (h \o i) \o f = h \o (i \o f)
    BY Regroup, ZenonT(60)
  <2>6. put_head(x) \o FieldBytes(x) = <<MessageType[x.type]>> \o Behind(x)
    BY <1>1, <1>3, <2>1, <2>2, <2>5, ZenonT(60)
  <2> QED BY <1>5, <2>1, <2>2, <2>3, <2>4, <2>6, ZenonT(60)
<1> QED BY <1>4, <1>5, ZenonT(60)

\* The parts of a message are what it was made of.
LEMMA MessageParts ==
    ASSUME NEW t, NEW i, NEW x, NEW n
    PROVE  /\ Message(t, i, x, n).type = t /\ Message(t, i, x, n).stream_id = i
           /\ Message(t, i, x, n).text = x /\ Message(t, i, x, n).n = n
  BY DEF Message

\* Every message within its limits decodes to itself.
LEMMA DecodesToItself ==
    ASSUME NEW x, WellFormed(x), InLimits(x)
    PROVE  decode(put_head(x) \o FieldBytes(x)) = x
<1>1. /\ x = Message(x.type, x.stream_id, x.text, x.n) /\ x.type \in DOMAIN MessageType
      /\ x.stream_id \in U32 /\ (x.type = "Auth" => x.stream_id = 0)
      /\ (x.type # "WindowUpdate" => x.n = 0)
  BY ZenonT(60) DEF WellFormed
<1>2. x.stream_id \in Nat
  BY <1>1 DEF U32
<1>3. FieldBytes(x) \in Seq(Byte)
  BY <1>2, GetField, ZenonT(60)
<1>4. PICK v \in Nat : /\ get_field(x.type, Got(x.stream_id, <<>>, FieldBytes(x))) = Got(v, x.text, <<>>)
                       /\ x.type = "WindowUpdate" => v = x.n
  BY <1>2, GetField, ZenonT(60)
<1>5. Behind(x) \in Seq(Byte) /\ put_head(x) \o FieldBytes(x) = <<MessageType[x.type]>> \o Behind(x)
  BY <1>3, HeadAndFields, ZenonT(60)
<1>6. get_id(x.type, Behind(x)) = Got(x.stream_id, <<>>, FieldBytes(x))
  <2>1. CASE x.type = "Auth"
    BY <1>1, <2>1, ZenonT(60) DEF get_id, Behind, Got
  <2>2. CASE x.type # "Auth"
    BY <1>1, <1>3, <2>2, GetId, ZenonT(60) DEF Behind
  <2> QED BY <2>1, <2>2
<1>7. PICK id : /\ id = get_id(x.type, Behind(x)) /\ id = Got(x.stream_id, <<>>, FieldBytes(x))
                /\ id # Short /\ id.value = x.stream_id
  BY <1>2, <1>6, NotShort, SMTT(30) DEF Got
<1>8. PICK field : /\ field = get_field(x.type, id) /\ field # Short /\ field.rest = <<>>
                   /\ field.text = x.text /\ field.value = v
  BY <1>4, <1>7, NotShort DEF Got
<1>a. Complete(field)
  BY <1>8, ZenonT(60) DEF Complete
<1>b. Decoded(x.type, Behind(x)) =
         Message(x.type, x.stream_id, x.text, IF x.type = "WindowUpdate" THEN v ELSE 0)
  BY <1>7, <1>8, <1>a, ZenonT(60) DEF Decoded
<1>9. Decoded(x.type, Behind(x)) = x
  BY <1>1, <1>4, <1>b, ZenonT(60)
<1> QED BY <1>1, <1>5, <1>9, DecodeType, ZenonT(60)

LEMMA ZeroU32 == 0 \in U32
  BY SMT DEF U32

\* Fields that get_field completes are those of a message within its limits.
LEMMA GotField ==
    ASSUME NEW t \in DOMAIN MessageType, NEW n \in U32, t = "Auth" => n = 0, NEW F \in Seq(Byte),
           NEW field, field = get_field(t, Got(n, <<>>, F)), Complete(field)
    PROVE  \E x : /\ WellFormed(x) /\ InLimits(x) /\ FieldBytes(x) = F
                  /\ x = Message(t, n, field.text, IF t = "WindowUpdate" THEN field.value ELSE 0)
<1>1. field # Short /\ field.rest = <<>>
  BY ZenonT(60) DEF Complete
<1>2. Got(n, <<>>, F).rest = F
  BY DEF Got
<1>3. PICK x : x = Message(t, n, field.text, IF t = "WindowUpdate" THEN field.value ELSE 0)
  OBVIOUS
<1>4. /\ x.type = t /\ x.stream_id = n /\ x.text = field.text
      /\ x.n = IF t = "WindowUpdate" THEN field.value ELSE 0
  BY <1>3, ZenonT(60) DEF Message
<1>5. x = Message(x.type, x.stream_id, x.text, x.n)
  BY <1>3, <1>4
<1>6. CASE t \in TextTypes
  <2>1. field = get_str(F, TextMin(t), TextMax(t))
    BY <1>2, <1>6, FieldKinds, ZenonT(60)
  <2>2. TextMin(t) \in Nat /\ TextMax(t) \in Nat
    BY <1>6, TextLimits
  <2>3. PICK s \in Seq(Byte) : /\ F = be_u16(Len(s)) \o s /\ IsUtf8(s) /\ Len(s) \in TextMin(t)..TextMax(t)
                               /\ field = Got(Len(s), s, <<>>)
    <3>1. get_str(F, TextMin(t), TextMax(t)) # Short /\ get_str(F, TextMin(t), TextMax(t)).rest = <<>>
      BY <1>1, <2>1, ZenonT(60)
    <3>2. \E s \in Seq(Byte) : /\ F = be_u16(Len(s)) \o s /\ IsUtf8(s) /\ Len(s) \in TextMin(t)..TextMax(t)
                               /\ get_str(F, TextMin(t), TextMax(t)) = Got(Len(s), s, <<>>)
      BY <2>2, <3>1, GotStr, ZenonT(60)
    <3> QED BY <2>1, <3>2, ZenonT(60)
  <2>4. t \notin BareTypes /\ t # "WindowUpdate" /\ t # "Data"
    BY <1>6, Kinds
  <2>5. x.text = s /\ x.n = 0
    <3>1. field.text = s
      BY <2>3, GotParts
    <3> QED BY <1>4, <2>4, <3>1, ZenonT(60)
  <2>6. WellFormed(x)
    BY <1>4, <1>5, <2>3, <2>4, <2>5, ZeroU32, ZenonT(60) DEF WellFormed, BareTypes
  <2>7. InLimits(x) /\ FieldBytes(x) = F
    BY <1>4, <1>6, <2>3, <2>4, <2>5, ZenonT(60) DEF InLimits, FieldBytes
  <2> QED BY <1>3, <2>6, <2>7, ZenonT(60)
<1>7. CASE t = "Data"
  <2>1. field = get_data(F)
    BY <1>2, <1>7, FieldKinds, ZenonT(60)
  <2>2. PICK s \in Seq(Byte) : /\ F = be_u32(Len(s)) \o s /\ Len(s) <= MAX_DATA_PAYLOAD_LEN
                               /\ field = Got(Len(s), s, <<>>)
    BY <1>1, <2>1, GotData, ZenonT(60)
  <2>3. x.text = s /\ x.n = 0
    BY <1>4, <1>7, <2>2 DEF Got
  <2>4. WellFormed(x)
    BY <1>4, <1>5, <1>7, <2>3, ZeroU32, ZenonT(60) DEF WellFormed
  <2>5. InLimits(x) /\ FieldBytes(x) = F
    BY <1>4, <1>7, <2>2, <2>3, Kinds, ZenonT(60) DEF InLimits, FieldBytes
  <2> QED BY <1>3, <2>4, <2>5
<1>8. CASE t = "WindowUpdate"
  <2>1. field = get_u32(F)
    BY <1>2, <1>8, FieldKinds, ZenonT(60)
  <2>2. ~(Len(F) < 4)
    BY <1>1, <2>1, ZenonT(60) DEF get_u32
  <2>3. Len(F) >= 4
    BY <2>2, SMT
  <2>4. PICK v \in U32, r \in Seq(Byte) : F = be_u32(v) \o r /\ field = Got(v, <<>>, r)
    BY <2>1, <2>3, GotU32, ZenonT(60)
  <2>5. r = <<>> /\ x.text = <<>> /\ x.n = v
    BY <1>1, <1>4, <1>8, <2>4, SMTT(30) DEF Got
  <2>6. F = be_u32(v)
    BY <2>4, <2>5, BeU32, NothingAdded, ZenonT(60)
  <2>7. <<>> \in Seq(Byte)
    OBVIOUS
  <2>8. WellFormed(x)
    BY <1>4, <1>5, <1>8, <2>5, <2>7, ZenonT(60) DEF WellFormed
  <2>9. InLimits(x) /\ FieldBytes(x) = F
    BY <1>4, <1>8, <2>5, <2>6, Kinds, ZenonT(60) DEF InLimits, FieldBytes
  <2> QED BY <1>3, <2>8, <2>9, ZenonT(60)
<1>9. CASE t \in BareTypes
  <2>1. field = Got(n, <<>>, F)
    BY <1>9, FieldKinds, ZenonT(60)
  <2>2. F = <<>> /\ x.text = <<>>
    BY <1>1, <1>4, <2>1, SMTT(30) DEF Got
  <2>3. t \notin TextTypes /\ t # "Data" /\ t # "WindowUpdate" /\ <<>> \in Seq(Byte)
    BY <1>9, Kinds, SMTT(30)
  <2>4. x.n = 0
    BY <1>4, <2>3
  <2>5. WellFormed(x)
    BY <1>4, <1>5, <2>2, <2>3, <2>4, ZeroU32, ZenonT(60) DEF WellFormed, TextTypes
  <2>6. InLimits(x) /\ FieldBytes(x) = F
    BY <1>4, <2>2, <2>3, ZenonT(60) DEF InLimits, FieldBytes
  <2> QED BY <1>3, <2>5, <2>6, ZenonT(60)
<1> QED BY <1>6, <1>7, <1>8, <1>9, Types, ZenonT(60)

\* A body that decodes is the encoding of what it decodes to.
LEMMA DecodedIsEncoded ==
    ASSUME NEW b \in Seq(Byte), decode(b) # Bad
    PROVE  /\ WellFormed(decode(b)) /\ InLimits(decode(b))
           /\ b = put_head(decode(b)) \o FieldBytes(decode(b))
<1>1. PICK t \in DOMAIN MessageType, r \in Seq(Byte) : b = <<MessageType[t]>> \o r
  BY DecodedBody, ZenonT(60)
<1>2. decode(b) = Decoded(t, r)
  BY <1>1, DecodeType
<1>3. PICK id : id = get_id(t, r)
  OBVIOUS
<1>4. PICK field : field = get_field(t, id)
  OBVIOUS
<1>5. /\ id # Short /\ Complete(field)
      /\ decode(b) = Message(t, id.value, field.text, IF t = "WindowUpdate" THEN field.value ELSE 0)
  BY <1>2, <1>3, <1>4, ZenonT(60) DEF Decoded
<1>6. PICK n \in U32, F \in Seq(Byte) :
         /\ id = Got(n, <<>>, F) /\ (t = "Auth" => n = 0)
         /\ r = IF t = "Auth" THEN F ELSE be_u32(n) \o F
  <2>1. CASE t = "Auth"
    <3>1. id = Got(0, <<>>, r)
      BY <1>3, <2>1, ZenonT(60) DEF get_id, Got
    <3> QED BY <2>1, <3>1, ZeroU32, ZenonT(60)
  <2>2. CASE t # "Auth"
    <3>1. PICK n \in U32, F \in Seq(Byte) : r = be_u32(n) \o F /\ id = Got(n, <<>>, F)
      BY <1>3, <1>5, <2>2, GotId, ZenonT(60)
    <3> QED BY <2>2, <3>1, ZenonT(60)
  <2> QED BY <2>1, <2>2, ZenonT(60)
<1>7. PICK x : /\ WellFormed(x) /\ InLimits(x) /\ FieldBytes(x) = F
               /\ x = Message(t, n, field.text, IF t = "WindowUpdate" THEN field.value ELSE 0)
  BY <1>4, <1>5, <1>6, GotField, SMTT(30)
<1>8. decode(b) = x /\ x.type = t /\ x.stream_id = n
  BY <1>5, <1>6, <1>7 DEF Got, Message
<1>9. Behind(x) = r
  BY <1>6, <1>7, <1>8, ZenonT(60) DEF Behind
<1> QED BY <1>1, <1>6, <1>7, <1>8, <1>9, HeadAndFields, ZenonT(60)

-----------------------------------------------------------------------------
\* What the receiver is meant to see differs from what was sent in a cut error text only.
LEMMA MeantParts ==
    ASSUME NEW m, WellFormed(m)
    PROVE  /\ Meant(m) = Message(m.type, m.stream_id,
                                  IF m.type = "ConnectErr" THEN CutError(m.text) ELSE m.text, m.n)
           /\ Meant(m).type = m.type /\ Meant(m).stream_id = m.stream_id /\ Meant(m).n = m.n
           /\ m.type = "ConnectErr" => Meant(m).text = CutError(m.text)
           /\ m.type # "ConnectErr" => Meant(m) = m
<1>1. PICK t, i, x, n : m = Message(t, i, x, n)
  BY ZenonT(60) DEF WellFormed
<1>2. m.type = t /\ m.stream_id = i /\ m.text = x /\ m.n = n
  BY <1>1, MessageParts
<1>3. [m EXCEPT !.text = CutError(@)] = Message(t, i, CutError(x), n)
  BY <1>1 DEF Message
<1>4. Meant(m) = Message(m.type, m.stream_id,
                         IF m.type = "ConnectErr" THEN CutError(m.text) ELSE m.text, m.n)
  BY <1>1, <1>2, <1>3 DEF Meant
<1>5. m.type # "ConnectErr" => Meant(m) = m
  BY ZenonT(60) DEF Meant
<1> QED BY <1>4, <1>5, MessageParts

\* What a message within its limits is meant to be is within them too.
LEMMA MeantFits ==
    ASSUME NEW m, WellFormed(m), ~OverLimit(m)
    PROVE  WellFormed(Meant(m)) /\ InLimits(Meant(m)) /\ put_head(Meant(m)) = put_head(m)
<1>1. put_head(Meant(m)) = put_head(m)
  BY MeantParts, ZenonT(60) DEF put_head
<1>2. m.text \in Seq(Byte) /\ Len(m.text) \in Nat
  <2>1. m.text \in Seq(Byte)
    BY ZenonT(60) DEF WellFormed
  <2> QED BY <2>1, SMT
<1>3. CASE m.type = "ConnectErr"
  <2>1. IsUtf8(m.text)
    BY <1>3, ZenonT(60) DEF WellFormed
  <2>2. PICK x : /\ x = Meant(m) /\ x.type = "ConnectErr" /\ x.stream_id = m.stream_id
                 /\ x.n = m.n /\ x.text = CutError(m.text) /\ x = Message(x.type, x.stream_id, x.text, x.n)
    BY <1>3, MeantParts
  <2>3. x.text \in Seq(Byte) /\ IsUtf8(x.text) /\ Len(x.text) <= MAX_CONNECT_ERR_LEN
    BY <1>2, <2>1, <2>2, CutErrorFits, ZenonT(60)
  <2>4. m.type \in DOMAIN MessageType /\ m.stream_id \in U32 /\ m.n \in U32 /\ m.n = 0
    BY <1>3, ZenonT(60) DEF WellFormed
  <2>5. WellFormed(x)
    BY <1>3, <2>2, <2>3, <2>4, ZenonT(60) DEF WellFormed
  <2>6. Len(x.text) \in TextMin(x.type)..TextMax(x.type)
    <3>1. TextMin(x.type) = 0 /\ TextMax(x.type) = MAX_CONNECT_ERR_LEN
      BY <2>2, ZenonT(60) DEF TextMin, TextMax
    <3>2. Len(x.text) \in 0..MAX_CONNECT_ERR_LEN
      BY <2>3, ErrLimit, SMT
    <3> QED BY <3>1, <3>2, ZenonT(60)
  <2>7. InLimits(x)
    BY <2>2, <2>6, ZenonT(60) DEF InLimits
  <2> QED BY <1>1, <2>2, <2>5, <2>7, ZenonT(60)
<1>4. CASE m.type # "ConnectErr"
  <2>1. Meant(m) = m
    BY <1>4, MeantParts, ZenonT(60)
  <2>2. m.type \in TextTypes => Len(m.text) \in TextMin(m.type)..TextMax(m.type)
    <3>1. CASE m.type = "Connect"
      <4>1. ~(Len(m.text) > MAX_CONNECT_TARGET_LEN)
        BY <3>1, ZenonT(60) DEF OverLimit
      <4>2. Len(m.text) \in 0..MAX_CONNECT_TARGET_LEN
        BY <1>2, <4>1, LimitsAssumption, SMT DEF U16
      <4> QED BY <3>1, <4>2, ZenonT(60) DEF TextMin, TextMax
    <3>2. CASE m.type = "Auth"
      BY <3>2, ZenonT(60) DEF OverLimit, TextMin, TextMax
    <3> QED BY <1>4, <3>1, <3>2 DEF TextTypes
  <2>3. m.type = "Data" => Len(m.text) <= MAX_DATA_PAYLOAD_LEN
    <3>1. m.type = "Data" => ~(Len(m.text) > MAX_DATA_PAYLOAD_LEN)
      BY ZenonT(60) DEF OverLimit
    <3> QED BY <1>2, <3>1, DataLimit, SMT
  <2> QED BY <1>1, <2>1, <2>2, <2>3, ZenonT(60) DEF InLimits
<1> QED BY <1>3, <1>4

\* put_str refuses what is over its limit, and writes the length and the text otherwise.
LEMMA PutStr ==
    ASSUME NEW s \in Seq(Byte), NEW min \in Nat, NEW max \in U16, Len(s) \in min..max
    PROVE  put_str(s, min, max) = be_u16(Len(s)) \o s /\ put_str(s, min, max) # Refused
<1>1. put_str(s, min, max) = be_u16(Len(s)) \o s
  BY ZenonT(60) DEF put_str
<1>2. Len(s) \in U16
  <2>1. Len(s) \in Nat /\ Len(s) <= max
    BY SMT DEF U16
  <2> QED BY <2>1, U16Below
<1>3. PICK p \in Seq(Byte) : p = be_u16(Len(s)) /\ Len(p) = 2
  BY <1>2, BeU16
<1>4. p \o s # <<>>
  BY <1>3, SMT
<1> QED BY <1>1, <1>3, <1>4, ZenonT(60) DEF Refused

\* encode, type by type.
LEMMA EncodeKinds ==
    ASSUME NEW m
    PROVE  /\ m.type = "Connect" =>
                encode(m) = IF put_str(m.text, 0, MAX_CONNECT_TARGET_LEN) = Refused THEN Refused
                            ELSE put_head(m) \o put_str(m.text, 0, MAX_CONNECT_TARGET_LEN)
           /\ m.type = "ConnectErr" =>
                encode(m) = IF put_str(CutError(m.text), 0, MAX_CONNECT_ERR_LEN) = Refused THEN Refused
                            ELSE put_head(m) \o put_str(CutError(m.text), 0, MAX_CONNECT_ERR_LEN)
           /\ m.type = "Auth" =>
                encode(m) = IF put_str(m.text, 1, MAX_AUTH_TOKEN_LEN) = Refused THEN Refused
                            ELSE put_head(m) \o put_str(m.text, 1, MAX_AUTH_TOKEN_LEN)
           /\ m.type = "Data" =>
                encode(m) = IF Len(m.text) > MAX_DATA_PAYLOAD_LEN THEN Refused
                            ELSE put_head(m) \o (be_u32(Len(m.text)) \o m.text)
           /\ m.type = "WindowUpdate" => encode(m) = put_head(m) \o be_u32(m.n)
           /\ m.type \in BareTypes => encode(m) = put_head(m)
<1>1. CASE m.type = "Connect"
  BY <1>1, SMT DEF encode, BareTypes
<1>2. CASE m.type = "ConnectErr"
  BY <1>2, SMT DEF encode, BareTypes
<1>3. CASE m.type = "Auth"
  BY <1>3, SMT DEF encode, BareTypes
<1>4. CASE m.type = "Data"
  BY <1>4, SMT DEF encode, BareTypes
<1>5. CASE m.type = "WindowUpdate"
  BY <1>5, SMT DEF encode, BareTypes
<1>6. CASE m.type \in BareTypes
  BY <1>6, SMT DEF encode, BareTypes
<1> QED BY <1>1, <1>2, <1>3, <1>4, <1>5, <1>6, ZenonT(60)

\* A message over a limit is refused.
LEMMA EncodeRefuses ==
    ASSUME NEW m, OverLimit(m), WellFormed(m)
    PROVE  encode(m) = Refused
<1>1. m.text \in Seq(Byte)
  BY ZenonT(60) DEF WellFormed
<1>2. CASE m.type = "Connect"
  <2>1. Len(m.text) > MAX_CONNECT_TARGET_LEN
    BY <1>2 DEF OverLimit
  <2>2. Len(m.text) \notin 0..MAX_CONNECT_TARGET_LEN
    BY <1>1, <2>1, LimitsAssumption, SMT DEF U16
  <2>3. put_str(m.text, 0, MAX_CONNECT_TARGET_LEN) = Refused
    BY <2>2, ZenonT(60) DEF put_str
  <2> QED BY <1>2, <2>3, EncodeKinds, ZenonT(60)
<1>3. CASE m.type = "Auth"
  <2>1. Len(m.text) \notin 1..MAX_AUTH_TOKEN_LEN
    BY <1>3 DEF OverLimit
  <2>2. put_str(m.text, 1, MAX_AUTH_TOKEN_LEN) = Refused
    BY <2>1, ZenonT(60) DEF put_str
  <2> QED BY <1>3, <2>2, EncodeKinds, ZenonT(60)
<1>4. CASE m.type = "Data"
  <2>1. Len(m.text) > MAX_DATA_PAYLOAD_LEN
    BY <1>4 DEF OverLimit
  <2> QED BY <1>4, <2>1, EncodeKinds, ZenonT(60)
<1> QED BY <1>2, <1>3, <1>4, ZenonT(60) DEF OverLimit

\* What is not refused is its head and its fields.
LEMMA EncodeForm ==
    ASSUME NEW m, WellFormed(m), ~OverLimit(m)
    PROVE  encode(m) = put_head(m) \o FieldBytes(Meant(m))
<1>1. PICK x : x = Meant(m) /\ WellFormed(x) /\ InLimits(x)
  BY MeantFits
<1>2. x.type = m.type /\ x.n = m.n /\ (m.type # "ConnectErr" => x.text = m.text)
      /\ (m.type = "ConnectErr" => x.text = CutError(m.text))
  BY <1>1, MeantParts, ZenonT(60)
<1>3. x.text \in Seq(Byte)
  BY <1>1, ZenonT(60) DEF WellFormed
<1>4. CASE m.type \in TextTypes
  <2>1. Len(x.text) \in TextMin(m.type)..TextMax(m.type)
    BY <1>1, <1>2, <1>4, ZenonT(60) DEF InLimits
  <2>2. TextMin(m.type) \in Nat /\ TextMax(m.type) \in U16
    BY <1>4, TextLimits, ZenonT(60)
  <2>3. PICK s : /\ s = put_str(x.text, TextMin(m.type), TextMax(m.type))
                 /\ s = be_u16(Len(x.text)) \o x.text /\ s # Refused
    BY <1>3, <2>1, <2>2, PutStr, ZenonT(60)
  <2>4. FieldBytes(x) = s
    BY <1>2, <1>4, <2>3, ZenonT(60) DEF FieldBytes
  <2>5. encode(m) = put_head(m) \o s
    <3>1. CASE m.type = "Connect"
      <4>1. s = put_str(m.text, 0, MAX_CONNECT_TARGET_LEN)
        BY <1>2, <2>3, <3>1, ZenonT(60) DEF TextMin, TextMax
      <4> QED BY <2>3, <3>1, <4>1, EncodeKinds, ZenonT(60)
    <3>2. CASE m.type = "ConnectErr"
      <4>1. s = put_str(CutError(m.text), 0, MAX_CONNECT_ERR_LEN)
        BY <1>2, <2>3, <3>2, ZenonT(60) DEF TextMin, TextMax
      <4> QED BY <2>3, <3>2, <4>1, EncodeKinds, ZenonT(60)
    <3>3. CASE m.type = "Auth"
      <4>1. s = put_str(m.text, 1, MAX_AUTH_TOKEN_LEN)
        BY <1>2, <2>3, <3>3, ZenonT(60) DEF TextMin, TextMax
      <4> QED BY <2>3, <3>3, <4>1, EncodeKinds, ZenonT(60)
    <3> QED BY <1>4, <3>1, <3>2, <3>3 DEF TextTypes
  <2> QED BY <1>1, <2>4, <2>5, ZenonT(60)
<1>5. CASE m.type = "Data"
  <2>1. ~(Len(m.text) > MAX_DATA_PAYLOAD_LEN)
    BY <1>5, ZenonT(60) DEF OverLimit
  <2>2. FieldBytes(x) = be_u32(Len(m.text)) \o m.text
    BY <1>2, <1>5, Kinds, ZenonT(60) DEF FieldBytes
  <2> QED BY <1>1, <1>5, <2>1, <2>2, EncodeKinds, ZenonT(60)
<1>6. CASE m.type = "WindowUpdate"
  <2>1. FieldBytes(x) = be_u32(m.n)
    BY <1>2, <1>6, Kinds, ZenonT(60) DEF FieldBytes
  <2> QED BY <1>1, <1>6, <2>1, EncodeKinds, ZenonT(60)
<1>7. CASE m.type \in BareTypes
  <2>1. FieldBytes(x) = <<>>
    BY <1>2, <1>7, Kinds, ZenonT(60) DEF FieldBytes
  <2>2. <<>> \in Seq(Byte)
    OBVIOUS
  <2>3. put_head(m) \in Seq(Byte)
    BY <1>1, <2>1, <2>2, HeadAndFields, MeantFits, ZenonT(60)
  <2>4. put_head(m) \o <<>> = put_head(m)
    BY <2>3, NothingAdded
  <2> QED BY <1>1, <1>7, <2>1, <2>4, EncodeKinds, ZenonT(60)
<1> QED BY <1>4, <1>5, <1>6, <1>7, Types, ZenonT(60) DEF WellFormed

\* Within the limits nothing is cut.
LEMMA MeantItself ==
    ASSUME NEW x, WellFormed(x), InLimits(x)
    PROVE  Meant(x) = x /\ ~OverLimit(x)
<1>1. x.text \in Seq(Byte)
  BY ZenonT(60) DEF WellFormed
<1>2. Meant(x) = x
  <2>1. CASE x.type = "ConnectErr"
    <3>1. Len(x.text) \in 0..MAX_CONNECT_ERR_LEN
      BY <2>1, ZenonT(60) DEF InLimits, TextTypes, TextMin, TextMax
    <3>2. Len(x.text) <= MAX_CONNECT_ERR_LEN
      BY <3>1, ErrLimit, SMTT(30)
    <3>3. CutError(x.text) = x.text
      BY <1>1, <3>2, CutWhole
    <3>4. Meant(x) = Message(x.type, x.stream_id, CutError(x.text), x.n)
      BY <2>1, MeantParts, ZenonT(60)
    <3> QED BY <3>3, <3>4, ZenonT(60) DEF WellFormed
  <2>2. CASE x.type # "ConnectErr"
    BY <2>2, MeantParts
  <2> QED BY <2>1, <2>2
<1>3. ~OverLimit(x)
  <2>1. x.type = "Connect" => ~(Len(x.text) > MAX_CONNECT_TARGET_LEN)
    <3>1. x.type = "Connect" => Len(x.text) \in 0..MAX_CONNECT_TARGET_LEN
      BY ZenonT(60) DEF InLimits, TextTypes, TextMin, TextMax
    <3> QED BY <3>1, LimitsAssumption, SMT DEF U16
  <2>2. x.type = "Auth" => Len(x.text) \in 1..MAX_AUTH_TOKEN_LEN
    BY ZenonT(60) DEF InLimits, TextTypes, TextMin, TextMax
  <2>3. x.type = "Data" => ~(Len(x.text) > MAX_DATA_PAYLOAD_LEN)
    <3>1. x.type = "Data" => Len(x.text) <= MAX_DATA_PAYLOAD_LEN
      BY ZenonT(60) DEF InLimits
    <3> QED BY <1>1, <3>1, DataLimit, SMT
  <2> QED BY <2>1, <2>2, <2>3, ZenonT(60) DEF OverLimit
<1> QED BY <1>2, <1>3

\* An encoding is not empty, and keeps to MAX_MESSAGE_BODY_LEN; a framed one to
\* MAX_FRAME_BODY_LEN.
LEMMA BodyLength ==
    ASSUME NEW x, WellFormed(x), InLimits(x)
    PROVE  /\ put_head(x) \o FieldBytes(x) \in Seq(Byte)
           /\ Len(put_head(x) \o FieldBytes(x)) \in 1..MAX_MESSAGE_BODY_LEN
           /\ Framed(x) => Len(put_head(x) \o FieldBytes(x)) <= MAX_FRAME_BODY_LEN
<1>1. /\ MAX_CONNECT_TARGET_LEN \in Nat /\ MAX_DATA_PAYLOAD_LEN \in Nat
      /\ MAX_CONNECT_TARGET_LEN <= MAX_DATA_PAYLOAD_LEN
  BY LimitsAssumption, DataLimit, ZenonT(60) DEF U16
<1>2. PICK f \in Seq(Byte) : f = FieldBytes(x)
  BY GetField, ZenonT(60)
<1>3. PICK h \in Seq(Byte) : h = put_head(x) /\ Len(h) = IF x.type = "Auth" THEN 1 ELSE 5
  BY <1>2, HeadAndFields, ZenonT(60)
<1>4. h \o f \in Seq(Byte) /\ Len(h \o f) = Len(h) + Len(f)
  BY Cut
<1>5. x.text \in Seq(Byte) /\ Len(x.text) \in Nat
  <2>1. x.text \in Seq(Byte)
    BY ZenonT(60) DEF WellFormed
  <2> QED BY <2>1, SMT
<1>6. Len(h) \in 1..5 /\ Len(f) \in Nat
  BY <1>3, SMT
<1>7. x.type \in TextTypes => Len(f) <= MAX_CONNECT_TARGET_LEN + 2
  <2> SUFFICES ASSUME x.type \in TextTypes PROVE Len(f) <= MAX_CONNECT_TARGET_LEN + 2
    OBVIOUS
  <2>1. f = be_u16(Len(x.text)) \o x.text /\ Len(x.text) \in TextMin(x.type)..TextMax(x.type)
    BY <1>2, ZenonT(60) DEF FieldBytes, InLimits
  <2>2. /\ TextMin(x.type) \in Nat /\ TextMax(x.type) \in U16 /\ TextMax(x.type) \in Nat
        /\ TextMax(x.type) <= MAX_CONNECT_TARGET_LEN
    BY TextLimits
  <2>3. Len(x.text) <= TextMax(x.type)
    BY <1>5, <2>1, <2>2, SMT
  <2>4. Len(x.text) \in U16
    BY <1>5, <2>2, <2>3, U16Below, ZenonT(60)
  <2>5. PICK p \in Seq(Byte) : p = be_u16(Len(x.text)) /\ Len(p) = 2
    BY <2>4, BeU16, ZenonT(60)
  <2>6. Len(f) = Len(p) + Len(x.text)
    BY <1>5, <2>1, <2>5, Cut, ZenonT(60)
  <2> QED BY <1>1, <1>5, <2>2, <2>3, <2>5, <2>6, SMTT(30)
<1>8. x.type \notin TextTypes => Len(f) <= MAX_DATA_PAYLOAD_LEN + 4
  <2>1. CASE x.type = "Data"
    <3>1. f = be_u32(Len(x.text)) \o x.text /\ Len(x.text) <= MAX_DATA_PAYLOAD_LEN
      BY <1>2, <2>1, Kinds, ZenonT(60) DEF FieldBytes, InLimits
    <3>2. Len(x.text) \in U32
      BY <1>5, <3>1, DataLimit, U32Below, ZenonT(60)
    <3>3. PICK p \in Seq(Byte) : p = be_u32(Len(x.text)) /\ Len(p) = 4
      BY <3>2, BeU32, ZenonT(60)
    <3>4. Len(f) = Len(p) + Len(x.text)
      BY <1>5, <3>1, <3>3, Cut, ZenonT(60)
    <3> QED BY <1>1, <1>5, <3>1, <3>3, <3>4, SMT
  <2>2. CASE x.type = "WindowUpdate"
    <3>1. Len(f) = 4
      BY <1>2, <2>2, Kinds, BeU32, ZenonT(60) DEF FieldBytes, WellFormed
    <3> QED BY <1>1, <3>1, SMT
  <2>3. CASE x.type \notin TextTypes \cup {"Data", "WindowUpdate"}
    <3>1. f = <<>>
      BY <1>2, <2>3, ZenonT(60) DEF FieldBytes
    <3> QED BY <1>1, <3>1, SMT
  <2> QED BY <2>1, <2>2, <2>3, ZenonT(60)
<1>9. Framed(x) => x.type \in TextTypes \/ Len(f) = 0
  <2>1. x.type = "ConnectOk" => f = <<>>
    BY <1>2, ZenonT(60) DEF FieldBytes, TextTypes
  <2> QED BY <2>1 DEF Framed, TextTypes
<1>a. Len(h \o f) \in 1..MAX_MESSAGE_BODY_LEN
  <2>1. Len(f) <= MAX_DATA_PAYLOAD_LEN + 4
    <3>1. CASE x.type \in TextTypes
      <4>1. Len(f) <= MAX_CONNECT_TARGET_LEN + 2
        BY <1>7, <3>1
      <4> QED BY <1>1, <1>6, <4>1, SMT
    <3> QED BY <1>8, <3>1, ZenonT(60)
  <2>2. Len(h) + Len(f) \in 1..(MAX_DATA_PAYLOAD_LEN + 9)
    <3>1. ASSUME NEW a \in 1..5, NEW b \in Nat, b <= MAX_DATA_PAYLOAD_LEN + 4
          PROVE  a + b \in 1..(MAX_DATA_PAYLOAD_LEN + 9)
      BY <1>1, <3>1, SMT
    <3> QED BY <1>6, <2>1, <3>1, ZenonT(60)
  <2> QED BY <1>4, <2>2, ZenonT(60) DEF MAX_MESSAGE_BODY_LEN
<1>b. Framed(x) => Len(h \o f) <= MAX_FRAME_BODY_LEN
  <2> SUFFICES ASSUME Framed(x) PROVE Len(h \o f) <= MAX_FRAME_BODY_LEN
    OBVIOUS
  <2>1. Len(f) <= MAX_CONNECT_TARGET_LEN + 2
    <3>1. CASE Len(f) = 0
      BY <1>1, <3>1, SMT
    <3> QED BY <1>7, <1>9, <3>1, ZenonT(60)
  <2>2. Len(h) + Len(f) <= MAX_CONNECT_TARGET_LEN + 7
    <3>1. ASSUME NEW a \in 1..5, NEW b \in Nat, b <= MAX_CONNECT_TARGET_LEN + 2
          PROVE  a + b <= MAX_CONNECT_TARGET_LEN + 7
      BY <1>1, <3>1, SMT
    <3> QED BY <1>6, <2>1, <3>1, ZenonT(60)
  <2> QED BY <1>4, <2>2, ZenonT(60) DEF MAX_FRAME_BODY_LEN
<1> QED BY <1>2, <1>3, <1>4, <1>a, <1>b, ZenonT(60)

\* What is not refused decodes to what it is meant to be, and fits its carrier.
LEMMA RoundTrip ==
    ASSUME NEW m, WellFormed(m), ~OverLimit(m)
    PROVE  /\ encode(m) \in Seq(Byte) /\ Len(encode(m)) \in 1..MAX_MESSAGE_BODY_LEN
           /\ Framed(m) => Len(encode(m)) <= MAX_FRAME_BODY_LEN
           /\ decode(encode(m)) = Meant(m) /\ Meant(m) # Bad
<1>1. PICK x : x = Meant(m) /\ WellFormed(x) /\ InLimits(x) /\ put_head(x) = put_head(m) /\ x.type = m.type
  BY MeantFits, MeantParts
<1>2. encode(m) = put_head(x) \o FieldBytes(x)
  BY <1>1, EncodeForm, ZenonT(60)
<1>3. decode(encode(m)) = x
  BY <1>1, <1>2, DecodesToItself, ZenonT(60)
<1>4. x # Bad
  <2>1. Bad.type = "bad"
    BY DEF Bad, Message
  <2>2. "bad" \notin DOMAIN MessageType
    BY Types DEF TextTypes, BareTypes
  <2> QED BY <1>1, <2>1, <2>2, ZenonT(60) DEF WellFormed
<1>5. Framed(m) => Framed(x)
  BY <1>1, ZenonT(60) DEF Framed
<1> QED BY <1>1, <1>2, <1>3, <1>4, <1>5, BodyLength, ZenonT(60)

\* Two ways to cut a sequence at one place agree.
LEMMA SamePrefix ==
    ASSUME NEW a \in Seq(Byte), NEW b \in Seq(Byte), NEW c \in Seq(Byte), NEW d \in Seq(Byte),
           Len(a) = Len(c), a \o b = c \o d
    PROVE  a = c /\ b = d
<1>1. SubSeq(a \o b, 1, Len(a)) = a /\ SubSeq(a \o b, Len(a) + 1, Len(a \o b)) = b
  BY Cut, ZenonT(60)
<1>2. SubSeq(c \o d, 1, Len(c)) = c /\ SubSeq(c \o d, Len(c) + 1, Len(c \o d)) = d
  BY Cut, ZenonT(60)
<1> QED BY <1>1, <1>2, ZenonT(60)

\* r, with d to come, begins with the body, and tail is what follows it.
BodyAhead(r, d, body, tail) ==
    \E t \in Seq(Byte) : Take(r, Len(body)) = Got(Len(body), body, t) /\ t \o d = tail

\* The body of a frame, once all of it is here.
LEMMA BodyRead ==
    ASSUME NEW r \in Seq(Byte), NEW d \in Seq(Byte), NEW body \in Seq(Byte), NEW tail \in Seq(Byte),
           Len(body) \in 0..Len(r)
    PROVE  r \o d = body \o tail => BodyAhead(r, d, body, tail)
<1>0. SUFFICES ASSUME r \o d = body \o tail
               PROVE  \E t \in Seq(Byte) : Take(r, Len(body)) = Got(Len(body), body, t) /\ t \o d = tail
  BY ZenonT(60) DEF BodyAhead
<1>1. PICK s \in Seq(Byte) : s = SubSeq(r, 1, Len(body)) /\ Len(s) = Len(body)
  BY Joined, ZenonT(60)
<1>2. PICK t \in Seq(Byte) : t = SubSeq(r, Len(body) + 1, Len(r)) /\ r = s \o t
  BY <1>1, Joined, ZenonT(60)
<1>3. (s \o t) \o d = s \o (t \o d) /\ t \o d \in Seq(Byte)
  <2>1. (s \o t) \o d = s \o (t \o d)
    BY Regroup, ZenonT(60)
  <2>2. t \o d \in Seq(Byte)
    BY Cut
  <2> QED BY <2>1, <2>2
<1>4. s \o (t \o d) = body \o tail
  BY <1>0, <1>2, <1>3, ZenonT(60)
<1>5. s = body /\ t \o d = tail
  BY <1>1, <1>3, <1>4, SamePrefix, ZenonT(60)
<1>6. Take(r, Len(body)) = Got(Len(body), body, t)
  BY <1>1, <1>2, <1>5, ZenonT(60) DEF Take, Got
<1> QED BY <1>5, <1>6, ZenonT(60)

\* The length before a body.
LEMMA OneU32 ==
    ASSUME NEW k \in U32, NEW n \in U32, be_u32(k) = be_u32(n)
    PROVE  k = n
  BY BeU32, ZenonT(60)

LEMMA PrefixMoves ==
    ASSUME NEW k \in U32, NEW a \in Seq(Byte), NEW b \in Seq(Byte)
    PROVE  (be_u32(k) \o a) \o b = be_u32(k) \o (a \o b)
<1>1. be_u32(k) \in Seq(Byte)
  BY BeU32
<1> QED BY <1>1, Regroup, ZenonT(60)

LEMMA PrefixLength ==
    ASSUME NEW k \in U32, NEW a \in Seq(Byte)
    PROVE  Len(be_u32(k) \o a) = 4 + Len(a)
<1>1. be_u32(k) \in Seq(Byte) /\ Len(be_u32(k)) = 4
  BY BeU32, ZenonT(60)
<1>2. Len(be_u32(k) \o a) = Len(be_u32(k)) + Len(a)
  BY <1>1, Cut, ZenonT(60)
<1> QED BY <1>1, <1>2, ZenonT(60)

\* The same of the four bytes of a length and the body behind them.
FrameAhead(h, d, body, tail) ==
    \E r \in Seq(Byte) : /\ get_u32(h) = Got(Len(body), <<>>, r)
                         /\ Len(r) = Len(h) - 4 /\ r \o d = body \o tail

\* The length of a frame, once all of it is here.
LEMMA PrefixRead ==
    ASSUME NEW h \in Seq(Byte), NEW d \in Seq(Byte), NEW tail \in Seq(Byte), NEW body \in Seq(Byte),
           Len(body) \in U32, Len(h) >= 4
    PROVE  h \o d = (be_u32(Len(body)) \o body) \o tail => FrameAhead(h, d, body, tail)
<1>0. SUFFICES ASSUME h \o d = (be_u32(Len(body)) \o body) \o tail
               PROVE  \E r \in Seq(Byte) : /\ get_u32(h) = Got(Len(body), <<>>, r)
                                           /\ Len(r) = Len(h) - 4 /\ r \o d = body \o tail
  BY ZenonT(60) DEF FrameAhead
<1>1. PICK k \in U32, r \in Seq(Byte) :
         h = be_u32(k) \o r /\ get_u32(h) = Got(k, <<>>, r) /\ Len(r) = Len(h) - 4
  BY GotU32, ZenonT(60)
<1>2. /\ be_u32(k) \in Seq(Byte) /\ Len(be_u32(k)) = 4
      /\ be_u32(Len(body)) \in Seq(Byte) /\ Len(be_u32(Len(body))) = 4
  BY BeU32
<1>3. (be_u32(k) \o r) \o d = be_u32(k) \o (r \o d)
  BY PrefixMoves, ZenonT(60)
<1>4. (be_u32(Len(body)) \o body) \o tail = be_u32(Len(body)) \o (body \o tail)
  BY PrefixMoves, ZenonT(60)
<1>5. be_u32(k) \o (r \o d) = be_u32(Len(body)) \o (body \o tail)
  BY <1>0, <1>1, <1>3, <1>4, ZenonT(60)
<1>6. r \o d \in Seq(Byte) /\ body \o tail \in Seq(Byte)
  BY Cut
<1>7. be_u32(k) = be_u32(Len(body)) /\ r \o d = body \o tail
  BY <1>2, <1>5, <1>6, SamePrefix, ZenonT(60)
<1>8. k = Len(body)
  BY <1>7, OneU32, ZenonT(60)
<1> QED BY <1>1, <1>7, <1>8, ZenonT(60)

\* At whichever byte of the stream read_frame looks.
LEMMA FrameRead ==
    ASSUME NEW m, WellFormed(m), ~OverLimit(m), Framed(m),
           NEW h \in Seq(Byte), NEW d \in Seq(Byte), NEW tail \in Seq(Byte)
    PROVE  h \o d = frame(m) \o tail =>
              /\ (read_frame(h).state = "wait") <=> (Len(h) < Len(frame(m)))
              /\ read_frame(h).state # "wait" =>
                    /\ read_frame(h).state = "ok" /\ read_frame(h).message = Meant(m)
                    /\ read_frame(h).rest \in Seq(Byte) /\ read_frame(h).rest \o d = tail
<1>0. SUFFICES ASSUME h \o d = frame(m) \o tail
               PROVE  /\ (read_frame(h).state = "wait") <=> (Len(h) < Len(frame(m)))
                      /\ read_frame(h).state # "wait" =>
                            /\ read_frame(h).state = "ok" /\ read_frame(h).message = Meant(m)
                            /\ read_frame(h).rest \in Seq(Byte) /\ read_frame(h).rest \o d = tail
  BY ZenonT(60)
<1>1. PICK body \in Seq(Byte) : /\ body = encode(m) /\ Len(body) \in 1..MAX_FRAME_BODY_LEN
                                /\ decode(body) = Meant(m) /\ Meant(m) # Bad
  <2>1. /\ encode(m) \in Seq(Byte) /\ Len(encode(m)) \in 1..MAX_MESSAGE_BODY_LEN
        /\ Len(encode(m)) <= MAX_FRAME_BODY_LEN
    BY RoundTrip, ZenonT(60)
  <2>2. Len(encode(m)) \in 1..MAX_FRAME_BODY_LEN
    BY <2>1, LimitsAssumption, SMT DEF MAX_FRAME_BODY_LEN, U16
  <2> QED BY <2>1, <2>2, RoundTrip, ZenonT(60)
<1>2. Len(body) \in U32 /\ Len(body) \in Nat /\ Len(body) >= 1
  BY <1>1, LimitsAssumption, SMT DEF MAX_FRAME_BODY_LEN, U16, U32
<1>3. frame(m) = be_u32(Len(body)) \o body
  <2>1. body # Refused
    BY <1>2, SMT DEF Refused
  <2> QED BY <1>1, <2>1, ZenonT(60) DEF frame
<1>4. Len(frame(m)) = 4 + Len(body)
  <2>1. Len(be_u32(Len(body)) \o body) = 4 + Len(body)
    BY <1>2, PrefixLength, ZenonT(60)
  <2> QED BY <1>3, <2>1, ZenonT(60)
<1>5. CASE Len(h) < 4
  <2>1. read_frame(h) = Reading("wait", Bad, h)
    BY <1>5, ZenonT(60) DEF read_frame, get_u32
  <2>2. Len(h) < Len(frame(m))
    BY <1>2, <1>4, <1>5, SMTT(30)
  <2> QED BY <2>1, <2>2 DEF Reading
<1>6. CASE ~(Len(h) < 4)
  <2>1. Len(h) >= 4
    BY <1>6, SMT
  <2>2. PICK r \in Seq(Byte) : /\ get_u32(h) = Got(Len(body), <<>>, r)
                               /\ Len(r) = Len(h) - 4 /\ r \o d = body \o tail
    <3>1. h \o d = (be_u32(Len(body)) \o body) \o tail
      BY <1>0, <1>3, ZenonT(60)
    <3>2. FrameAhead(h, d, body, tail)
      BY <1>2, <2>1, <3>1, PrefixRead, ZenonT(60)
    <3> QED BY <3>2, ZenonT(60) DEF FrameAhead
  <2>3. /\ get_u32(h) # Short /\ get_u32(h).value = Len(body) /\ get_u32(h).rest = r
        /\ get_u32(h).value \in 1..MAX_FRAME_BODY_LEN
    BY <1>1, <1>2, <2>2, NotShort, SMTT(30) DEF Got
  <2>4. CASE Len(r) < Len(body)
    <3>1. read_frame(h) = Reading("wait", Bad, h)
      BY <2>3, <2>4, ZenonT(60) DEF read_frame
    <3>2. Len(h) < Len(frame(m))
      BY <1>2, <1>4, <2>2, <2>4, SMTT(30)
    <3> QED BY <3>1, <3>2 DEF Reading
  <2>5. CASE ~(Len(r) < Len(body))
    <3>1. Len(body) \in 0..Len(r) /\ ~(Len(h) < Len(frame(m)))
      BY <1>2, <1>4, <2>2, <2>5, SMT
    <3>2. PICK t \in Seq(Byte) : Take(r, Len(body)) = Got(Len(body), body, t) /\ t \o d = tail
      <4>1. r \o d = body \o tail
        BY <2>2, ZenonT(60)
      <4>2. BodyAhead(r, d, body, tail)
        BY <3>1, <4>1, BodyRead, ZenonT(60)
      <4> QED BY <4>2, ZenonT(60) DEF BodyAhead
    <3>3. Take(r, Len(body)).text = body /\ Take(r, Len(body)).rest = t
      BY <3>2, GotParts
    <3>4. read_frame(h) = Reading("ok", Meant(m), t)
      BY <1>1, <2>3, <2>5, <3>3, ZenonT(60) DEF read_frame
    <3> QED BY <3>1, <3>2, <3>4, SMTT(30) DEF Reading
  <2> QED BY <2>4, <2>5
<1> QED BY <1>5, <1>6, ZenonT(60)

-----------------------------------------------------------------------------
\* The exchange of one message, as far as it has come.
CodecInv ==
    /\ DOMAIN line = {"carrier", "sent", "due", "here", "tail", "read"}
    /\ line.carrier \in {"idle", "message", "stream"}
    /\ line.carrier = "idle" => line = Line("idle", Bad, <<>>, <<>>, <<>>)
    /\ line.carrier = "message" =>
          /\ line.due = <<>>
          /\ \/ line.sent \in Messages /\ line.here = encode(line.sent)
             \/ line.sent = Bad /\ line.here \in Bodies
          /\ line.read = Reading("wait", Bad, <<>>) \/ line.read = Reading("ok", decode(line.here), <<>>)
    /\ line.carrier = "stream" =>
          /\ line.sent \in Messages /\ Framed(line.sent) /\ frame(line.sent) # Refused
          /\ line.tail \in Tails /\ line.here \in Seq(Byte) /\ line.due \in Seq(Byte)
          /\ \/ /\ line.read = Reading("wait", Bad, <<>>)
                /\ line.here \o line.due = frame(line.sent) \o line.tail
             \/ /\ line.read.state = "ok" /\ line.read.message = Meant(line.sent)
                /\ line.here \o line.due = line.tail

\* What the exchange of a message begins with.
LEMMA LineParts ==
    ASSUME NEW l, NEW carrier, NEW m, NEW due, NEW here, NEW tail, l = Line(carrier, m, due, here, tail)
    PROVE  /\ DOMAIN l = {"carrier", "sent", "due", "here", "tail", "read"}
           /\ l.carrier = carrier /\ l.sent = m /\ l.due = due /\ l.here = here /\ l.tail = tail
           /\ l.read = Reading("wait", Bad, <<>>)
  BY DEF Line

\* A frame that is written is one of a message within its limits.
LEMMA Unrefused ==
    ASSUME NEW m \in Messages, frame(m) # Refused
    PROVE  WellFormed(m) /\ ~OverLimit(m)
<1>1. WellFormed(m)
  BY InputsAssumption
<1>2. encode(m) # Refused
  BY ZenonT(60) DEF frame
<1> QED BY <1>1, <1>2, EncodeRefuses, ZenonT(60)

LEMMA FrameBytes ==
    ASSUME NEW m \in Messages, frame(m) # Refused, Framed(m)
    PROVE  frame(m) \in Seq(Byte)
<1>1. /\ encode(m) \in Seq(Byte) /\ Len(encode(m)) \in 1..MAX_MESSAGE_BODY_LEN
      /\ Len(encode(m)) <= MAX_FRAME_BODY_LEN
  BY Unrefused, RoundTrip, ZenonT(60)
<1>2. Len(encode(m)) \in U32
  BY <1>1, LimitsAssumption, SMT DEF MAX_FRAME_BODY_LEN, U16, U32
<1>3. frame(m) = be_u32(Len(encode(m))) \o encode(m)
  BY ZenonT(60) DEF frame
<1> QED BY <1>1, <1>2, <1>3, BeU32, Cut, ZenonT(60)

\* CodecInv holds at first, and every step keeps it.
LEMMA CodecInitInv == CodecInit => CodecInv
<1> SUFFICES ASSUME CodecInit PROVE CodecInv
  OBVIOUS
<1>1. line = Line("idle", Bad, <<>>, <<>>, <<>>)
  BY ZenonT(60) DEF CodecInit
<1>2. line.carrier = "idle" /\ DOMAIN line = {"carrier", "sent", "due", "here", "tail", "read"}
  BY <1>1, LineParts
<1> QED BY <1>1, <1>2, ZenonT(60) DEF CodecInv

LEMMA SendMessageKeeps ==
    ASSUME NEW m \in Messages, SendMessage(m)
    PROVE  CodecInv'
<1>1. line' = Line("message", m, <<>>, encode(m), <<>>)
  BY ZenonT(60) DEF SendMessage
<1>2. /\ line'.carrier = "message" /\ line'.sent = m /\ line'.due = <<>> /\ line'.here = encode(m)
      /\ line'.read = Reading("wait", Bad, <<>>)
      /\ DOMAIN line' = {"carrier", "sent", "due", "here", "tail", "read"}
  BY <1>1 DEF Line
<1> QED BY <1>2, ZenonT(60) DEF CodecInv

LEMMA OtherMessageKeeps ==
    ASSUME NEW b \in Bodies, OtherMessage(b)
    PROVE  CodecInv'
<1>1. line' = Line("message", Bad, <<>>, b, <<>>)
  BY ZenonT(60) DEF OtherMessage
<1>2. /\ line'.carrier = "message" /\ line'.sent = Bad /\ line'.due = <<>> /\ line'.here = b
      /\ line'.read = Reading("wait", Bad, <<>>)
      /\ DOMAIN line' = {"carrier", "sent", "due", "here", "tail", "read"}
  BY <1>1, SMTT(30) DEF Line
<1> QED BY <1>2, ZenonT(60) DEF CodecInv

LEMMA WriteFrameKeeps ==
    ASSUME NEW m \in Messages, NEW tail \in Tails, Framed(m), WriteFrame(m, tail)
    PROVE  CodecInv'
<1>0. PICK due : due = frame(m) \o tail
  BY ZenonT(60)
<1>1. frame(m) # Refused /\ line' = Line("stream", m, due, <<>>, tail)
  BY <1>0, ZenonT(60) DEF WriteFrame
<1>2. /\ line'.carrier = "stream" /\ line'.sent = m /\ line'.due = due
      /\ line'.here = <<>> /\ line'.tail = tail /\ line'.read = Reading("wait", Bad, <<>>)
      /\ DOMAIN line' = {"carrier", "sent", "due", "here", "tail", "read"}
  BY <1>1, ZenonT(60) DEF Line
<1>3. frame(m) \in Seq(Byte)
  BY <1>1, FrameBytes, ZenonT(60)
<1>4. tail \in Seq(Byte) /\ <<>> \in Seq(Byte)
  BY InputsAssumption, SMTT(30)
<1>5. frame(m) \o tail \in Seq(Byte)
  BY <1>3, <1>4, Cut, ZenonT(60)
<1>6. <<>> \o (frame(m) \o tail) = frame(m) \o tail
  BY <1>5, NothingAdded
<1> QED BY <1>0, <1>1, <1>2, <1>4, <1>5, <1>6, ZenonT(60) DEF CodecInv

LEMMA ReadMessageKeeps ==
    ASSUME CodecInv, ReadMessage
    PROVE  CodecInv'
<1>1. line.carrier = "message" /\ line' = [line EXCEPT !.read = Reading("ok", decode(line.here), <<>>)]
  BY DEF ReadMessage
<1>2. DOMAIN line = {"carrier", "sent", "due", "here", "tail", "read"}
  BY ZenonT(60) DEF CodecInv
<1>3. /\ line'.carrier = "message" /\ line'.sent = line.sent /\ line'.due = line.due
      /\ line'.here = line.here /\ line'.read = Reading("ok", decode(line.here), <<>>)
      /\ DOMAIN line' = {"carrier", "sent", "due", "here", "tail", "read"}
  BY <1>1, <1>2
<1> QED BY <1>1, <1>3, ZenonT(60) DEF CodecInv

LEMMA ArriveKeeps ==
    ASSUME CodecInv, Arrive
    PROVE  CodecInv'
<1>1. line.due # <<>> /\ line' = [line EXCEPT !.here = Append(@, Head(line.due)), !.due = Tail(@)]
  BY DEF Arrive
<1>2. DOMAIN line = {"carrier", "sent", "due", "here", "tail", "read"}
  BY ZenonT(60) DEF CodecInv
<1>3. /\ line'.carrier = line.carrier /\ line'.sent = line.sent /\ line'.tail = line.tail
      /\ line'.read = line.read /\ line'.here = Append(line.here, Head(line.due)) /\ line'.due = Tail(line.due)
      /\ DOMAIN line' = {"carrier", "sent", "due", "here", "tail", "read"}
  BY <1>1, <1>2, ZenonT(60)
<1>4. line.carrier = "stream"
  <2>1. line.carrier # "idle"
    <3>1. line.carrier = "idle" => line = Line("idle", Bad, <<>>, <<>>, <<>>)
      BY ZenonT(60) DEF CodecInv
    <3> QED BY <1>1, <3>1 DEF Line
  <2> QED BY <1>1, <2>1, ZenonT(60) DEF CodecInv
<1>5. line.here \in Seq(Byte) /\ line.due \in Seq(Byte)
  BY <1>4, ZenonT(60) DEF CodecInv
<1>6. PICK h \in Seq(Byte), d \in Seq(Byte) : h = line.here /\ d = line.due /\ d # <<>>
  BY <1>1, <1>5, ZenonT(60)
<1>7. /\ Append(h, Head(d)) \in Seq(Byte) /\ Tail(d) \in Seq(Byte)
      /\ Append(h, Head(d)) \o Tail(d) = h \o d
  BY <1>6, MoveOne, ZenonT(60)
<1>8. line'.here \in Seq(Byte) /\ line'.due \in Seq(Byte) /\ line'.here \o line'.due = line.here \o line.due
  BY <1>3, <1>6, <1>7, ZenonT(60)
<1> QED BY <1>3, <1>4, <1>8, ZenonT(60) DEF CodecInv

LEMMA ReadFrameKeeps ==
    ASSUME CodecInv, ReadFrame
    PROVE  CodecInv'
<1>1. /\ line.carrier = "stream" /\ line.read.state = "wait" /\ read_frame(line.here).state # "wait"
      /\ line' = [line EXCEPT !.read = read_frame(line.here), !.here = read_frame(line.here).rest]
  BY DEF ReadFrame
<1>2. DOMAIN line = {"carrier", "sent", "due", "here", "tail", "read"}
  BY ZenonT(60) DEF CodecInv
<1>3. /\ line'.carrier = line.carrier /\ line'.sent = line.sent /\ line'.tail = line.tail
      /\ line'.read = read_frame(line.here) /\ line'.here = read_frame(line.here).rest
      /\ line'.due = line.due /\ DOMAIN line' = {"carrier", "sent", "due", "here", "tail", "read"}
  <2>1. PICK got, rest : got = read_frame(line.here) /\ rest = read_frame(line.here).rest
    OBVIOUS
  <2>2. line' = [line EXCEPT !.read = got, !.here = rest]
    BY <1>1, <2>1, ZenonT(60)
  <2>3. /\ line'.carrier = line.carrier /\ line'.sent = line.sent /\ line'.tail = line.tail
        /\ line'.read = got /\ line'.here = rest /\ line'.due = line.due
        /\ DOMAIN line' = {"carrier", "sent", "due", "here", "tail", "read"}
    BY <1>2, <2>2, ZenonT(60)
  <2> QED BY <2>1, <2>3, ZenonT(60)
<1>4. /\ line.sent \in Messages /\ Framed(line.sent) /\ frame(line.sent) # Refused
      /\ line.tail \in Tails /\ line.here \in Seq(Byte) /\ line.due \in Seq(Byte)
      /\ line.here \o line.due = frame(line.sent) \o line.tail
  BY <1>1, ZenonT(60) DEF CodecInv
<1>5. line.tail \in Seq(Byte)
  BY <1>4, InputsAssumption, ZenonT(60)
<1>6. WellFormed(line.sent) /\ ~OverLimit(line.sent)
  BY <1>4, Unrefused, ZenonT(60)
<1>7. /\ read_frame(line.here).state = "ok" /\ read_frame(line.here).message = Meant(line.sent)
      /\ read_frame(line.here).rest \in Seq(Byte) /\ read_frame(line.here).rest \o line.due = line.tail
  <2>1. read_frame(line.here).state # "wait" =>
           /\ read_frame(line.here).state = "ok" /\ read_frame(line.here).message = Meant(line.sent)
           /\ read_frame(line.here).rest \in Seq(Byte) /\ read_frame(line.here).rest \o line.due = line.tail
    <3>a. PICK m : m = line.sent
      OBVIOUS
    <3>b. PICK h \in Seq(Byte) : h = line.here
      BY <1>4, ZenonT(60)
    <3>c. PICK d \in Seq(Byte) : d = line.due
      BY <1>4, ZenonT(60)
    <3>d. PICK tail \in Seq(Byte) : tail = line.tail
      BY <1>5, ZenonT(60)
    <3>1. m = line.sent /\ h = line.here /\ d = line.due /\ tail = line.tail
      BY <3>a, <3>b, <3>c, <3>d, ZenonT(60)
    <3>2. WellFormed(m) /\ ~OverLimit(m) /\ Framed(m) /\ h \o d = frame(m) \o tail
      BY <1>4, <1>6, <3>1, ZenonT(60)
    <3>3. read_frame(h).state # "wait" =>
             /\ read_frame(h).state = "ok" /\ read_frame(h).message = Meant(m)
             /\ read_frame(h).rest \in Seq(Byte) /\ read_frame(h).rest \o d = tail
      BY <3>2, FrameRead, ZenonT(60)
    <3> QED BY <3>1, <3>3, ZenonT(60)
  <2> QED BY <1>1, <2>1, ZenonT(60)
<1> QED BY <1>1, <1>3, <1>4, <1>7, ZenonT(60) DEF CodecInv

LEMMA CodecInvariance == CodecSpec => []CodecInv
<1>1. CodecInv /\ [CodecNext]_line => CodecInv'
  <2> SUFFICES ASSUME CodecInv, [CodecNext]_line PROVE CodecInv'
    OBVIOUS
  <2>1. CASE CodecNext
    BY <2>1, SendMessageKeeps, OtherMessageKeeps, WriteFrameKeeps, ReadMessageKeeps, ArriveKeeps,
       ReadFrameKeeps, ZenonT(60) DEF CodecNext, Begin
  <2>2. CASE UNCHANGED line
    BY <2>2, ZenonT(60) DEF CodecInv
  <2> QED BY <2>1, <2>2
<1> QED BY <1>1, CodecInitInv, PTL DEF CodecSpec

\* encode and decode are inverses at every limit: for all limits, messages and bodies, what
\* is not refused decodes to what was meant and fits a WebSocket message, what is refused is
\* over a limit, and a body that decodes is the only encoding of what it decodes to.
THEOREM CodecRoundTrips == CodecSpec => []CodecInverse
<1>1. CodecInv => CodecInverse
  <2> SUFFICES ASSUME CodecInv, line.carrier = "message", line.read.state = "ok"
               PROVE  LET got == line.read.message IN
                      IF line.sent = Bad THEN got # Bad => encode(got) = line.here
                      ELSE IF OverLimit(line.sent) THEN line.here = Refused
                      ELSE got = Meant(line.sent) /\ Len(line.here) <= MAX_MESSAGE_BODY_LEN
    BY ZenonT(60) DEF CodecInverse
  <2>1. line.read.message = decode(line.here)
    <3>1. line.read = Reading("wait", Bad, <<>>) \/ line.read = Reading("ok", decode(line.here), <<>>)
      BY ZenonT(60) DEF CodecInv
    <3> QED BY <3>1 DEF Reading
  <2>2. CASE line.sent = Bad /\ line.here \in Bodies
    <3>1. line.here \in Seq(Byte)
      BY <2>2, InputsAssumption
    <3>2. ASSUME decode(line.here) # Bad PROVE encode(decode(line.here)) = line.here
      <4>1. PICK x : /\ x = decode(line.here) /\ WellFormed(x) /\ InLimits(x)
                     /\ line.here = put_head(x) \o FieldBytes(x)
        BY <3>1, <3>2, DecodedIsEncoded, ZenonT(60)
      <4>2. Meant(x) = x /\ ~OverLimit(x)
        BY <4>1, MeantItself, ZenonT(60)
      <4>3. encode(x) = put_head(x) \o FieldBytes(x)
        BY <4>1, <4>2, EncodeForm, ZenonT(60)
      <4> QED BY <4>1, <4>3, ZenonT(60)
    <3> QED BY <2>1, <2>2, <3>2, ZenonT(60)
  <2>3. CASE line.sent \in Messages /\ line.here = encode(line.sent)
    <3>1. WellFormed(line.sent)
      BY <2>3, InputsAssumption, ZenonT(60)
    <3>2. line.sent # Bad
      <4>1. Bad.type = "bad"
        BY ZenonT(60) DEF Bad, Message
      <4>2. "bad" \notin DOMAIN MessageType
        BY Types, ZenonT(60) DEF TextTypes, BareTypes
      <4> QED BY <3>1, <4>1, <4>2, ZenonT(60) DEF WellFormed
    <3>3. OverLimit(line.sent) => line.here = Refused
      BY <2>3, <3>1, EncodeRefuses, ZenonT(60)
    <3>4. ~OverLimit(line.sent) => /\ decode(line.here) = Meant(line.sent)
                                   /\ Len(line.here) \in 1..MAX_MESSAGE_BODY_LEN
      BY <2>3, <3>1, RoundTrip, ZenonT(60)
    <3>5. ~OverLimit(line.sent) => Len(line.here) <= MAX_MESSAGE_BODY_LEN
      <4>1. MAX_MESSAGE_BODY_LEN \in Int
        BY DataLimit, SMTT(30) DEF MAX_MESSAGE_BODY_LEN
      <4> QED BY <3>4, <4>1, SMTT(30)
    <3> QED BY <2>1, <3>2, <3>3, <3>4, <3>5, ZenonT(60)
  <2> QED BY <2>2, <2>3, ZenonT(60) DEF CodecInv
<1> QED BY <1>1, CodecInvariance, PTL

\* Frames delimit themselves: for all limits, messages and payloads behind them, read_frame
\* returns the control message once all of its frame has arrived and never before, takes no
\* part of it for an error, and leaves exactly what follows it on the stream.
THEOREM FramesDelimitThemselves == CodecSpec => []FramesDelimited
<1>1. CodecInv => FramesDelimited
  <2> SUFFICES ASSUME CodecInv, line.carrier = "stream"
               PROVE  IF line.read.state = "wait"
                      THEN (read_frame(line.here).state = "wait") <=> (Len(line.here) < Len(frame(line.sent)))
                      ELSE /\ line.read.state = "ok" /\ line.read.message = Meant(line.sent)
                           /\ line.here \o line.due = line.tail
    BY ZenonT(60) DEF FramesDelimited
  <2>1. /\ line.sent \in Messages /\ Framed(line.sent) /\ frame(line.sent) # Refused
        /\ line.tail \in Tails /\ line.here \in Seq(Byte) /\ line.due \in Seq(Byte)
    BY ZenonT(60) DEF CodecInv
  <2>2. CASE /\ line.read = Reading("wait", Bad, <<>>)
             /\ line.here \o line.due = frame(line.sent) \o line.tail
    <3>1. line.tail \in Seq(Byte)
      BY <2>1, InputsAssumption, ZenonT(60)
    <3>2. WellFormed(line.sent) /\ ~OverLimit(line.sent)
      BY <2>1, Unrefused, ZenonT(60)
    <3>3. (read_frame(line.here).state = "wait") <=> (Len(line.here) < Len(frame(line.sent)))
      BY <2>1, <2>2, <3>1, <3>2, FrameRead, ZenonT(60)
    <3>4. line.read.state = "wait"
      BY <2>2 DEF Reading
    <3> QED BY <3>3, <3>4, ZenonT(60)
  <2>3. CASE /\ line.read.state = "ok" /\ line.read.message = Meant(line.sent)
             /\ line.here \o line.due = line.tail
    BY <2>3, ZenonT(60)
  <2> QED BY <2>2, <2>3, ZenonT(60) DEF CodecInv
<1> QED BY <1>1, CodecInvariance, PTL

-----------------------------------------------------------------------------
\* A task that waits for the socket found it empty, and nothing has come since.
Awake == task \in {"poll", "waiting"} /\ (task = "waiting" => kernel = <<>>)

\* Whatever datagrams arrive, alone or joined, ours or strays, and however many of a batch
\* poll_recv has to refuse, the receiving task is never left asleep with datagrams queued.
THEOREM ReceiverStaysAwake == ObfsSpec => []ReceiverAwake
<1>1. ObfsInit => Awake
  BY ZenonT(60) DEF ObfsInit, Awake
<1>2. Awake /\ [ObfsNext]_obfsVars => Awake'
  <2> SUFFICES ASSUME Awake, [ObfsNext]_obfsVars PROVE Awake'
    BY ZenonT(60)
  <2>1. ASSUME NEW n, NEW size, try_send(n, size) PROVE Awake'
    BY <2>1, ZenonT(60) DEF try_send, Awake
  <2>2. ASSUME NEW buffer, NEW packets, Queue(buffer, packets) PROVE Awake'
    BY <2>2, ZenonT(60) DEF Queue, Awake
  <2>3. ASSUME NEW from, NEW to, Receive(from, to) PROVE Awake'
    BY <2>2, <2>3, ZenonT(60) DEF Receive
  <2>4. CASE Stray
    BY <2>2, <2>4, ZenonT(60) DEF Stray
  <2>5. CASE poll_recv
    BY <2>5, ZenonT(60) DEF poll_recv, AfterBatch, Awake
  <2>6. CASE UNCHANGED obfsVars
    BY <2>6 DEF obfsVars, Awake
  <2> QED BY <2>1, <2>3, <2>4, <2>5, <2>6, ZenonT(60) DEF ObfsNext
<1>3. Awake => ReceiverAwake
  BY DEF Awake, ReceiverAwake
<1> QED BY <1>1, <1>2, <1>3, PTL DEF ObfsSpec

=============================================================================
