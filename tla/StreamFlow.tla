----------------------------- MODULE StreamFlow -----------------------------
(***************************************************************************)
(* Credit flow control of one direction of one WSS stream: a pump reads    *)
(* chunks from its source, acquires credit, and sends Data; the peer       *)
(* queues them, writes them to its sink, and grants drained bytes back     *)
(* with WindowUpdate.                                                      *)
(*                                                                         *)
(*   download: pump  crates/connector/src/session_manager.rs:171-193,      *)
(*             drain crates/server/src/connector_manager.rs:236-264,       *)
(*             which also polices the window (288-313)                     *)
(*   upload:   pump  crates/server/src/connector_manager.rs:206-234,       *)
(*             drain crates/connector/src/session_manager.rs:194-216       *)
(*                                                                         *)
(* The two directions run the same code except that only the server        *)
(* polices the window, so Polices says which direction a run is about.     *)
(*                                                                         *)
(* A payload is abstracted to the range lo..hi of stream positions that it *)
(* carries (bytes lo+1 to hi of the source); a WindowUpdate likewise to    *)
(* the range of drained positions whose length is its `bytes` field.  The  *)
(* code's counters (send_credit, recv_outstanding, drained_since_grant) are*)
(* variables of their own, kept by the code's arithmetic on lengths.       *)
(***************************************************************************)
EXTENDS Integers, Sequences

CONSTANTS
    RecvWindow, \* STREAM_RECV_WINDOW
    Threshold,  \* WINDOW_UPDATE_THRESHOLD
    Chunk,      \* TUNNEL_READ_CHUNK, the most one read returns
    Capacity,   \* messages the channel to the peer holds (CONNECTOR_CHANNEL_CAPACITY)
    Total,      \* length of the source
    Polices     \* the receiver checks recv_outstanding (the server's side does)

\* The code's constants: 256 KiB, 128 KiB, 32 KiB and 64.  The last conjunct of
\* FlowAssumption is what keeps the pump from starving; 128 + 32 <= 256 + 1.
ASSUME FlowAssumption ==
    /\ RecvWindow \in Nat \ {0} /\ Threshold \in Nat \ {0} /\ Chunk \in Nat \ {0}
    /\ Threshold + Chunk <= RecvWindow + 1
ASSUME CapacityAssumption == Capacity \in Nat \ {0}
ASSUME TotalAssumption == Total \in Nat
ASSUME PolicesAssumption == Polices \in BOOLEAN

VARIABLES
    send_credit, \* the pump's SendCredit
    read,        \* source position the pump has read to
    acquired,    \* position it has acquired credit to
    sent,        \* position it has sent to
    wire,        \* Data under way, oldest first
    outstanding, \* recv_outstanding: received, not yet written to the sink
    queue,       \* to_socket / request_tx: payloads the drain loop has to write
    written,     \* position written to the sink
    drained,     \* drained_since_grant
    grant,       \* 0, or the bytes of the WindowUpdate being sent
    granted,     \* position granted back so far
    updates,     \* WindowUpdates under way, oldest first
    verdict      \* "open" | "overrun": the receiver reset the stream

flowVars == <<send_credit, read, acquired, sent, wire, outstanding, queue, written,
              drained, grant, granted, updates, verdict>>

Span(lo, hi) == [lo |-> lo, hi |-> hi]
Length(r) == r.hi - r.lo
Spans == [lo : Nat, hi : Nat]

FlowTypeOK ==
    /\ send_credit \in 0..RecvWindow
    /\ read \in 0..Total /\ acquired \in 0..Total /\ sent \in 0..Total
    /\ wire \in Seq(Spans) /\ queue \in Seq(Spans) /\ updates \in Seq(Spans)
    /\ outstanding \in Nat
    /\ written \in 0..Total
    /\ drained \in 0..(Threshold - 1)
    /\ grant \in Nat
    /\ granted \in Nat
    /\ verdict \in {"open", "overrun"}

FlowInit ==
    /\ send_credit = RecvWindow
    /\ read = 0 /\ acquired = 0 /\ sent = 0
    /\ wire = <<>>
    /\ outstanding = 0
    /\ queue = <<>>
    /\ written = 0
    /\ drained = 0
    /\ grant = 0 /\ granted = 0
    /\ updates = <<>>
    /\ verdict = "open"

-----------------------------------------------------------------------------
\* The pump: read_buf returns between 1 and Chunk bytes; the next read waits until
\* the chunk is sent.
ReadChunk ==
    /\ read = sent
    /\ \E n \in 1..Chunk : read + n <= Total /\ read' = read + n
    /\ UNCHANGED <<send_credit, acquired, sent, wire, outstanding, queue, written,
                   drained, grant, granted, updates, verdict>>

\* send_credit.acquire(payload.len()), as CreditGate has it.
AcquireChunk ==
    /\ acquired < read
    /\ send_credit >= read - acquired
    /\ send_credit' = send_credit - (read - acquired)
    /\ acquired' = read
    /\ UNCHANGED <<read, sent, wire, outstanding, queue, written,
                   drained, grant, granted, updates, verdict>>

\* tx.send(Data).await: waits for a free place in the channel.
SendData ==
    /\ sent < acquired
    /\ Len(wire) < Capacity
    /\ wire' = Append(wire, Span(sent, acquired))
    /\ sent' = acquired
    /\ UNCHANGED <<send_credit, read, acquired, outstanding, queue, written,
                   drained, grant, granted, updates, verdict>>

\* Mutant: the newest payload is written first.
ReceiveDataLifo ==
    /\ wire # <<>>
    /\ verdict = "open"
    /\ outstanding' = outstanding + Length(Head(wire))
    /\ queue' = <<Head(wire)>> \o queue
    /\ wire' = Tail(wire)
    /\ UNCHANGED <<send_credit, read, acquired, sent, written, drained, grant, granted,
                   updates, verdict>>

\* handle_message(Data): count the bytes, reset a stream past its window, else queue.
ReceiveData ==
    /\ wire # <<>>
    /\ verdict = "open"
    /\ LET payload == Head(wire)
           after == outstanding + Length(payload)
       IN  /\ outstanding' = after
           /\ IF Polices /\ after > RecvWindow
                THEN verdict' = "overrun" /\ queue' = queue
                ELSE verdict' = verdict /\ queue' = Append(queue, payload)
    /\ wire' = Tail(wire)
    /\ UNCHANGED <<send_credit, read, acquired, sent, written, drained, grant, granted, updates>>

-----------------------------------------------------------------------------
\* Mutant: drained_since_grant keeps what was just granted.
DrainNoReset ==
    /\ queue # <<>>
    /\ grant = 0
    /\ LET data == Head(queue)
           total == drained + Length(data)
       IN  /\ written' = data.hi
           /\ outstanding' = outstanding - Length(data)
           /\ drained' = IF total >= Threshold THEN Length(data) ELSE total
           /\ grant' = IF total >= Threshold THEN total ELSE grant
    /\ queue' = Tail(queue)
    /\ UNCHANGED <<send_credit, read, acquired, sent, wire, granted, updates, verdict>>

\* Mutant: every grant is exactly the threshold, and the rest is forgotten.
DrainGrantsThreshold ==
    /\ queue # <<>>
    /\ grant = 0
    /\ LET data == Head(queue)
           total == drained + Length(data)
       IN  /\ written' = data.hi
           /\ outstanding' = outstanding - Length(data)
           /\ IF total >= Threshold
                THEN drained' = 0 /\ grant' = Threshold
                ELSE drained' = total /\ grant' = grant
    /\ queue' = Tail(queue)
    /\ UNCHANGED <<send_credit, read, acquired, sent, wire, granted, updates, verdict>>

\* The drain loop: write_all(&data), count it off, and grant at the threshold.
Drain ==
    /\ queue # <<>>
    /\ grant = 0
    /\ LET data == Head(queue)
           total == drained + Length(data)
       IN  /\ written' = data.hi
           /\ outstanding' = outstanding - Length(data)
           /\ IF total >= Threshold
                THEN drained' = 0 /\ grant' = total
                ELSE drained' = total /\ grant' = grant
    /\ queue' = Tail(queue)
    /\ UNCHANGED <<send_credit, read, acquired, sent, wire, granted, updates, verdict>>

\* tx.send(WindowUpdate).await
SendUpdate ==
    /\ grant > 0
    /\ Len(updates) < Capacity
    /\ updates' = Append(updates, Span(granted, granted + grant))
    /\ granted' = granted + grant
    /\ grant' = 0
    /\ UNCHANGED <<send_credit, read, acquired, sent, wire, outstanding, queue, written,
                   drained, verdict>>

\* handle_message(WindowUpdate): SendCredit::add, capped at the window.
ReceiveUpdate ==
    /\ updates # <<>>
    /\ LET total == send_credit + Length(Head(updates))
       IN  send_credit' = IF total > RecvWindow THEN RecvWindow ELSE total
    /\ updates' = Tail(updates)
    /\ UNCHANGED <<read, acquired, sent, wire, outstanding, queue, written,
                   drained, grant, granted, verdict>>

\* Everything is written and no message is under way: the stream has nothing to do.
Finished ==
    /\ written = Total
    /\ updates = <<>> /\ grant = 0
    /\ UNCHANGED flowVars

Pump == ReadChunk \/ AcquireChunk \/ SendData
DrainLoop == Drain \/ SendUpdate
FlowNext == Pump \/ ReceiveData \/ DrainLoop \/ ReceiveUpdate \/ Finished

FlowSpec == FlowInit /\ [][FlowNext]_flowVars

\* Both pumps are tasks the runtime keeps polling, the two read loops keep reading,
\* and the source and the sink keep up with them.
FlowFairness ==
    /\ WF_flowVars(Pump) /\ WF_flowVars(ReceiveData)
    /\ WF_flowVars(DrainLoop) /\ WF_flowVars(ReceiveUpdate)

-----------------------------------------------------------------------------
\* Positions the counters stand for: received so far, and applied to the credit so far.
Received == IF wire = <<>> THEN sent ELSE Head(wire).lo
Applied == IF updates = <<>> THEN granted ELSE Head(updates).lo

\* Credit is neither lost nor minted: what the pump may still send, plus what it has
\* acquired and not been given back, is the window, and the receiver gives back what
\* it has written.  In particular the cap in SendCredit::add (lib.rs:375-381) never
\* clips an honest peer's grant.
CreditConserved ==
    /\ send_credit + (acquired - Applied) = RecvWindow
    /\ granted + grant + drained = written

\* A peer that follows the protocol is never reset for pushing past the window
\* (connector_manager.rs:297-307), and the unbounded receive queue holds at most one
\* window, as the comment on ActiveStream::to_socket says (33-36).
NeverOverrun == verdict = "open" /\ outstanding <= RecvWindow

\* The pump never starves: when it waits for credit and no message or undrained byte
\* is left that could bring any, it already has the credit it asks for.  Bytes below
\* the threshold, which are never granted back, cannot hold it up.
NoStarvation ==
    (acquired < read /\ wire = <<>> /\ queue = <<>> /\ updates = <<>> /\ grant = 0)
        => send_credit >= read - acquired

\* Every write to the sink continues where the last one ended: payloads are neither
\* reordered, repeated nor skipped between the two pumps.
InOrderDelivery == [][written' # written => Head(queue).lo = written]_flowVars

\* The whole source reaches the sink, once the pump has begun to read it.
AllDelivered == (read > 0) ~> (written = Total)
=============================================================================
