-------------------------------- MODULE Obfs ---------------------------------
(***************************************************************************)
(* The obfuscated UDP socket under QUIC (crates/proto/src/obfs.rs): how a  *)
(* Transmit of several segments grows an IV per segment, and how the       *)
(* receiver finds the segments again in what the kernel hands it.          *)
(*                                                                         *)
(* The cipher is external: a byte under a keystream is the byte marked     *)
(* with the IV of the keystream, and only the same IV takes the mark off.  *)
(* So are segmentation offload, which cuts a Transmit into datagrams of    *)
(* `segment_size`, and receive offload, which joins datagrams of one size  *)
(* and a last shorter one into a buffer with that size as its stride.      *)
(***************************************************************************)
EXTENDS Integers, Sequences, FiniteSetsExt

CONSTANTS
    IV_LEN,         \* bytes of an IV
    MaxContents,    \* bound: bytes of a Transmit
    BatchSize,      \* udp::BATCH_SIZE
    MaxStrays       \* bound: datagrams from elsewhere

VARIABLES
    air,            \* the datagrams under way
    kernel,         \* the buffers in the receiver's socket, with the packets they hold
    task,           \* the receiving task: "poll", "waiting" for the socket, or "lost"
    taken,          \* the packets handed to quinn
    meant,          \* those that its buffers held
    strays

obfsVars == <<air, kernel, task, taken, meant, strays>>

\* The cells of a datagram: the bytes of an IV, or a byte under its keystream.
IvCells(iv) == [i \in 1..IV_LEN |-> <<iv, -1>>]
Encrypt(iv, chunk) == [i \in DOMAIN chunk |-> <<iv, chunk[i]>>]
Decrypt(iv, cells) == [i \in DOMAIN cells |-> IF cells[i][1] = iv THEN cells[i][2] ELSE -1]

\* The sequences of ss, one behind the other.
Concat(ss) == MapThenFoldSet(LAMBDA s, t : s \o t, <<>>, LAMBDA i : ss[i], Min, DOMAIN ss)

DivCeil(a, b) == (a + b - 1) \div b
\* slice::chunks(size).
Chunks(s, size) ==
    [i \in 1..DivCeil(Len(s), size) |->
        SubSeq(s, (i - 1) * size + 1, IF i * size < Len(s) THEN i * size ELSE Len(s))]

-----------------------------------------------------------------------------
\* Sending.  A segment size of 0 stands for None, which Some(0) is treated like.

effective_segment_size(contents, size) ==
    IF size > 0 /\ size < Len(contents) THEN size
    ELSE IF Len(contents) > 0 THEN Len(contents) ELSE 1

\* The segment_size that the kernel is given.
SegmentSize(contents, size) ==
    LET segment == effective_segment_size(contents, size)
    IN  IF Len(Chunks(contents, segment)) > 1 THEN segment + IV_LEN ELSE 0

\* encode_transmit: each segment behind an IV of its own.
encode_transmit(contents, size) ==
    LET chunks == Chunks(contents, effective_segment_size(contents, size))
    IN  [contents |-> Concat([i \in DOMAIN chunks |-> IvCells(i) \o Encrypt(i, chunks[i])]),
         segment_size |-> SegmentSize(contents, size)]

-----------------------------------------------------------------------------
\* Receiving.  A buffer of the kernel: its bytes, how many of them count, the stride.
Buffer(bytes, stride) == [bytes |-> bytes, len |-> Len(bytes), stride |-> stride]

\* What decrypt_meta_payload leaves of a buffer it refuses.
TooSmall == [bytes |-> <<>>, len |-> 0, stride |-> 0]

\* bytes[at ..] overwritten by `cells` (0-based, as copy_within and apply_keystream do).
Overwritten(bytes, at, cells) ==
    [i \in DOMAIN bytes |-> IF i \in at + 1..at + Len(cells) THEN cells[i - at] ELSE bytes[i]]

\* decrypt_meta_payload works in place: segment by segment, the payload moves down over
\* the IVs before it and is decrypted there.
decrypt_meta_payload(buffer) ==
    LET stride == buffer.stride
        segments == DivCeil(buffer.len, stride)
        End(i) == IF i * stride < buffer.len THEN i * stride ELSE buffer.len
        After[i \in 0..segments] ==
            IF i = 0 THEN [bytes |-> buffer.bytes, write |-> 0]
            ELSE LET before == After[i - 1]
                     start == (i - 1) * stride
                     payload == SubSeq(before.bytes, start + IV_LEN + 1, End(i))
                 IN  [bytes |-> Overwritten(before.bytes, before.write,
                                            Decrypt(before.bytes[start + 1][1], payload)),
                      write |-> before.write + Len(payload)]
    IN  IF \/ buffer.len = 0 \/ stride <= IV_LEN
           \/ \E i \in 1..segments : End(i) - (i - 1) * stride <= IV_LEN
        THEN TooSmall
        ELSE [bytes |-> SubSeq(After[segments].bytes, 1, After[segments].write),
              len |-> After[segments].write, stride |-> stride - IV_LEN]

\* Mutant: the valid buffers are counted but not brought to the front.
KeepAt(s, i, j) == s

\* bufs.swap and udp_meta.swap.
ToFront(s, i, j) ==
    [k \in DOMAIN s |-> IF k = i THEN s[j] ELSE IF k = j THEN s[i] ELSE s[k]]

-----------------------------------------------------------------------------
\* The datagrams of a Transmit on the wire.
Datagrams(t) == IF t.segment_size = 0 THEN (IF t.contents = <<>> THEN <<>> ELSE <<t.contents>>)
                ELSE Chunks(t.contents, t.segment_size)

\* The packets that quinn cuts out of a received buffer.
Packets(buffer) == IF buffer.bytes = <<>> THEN <<>> ELSE Chunks(buffer.bytes, buffer.stride)

Contents(n) == [i \in 1..n |-> i]

ObfsInit == air = <<>> /\ kernel = <<>> /\ task = "poll" /\ taken = <<>> /\ meant = <<>> /\ strays = 0

\* try_send of one Transmit of n bytes; each datagram carries the packet it was made of.
try_send(n, size) ==
    /\ air = <<>> /\ kernel = <<>> /\ taken = <<>> /\ meant = <<>>
    /\ LET sent == Chunks(Contents(n), effective_segment_size(Contents(n), size))
           wire == Datagrams(encode_transmit(Contents(n), size))
       IN  air' = [i \in DOMAIN wire |-> [cells |-> wire[i], packet |-> sent[i]]]
    /\ UNCHANGED <<kernel, task, taken, meant, strays>>

\* A buffer is queued on the socket, which wakes a task that waits for it.
Queue(buffer, packets) ==
    /\ kernel' = Append(kernel, [buffer |-> buffer, packets |-> packets])
    /\ task' = IF task = "waiting" THEN "poll" ELSE task
    /\ UNCHANGED <<taken, meant>>

\* Datagrams from..to arrive, joined by the kernel; those before them are lost.
Receive(from, to) ==
    /\ Queue(Buffer(Concat([i \in 1..(to - from + 1) |-> air[from + i - 1].cells]),
                    Len(air[from].cells)),
             [i \in 1..(to - from + 1) |-> air[from + i - 1].packet])
    /\ air' = SubSeq(air, to + 1, Len(air))
    /\ UNCHANGED strays

\* A datagram no longer than an IV arrives, alone or joined behind the next one of ours.
Stray ==
    /\ strays < MaxStrays /\ strays' = strays + 1
    /\ \/ Queue(Buffer(IvCells(9), IV_LEN), <<>>) /\ UNCHANGED air
       \/ /\ air # <<>>
          /\ Queue(Buffer(Head(air).cells \o IvCells(9), Len(Head(air).cells)), <<>>)
          /\ air' = Tail(air)

\* Mutant: a batch with nothing valid leaves the task without a waker.
PendingUnwoken(valid) == IF valid = 0 THEN "lost" ELSE "poll"

\* Ready, and quinn polls again; or Pending after wake_by_ref.
AfterBatch(valid) == "poll"

\* poll_recv: no datagram leaves the task to the socket's readiness.  Otherwise one batch
\* is decrypted, each valid buffer swapped to the front and counted.
poll_recv ==
    /\ task = "poll"
    /\ LET batch == SubSeq(kernel, 1, IF Len(kernel) < BatchSize THEN Len(kernel) ELSE BatchSize)
           plain == [i \in DOMAIN batch |-> decrypt_meta_payload(batch[i].buffer)]
           After[i \in 0..Len(batch)] ==
               IF i = 0 THEN [bufs |-> plain, valid |-> 0]
               ELSE LET before == After[i - 1]
                    IN  IF plain[i] = TooSmall THEN before
                        ELSE [bufs |-> ToFront(before.bufs, before.valid + 1, i),
                              valid |-> before.valid + 1]
           last == After[Len(batch)]
       IN  IF kernel = <<>> THEN task' = "waiting" /\ UNCHANGED <<kernel, taken, meant>>
           ELSE /\ task' = AfterBatch(last.valid)
                /\ taken' = taken \o Concat([i \in 1..last.valid |-> Packets(last.bufs[i])])
                /\ meant' = meant \o Concat([i \in DOMAIN batch |-> batch[i].packets])
                /\ kernel' = SubSeq(kernel, Len(batch) + 1, Len(kernel))
    /\ UNCHANGED <<air, strays>>

ObfsNext ==
    \/ \E n, size \in 0..MaxContents : try_send(n, size)
    \/ \E from \in DOMAIN air : \E to \in from..Len(air) : Receive(from, to)
    \/ Stray
    \/ poll_recv

ObfsSpec == ObfsInit /\ [][ObfsNext]_obfsVars

-----------------------------------------------------------------------------
\* quinn is handed the packets that quinn sent, each with its own bytes and its own end,
\* in the order in which they arrived: whatever the length of the Transmit and its segment
\* size, wherever the kernel cuts the run when it joins datagrams, whichever are lost and
\* whatever stray datagrams stand between them in a batch.
PacketsSurvive == taken = meant

\* The receiving task never sleeps on a socket with datagrams in it: after a batch without
\* a valid one, which consumed the readiness, it has woken itself.
ReceiverAwake == kernel # <<>> => task = "poll"

=============================================================================
