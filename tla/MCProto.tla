------------------------------ MODULE MCProto --------------------------------
(***************************************************************************)
(* The parts of the wire protocol: SendCredit, one direction of a stream   *)
(* under flow control, the codec and the obfuscated socket.  They share no *)
(* state, so one of them moves at a time, while the others are as they     *)
(* began: the run has the sum of their states and not the product.         *)
(***************************************************************************)
EXTENDS SendCredit, StreamFlow, Codec, Obfs, SequencesExt

\* Requests of every size up to the window, grants that fit, overshoot and are empty.
MCNeeds == 1..3
MCGrants == {0, 1, 2}

\* Strings of characters of one to four bytes, up to a length beyond every limit.
MCTexts == {s \in SeqOf({97, 195, 169}, 5) \cup SeqOf({97, 226, 130}, 5)
                  \cup SeqOf({240, 159, 166, 128}, 4) : IsUtf8(s)}

MCMessages ==
    {Message(type, id, text, 0) : type \in {"Connect", "ConnectErr", "Data"},
                                  id \in {0, 258, 16909060}, text \in MCTexts}
    \cup {Message("Auth", 0, text, 0) : text \in MCTexts}
    \cup {Message(type, id, <<>>, 0) : type \in {"ConnectOk", "Close", "Reset"}, id \in {0, 258}}
    \cup {Message("WindowUpdate", 7, <<>>, n) : n \in {0, 1, 262144}}

\* The encodings, with a byte changed, dropped or added.
MCBodies ==
    LET whole == {encode(m) : m \in {m \in MCMessages : m.stream_id \in {0, 7, 258}}} IN
    UNION {{b, Append(b, 0), SubSeq(b, 1, Len(b) - 1)} : b \in whole}
    \cup UNION {{[b EXCEPT ![i] = v] : i \in DOMAIN b, v \in {0, 1, 3, 34, 65}} : b \in whole}

MCTails == {<<>>, <<0>>, <<0, 0, 0, 5, 33, 0, 0, 0, 9>>, <<97, 195, 169>>}

MCProtoInit == Init /\ FlowInit /\ CodecInit /\ ObfsInit

MCProtoNext ==
    \/ FlowInit /\ CodecInit /\ ObfsInit /\ Next /\ UNCHANGED <<flowVars, line, obfsVars>>
    \/ Init /\ CodecInit /\ ObfsInit /\ FlowNext /\ UNCHANGED <<vars, line, obfsVars>>
    \/ Init /\ FlowInit /\ ObfsInit /\ CodecNext /\ UNCHANGED <<vars, flowVars, obfsVars>>
    \/ Init /\ FlowInit /\ CodecInit /\ ObfsNext /\ UNCHANGED <<vars, flowVars, line>>

\* Fairness of a part is fairness of its steps once it has begun.
MCProtoSpec ==
    /\ MCProtoInit
    /\ [][MCProtoNext]_<<vars, flowVars, line, obfsVars>>
    /\ WF_vars(Sender /\ UNCHANGED <<flowVars, line, obfsVars>>)
    /\ \A c \in Callers : WF_vars(NotifyWaiters(c) /\ UNCHANGED <<flowVars, line, obfsVars>>)
    /\ WF_flowVars(read > 0 /\ Pump) /\ WF_flowVars(ReceiveData)
    /\ WF_flowVars(DrainLoop) /\ WF_flowVars(ReceiveUpdate)

=============================================================================
