----------------------------- MODULE StreamSlots -----------------------------
(***************************************************************************)
(* The stream slots of one ConnectorManager: how `active_streams` follows  *)
(* the tunnels of a session, many at once, over either transport           *)
(* (crates/server/src/connector_manager.rs).                               *)
(*                                                                         *)
(* The slot of a WSS tunnel belongs to its entry in `streams`.  Whoever    *)
(* removes the entry frees the slot: the tunnel task at each of its ends,  *)
(* or the read loop of the session on a Close or a Reset.  Removal takes   *)
(* the lock of the map and the counter is updated after it, so the two are *)
(* separate steps; shutdown() drains the map and then stores 0.            *)
(***************************************************************************)
EXTENDS Integers, FiniteSets

CONSTANTS
    Tunnels,    \* calls of bridge; a tunnel that ended may be bridged again
    Limit,      \* MAX_ACTIVE_STREAMS
    CounterSize \* 2^32, the number of values of an AtomicU32

ASSUME TunnelsAssumption == IsFiniteSet(Tunnels)
ASSUME LimitAssumption == Limit \in Nat \ {0} /\ CounterSize \in Nat /\ Limit < CounterSize

VARIABLES
    link,       \* "quic" | "wss": the Link of the manager, which never changes
    active,     \* active_streams, an AtomicU32
    slot,       \* the slot of each tunnel
    shutdown    \* "no" | "drained" | "done": progress of shutdown()

vars == <<link, active, slot, shutdown>>

\* "none": no slot.  "reserved": counted, the tunnel task runs, its id is in no map.
\* "mapped": its id is in `streams`.  "freeing": taken out, not yet counted off.
Slots == {"none", "reserved", "mapped", "freeing"}

TypeOK ==
    /\ link \in {"quic", "wss"}
    /\ active \in 0..Limit
    /\ slot \in [Tunnels -> Slots]
    /\ shutdown \in {"no", "drained", "done"}

Init ==
    /\ link \in {"quic", "wss"}
    /\ active = 0
    /\ slot = [t \in Tunnels |-> "none"]
    /\ shutdown = "no"

Move(t, to) == slot' = [slot EXCEPT ![t] = to]

\* bridge and try_reserve_stream_slot: one compare-and-swap.  At the limit the caller
\* gets "connector overloaded" and nothing changes.
Reserve(t) ==
    /\ slot[t] = "none"
    /\ active < Limit
    /\ active' = active + 1
    /\ Move(t, "reserved")
    /\ UNCHANGED <<link, shutdown>>

\* wss_tunnel inserts the stream.  Every later return of the tunnel task goes through
\* remove_stream.
MapStream(t) ==
    /\ link = "wss"
    /\ slot[t] = "reserved"
    /\ Move(t, "mapped")
    /\ UNCHANGED <<link, active, shutdown>>

\* Mutant: remove_stream frees the slot whether or not the entry was there.
RemoveAgain(t) ==
    /\ link = "wss"
    /\ slot[t] \in {"mapped", "none"}
    /\ Move(t, "freeing")
    /\ UNCHANGED <<link, active, shutdown>>

\* remove_stream, by the tunnel task or by the read loop.  The second of them finds no
\* entry and returns.
RemoveStream(t) ==
    /\ link = "wss"
    /\ slot[t] = "mapped"
    /\ Move(t, "freeing")
    /\ UNCHANGED <<link, active, shutdown>>

\* quic_tunnel returns.
QuicTunnelEnds(t) ==
    /\ link = "quic"
    /\ slot[t] = "reserved"
    /\ Move(t, "freeing")
    /\ UNCHANGED <<link, active, shutdown>>

\* release_stream_slot: checked_sub leaves 0 alone.
Release(t) ==
    /\ slot[t] = "freeing"
    /\ active' = IF active = 0 THEN 0 ELSE active - 1
    /\ Move(t, "none")
    /\ UNCHANGED <<link, shutdown>>

\* shutdown() drains `streams`; the slots of its entries go with the store below.
Drain ==
    /\ shutdown = "no"
    /\ slot' = [t \in Tunnels |-> IF slot[t] = "mapped" THEN "none" ELSE slot[t]]
    /\ shutdown' = "drained"
    /\ UNCHANGED <<link, active>>

\* active_streams.store(0).
ZeroCount ==
    /\ shutdown = "drained"
    /\ active' = 0
    /\ shutdown' = "done"
    /\ UNCHANGED <<link, slot>>

Next ==
    \/ \E t \in Tunnels :
        \/ Reserve(t) \/ MapStream(t) \/ RemoveStream(t) \/ QuicTunnelEnds(t)
        \/ Release(t)
    \/ Drain \/ ZeroCount

Spec == Init /\ [][Next]_vars

-----------------------------------------------------------------------------
\* The tunnels that own a slot.
Holding == {t \in Tunnels : slot[t] # "none"}

\* Until shutdown, the counter is exactly the number of tunnels that own a slot, however
\* many ends of however many tunnels race to remove the same stream: no slot leaks and
\* none is freed twice.
SlotsExact == shutdown = "no" => active = Cardinality(Holding)

\* Until shutdown, at most MAX_ACTIVE_STREAMS tunnels run.
NeverOverLimit == shutdown = "no" => Cardinality(Holding) <= Limit

\* After shutdown the counter may be too low (tunnels that had reserved before it free
\* their slots later), but never too high and never wrapped: a manager that a request
\* still holds does not report "connector overloaded" for tunnels that are gone.
NeverOvercounts == shutdown = "done" => active <= Cardinality(Holding)

=============================================================================
