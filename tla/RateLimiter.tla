----------------------------- MODULE RateLimiter -----------------------------
(***************************************************************************)
(* One RateTier of the edge's limiter (crates/server/src/rate_limit.rs): a *)
(* shared map from client key to an Arc of a budget, checked by the        *)
(* request threads with no lock held between the operations on the map,    *)
(* and cleaned by the maintenance task.                                    *)
(*                                                                         *)
(* An entry outlives its place in the map while a thread holds its Arc, so *)
(* entries are numbered, and the map names them.  governor is external: a  *)
(* budget is a bucket of Burst cells that gains one a tick.                *)
(***************************************************************************)
EXTENDS Integers, FiniteSets

CONSTANTS
    Threads,
    Peers,                  \* client addresses: [form, net, host]
    MAX_LIMITER_ENTRIES,
    MAX_LIMITER_IDLE,       \* ticks, not seconds
    Burst

ASSUME LimiterAssumption ==
    /\ IsFiniteSet(Threads) /\ IsFiniteSet(Peers)
    /\ MAX_LIMITER_ENTRIES \in Nat /\ MAX_LIMITER_IDLE \in Nat /\ Burst \in Nat \ {0}

VARIABLES
    clients,        \* key -> entry, or 0
    cells,          \* entry -> cells left
    last_seen,      \* entry -> ticks since last_seen_epoch, to one past the idle limit
    thread,         \* each thread in check: its place, its key, its entry, the key to evict
    owed            \* key -> the budget it may still spend, a history variable

limiterVars == <<clients, cells, last_seen, thread, owed>>

-----------------------------------------------------------------------------
\* IP addresses reduced to keys: a v4 address whole, also when a v6 one carries it, and a
\* v6 one by its /64.
client_key(client) ==
    IF client.form \in {"v4", "mapped"} THEN [net |-> client.net, host |-> client.host]
    ELSE [net |-> client.net, host |-> 0]

Keys == {client_key(peer) : peer \in Peers}
\* As many entries as can be in use: one for each key but that of an insert, and one for
\* each thread but the one inserting, and the new one.
Entries == 1..(Cardinality(Keys) + Cardinality(Threads) - 1)
NoKey == [net |-> 0, host |-> 0]
Never == MAX_LIMITER_IDLE + 1
Resting == [at |-> "idle", key |-> NoKey, entry |-> 0, oldest |-> NoKey]
Present == {k \in Keys : clients[k] # 0}

LimiterInit ==
    /\ clients = [k \in Keys |-> 0]
    /\ cells = [e \in Entries |-> Burst]
    /\ last_seen = [e \in Entries |-> Never]
    /\ thread = [t \in Threads |-> Resting]
    /\ owed = [k \in Keys |-> Burst]

-----------------------------------------------------------------------------
\* check and make_room, a step for each use of the map

Step(t, here, there) == thread[t].at = here /\ thread' = [thread EXCEPT ![t].at = there]

\* clients.get
Get(t, peer) ==
    LET k == client_key(peer) IN
    /\ thread[t].at = "idle"
    /\ thread' = [thread EXCEPT ![t] =
                    [Resting EXCEPT !.at = IF clients[k] = 0 THEN "room" ELSE "store", !.key = k,
                                    !.entry = clients[k]]]
    /\ UNCHANGED <<clients, cells, last_seen, owed>>

\* len, before and after the cleanup
HasRoom(t) ==
    /\ thread[t].at \in {"room", "cleaned"}
    /\ Cardinality(Present) < MAX_LIMITER_ENTRIES
    /\ thread' = [thread EXCEPT ![t].at = "insert"]
    /\ UNCHANGED <<clients, cells, last_seen, owed>>

IsFull(t) ==
    /\ Cardinality(Present) >= MAX_LIMITER_ENTRIES
    /\ Step(t, "room", "clean") \/ Step(t, "cleaned", "pick")
    /\ UNCHANGED <<clients, cells, last_seen, owed>>

\* What retain leaves of the map; a key that goes may come back with a full budget.
Retained == [k \in Keys |-> IF clients[k] # 0 /\ last_seen[clients[k]] <= MAX_LIMITER_IDLE
                            THEN clients[k] ELSE 0]
Forgotten(map) == [k \in Keys |-> IF map[k] = 0 THEN Burst ELSE owed[k]]

cleanup_stale ==
    /\ clients' = Retained
    /\ owed' = Forgotten(Retained)

Clean(t) ==
    /\ Step(t, "clean", "cleaned")
    /\ cleanup_stale
    /\ UNCHANGED <<cells, last_seen>>

\* min_by_key over the map; it may have been emptied.
Pick(t) ==
    /\ thread[t].at = "pick"
    /\ IF Present = {} THEN thread' = [thread EXCEPT ![t].at = "insert"]
       ELSE \E k \in Present :
            /\ \A j \in Present : last_seen[clients[j]] <= last_seen[clients[k]]
            /\ thread' = [thread EXCEPT ![t].at = "evict", ![t].oldest = k]
    /\ UNCHANGED <<clients, cells, last_seen, owed>>

Evict(t) ==
    /\ thread[t].at = "evict"
    /\ clients' = [clients EXCEPT ![thread[t].oldest] = 0]
    /\ owed' = [owed EXCEPT ![thread[t].oldest] = Burst]
    /\ thread' = [thread EXCEPT ![t].at = "insert", ![t].oldest = NoKey]
    /\ UNCHANGED <<cells, last_seen>>

\* A number that neither the map nor a thread uses.
FreeEntry ==
    CHOOSE e \in Entries : (\A k \in Keys : clients[k] # e) /\ (\A t \in Threads : thread[t].entry # e)

\* Mutant: insert in place of or_insert_with.
InsertAlways(t) ==
    LET k == thread[t].key IN
    /\ thread[t].at = "insert"
    /\ clients' = [clients EXCEPT ![k] = FreeEntry]
    /\ cells' = [cells EXCEPT ![FreeEntry] = Burst]
    /\ last_seen' = [last_seen EXCEPT ![FreeEntry] = Never]
    /\ thread' = [thread EXCEPT ![t].at = "store", ![t].entry = FreeEntry]
    /\ UNCHANGED owed

\* entry().or_insert_with: the entry another thread has put there in the meantime, or a
\* new one, whose last_seen_epoch is zero.
Insert(t) ==
    LET k == thread[t].key IN
    /\ thread[t].at = "insert"
    /\ IF clients[k] # 0
       THEN /\ thread' = [thread EXCEPT ![t].at = "store", ![t].entry = clients[k]]
            /\ UNCHANGED <<clients, cells, last_seen>>
       ELSE /\ clients' = [clients EXCEPT ![k] = FreeEntry]
            /\ cells' = [cells EXCEPT ![FreeEntry] = Burst]
            /\ last_seen' = [last_seen EXCEPT ![FreeEntry] = Never]
            /\ thread' = [thread EXCEPT ![t].at = "store", ![t].entry = FreeEntry]
    /\ UNCHANGED owed

Store(t) ==
    /\ Step(t, "store", "spend")
    /\ last_seen' = [last_seen EXCEPT ![thread[t].entry] = 0]
    /\ UNCHANGED <<clients, cells, owed>>

\* limiter.check.  A grant from an entry that has left the map since the thread got it is
\* not one of the budget that the key has now.
Spend(t) ==
    LET e == thread[t].entry  k == thread[t].key IN
    /\ thread[t].at = "spend"
    /\ IF cells[e] > 0
       THEN /\ cells' = [cells EXCEPT ![e] = @ - 1]
            /\ owed' = IF clients[k] = e THEN [owed EXCEPT ![k] = @ - 1] ELSE owed
       ELSE UNCHANGED <<cells, owed>>
    /\ thread' = [thread EXCEPT ![t] = Resting]
    /\ UNCHANGED <<clients, last_seen>>

Check(t) ==
    \/ HasRoom(t) \/ IsFull(t) \/ Clean(t) \/ Pick(t) \/ Evict(t)
    \/ Insert(t) \/ Store(t) \/ Spend(t)

-----------------------------------------------------------------------------
\* maintenance_tick's part.
LimiterMaintenance ==
    /\ cleanup_stale
    /\ UNCHANGED <<cells, last_seen, thread>>

LimiterTick ==
    /\ cells' = [e \in Entries |-> IF cells[e] < Burst THEN cells[e] + 1 ELSE Burst]
    /\ owed' = [k \in Keys |-> IF owed[k] < Burst THEN owed[k] + 1 ELSE Burst]
    /\ last_seen' = [e \in Entries |-> IF last_seen[e] < Never THEN last_seen[e] + 1 ELSE Never]
    /\ UNCHANGED <<clients, thread>>

LimiterNext ==
    \/ \E t \in Threads : Check(t) \/ \E peer \in Peers : Get(t, peer)
    \/ LimiterMaintenance \/ LimiterTick

LimiterSpec == LimiterInit /\ [][LimiterNext]_limiterVars

-----------------------------------------------------------------------------
\* However threads race to create the entry of a key, evict it and clean it up, the
\* requests that check lets through on the entry in the map never exceed what one budget
\* allows for as long as the key stays there: the burst, and a request a tick.
BudgetHolds == \A k \in Keys : owed[k] >= 0

=============================================================================
