----------------------------- MODULE CreditGate -----------------------------
(***************************************************************************)
(* What SendCredit (crates/proto/src/lib.rs:348-418) promises the sender   *)
(* of one WSS stream: a counter of at most Window bytes, from which        *)
(* acquire(need) takes need bytes in one indivisible step as soon as they  *)
(* are there, and which refuses once it is closed.  SendCredit.tla, the    *)
(* loop over atomics and a Notify, implements this module; StreamFlow.tla  *)
(* and WssTunnel.tla use acquire as this module describes it.              *)
(***************************************************************************)
EXTENDS Integers

CONSTANTS
    Window,  \* SendCredit::max, the initial window
    Needs    \* the payload lengths a sender asks for

VARIABLES
    credit,  \* bytes the sender may still send
    closed,  \* the stream is torn down
    request, \* "none" | "waiting" | "granted" | "refused" | "dropped"
    need     \* bytes the current acquire asks for

vars == <<credit, closed, request, need>>

Init ==
    /\ credit = Window
    /\ closed = FALSE
    /\ request = "none"
    /\ need \in Needs

Ask ==
    /\ request \in {"none", "granted"}
    /\ request' = "waiting"
    /\ need' \in Needs
    /\ UNCHANGED <<credit, closed>>

Grant ==
    /\ request = "waiting"
    /\ credit >= need
    /\ credit' = credit - need
    /\ request' = "granted"
    /\ UNCHANGED <<closed, need>>

Refuse ==
    /\ request = "waiting"
    /\ closed
    /\ request' = "refused"
    /\ UNCHANGED <<credit, closed, need>>

\* The future that owns the acquire is dropped while it waits.
Drop ==
    /\ request = "waiting"
    /\ request' = "dropped"
    /\ UNCHANGED <<credit, closed, need>>

\* The peer's WindowUpdate adds credit, never past the window.
Replenish ==
    /\ credit' \in (credit + 1)..Window
    /\ UNCHANGED <<closed, request, need>>

Close ==
    /\ closed' = TRUE
    /\ UNCHANGED <<credit, request, need>>

Next == Ask \/ Grant \/ Refuse \/ Drop \/ Replenish \/ Close

SafeSpec == Init /\ [][Next]_vars

\* An acquire that can be answered, by credit or by the close, is answered.
Spec == SafeSpec /\ WF_vars(Grant \/ Refuse)
=============================================================================
