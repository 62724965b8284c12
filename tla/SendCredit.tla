----------------------------- MODULE SendCredit -----------------------------
(***************************************************************************)
(* The per-stream send credit of the WSS mux, SendCredit in                *)
(* crates/proto/src/lib.rs:354-418, at the grain of its atomics.           *)
(*                                                                         *)
(* One sender (the upload pump of the server, the download pump of the     *)
(* connector) loops in acquire.  Other threads call add (a WindowUpdate    *)
(* arrived) and close (the stream is torn down); each of those is a store  *)
(* followed by notify_waiters, and the sender may run between the two.     *)
(***************************************************************************)
EXTENDS Integers

CONSTANTS
    Window,   \* SendCredit::max
    Needs,    \* payload lengths passed to acquire
    Grants,   \* byte counts passed to add
    Callers   \* threads that call add and close

\* acquire's contract (lib.rs:391-392): bytes must be at most the initial window.
ASSUME WindowAssumption == Window \in Nat \ {0}
ASSUME NeedsAssumption == Needs \subseteq 1..Window
ASSUME GrantsAssumption == Grants \subseteq Nat

VARIABLES
    credit,   \* credit: AtomicI64
    closed,   \* closed: AtomicBool
    pc,       \* where the sender is in acquire
    need,     \* acquire's argument
    waiter,   \* its Notified: "none" | "armed" | "fired"
    caller    \* per caller: "idle", or "notify" between the store and notify_waiters

vars == <<credit, closed, pc, need, waiter, caller>>

\* The places of the sender: outside acquire, in its loop, or after it.
InLoop == {"check", "take", "arm", "recheckClosed", "recheckCredit", "parked"}
Outside == {"idle", "granted", "refused", "dropped"}

TypeOK ==
    /\ credit \in 0..Window
    /\ closed \in BOOLEAN
    /\ pc \in InLoop \cup Outside
    /\ need \in Needs
    /\ waiter \in {"none", "armed", "fired"}
    /\ caller \in [Callers -> {"idle", "notify"}]

\* SendCredit::new
Init ==
    /\ credit = Window
    /\ closed = FALSE
    /\ pc = "idle"
    /\ need \in Needs
    /\ waiter = "none"
    /\ caller = [c \in Callers |-> "idle"]

-----------------------------------------------------------------------------
\* acquire(bytes): the pump asks again only after it was granted.
Acquire ==
    /\ pc \in {"idle", "granted"}
    /\ pc' = "check"
    /\ need' \in Needs
    /\ UNCHANGED <<credit, closed, waiter, caller>>

CheckClosed ==
    /\ pc = "check"
    /\ pc' = IF closed THEN "refused" ELSE "take"
    /\ UNCHANGED <<credit, closed, need, waiter, caller>>

\* Mutant: a take that goes through as soon as there is any credit.
TryTakeAny ==
    /\ pc = "take"
    /\ IF credit > 0
         THEN credit' = (IF credit >= need THEN credit - need ELSE 0) /\ pc' = "granted"
         ELSE credit' = credit /\ pc' = "arm"
    /\ UNCHANGED <<closed, need, waiter, caller>>

\* credit.try_update: take all of need or nothing.
TryTake ==
    /\ pc = "take"
    /\ IF credit >= need
         THEN credit' = credit - need /\ pc' = "granted"
         ELSE credit' = credit /\ pc' = "arm"
    /\ UNCHANGED <<closed, need, waiter, caller>>

\* notified() and enable(): the waiter is registered before the re-check.
Arm ==
    /\ pc = "arm"
    /\ waiter' = "armed"
    /\ pc' = "recheckClosed"
    /\ UNCHANGED <<credit, closed, need, caller>>

RecheckClosed ==
    /\ pc = "recheckClosed"
    /\ IF closed
         THEN pc' = "check" /\ waiter' = "none"
         ELSE pc' = "recheckCredit" /\ waiter' = waiter
    /\ UNCHANGED <<credit, closed, need, caller>>

\* Mutant: park without reading the credit again.
RecheckCreditSkipped ==
    /\ pc = "recheckCredit"
    /\ pc' = "parked"
    /\ UNCHANGED <<credit, closed, need, waiter, caller>>

RecheckCredit ==
    /\ pc = "recheckCredit"
    /\ IF credit < need
         THEN pc' = "parked" /\ waiter' = waiter
         ELSE pc' = "check" /\ waiter' = "none"
    /\ UNCHANGED <<credit, closed, need, caller>>

\* notified.await returns; the Notified is dropped at the end of the iteration.
Wake ==
    /\ pc = "parked"
    /\ waiter = "fired"
    /\ pc' = "check"
    /\ waiter' = "none"
    /\ UNCHANGED <<credit, closed, need, caller>>

\* The pump is dropped at its only await: its select! ended, or its task was aborted.
DropSender ==
    /\ pc = "parked"
    /\ pc' = "dropped"
    /\ waiter' = "none"
    /\ UNCHANGED <<credit, closed, need, caller>>

-----------------------------------------------------------------------------
\* add: credit.try_update to min(cur + bytes, max), and only upwards.
AddStore(c) ==
    /\ caller[c] = "idle"
    /\ \E bytes \in Grants :
          credit' = IF credit + bytes > Window THEN Window ELSE credit + bytes
    /\ caller' = [caller EXCEPT ![c] = "notify"]
    /\ UNCHANGED <<closed, pc, need, waiter>>

\* Mutant: close sets the flag and forgets to notify.
CloseStoreSilent(c) ==
    /\ caller[c] = "idle"
    /\ closed' = TRUE
    /\ UNCHANGED <<credit, pc, need, waiter, caller>>

CloseStore(c) ==
    /\ caller[c] = "idle"
    /\ closed' = TRUE
    /\ caller' = [caller EXCEPT ![c] = "notify"]
    /\ UNCHANGED <<credit, pc, need, waiter>>

\* The notify.notify_waiters() that ends both add and close; it leaves no permit
\* for a waiter that registers later.
NotifyWaiters(c) ==
    /\ caller[c] = "notify"
    /\ waiter' = IF waiter = "armed" THEN "fired" ELSE waiter
    /\ caller' = [caller EXCEPT ![c] = "idle"]
    /\ UNCHANGED <<credit, closed, pc, need>>

Sender ==
    \/ CheckClosed \/ TryTake \/ Arm \/ RecheckClosed \/ RecheckCredit \/ Wake

Next ==
    \/ Acquire
    \/ Sender
    \/ DropSender
    \/ \E c \in Callers : AddStore(c) \/ CloseStore(c) \/ NotifyWaiters(c)

Spec == Init /\ [][Next]_vars

\* A task that is not parked keeps running, and so does a thread inside add or close.
Fairness ==
    /\ WF_vars(Sender)
    /\ \A c \in Callers : WF_vars(NotifyWaiters(c))

FairSpec == Spec /\ Fairness

-----------------------------------------------------------------------------
\* A sender that is parked although it could go on (its credit is there, or the
\* stream is closed) is about to be woken: its waiter has fired, or the thread that
\* changed the counter or the flag has yet to call notify_waiters.  No grant and no
\* close is missed between acquire's check and its await (lib.rs:408-414).
NoLostWakeup ==
    pc = "parked" /\ (closed \/ credit >= need) =>
        waiter = "fired" \/ \E c \in Callers : caller[c] = "notify"

\* close "wakes any parked sender permanently ... so no task can leak waiting on
\* credit" (lib.rs:352-353): an acquire under way when the stream is closed ends.
CloseEndsAcquire == (closed /\ pc \in InLoop) ~> (pc \notin InLoop)

\* The refinement mapping: the loop of acquire is one waiting request.
RequestOf(place) ==
    IF place \in InLoop THEN "waiting" ELSE IF place = "idle" THEN "none" ELSE place

Gate == INSTANCE CreditGate WITH request <- RequestOf(pc)

\* SendCredit implements CreditGate, its fairness included: acquire takes its bytes
\* in one step, never overdraws, and is answered once it can be.
ImplementsGate == Gate!Spec
=============================================================================
