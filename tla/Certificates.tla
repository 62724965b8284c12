---------------------------- MODULE Certificates ----------------------------
(***************************************************************************)
(* The TLS certificate of the server (server/src/tls.rs) and its life in   *)
(* main (server/src/main.rs): provisioning at start, the daily renewal,    *)
(* the two files and the certificate that the listeners serve.             *)
(*                                                                         *)
(* A certificate and its key carry the number of the order that issued     *)
(* them; 0 is a missing file.  Time is counted in days.  What the ACME     *)
(* server and the DNS zone answer is external: an order is issued or fails.*)
(* save_secure_file is two steps: the rename, which a power loss may undo, *)
(* and the sync of the directory, which settles it.                        *)
(***************************************************************************)
EXTENDS Naturals, Sequences

CONSTANTS
    Lifetime,   \* days a new certificate is valid (90 for Let's Encrypt)
    Threshold,  \* RENEWAL_THRESHOLD_DAYS
    Horizon,    \* bound: the last day
    MaxFaults   \* bound: failures, crashes and removals of the key

ASSUME DaysAssumption ==
    /\ Lifetime \in Nat /\ Threshold \in Nat \ {0} /\ Horizon \in Nat
    /\ Threshold <= Lifetime
ASSUME FaultsAssumption == MaxFaults \in Nat

VARIABLES
    day,       \* the clock
    expiry,    \* expiry[n]: the day certificate n is not valid any more
    disk,      \* the two files
    survives,  \* what a power loss may leave of them
    served,    \* CertStore.current; 0 until `load`
    task,      \* where main or the renewal task is
    misses,    \* history: failed renewals since the last (re)load
    late,      \* history: the last certificate was renamed but its save failed
    removed,   \* history: someone else removed the key file
    faults

vars == <<day, expiry, disk, survives, served, task, misses, late, removed, faults>>

Tasks == {"down", "ensure", "order", "rename key", "sync key", "rename cert",
          "sync cert", "load", "idle"}

Issued == 0 .. Len(expiry)

Files == [key : Issued, cert : Issued]

TypeOK ==
    /\ day \in 0 .. Horizon
    /\ expiry \in Seq(Nat)
    /\ disk \in Files /\ survives \subseteq Files /\ disk \in survives
    /\ served \in Issued /\ (task = "idle" => served # 0)
    /\ task \in Tasks
    /\ misses \in Nat /\ late \in BOOLEAN /\ removed \in BOOLEAN
    /\ faults \in 0 .. MaxFaults

Init ==
    /\ day = 0
    /\ expiry = <<>>
    /\ disk = [key |-> 0, cert |-> 0] /\ survives = {disk}
    /\ served = 0
    /\ task = "down"
    /\ misses = 0 /\ late = FALSE /\ removed = FALSE
    /\ faults = 0

-----------------------------------------------------------------------------
Fault == faults < MaxFaults /\ faults' = faults + 1

\* Mutant: renewed once it has expired.
InForceOnExpiry(f) == f.cert # 0 /\ expiry[f.cert] >= day /\ f.key # 0

\* ensure_certs returns Ok(false): the certificate is there, has Threshold days left,
\* and there is a key.
InForce(f) == f.cert # 0 /\ expiry[f.cert] >= day + Threshold /\ f.key # 0

\* load_certified_key: both files are there and belong together.
Pair(f) == f.key = f.cert /\ f.cert # 0

\* What an error of ensure_certs leads to: at start main returns it and the process
\* ends; the renewal task waits for the next day.
GiveUp ==
    /\ task' = IF served = 0 THEN "down" ELSE "idle"
    /\ misses' = IF served = 0 THEN misses ELSE misses + 1

-----------------------------------------------------------------------------
\* The service manager starts the server; main reaches ensure_certs.
Start ==
    /\ task = "down"
    /\ task' = "ensure"
    /\ UNCHANGED <<day, expiry, disk, survives, served, misses, late, removed, faults>>

\* A day passes.  In a running server it is the tick of the renewal interval; an
\* attempt is over within its day.
NextDay ==
    /\ day < Horizon
    /\ task \in {"idle", "down"}
    /\ day' = day + 1
    /\ task' = IF task = "idle" THEN "ensure" ELSE "down"
    /\ UNCHANGED <<expiry, disk, survives, served, misses, late, removed, faults>>

\* ensure_certs: nothing to do, or an order.  Only main loads after Ok(false).
Ensure ==
    /\ task = "ensure"
    /\ task' = IF ~InForce(disk) THEN "order" ELSE IF served = 0 THEN "load" ELSE "idle"
    /\ UNCHANGED <<day, expiry, disk, survives, served, misses, late, removed, faults>>

\* obtain_certificate up to the download: account, order, DNS records, validation,
\* their removal, finalize.
Issue ==
    /\ task = "order"
    /\ expiry' = Append(expiry, day + Lifetime)
    /\ task' = "rename key"
    /\ UNCHANGED <<day, disk, survives, served, misses, late, removed, faults>>

\* Any of those steps fails.
OrderFails ==
    /\ task = "order"
    /\ Fault /\ GiveUp
    /\ UNCHANGED <<day, expiry, disk, survives, served, late, removed>>

\* Mutant: the certificate first, then its key.
PutCertFirst(f, step) ==
    IF step = "rename key" THEN [f EXCEPT !.cert = Len(expiry)]
                           ELSE [f EXCEPT !.key = Len(expiry)]

\* The file that each of the two saves replaces: key first.
Put(f, step) ==
    IF step = "rename key" THEN [f EXCEPT !.key = Len(expiry)]
                           ELSE [f EXCEPT !.cert = Len(expiry)]

\* save_secure_file: the temporary file is written, synced and renamed.
Rename ==
    /\ task \in {"rename key", "rename cert"}
    /\ disk' = Put(disk, task)
    /\ survives' = survives \cup {disk'}
    /\ task' = IF task = "rename key" THEN "sync key" ELSE "sync cert"
    /\ UNCHANGED <<day, expiry, served, misses, late, removed, faults>>

\* Mutant: a renewal is left for the next start to load.
SyncWithoutReload ==
    /\ task \in {"sync key", "sync cert"}
    /\ survives' = {disk}
    /\ task' = IF task = "sync key" THEN "rename cert"
               ELSE IF served = 0 THEN "load" ELSE "idle"
    /\ UNCHANGED <<day, expiry, disk, served, misses, late, removed, faults>>

\* save_secure_file: the directory is synced.  After the key the certificate is saved;
\* after the certificate ensure_certs returns Ok(true) and it is (re)loaded.
SyncDir ==
    /\ task \in {"sync key", "sync cert"}
    /\ survives' = {disk}
    /\ task' = IF task = "sync key" THEN "rename cert" ELSE "load"
    /\ UNCHANGED <<day, expiry, disk, served, misses, late, removed, faults>>

\* save_secure_file fails before its rename, or after it when the directory cannot be
\* synced.
SaveFails ==
    /\ task \in {"rename key", "sync key", "rename cert", "sync cert"}
    /\ Fault /\ GiveUp
    /\ late' = (late \/ (task = "sync cert" /\ served # 0))
    /\ UNCHANGED <<day, expiry, disk, survives, served, removed>>

\* CertStore::load at start, CertStore::reload after a renewal; if the files do not
\* load, main returns the error or the renewal task exits the process.
Load ==
    /\ task = "load"
    /\ task' = IF Pair(disk) THEN "idle" ELSE "down"
    /\ served' = IF Pair(disk) THEN disk.cert ELSE 0
    /\ misses' = 0 /\ late' = FALSE
    /\ UNCHANGED <<day, expiry, disk, survives, removed, faults>>

-----------------------------------------------------------------------------
\* The process or the machine stops; only a power loss can undo unsynced renames.
Crash ==
    /\ task # "down"
    /\ Fault
    /\ disk' \in survives /\ survives' = (IF disk' = disk THEN survives ELSE {disk'})
    /\ task' = "down" /\ served' = 0
    /\ misses' = 0 /\ late' = FALSE
    /\ UNCHANGED <<day, expiry, removed>>

\* Someone removes the key, which ensure_certs provides for.
RemoveKey ==
    /\ disk.key # 0 /\ task \in {"idle", "down"}
    /\ Fault
    /\ disk' = [disk EXCEPT !.key = 0] /\ survives' = survives \cup {disk'}
    /\ removed' = TRUE
    /\ UNCHANGED <<day, expiry, served, task, misses, late>>

\* The horizon is reached.
Over ==
    /\ day = Horizon /\ task = "idle"
    /\ UNCHANGED vars

Attempt == Ensure \/ Issue \/ Rename \/ SyncDir \/ Load

Next ==
    \/ Start \/ NextDay \/ Attempt
    \/ OrderFails \/ SaveFails \/ Crash \/ RemoveKey \/ Over

Spec == Init /\ [][Next]_vars

\* The service manager restarts the server (Restart=always), tokio runs its tasks, and
\* the clock goes on; the calls of an attempt return (an answer or a timeout).
FairSpec == Spec /\ WF_vars(Start) /\ WF_vars(NextDay) /\ WF_vars(Attempt)

-----------------------------------------------------------------------------
\* "Key first: the certificate is the commit" (tls.rs:105-108): whatever a crash or a
\* failed write leaves, ensure_certs never skips files that do not load.  It holds as
\* long as nobody removes the key of a certificate in force: its replacement then has
\* the same effect as the other order.
NeverStuck == \A f \in survives : InForce(f) => Pair(f) \/ removed

\* "A renewed cert goes into service in place" (main.rs:284-285): between attempts the
\* listeners serve the certificate on disk.  The one exception is a save that failed
\* after its rename: the next day finds the new certificate in force and does not
\* reload it.
InService == task = "idle" => served = disk.cert \/ late

\* The served certificate does not expire while fewer than Threshold renewals in a row
\* have failed: this is what the renewal ahead of time is for (tls.rs:19, 57-68).
ServedInDate ==
    task = "idle" /\ ~late /\ misses < Threshold => day < expiry[served]

\* The server comes up again: no failure, crash or power loss leaves files with which
\* every start ends in an error.
ComesUp == (task = "down") ~> (task = "idle" \/ removed)
=============================================================================
