------------------------------ MODULE AdminState ------------------------------
(***************************************************************************)
(* AppState in memory, in its file and in the route table: setup, the      *)
(* routes API and the connectors API, with a save that can fail, a process *)
(* that can stop and a machine that can lose power at every step           *)
(* (crates/server/src/api/, crates/server/src/main.rs, proxy.rs).          *)
(*                                                                         *)
(* Every call that changes AppState holds its write lock from the change   *)
(* to the answer.  `job` is the call that holds it: the change is made in  *)
(* memory, saved in the steps of save_secure_file, and then published, or  *)
(* taken back if the save failed.  post_setup and update_resource read the *)
(* state first, await (a password hash, a DNS lookup) and lock later.      *)
(***************************************************************************)
EXTENDS Naturals, FiniteSets

CONSTANTS
    Admins,        \* callers of post_setup; each brings its own password
    ResourceIds, ConnectorIds, Tokens, \* the values random_hex may draw
    Subdomains,
    Targets,
    Direct,        \* targets that validate_target admits without a connector
    Relayed,       \* targets that validate_target admits with one
    None,
    MaxEdits,      \* bound: updates that await their DNS lookup at once
    MaxFaults      \* bound: failed saves, restarts and power losses

ASSUME NoneAssumption == None \notin Admins \cup ConnectorIds \cup ResourceIds \cup Tokens
ASSUME NamesAssumption ==
    /\ Admins \cap (ResourceIds \cup ConnectorIds \cup Tokens) = {}
    /\ ResourceIds \cap Tokens = {}
ASSUME BoundsAssumption == MaxEdits \in Nat /\ MaxFaults \in Nat
ASSUME TargetsAssumption == Direct \subseteq Targets /\ Relayed \subseteq Targets

VARIABLES
    mem,      \* the AppState behind the RwLock
    file,     \* what a read of STATE_FILE returns now
    survives, \* what STATE_FILE may hold after a power loss
    routes,   \* ProxyContext::resources
    phase,    \* "loaded" | "edge" | "admin": progress of run_server
    job,      \* the call that holds the write lock; step "none" when free
    setups,   \* callers of post_setup that await their password hash
    edits,    \* resources that calls of update_resource are about to store
    drawn,    \* the random values drawn so far
    faults,   \* failed saves, restarts and power losses so far
    kept,     \* history: values whose creation was answered with success
    gone      \* history: values whose removal was answered with success

vars == <<mem, file, survives, routes, phase, job, setups, edits, drawn, faults, kept, gone>>

Resource == [id: ResourceIds, subdomain: Subdomains, target: Targets,
             connector_id: ConnectorIds \cup {None}, enabled: BOOLEAN]
Connector == [id: ConnectorIds, token_hash: Tokens, force_wss: BOOLEAN]

\* `initialized` and `admin_password_hash` are set together: `admin` is both.
AppState == [admin: Admins \cup {None}, connectors: SUBSET Connector,
             resources: SUBSET Resource]

Default == [admin |-> None, connectors |-> {}, resources |-> {}]

\* `old` is the state before the call, `back` what a failed save leaves in memory,
\* `drop` the subdomains it takes from the route table, `put` what it publishes.
NoJob == [step |-> "none", old |-> Default, back |-> Default, drop |-> {}, put |-> {}]

TypeOK ==
    /\ mem \in AppState
    /\ file \in AppState
    /\ survives \subseteq AppState
    /\ routes \subseteq Resource
    /\ phase \in {"loaded", "edge", "admin"}
    /\ job \in [step: {"none", "saving", "renamed", "saved", "unrouted"},
                old: AppState, back: AppState,
                drop: SUBSET Subdomains, put: SUBSET Resource]
    /\ setups \subseteq Admins
    /\ edits \subseteq Resource
    /\ drawn \subseteq ResourceIds \cup ConnectorIds \cup Tokens
    /\ faults \in 0..MaxFaults
    /\ kept \subseteq Admins \cup drawn
    /\ gone \subseteq Admins \cup drawn

Init ==
    /\ mem = Default
    /\ file = Default
    /\ survives = {Default}
    /\ routes = {}
    /\ phase = "loaded"
    /\ job = NoJob
    /\ setups = {}
    /\ edits = {}
    /\ drawn = {}
    /\ faults = 0
    /\ kept = {}
    /\ gone = {}

\* The values a caller was told of and the state still holds.
Live(s) ==
    {r.id : r \in s.resources} \cup {k.token_hash : k \in s.connectors}
        \cup ({s.admin} \ {None})

EnabledIn(s) == {r \in s.resources : r.enabled}

-------------------------------------------------------------------------------
(* save_secure_file and the answer: what every call below runs under its lock. *)

\* The caller has the write lock and changes the state; its save is next.
Change(new, back, drop, put) ==
    /\ mem' = new
    /\ job' = [step |-> "saving", old |-> mem, back |-> back, drop |-> drop, put |-> put]
    /\ kept' = kept \ (Live(mem) \ Live(new))
    /\ UNCHANGED <<file, survives, routes, phase, faults, gone>>

Fault == faults < MaxFaults /\ faults' = faults + 1

Free == job.step = "none"

Step(s) == job' = [job EXCEPT !.step = s]

\* The temporary file is written and renamed over STATE_FILE; the directory is not
\* on disk yet, so a power loss may leave either name.
Rename ==
    /\ job.step = "saving"
    /\ file' = mem
    /\ survives' = survives \cup {mem}
    /\ Step("renamed")
    /\ UNCHANGED <<mem, routes, phase, setups, edits, drawn, faults, kept, gone>>

\* Mutant: the directory is never synced.
SyncNothing ==
    /\ job.step = "renamed"
    /\ Step("saved")
    /\ UNCHANGED <<mem, file, survives, routes, phase, setups, edits, drawn, faults, kept, gone>>

\* The directory is synced: save returns Ok.
SyncDir ==
    /\ job.step = "renamed"
    /\ survives' = {file}
    /\ Step("saved")
    /\ UNCHANGED <<mem, file, routes, phase, setups, edits, drawn, faults, kept, gone>>

\* save returns an error before its rename, or after it (the directory cannot be
\* opened or synced); the caller rolls back and answers 500.
SaveFails ==
    /\ job.step \in {"saving", "renamed"}
    /\ mem' = job.back
    /\ job' = NoJob
    /\ Fault
    /\ UNCHANGED <<file, survives, routes, phase, setups, edits, drawn, kept, gone>>

\* remove_resource of the old subdomain.
Unroute ==
    /\ job.step = "saved"
    /\ routes' = {r \in routes : r.subdomain \notin job.drop}
    /\ Step("unrouted")
    /\ UNCHANGED <<mem, file, survives, phase, setups, edits, drawn, faults, kept, gone>>

\* publish, the answer and the end of the lock.
Answer ==
    /\ job.step = "unrouted"
    /\ routes' = {r \in routes : \A q \in job.put : r.subdomain # q.subdomain}
                    \cup {q \in job.put : q.enabled}
    /\ kept' = kept \cup (Live(mem) \ Live(job.old))
    /\ gone' = gone \cup (Live(job.old) \ Live(mem))
    /\ job' = NoJob
    /\ UNCHANGED <<mem, file, survives, phase, setups, edits, drawn, faults>>

-------------------------------------------------------------------------------
(* Setup. *)

\* post_setup up to its first await: refused once initialized.
SetupArrives(a) ==
    /\ Free
    /\ mem.admin = None
    /\ setups' = setups \cup {a}
    /\ UNCHANGED <<mem, file, survives, routes, phase, job, edits, drawn, faults, kept, gone>>

\* post_setup from its lock on.  A failed save does not take the setup back.
SetupCommits(a) ==
    /\ Free
    /\ a \in setups
    /\ setups' = setups \ {a}
    /\ IF mem.admin # None
       THEN UNCHANGED <<mem, file, survives, routes, phase, job, faults, kept, gone>>
       ELSE LET new == [mem EXCEPT !.admin = a] IN Change(new, new, {}, {})
    /\ UNCHANGED <<edits, drawn>>

-------------------------------------------------------------------------------
(* Routes. *)

\* An admin call that finds the lock free; verify_admin needs an initialized state.
Admitted == Free /\ mem.admin # None

\* validate_target.
ValidTarget(r) == r.target \in (IF r.connector_id = None THEN Direct ELSE Relayed)

SubdomainInUse(r) == \E q \in mem.resources : q.id # r.id /\ q.subdomain = r.subdomain

ConnectorKnown(r) ==
    r.connector_id = None \/ \E k \in mem.connectors : k.id = r.connector_id

\* create_resource: its checks before the lock depend on the request alone.
CreateResource(r) ==
    /\ Admitted
    /\ r.id \notin drawn /\ r.enabled
    /\ ValidTarget(r)
    /\ ~SubdomainInUse(r)
    /\ ConnectorKnown(r)
    /\ drawn' = drawn \cup {r.id}
    /\ Change([mem EXCEPT !.resources = @ \cup {r}], mem, {}, {r})
    /\ UNCHANGED <<setups, edits>>

\* update_resource up to the DNS lookup: r is the resource as read, with the fields
\* of the request in place of its own; each field may be given or left out.
UpdateArrives(r) ==
    /\ Admitted
    /\ \E q \in mem.resources : q.id = r.id
    /\ ValidTarget(r)
    /\ Cardinality(edits) < MaxEdits
    /\ edits' = edits \cup {r}
    /\ UNCHANGED <<mem, file, survives, routes, phase, job, setups, drawn, faults, kept, gone>>

\* Mutant: the connector is not looked up again under the write lock.
UpdateCommitsStaleConnector(r) ==
    /\ Free
    /\ r \in edits
    /\ edits' = edits \ {r}
    /\ \/ \E q \in mem.resources :
            /\ q.id = r.id
            /\ ~SubdomainInUse(r)
            /\ Change([mem EXCEPT !.resources = (@ \ {q}) \cup {r}], mem, {q.subdomain}, {r})
       \/ /\ SubdomainInUse(r) \/ \A q \in mem.resources : q.id # r.id
          /\ UNCHANGED <<mem, file, survives, routes, phase, job, faults, kept, gone>>
    /\ UNCHANGED <<setups, drawn>>

\* Mutant: the old subdomain stays in the route table.
UpdateCommitsKeepsRoute(r) ==
    /\ Free
    /\ r \in edits
    /\ edits' = edits \ {r}
    /\ \/ \E q \in mem.resources :
            /\ q.id = r.id
            /\ ~SubdomainInUse(r) /\ ConnectorKnown(r)
            /\ Change([mem EXCEPT !.resources = (@ \ {q}) \cup {r}], mem, {}, {r})
       \/ /\ \/ SubdomainInUse(r) \/ ~ConnectorKnown(r)
             \/ \A q \in mem.resources : q.id # r.id
          /\ UNCHANGED <<mem, file, survives, routes, phase, job, faults, kept, gone>>
    /\ UNCHANGED <<setups, drawn>>

\* update_resource from its lock on: the whole resource is stored, over the one that
\* is there now, or the call is refused.
UpdateCommits(r) ==
    /\ Free
    /\ r \in edits
    /\ edits' = edits \ {r}
    /\ \/ \E q \in mem.resources :
            /\ q.id = r.id
            /\ ~SubdomainInUse(r) /\ ConnectorKnown(r)
            /\ Change([mem EXCEPT !.resources = (@ \ {q}) \cup {r}], mem, {q.subdomain}, {r})
       \/ /\ \/ SubdomainInUse(r) \/ ~ConnectorKnown(r)
             \/ \A q \in mem.resources : q.id # r.id
          /\ UNCHANGED <<mem, file, survives, routes, phase, job, faults, kept, gone>>
    /\ UNCHANGED <<setups, drawn>>

\* delete_resource.
DeleteResource(r) ==
    /\ Admitted
    /\ r \in mem.resources
    /\ Change([mem EXCEPT !.resources = @ \ {r}], mem, {r.subdomain}, {})
    /\ UNCHANGED <<setups, edits, drawn>>

-------------------------------------------------------------------------------
(* Connectors. *)

\* create_connector; its name, which must be unused, is left out.
CreateConnector(id, token) ==
    /\ Admitted
    /\ {id, token} \cap drawn = {}
    /\ drawn' = drawn \cup {id, token}
    /\ LET k == [id |-> id, token_hash |-> token, force_wss |-> FALSE]
       IN Change([mem EXCEPT !.connectors = @ \cup {k}], mem, {}, {})
    /\ UNCHANGED <<setups, edits>>

\* update_connector, when the value changes: a failed save keeps the change in memory.
UpdateConnector(k) ==
    /\ Admitted
    /\ k \in mem.connectors
    /\ LET new == [mem EXCEPT !.connectors =
                    (@ \ {k}) \cup {[k EXCEPT !.force_wss = ~@]}]
       IN Change(new, new, {}, {})
    /\ UNCHANGED <<setups, edits, drawn>>

\* delete_connector: refused while a resource uses the connector.
DeleteConnector(k) ==
    /\ Admitted
    /\ k \in mem.connectors
    /\ \A r \in mem.resources : r.connector_id # k.id
    /\ Change([mem EXCEPT !.connectors = @ \ {k}], mem, {}, {})
    /\ UNCHANGED <<setups, edits, drawn>>

\* regenerate_connector_token.
RegenerateToken(k, token) ==
    /\ Admitted
    /\ k \in mem.connectors
    /\ token \notin drawn
    /\ drawn' = drawn \cup {token}
    /\ Change([mem EXCEPT !.connectors =
                (@ \ {k}) \cup {[k EXCEPT !.token_hash = token]}], mem, {}, {})
    /\ UNCHANGED <<setups, edits>>

-------------------------------------------------------------------------------
(* The process. *)

\* run_server, once the admin API listens: the enabled resources are published under
\* the read lock, or the process only waits for its setup.
Start ==
    /\ phase = "loaded"
    /\ Free
    /\ IF mem.admin = None
       THEN phase' = "admin" /\ UNCHANGED routes
       ELSE /\ phase' = "edge"
            /\ routes' = {r \in routes : \A q \in EnabledIn(mem) : r.subdomain # q.subdomain}
                            \cup EnabledIn(mem)
    /\ UNCHANGED <<mem, file, survives, job, setups, edits, drawn, faults, kept, gone>>

\* A new process loads the state file: AppState::load.  Requests in flight are lost.
Load(s) ==
    /\ mem' = s
    /\ routes' = {}
    /\ phase' = "loaded"
    /\ job' = NoJob
    /\ setups' = {}
    /\ edits' = {}
    /\ Fault
    /\ UNCHANGED <<drawn, kept, gone>>

\* The process ends, at any step, and systemd starts it again.
Restart ==
    /\ Load(file)
    /\ UNCHANGED <<file, survives>>

\* The machine loses power: the file holds what its directory had on disk.
PowerLoss ==
    \E s \in survives :
        /\ Load(s)
        /\ file' = s
        /\ survives' = {s}

Next ==
    \/ Rename \/ SyncDir \/ SaveFails \/ Unroute \/ Answer
    \/ \E a \in Admins : SetupArrives(a) \/ SetupCommits(a)
    \/ \E r \in Resource : CreateResource(r) \/ UpdateArrives(r) \/ UpdateCommits(r)
    \/ \E r \in mem.resources : DeleteResource(r)
    \/ \E id \in ConnectorIds, token \in Tokens : CreateConnector(id, token)
    \/ \E k \in mem.connectors : UpdateConnector(k) \/ DeleteConnector(k)
    \/ \E k \in mem.connectors, token \in Tokens : RegenerateToken(k, token)
    \/ Start \/ Restart \/ PowerLoss

Spec == Init /\ [][Next]_vars

-------------------------------------------------------------------------------
(* Properties. *)

\* Every AppState a process works on or may find in its file.
States == {mem, file} \cup survives

\* Subdomains are unique over the resources of a state, disabled ones included: routes are
\* keyed by subdomain, and two calls that were checked apart must not both store it
\* (subdomain_in_use).
UniqueSubdomains(s) == \A q, r \in s.resources : q.subdomain = r.subdomain => q = r

\* No resource names a connector that does not exist, although an update may be looked up
\* before and stored after the deletion of its connector ("A connector cannot be deleted
\* while routes use it").
ConnectorsExist(s) ==
    \A r \in s.resources :
        r.connector_id = None \/ \E k \in s.connectors : k.id = r.connector_id

\* Every resource passed validate_target as a whole: concurrent updates of target and
\* connector never combine to a pair that was not checked.
TargetsValidated(s) == \A r \in s.resources : ValidTarget(r)

\* Whatever calls are in flight, every state that is in memory or may be found on disk
\* after a crash is one that a single checked call could have stored.
StatesConsistent ==
    \A s \in States : UniqueSubdomains(s) /\ ConnectorsExist(s) /\ TargetsValidated(s)

\* Whenever no call holds the lock, the route table is the enabled resources, once
\* the boot has published them, and holds nothing else before
\* (publish, remove_resource, the boot loop and the rollbacks).
RoutesMatch ==
    Free => /\ routes \subseteq EnabledIn(mem)
            /\ phase # "loaded" => routes = EnabledIn(mem)

\* What was answered with success holds after any failed save, restart or power loss: a
\* resource, token or setup is there until a call to remove it is made, and a deleted
\* resource or a regenerated token never comes back, not through an update in flight
\* nor a rollback (save_secure_file syncs file and directory before the answer).
AnswersHold == \A s \in States : kept \subseteq Live(s) /\ gone \cap Live(s) = {}

\* "Restore, so memory matches disk": when delete_resource gives up, the file holds
\* what memory holds.
RollbackMatchesDisk ==
    [][ (SaveFails /\ job.drop # {} /\ job.put = {}) => mem' = file' ]_vars
===============================================================================
