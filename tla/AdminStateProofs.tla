--------------------------- MODULE AdminStateProofs ---------------------------
(***************************************************************************)
(* Every AppState in memory or on disk is consistent, the route table      *)
(* follows memory, answered changes survive and answered removals are      *)
(* final: for any sets of names, any number of updates in flight and any   *)
(* number of failed saves, restarts and power losses.                      *)
(*                                                                         *)
(* The properties speak of the states that are there now.  What makes them *)
(* inductive is what the call under the lock still has in hand: the state  *)
(* it will roll back to (which must be as good as the one in memory), how  *)
(* the enabled routes will have changed when it is done, and that the file *)
(* is on disk before it answers.                                           *)
(***************************************************************************)
EXTENDS AdminState, TLAPS

\* A state that may be in memory or on disk.
Sane(s) ==
    /\ s \in AppState
    /\ \A q, r \in s.resources : q.subdomain = r.subdomain \/ q.id = r.id => q = r
    /\ \A r \in s.resources :
        r.connector_id = None \/ \E k \in s.connectors : k.id = r.connector_id
    /\ \A r \in s.resources : ValidTarget(r)
    /\ s.admin = None => s.resources = {}

\* What callers were told holds in it.
Honours(s) ==
    /\ kept \subseteq Live(s)
    /\ gone \cap Live(s) = {}
    /\ Live(s) \subseteq Admins \cup drawn

\* What the enabled routes become when `drop` is removed and `put` published.
Published(base, drop, put) ==
    {r \in base : r.subdomain \notin drop /\ \A q \in put : r.subdomain # q.subdomain}
        \cup {q \in put : q.enabled}

JobInv ==
    job.step # "none" =>
        /\ Sane(job.back) /\ Honours(job.back)
        /\ EnabledIn(job.back) = EnabledIn(job.old)
        /\ EnabledIn(mem) = Published(EnabledIn(job.old), job.drop, job.put)
        /\ Live(job.old) \subseteq Admins \cup drawn
        /\ job.old.admin \in {None, mem.admin}
        /\ job.step = "renamed" => file = mem
        /\ job.step \in {"saved", "unrouted"} => file = mem /\ survives = {mem}

\* The routes that the table should hold at this step of the job.
Base ==
    IF job.step = "none" THEN EnabledIn(mem)
    ELSE IF job.step = "unrouted"
         THEN {r \in EnabledIn(job.old) : r.subdomain \notin job.drop}
         ELSE EnabledIn(job.old)

RoutesInv == routes \subseteq Base /\ (phase # "loaded" => routes = Base)

IInv ==
    /\ TypeOK
    /\ file \in survives
    /\ \A s \in States : Sane(s) /\ Honours(s)
    /\ \A r \in edits : ValidTarget(r)
    /\ gone \subseteq drawn
    /\ JobInv
    /\ RoutesInv

-------------------------------------------------------------------------------

LEMMA DefaultIsSane == Default \in AppState /\ Sane(Default) /\ Live(Default) = {}
  BY NoneAssumption DEF Default, AppState, Sane, Live

LEMMA InitInv == Init => IInv
  <1> SUFFICES ASSUME Init PROVE IInv
    OBVIOUS
  <1>1. States = {Default} /\ mem = Default /\ file = Default /\ survives = {Default}
    BY DEF Init, States
  <1>2. Sane(Default) /\ Honours(Default)
    BY DefaultIsSane DEF Init, Honours
  <1>3. NoJob \in [step: {"none", "saving", "renamed", "saved", "unrouted"},
                   old: AppState, back: AppState,
                   drop: SUBSET Subdomains, put: SUBSET Resource]
    BY DefaultIsSane DEF NoJob
  <1>4. TypeOK
    BY <1>1, <1>3, DefaultIsSane, BoundsAssumption DEF Init, TypeOK
  <1>5. job.step = "none" /\ EnabledIn(mem) = {}
    BY <1>1 DEF Init, NoJob, EnabledIn, Default
  <1>6. JobInv /\ RoutesInv
    BY <1>5 DEF JobInv, RoutesInv, Base, Init
  <1> QED
    BY <1>1, <1>2, <1>4, <1>6 DEF IInv, Init

\* A call that takes the lock and changes the state keeps the invariant, whatever the
\* change is, if the new state is sane, only holds values that were never removed, and
\* its enabled routes are what it announces.
LEMMA ChangeInv ==
  ASSUME IInv, Free,
         NEW new, NEW back \in {mem, new}, NEW drop, NEW put,
         Change(new, back, drop, put),
         Sane(new), drop \in SUBSET Subdomains, put \in SUBSET Resource,
         setups' \subseteq Admins, edits' \subseteq edits,
         drawn \subseteq drawn', drawn' \subseteq ResourceIds \cup ConnectorIds \cup Tokens,
         Live(new) \subseteq Admins \cup drawn',
         gone \cap Live(new) = {},
         mem.admin \in {None, new.admin},
         EnabledIn(back) = EnabledIn(mem),
         EnabledIn(new) = Published(EnabledIn(mem), drop, put)
  PROVE  IInv'
  <1> DEFINE j == [step |-> "saving", old |-> mem, back |-> back, drop |-> drop, put |-> put]
  <1>1. /\ mem' = new /\ job' = j /\ kept' = kept \ (Live(mem) \ Live(new))
        /\ file' = file /\ survives' = survives /\ routes' = routes /\ phase' = phase
        /\ gone' = gone /\ faults' = faults
    BY DEF Change
  <1>2. /\ j.step = "saving" /\ j.old = mem /\ j.back = back /\ j.drop = drop /\ j.put = put
        /\ TypeOK /\ job.step = "none"
        /\ \A s \in {mem, file} \cup survives : Sane(s) /\ Honours(s)
    BY DEF IInv, Free, States
  <1>3. new \in AppState /\ mem \in AppState /\ back \in AppState
    BY <1>2 DEF Sane
  <1>4. j \in [step: {"none", "saving", "renamed", "saved", "unrouted"},
               old: AppState, back: AppState,
               drop: SUBSET Subdomains, put: SUBSET Resource]
    BY <1>3
  <1> HIDE DEF j
  <1>5. kept' \subseteq Admins \cup drawn' /\ gone' \subseteq Admins \cup drawn'
    BY <1>1, <1>2, SMTT(60) DEF TypeOK
  <1>6. TypeOK'
    BY <1>1, <1>2, <1>3, <1>4, <1>5 DEF TypeOK
  <1>7. ASSUME NEW s, Honours(s) PROVE Honours(s)'
    BY <1>1, <1>7 DEF Honours, Live
  <1>8. Honours(new)'
    <2>1. kept \subseteq Live(mem)
      BY <1>2 DEF Honours
    <2>2. Live(new)' = Live(new)
      BY DEF Live
    <2> QED
      BY <1>1, <2>1, <2>2 DEF Honours
  <1>9. Sane(new)' /\ \A s \in {mem, file} \cup survives : Sane(s)'
    BY <1>2, SMTT(60) DEF Sane, ValidTarget
  <1>10. \A s \in States' : Sane(s)' /\ Honours(s)'
    BY <1>1, <1>2, <1>7, <1>8, <1>9, SMTT(60) DEF States
  <1>11. JobInv'
    <2>1. Sane(back)' /\ Honours(back)'
      BY <1>2, <1>7, <1>8, <1>9
    <2>2. Live(mem) \subseteq Admins \cup drawn'
      BY <1>2, SMTT(60) DEF Honours
    <2> QED
      BY <1>1, <1>2, <2>1, <2>2, SMTT(60) DEF JobInv, Sane, Honours, Live, EnabledIn, Published
  <1>12. RoutesInv'
    BY <1>1, <1>2 DEF IInv, RoutesInv, Base, EnabledIn
  <1> QED
    BY <1>1, <1>2, <1>6, <1>10, <1>11, <1>12 DEF IInv, ValidTarget

-------------------------------------------------------------------------------
(* The calls: each one makes a change that ChangeInv admits. *)

\* What the invariant says of the state in memory when the lock is free.
LEMMA MemFacts ==
  ASSUME IInv
  PROVE  /\ mem \in AppState /\ Sane(mem) /\ Honours(mem)
         /\ Live(mem) \subseteq Admins \cup drawn
         /\ gone \subseteq drawn /\ gone \cap Live(mem) = {}
         /\ setups \subseteq Admins /\ edits \subseteq Resource
         /\ drawn \subseteq ResourceIds \cup ConnectorIds \cup Tokens
         /\ \A r \in edits : ValidTarget(r)
  BY DEF IInv, States, Sane, Honours, TypeOK

\* post_setup under its lock.
LEMMA SetupCommitsInv ==
  ASSUME IInv, NEW a \in Admins, SetupCommits(a), mem.admin = None
  PROVE  IInv'
  <1> DEFINE new == [mem EXCEPT !.admin = a]
  <1>1. /\ new.admin = a /\ new.resources = mem.resources /\ new.connectors = mem.connectors
        /\ new \in AppState
    BY MemFacts DEF AppState
  <1>2. Free /\ Change(new, new, {}, {}) /\ setups' \subseteq Admins
        /\ edits' = edits /\ drawn' = drawn
    BY MemFacts DEF SetupCommits
  <1> HIDE DEF new
  <1>3. Sane(new)
    BY <1>1, MemFacts DEF Sane
  <1>4. Live(new) \subseteq Live(mem) \cup {a}
    BY <1>1 DEF Live
  <1>5. gone \cap Live(new) = {} /\ Live(new) \subseteq Admins \cup drawn'
    <2>1. a \notin drawn
      BY MemFacts, NamesAssumption
    <2> QED
      BY <1>2, <1>4, <2>1, MemFacts
  <1>6. EnabledIn(new) = EnabledIn(mem) /\ EnabledIn(new) = Published(EnabledIn(mem), {}, {})
    BY <1>1, SMTT(60) DEF EnabledIn, Published
  <1> QED
    BY <1>1, <1>2, <1>3, <1>5, <1>6, MemFacts, ChangeInv

\* Values held by a state: the parts of Live.
LEMMA LiveParts ==
  ASSUME NEW s \in AppState
  PROVE  /\ \A r \in s.resources : r.id \in Live(s) /\ r.id \in ResourceIds
         /\ \A k \in s.connectors : k.token_hash \in Live(s) /\ k.token_hash \in Tokens
  BY SMTT(60) DEF Live, AppState, Resource, Connector

\* create_resource.
LEMMA CreateResourceInv ==
  ASSUME IInv, NEW r \in Resource, CreateResource(r)
  PROVE  IInv'
  <1> DEFINE new == [mem EXCEPT !.resources = @ \cup {r}]
  <1>1. /\ new.admin = mem.admin /\ new.resources = mem.resources \cup {r}
        /\ new.connectors = mem.connectors /\ new \in AppState
    BY MemFacts DEF AppState
  <1>2. Free /\ Change(new, mem, {}, {r}) /\ setups' = setups /\ edits' = edits
        /\ drawn' = drawn \cup {r.id} /\ r.id \notin drawn /\ r.enabled
        /\ ValidTarget(r) /\ ~SubdomainInUse(r) /\ ConnectorKnown(r) /\ mem.admin # None
    BY SMTT(60) DEF CreateResource, Admitted
  <1> HIDE DEF new
  <1>3. r.id \in ResourceIds /\ r.id \notin Admins
    BY NamesAssumption, SMTT(60) DEF Resource
  <1>4. \A q \in mem.resources : q.id # r.id /\ q.subdomain # r.subdomain
    BY <1>2, <1>3, MemFacts, LiveParts, SMTT(60) DEF SubdomainInUse
  <1>5. Sane(new)
    BY <1>1, <1>2, <1>4, MemFacts DEF Sane, ConnectorKnown
  <1>6. Live(new) \subseteq Live(mem) \cup {r.id}
    BY <1>1, SMTT(60) DEF Live
  <1>7. /\ gone \cap Live(new) = {} /\ Live(new) \subseteq Admins \cup drawn'
        /\ drawn' \subseteq ResourceIds \cup ConnectorIds \cup Tokens
    BY <1>2, <1>3, <1>6, MemFacts
  <1>8. EnabledIn(new) = Published(EnabledIn(mem), {}, {r})
    BY <1>1, <1>2, <1>4 DEF EnabledIn, Published
  <1> QED
    BY <1>1, <1>2, <1>5, <1>7, <1>8, MemFacts, ChangeInv

\* update_resource under its lock, when it stores the resource.
LEMMA UpdateCommitsInv ==
  ASSUME IInv, NEW r \in Resource, Free, r \in edits, edits' = edits \ {r},
         setups' = setups, drawn' = drawn,
         NEW q \in mem.resources, q.id = r.id, ~SubdomainInUse(r), ConnectorKnown(r),
         Change([mem EXCEPT !.resources = (@ \ {q}) \cup {r}], mem, {q.subdomain}, {r})
  PROVE  IInv'
  <1> DEFINE new == [mem EXCEPT !.resources = (@ \ {q}) \cup {r}]
  <1>1. /\ new.admin = mem.admin /\ new.resources = (mem.resources \ {q}) \cup {r}
        /\ new.connectors = mem.connectors /\ new \in AppState
    BY MemFacts DEF AppState
  <1>2. Change(new, mem, {q.subdomain}, {r})
    OBVIOUS
  <1> HIDE DEF new
  <1>3. \A p \in mem.resources \ {q} : p.id # r.id /\ p.subdomain # r.subdomain
                                       /\ p.subdomain # q.subdomain
    BY MemFacts DEF SubdomainInUse, Sane
  <1>4. Sane(new)
    BY <1>1, <1>3, MemFacts DEF Sane, ConnectorKnown
  <1>5. Live(new) \subseteq Live(mem)
    BY <1>1 DEF Live
  <1>6. q.subdomain \in Subdomains
    BY MemFacts DEF AppState, Resource
  <1>7. EnabledIn(new) = Published(EnabledIn(mem), {q.subdomain}, {r})
    BY <1>1, <1>3, SMTT(60) DEF EnabledIn, Published
  <1> QED
    BY <1>1, <1>2, <1>4, <1>5, <1>6, <1>7, MemFacts, ChangeInv

\* delete_resource.
LEMMA DeleteResourceInv ==
  ASSUME IInv, NEW r \in mem.resources, DeleteResource(r)
  PROVE  IInv'
  <1> DEFINE new == [mem EXCEPT !.resources = @ \ {r}]
  <1>1. /\ new.admin = mem.admin /\ new.resources = mem.resources \ {r}
        /\ new.connectors = mem.connectors /\ new \in AppState
    BY MemFacts, SMTT(60) DEF AppState
  <1>2. Free /\ Change(new, mem, {r.subdomain}, {}) /\ setups' = setups /\ edits' = edits
        /\ drawn' = drawn
    BY DEF DeleteResource, Admitted
  <1> HIDE DEF new
  <1>3. \A p \in mem.resources \ {r} : p.subdomain # r.subdomain
    BY MemFacts DEF Sane
  <1>4. Sane(new)
    BY <1>1, MemFacts DEF Sane
  <1>5. Live(new) \subseteq Live(mem)
    BY <1>1 DEF Live
  <1>6. r.subdomain \in Subdomains
    BY MemFacts DEF AppState, Resource
  <1>7. EnabledIn(new) = Published(EnabledIn(mem), {r.subdomain}, {})
    BY <1>1, <1>3 DEF EnabledIn, Published
  <1> QED
    BY <1>1, <1>2, <1>4, <1>5, <1>6, <1>7, MemFacts, ChangeInv

\* What the calls on connectors have in common: routes and setup stay, and every
\* connector that a resource may name is still there.
LEMMA ConnectorsChangeInv ==
  ASSUME IInv, Free, NEW connectors \in SUBSET Connector, NEW back \in AppState,
         NEW new \in AppState, new = [mem EXCEPT !.connectors = connectors],
         back \in {mem, new},
         Change(new, back, {}, {}), setups' = setups, edits' = edits,
         drawn \subseteq drawn', drawn' \subseteq ResourceIds \cup ConnectorIds \cup Tokens,
         \A k \in mem.connectors :
            \/ \E n \in connectors : n.id = k.id
            \/ \A r \in mem.resources : r.connector_id # k.id,
         \A k \in connectors :
            k.token_hash \in Live(mem) \/ (k.token_hash \in drawn' /\ k.token_hash \notin drawn)
  PROVE  IInv'
  <1>1. /\ new.admin = mem.admin /\ new.resources = mem.resources
        /\ new.connectors = connectors
    BY MemFacts DEF AppState
  <1>2. Sane(new)
    BY <1>1, MemFacts DEF Sane
  <1>3. \A x \in Live(new) : x \in Live(mem) \/ (x \in drawn' /\ x \notin drawn)
    BY <1>1 DEF Live
  <1>4. EnabledIn(new) = EnabledIn(mem) /\ EnabledIn(new) = Published(EnabledIn(mem), {}, {})
    BY <1>1 DEF EnabledIn, Published
  <1>5. gone \cap Live(new) = {} /\ Live(new) \subseteq Admins \cup drawn'
    BY <1>3, MemFacts
  <1>6. setups' \subseteq Admins /\ edits' \subseteq edits
    BY DEF IInv, TypeOK
  <1>7. EnabledIn(back) = EnabledIn(mem) /\ mem.admin \in {None, new.admin}
    BY <1>1, <1>4, Zenon
  <1> QED
    BY <1>2, <1>4, <1>5, <1>6, <1>7, ChangeInv, ZenonT(60)

\* create_connector.
LEMMA CreateConnectorInv ==
  ASSUME IInv, NEW id \in ConnectorIds, NEW token \in Tokens, CreateConnector(id, token)
  PROVE  IInv'
  <1> DEFINE k == [id |-> id, token_hash |-> token, force_wss |-> FALSE]
             new == [mem EXCEPT !.connectors = @ \cup {k}]
  <1>1. k \in Connector /\ k.token_hash = token
    BY DEF Connector
  <1>2. /\ Free /\ Change(new, mem, {}, {}) /\ setups' = setups /\ edits' = edits
        /\ drawn' = drawn \cup {id, token} /\ token \notin drawn
    BY DEF CreateConnector, Admitted
  <1> HIDE DEF k
  <1>3. new = [mem EXCEPT !.connectors = mem.connectors \cup {k}] /\ new \in AppState
        /\ mem.connectors \cup {k} \in SUBSET Connector
    BY <1>1, MemFacts DEF AppState
  <1>4. \A c \in mem.connectors \cup {k} :
            c.token_hash \in Live(mem) \/ (c.token_hash \in drawn' /\ c.token_hash \notin drawn)
    BY <1>1, <1>2, MemFacts, LiveParts
  <1> HIDE DEF new
  <1> QED
    BY <1>2, <1>3, <1>4, MemFacts, ConnectorsChangeInv

\* update_connector.
LEMMA UpdateConnectorInv ==
  ASSUME IInv, NEW k \in mem.connectors, UpdateConnector(k)
  PROVE  IInv'
  <1> DEFINE n == [k EXCEPT !.force_wss = ~@]
             new == [mem EXCEPT !.connectors = (@ \ {k}) \cup {n}]
  <1>1. n \in Connector /\ n.id = k.id /\ n.token_hash = k.token_hash
    BY MemFacts, Zenon DEF AppState, Connector
  <1>2. /\ Free /\ Change(new, new, {}, {}) /\ setups' = setups /\ edits' = edits
        /\ drawn' = drawn
    BY DEF UpdateConnector, Admitted
  <1> HIDE DEF n
  <1>3. new = [mem EXCEPT !.connectors = (mem.connectors \ {k}) \cup {n}] /\ new \in AppState
        /\ (mem.connectors \ {k}) \cup {n} \in SUBSET Connector
    BY <1>1, MemFacts DEF AppState
  <1>4. \A c \in (mem.connectors \ {k}) \cup {n} : c.token_hash \in Live(mem)
    BY <1>1, MemFacts, LiveParts
  <1> HIDE DEF new
  <1> QED
    BY <1>1, <1>2, <1>3, <1>4, MemFacts, ConnectorsChangeInv, ZenonT(60)

\* delete_connector.
LEMMA DeleteConnectorInv ==
  ASSUME IInv, NEW k \in mem.connectors, DeleteConnector(k)
  PROVE  IInv'
  <1> DEFINE new == [mem EXCEPT !.connectors = @ \ {k}]
  <1>1. /\ Free /\ Change(new, mem, {}, {}) /\ setups' = setups /\ edits' = edits
        /\ drawn' = drawn /\ \A r \in mem.resources : r.connector_id # k.id
    BY DEF DeleteConnector, Admitted
  <1>2. new = [mem EXCEPT !.connectors = mem.connectors \ {k}] /\ new \in AppState
        /\ mem.connectors \ {k} \in SUBSET Connector
    BY MemFacts DEF AppState
  <1>3. \A c \in mem.connectors \ {k} : c.token_hash \in Live(mem)
    BY MemFacts, LiveParts
  <1> HIDE DEF new
  <1> QED
    BY <1>1, <1>2, <1>3, MemFacts, ConnectorsChangeInv, ZenonT(60)

\* regenerate_connector_token.
LEMMA RegenerateTokenInv ==
  ASSUME IInv, NEW k \in mem.connectors, NEW token \in Tokens, RegenerateToken(k, token)
  PROVE  IInv'
  <1> DEFINE n == [k EXCEPT !.token_hash = token]
             new == [mem EXCEPT !.connectors = (@ \ {k}) \cup {n}]
  <1>1. n \in Connector /\ n.id = k.id /\ n.token_hash = token
    BY MemFacts DEF AppState, Connector
  <1>2. /\ Free /\ Change(new, mem, {}, {}) /\ setups' = setups /\ edits' = edits
        /\ drawn' = drawn \cup {token} /\ token \notin drawn
    BY DEF RegenerateToken, Admitted
  <1> HIDE DEF n
  <1>3. new = [mem EXCEPT !.connectors = (mem.connectors \ {k}) \cup {n}] /\ new \in AppState
        /\ (mem.connectors \ {k}) \cup {n} \in SUBSET Connector
    BY <1>1, MemFacts DEF AppState
  <1>4. \A c \in (mem.connectors \ {k}) \cup {n} :
            c.token_hash \in Live(mem) \/ (c.token_hash \in drawn' /\ c.token_hash \notin drawn)
    BY <1>1, <1>2, MemFacts, LiveParts
  <1> HIDE DEF new
  <1> QED
    BY <1>1, <1>2, <1>3, <1>4, MemFacts, ConnectorsChangeInv, ZenonT(60)

-------------------------------------------------------------------------------
(* The save, the answer and the process. *)

\* A type for the call that holds the lock.
JobType == [step: {"none", "saving", "renamed", "saved", "unrouted"},
            old: AppState, back: AppState,
            drop: SUBSET Subdomains, put: SUBSET Resource]

\* A step of the call in progress changes its step and nothing else of it.
LEMMA StepFacts ==
  ASSUME IInv, NEW st \in {"none", "saving", "renamed", "saved", "unrouted"}, Step(st)
  PROVE  /\ job' \in JobType /\ job'.step = st /\ job'.old = job.old
         /\ job'.back = job.back /\ job'.drop = job.drop /\ job'.put = job.put
  <1>1. job \in JobType
    BY DEF IInv, TypeOK, JobType
  <1> QED
    BY <1>1 DEF Step, JobType

LEMMA NoJobFacts == NoJob \in JobType /\ NoJob.step = "none"
  BY DefaultIsSane DEF NoJob, JobType

\* What callers were told of a state still holds of it if they were told nothing new.
LEMMA HonoursStays ==
  ASSUME NEW s, Honours(s), UNCHANGED <<kept, gone, drawn>>
  PROVE  Honours(s)'
  BY DEF Honours, Live

LEMMA SaneStays ==
  ASSUME NEW s, Sane(s)
  PROVE  Sane(s)'
  BY DEF Sane, ValidTarget

LEMMA RenameInv ==
  ASSUME IInv, Rename
  PROVE  IInv'
  <1>1. /\ job.step = "saving" /\ file' = mem /\ survives' = survives \cup {mem}
        /\ Step("renamed")
        /\ UNCHANGED <<mem, routes, phase, setups, edits, drawn, faults, kept, gone>>
    BY DEF Rename
  <1>2. /\ job' \in JobType /\ job'.step = "renamed" /\ job'.old = job.old
        /\ job'.back = job.back /\ job'.drop = job.drop /\ job'.put = job.put
    BY <1>1, StepFacts
  <1>3. TypeOK'
    BY <1>1, <1>2, SMTT(60) DEF IInv, TypeOK, JobType
  <1>4. \A s \in States' : Sane(s)' /\ Honours(s)'
    BY <1>1, HonoursStays, SaneStays, SMTT(60) DEF IInv, States
  <1>5. JobInv'
    BY <1>1, <1>2, SMTT(60) DEF IInv, JobInv, Sane, Honours, Live, EnabledIn, Published, ValidTarget
  <1>6. RoutesInv'
    BY <1>1, <1>2 DEF IInv, RoutesInv, Base, EnabledIn
  <1> QED
    BY <1>1, <1>3, <1>4, <1>5, <1>6 DEF IInv, ValidTarget

LEMMA SyncDirInv ==
  ASSUME IInv, SyncDir
  PROVE  IInv'
  <1>1. /\ job.step = "renamed" /\ survives' = {file} /\ Step("saved")
        /\ UNCHANGED <<mem, file, routes, phase, setups, edits, drawn, faults, kept, gone>>
    BY DEF SyncDir
  <1>2. /\ job' \in JobType /\ job'.step = "saved" /\ job'.old = job.old
        /\ job'.back = job.back /\ job'.drop = job.drop /\ job'.put = job.put
    BY <1>1, StepFacts, SMTT(60)
  <1>3. TypeOK'
    BY <1>1, <1>2 DEF IInv, TypeOK, JobType
  <1>4. \A s \in States' : Sane(s)' /\ Honours(s)'
    BY <1>1, HonoursStays, SaneStays, SMTT(60) DEF IInv, States
  <1>5. JobInv'
    BY <1>1, <1>2, SMTT(60) DEF IInv, JobInv, Sane, Honours, Live, EnabledIn, Published, ValidTarget
  <1>6. RoutesInv'
    BY <1>1, <1>2 DEF IInv, RoutesInv, Base, EnabledIn
  <1> QED
    BY <1>1, <1>3, <1>4, <1>5, <1>6 DEF IInv, ValidTarget

LEMMA SaveFailsInv ==
  ASSUME IInv, SaveFails
  PROVE  IInv'
  <1>1. /\ job.step \in {"saving", "renamed"} /\ mem' = job.back /\ job' = NoJob
        /\ faults < MaxFaults /\ faults' = faults + 1
        /\ UNCHANGED <<file, survives, routes, phase, setups, edits, drawn, kept, gone>>
    BY SMTT(60) DEF SaveFails, Fault
  <1>2. /\ Sane(job.back) /\ Honours(job.back) /\ job.back \in AppState
        /\ EnabledIn(job.back) = EnabledIn(job.old)
    BY <1>1 DEF IInv, JobInv, Sane
  <1>3. faults' \in 0..MaxFaults
    BY <1>1, BoundsAssumption, SMTT(60) DEF IInv, TypeOK
  <1>4. TypeOK'
    BY <1>1, <1>2, <1>3, NoJobFacts DEF IInv, TypeOK, JobType
  <1>5. PICK b : b = job.back
    BY SMTT(60)
  <1>6. Sane(b)' /\ Honours(b)'
    BY <1>1, <1>2, <1>5, HonoursStays, SaneStays
  <1>7. \A s \in States' : Sane(s)' /\ Honours(s)'
    <2>1. \A s \in {file} \cup survives : Sane(s)' /\ Honours(s)'
      BY <1>1, HonoursStays, SaneStays DEF IInv, States
    <2> QED
      BY <1>1, <1>5, <1>6, <2>1, SMTT(60) DEF States
  <1>8. JobInv'
    BY <1>1, NoJobFacts, SMTT(60) DEF JobInv
  <1>9. Base' = EnabledIn(job.old) /\ Base = EnabledIn(job.old)
    BY <1>1, <1>2, NoJobFacts DEF Base, EnabledIn
  <1>10. RoutesInv'
    BY <1>1, <1>9, SMTT(60) DEF IInv, RoutesInv
  <1> QED
    BY <1>1, <1>4, <1>7, <1>8, <1>10 DEF IInv, ValidTarget

LEMMA UnrouteInv ==
  ASSUME IInv, Unroute
  PROVE  IInv'
  <1>1. /\ job.step = "saved" /\ routes' = {r \in routes : r.subdomain \notin job.drop}
        /\ Step("unrouted")
        /\ UNCHANGED <<mem, file, survives, phase, setups, edits, drawn, faults, kept, gone>>
    BY SMTT(60) DEF Unroute
  <1>2. /\ job' \in JobType /\ job'.step = "unrouted" /\ job'.old = job.old
        /\ job'.back = job.back /\ job'.drop = job.drop /\ job'.put = job.put
    BY <1>1, StepFacts
  <1>3. TypeOK'
    BY <1>1, <1>2, SMTT(60) DEF IInv, TypeOK, JobType
  <1>4. \A s \in States' : Sane(s)' /\ Honours(s)'
    BY <1>1, HonoursStays, SaneStays, SMTT(60) DEF IInv, States
  <1>5. JobInv'
    BY <1>1, <1>2, SMTT(60) DEF IInv, JobInv, Sane, Honours, Live, EnabledIn, Published, ValidTarget
  <1>6. RoutesInv'
    BY <1>1, <1>2 DEF IInv, RoutesInv, Base, EnabledIn
  <1> QED
    BY <1>1, <1>3, <1>4, <1>5, <1>6 DEF IInv, ValidTarget

\* The answer: the file is on disk, so what the caller is told holds of every state.
LEMMA AnswerInv ==
  ASSUME IInv, Answer
  PROVE  IInv'
  <1>1. /\ job.step = "unrouted" /\ job' = NoJob
        /\ routes' = {r \in routes : \A q \in job.put : r.subdomain # q.subdomain}
                        \cup {q \in job.put : q.enabled}
        /\ kept' = kept \cup (Live(mem) \ Live(job.old))
        /\ gone' = gone \cup (Live(job.old) \ Live(mem))
        /\ UNCHANGED <<mem, file, survives, phase, setups, edits, drawn, faults>>
    BY SMTT(60) DEF Answer
  <1>2. /\ file = mem /\ survives = {mem} /\ States' = {mem}
        /\ Live(job.old) \subseteq Admins \cup drawn /\ job.old.admin \in {None, mem.admin}
        /\ EnabledIn(mem) = Published(EnabledIn(job.old), job.drop, job.put)
        /\ job.old \in AppState /\ job.put \subseteq Resource
    BY <1>1, SMTT(60) DEF IInv, JobInv, States, TypeOK
  <1>3. Live(job.old) \ Live(mem) \subseteq drawn
    <2> SUFFICES ASSUME NEW x \in Live(job.old), x \notin Live(mem), x \in Admins
                 PROVE  FALSE
      BY <1>2, SMTT(60)
    <2>1. x = job.old.admin /\ x # None
      BY <1>2, NamesAssumption, NoneAssumption, SMTT(60) DEF Live, AppState, Resource, Connector
    <2> QED
      BY <1>2, <2>1 DEF Live
  <1>4. TypeOK'
    <2>1. kept' \subseteq Admins \cup drawn /\ gone' \subseteq Admins \cup drawn
      BY <1>1, <1>2, MemFacts, SMTT(60) DEF IInv, TypeOK
    <2>2. routes' \subseteq Resource
      BY <1>1, <1>2, SMTT(60) DEF IInv, TypeOK
    <2> QED
      BY <1>1, <2>1, <2>2, NoJobFacts, SMTT(60) DEF IInv, TypeOK, JobType
  <1>5. \A s \in States' : Sane(s)' /\ Honours(s)'
    <2>1. PICK m : m = mem
      BY SMTT(60)
    <2>2. Sane(m)' /\ Live(m)' = Live(m)
      BY <2>1, MemFacts, SaneStays, SMTT(60) DEF Live
    <2>3. kept' \subseteq Live(m) /\ gone' \cap Live(m) = {} /\ Live(m) \subseteq Admins \cup drawn'
      BY <1>1, <2>1, MemFacts, SMTT(60) DEF Honours
    <2> QED
      BY <1>2, <2>1, <2>2, <2>3 DEF Honours
  <1>6. JobInv'
    BY <1>1, NoJobFacts, SMTT(60) DEF JobInv
  <1>7. RoutesInv'
    <2>1. Base' = EnabledIn(mem) /\ Base = {r \in EnabledIn(job.old) : r.subdomain \notin job.drop}
      BY <1>1, NoJobFacts, ZenonT(60) DEF Base, EnabledIn
    <2> QED
      BY <1>1, <1>2, <2>1, SMTT(60) DEF IInv, RoutesInv, Published
  <1>8. gone' \subseteq drawn'
    BY <1>1, <1>3 DEF IInv
  <1> QED
    BY <1>1, <1>2, <1>4, <1>5, <1>6, <1>7, <1>8, SMTT(60) DEF IInv, ValidTarget

\* A step that only moves callers in front of the lock.
LEMMA WaitingInv ==
  ASSUME IInv, UNCHANGED <<mem, file, survives, routes, phase, job, drawn, faults, kept, gone>>,
         setups' \subseteq Admins, edits' \subseteq Resource,
         \A r \in edits' : ValidTarget(r)
  PROVE  IInv'
  <1>1. TypeOK'
    BY DEF IInv, TypeOK
  <1>2. \A s \in States' : Sane(s)' /\ Honours(s)'
    BY HonoursStays, SaneStays, SMTT(60) DEF IInv, States
  <1>3. JobInv'
    BY ZenonT(60) DEF IInv, JobInv, Sane, Honours, Live, EnabledIn, Published, ValidTarget
  <1>4. RoutesInv'
    BY DEF IInv, RoutesInv, Base, EnabledIn
  <1> QED
    BY <1>1, <1>2, <1>3, <1>4, SMTT(60) DEF IInv, ValidTarget

\* The boot publishes the enabled resources; before setup there are none.
LEMMA StartInv ==
  ASSUME IInv, Start
  PROVE  IInv'
  <1>1. /\ job.step = "none"
        /\ UNCHANGED <<mem, file, survives, job, setups, edits, drawn, faults, kept, gone>>
    BY SMTT(60) DEF Start, Free
  <1>2. routes \subseteq EnabledIn(mem) /\ Base' = EnabledIn(mem)
    BY <1>1, SMTT(60) DEF IInv, RoutesInv, Base, EnabledIn
  <1>3. phase' \in {"edge", "admin"} /\ routes' = EnabledIn(mem)
    <2>1. CASE mem.admin = None
      <3>1. EnabledIn(mem) = {}
        BY <2>1, MemFacts DEF Sane, EnabledIn
      <3> QED
        BY <1>2, <2>1, <3>1, SMTT(60) DEF Start
    <2>2. CASE mem.admin # None
      BY <1>2, <2>2, SMTT(60) DEF Start
    <2> QED
      BY <2>1, <2>2
  <1>4. TypeOK'
    <2>1. EnabledIn(mem) \subseteq Resource
      BY MemFacts, SMTT(60) DEF EnabledIn, AppState
    <2> QED
      BY <1>1, <1>3, <2>1 DEF IInv, TypeOK
  <1>5. \A s \in States' : Sane(s)' /\ Honours(s)'
    BY <1>1, HonoursStays, SaneStays, SMTT(60) DEF IInv, States
  <1>6. JobInv' /\ RoutesInv'
    BY <1>1, <1>2, <1>3, SMTT(60) DEF JobInv, RoutesInv
  <1> QED
    BY <1>1, <1>4, <1>5, <1>6, SMTT(60) DEF IInv, ValidTarget

\* A new process on a state that is on disk.
LEMMA LoadInv ==
  ASSUME IInv, NEW s \in survives, Load(s), file' = s, s \in survives',
         survives' \subseteq survives
  PROVE  IInv'
  <1>1. /\ mem' = s /\ routes' = {} /\ phase' = "loaded" /\ job' = NoJob
        /\ setups' = {} /\ edits' = {} /\ faults < MaxFaults /\ faults' = faults + 1
        /\ UNCHANGED <<drawn, kept, gone>>
    BY SMTT(60) DEF Load, Fault
  <1>2. faults' \in 0..MaxFaults
    BY <1>1, BoundsAssumption, SMTT(60) DEF IInv, TypeOK
  <1>3. TypeOK'
    BY <1>1, <1>2, NoJobFacts, SMTT(60) DEF IInv, TypeOK, JobType
  <1>4. \A t \in States' : Sane(t)' /\ Honours(t)'
    BY <1>1, HonoursStays, SaneStays, SMTT(60) DEF IInv, States
  <1>5. JobInv' /\ RoutesInv'
    BY <1>1, NoJobFacts, SMTT(60) DEF JobInv, RoutesInv
  <1> QED
    BY <1>1, <1>3, <1>4, <1>5 DEF IInv

LEMMA NextInv == IInv /\ [Next]_vars => IInv'
  <1> SUFFICES ASSUME IInv, [Next]_vars PROVE IInv'
    OBVIOUS
  <1>1. CASE Rename
    BY <1>1, RenameInv
  <1>2. CASE SyncDir
    BY <1>2, SyncDirInv, SMTT(60)
  <1>3. CASE SaveFails
    BY <1>3, SaveFailsInv
  <1>4. CASE Unroute
    BY <1>4, UnrouteInv
  <1>5. CASE Answer
    BY <1>5, AnswerInv
  <1>6. ASSUME NEW a \in Admins, SetupArrives(a) PROVE IInv'
    BY <1>6, MemFacts, WaitingInv DEF SetupArrives
  <1>7. ASSUME NEW a \in Admins, SetupCommits(a) PROVE IInv'
    <2>1. CASE mem.admin = None
      BY <1>7, <2>1, SetupCommitsInv
    <2>2. CASE mem.admin # None
      BY <1>7, <2>2, MemFacts, WaitingInv, SMTT(60) DEF SetupCommits
    <2> QED
      BY <2>1, <2>2
  <1>8. ASSUME NEW r \in Resource, CreateResource(r) PROVE IInv'
    BY <1>8, CreateResourceInv, SMTT(60)
  <1>9. ASSUME NEW r \in Resource, UpdateArrives(r) PROVE IInv'
    BY <1>9, MemFacts, WaitingInv DEF UpdateArrives
  <1>10. ASSUME NEW r \in Resource, UpdateCommits(r) PROVE IInv'
    <2>1. CASE UNCHANGED <<mem, file, survives, routes, phase, job, faults, kept, gone>>
      BY <1>10, <2>1, MemFacts, WaitingInv DEF UpdateCommits
    <2>2. CASE ~ UNCHANGED <<mem, file, survives, routes, phase, job, faults, kept, gone>>
      <3>1. PICK q \in mem.resources :
                /\ q.id = r.id
                /\ ~SubdomainInUse(r) /\ ConnectorKnown(r)
                /\ Change([mem EXCEPT !.resources = (@ \ {q}) \cup {r}], mem, {q.subdomain}, {r})
        BY <1>10, <2>2, Zenon DEF UpdateCommits
      <3> QED
        BY <1>10, <3>1, UpdateCommitsInv DEF UpdateCommits
    <2> QED
      BY <2>1, <2>2
  <1>11. ASSUME NEW r \in mem.resources, DeleteResource(r) PROVE IInv'
    BY <1>11, DeleteResourceInv
  <1>12. ASSUME NEW id \in ConnectorIds, NEW token \in Tokens, CreateConnector(id, token)
         PROVE  IInv'
    BY <1>12, CreateConnectorInv
  <1>13. ASSUME NEW k \in mem.connectors, UpdateConnector(k) PROVE IInv'
    BY <1>13, UpdateConnectorInv
  <1>14. ASSUME NEW k \in mem.connectors, DeleteConnector(k) PROVE IInv'
    BY <1>14, DeleteConnectorInv
  <1>15. ASSUME NEW k \in mem.connectors, NEW token \in Tokens, RegenerateToken(k, token)
         PROVE  IInv'
    BY <1>15, RegenerateTokenInv
  <1>16. CASE Start
    BY <1>16, StartInv
  <1>17. CASE Restart
    <2>1. PICK s : s = file
      OBVIOUS
    <2> QED
      BY <1>17, <2>1, LoadInv DEF Restart, IInv
  <1>18. CASE PowerLoss
    <2>1. PICK s \in survives : Load(s) /\ file' = s /\ survives' = {s}
      BY <1>18 DEF PowerLoss
    <2> QED
      BY <2>1, LoadInv
  <1>19. CASE UNCHANGED vars
    BY <1>19, MemFacts, WaitingInv DEF vars
  <1> QED
    BY <1>1, <1>2, <1>3, <1>4, <1>5, <1>6, <1>7, <1>8, <1>9, <1>10, <1>11, <1>12, <1>13,
       <1>14, <1>15, <1>16, <1>17, <1>18, <1>19 DEF Next

LEMMA AlwaysIInv == Spec => []IInv
  BY InitInv, NextInv, PTL DEF Spec

-------------------------------------------------------------------------------
(* Theorems. *)

\* Every variable keeps its type, for any sets of names and any bounds.
THEOREM TypeCorrect == Spec => []TypeOK
  <1>1. IInv => TypeOK
    BY DEF IInv
  <1> QED
    BY <1>1, AlwaysIInv, PTL

\* Every state in memory or on disk has unique subdomains, only connectors that exist and
\* only validated targets (the checks of create, update and delete under the lock).
THEOREM StatesAreConsistent == Spec => []StatesConsistent
  <1>1. ASSUME NEW s, Sane(s) PROVE UniqueSubdomains(s) /\ ConnectorsExist(s)
    BY <1>1 DEF Sane, UniqueSubdomains, ConnectorsExist
  <1>2. ASSUME NEW s, Sane(s) PROVE TargetsValidated(s)
    BY <1>2, SMTT(60) DEF Sane, TargetsValidated
  <1>3. IInv => StatesConsistent
    BY <1>1, <1>2 DEF IInv, StatesConsistent
  <1> QED
    BY <1>3, AlwaysIInv, PTL

\* With the lock free, the route table is the enabled resources in memory
\* (publish, remove_resource, the boot loop and the rollbacks).
THEOREM RoutesFollow == Spec => []RoutesMatch
  <1>1. IInv => RoutesMatch
    BY DEF IInv, RoutesInv, Base, RoutesMatch, Free
  <1> QED
    BY <1>1, AlwaysIInv, PTL

\* What was answered with success survives failed saves, restarts and power losses:
\* what was stored is there, and what was removed does not come back (save_secure_file
\* before the answer, and the rollbacks).
THEOREM AnswersAlwaysHold == Spec => []AnswersHold
  <1>1. IInv => AnswersHold
    BY DEF IInv, Honours, AnswersHold
  <1> QED
    BY <1>1, AlwaysIInv, PTL

===============================================================================
