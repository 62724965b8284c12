------------------------------- MODULE Logins -------------------------------
(***************************************************************************)
(* Admin logins and admin sessions of a server that has been set up:       *)
(* auth_login (server/src/api/auth_api.rs), AuthService and                *)
(* verify_password_async (server/src/auth.rs), the checks of an admin call *)
(* (enforce_api_csrf, verify_admin) and the maintenance tick.              *)
(*                                                                         *)
(* Every login makes at most one session, so a session is named after its  *)
(* login, which stands for the random session id and the CSRF token drawn  *)
(* with it.  A session records how long ago it was created and last used,  *)
(* counted up to one more than its limit, so that time has no horizon.     *)
(* create_admin_session does not await: at most Threads logins are in it.  *)
(* Each of its accesses to the shared map is a step.                       *)
(***************************************************************************)
EXTENDS Naturals, FiniteSets

CONSTANTS
    MaxLogins,    \* bound: login requests
    Slots,        \* ARGON2_MAX_CONCURRENT
    MaxSessions,  \* MAX_ADMIN_SESSIONS
    IdleTtl,      \* SESSION_IDLE_TTL_SECS
    AbsoluteTtl,  \* SESSION_ABSOLUTE_TTL_SECS
    Threads       \* worker threads of the runtime

ASSUME LimitsAssumption ==
    /\ Slots \in Nat \ {0} /\ MaxSessions \in Nat \ {0} /\ Threads \in Nat \ {0}
    /\ IdleTtl \in Nat /\ AbsoluteTtl \in Nat /\ MaxLogins \in Nat

VARIABLES
    login,     \* the request: where its handler is, and its local variables
    permits,   \* free permits of VERIFY_SLOTS
    running,   \* Argon2 runs on the blocking pool
    sessions   \* AuthService.admin_sessions

vars == <<login, permits, running, sessions>>

\* Login requests, numbered in the order in which they arrive.
Logins == 1 .. MaxLogins

Stages == {"new", "queued", "verify", "floor", "room", "clean", "count", "pick",
           "evict", "insert", "in", "refused", "gone"}

Login == [stage : Stages, valid : BOOLEAN, excess : Nat, victims : SUBSET Logins]

Session == [age : 0 .. AbsoluteTtl + 1, idle : 0 .. IdleTtl + 1]

TypeOK ==
    /\ login \in [Logins -> Login]
    /\ permits \in 0 .. Slots
    /\ running \subseteq Logins
    /\ DOMAIN sessions \subseteq Logins
    /\ \A s \in DOMAIN sessions : sessions[s] \in Session

Init ==
    /\ login = [r \in Logins |->
                   [stage |-> "new", valid |-> FALSE, excess |-> 0, victims |-> {}]]
    /\ permits = Slots
    /\ running = {}
    /\ sessions = <<>>

-----------------------------------------------------------------------------
At(r, stage) == login[r].stage = stage

Goto(r, stage) == login' = [login EXCEPT ![r].stage = stage, ![r].valid = FALSE]

Without(f, S) == [s \in DOMAIN f \ S |-> f[s]]

Idle(s) == s.idle > IdleTtl

Overdue(s) == s.age > AbsoluteTtl

\* Mutant: only the idle limit.
ExpiredWhenIdle(s) == Idle(s)

\* admin_session_expired
Expired(s) == Idle(s) \/ Overdue(s)

ExpiredSessions == {s \in DOMAIN sessions : Expired(sessions[s])}

\* Logins in create_admin_session.
Creating == {r \in Logins : login[r].stage \in {"clean", "count", "pick", "evict", "insert"}}

-----------------------------------------------------------------------------
NextToCome(r) == At(r, "new") /\ \A q \in Logins : q < r => ~At(q, "new")

\* auth_login: the password hash is read; a password that is too long is refused.
Arrive(r) ==
    /\ NextToCome(r)
    /\ Goto(r, "queued")
    /\ UNCHANGED <<permits, running, sessions>>

TooLong(r) ==
    /\ NextToCome(r)
    /\ Goto(r, "refused")
    /\ UNCHANGED <<permits, running, sessions>>

\* VERIFY_SLOTS serves the requests that wait for it in the order of their arrival.
FirstInLine(r) == At(r, "queued") /\ \A q \in Logins : q < r => ~At(q, "queued")

\* verify_password_async: VERIFY_SLOTS.acquire, then spawn_blocking.
Acquire(r) ==
    /\ FirstInLine(r) /\ permits > 0
    /\ permits' = permits - 1
    /\ running' = running \cup {r}
    /\ Goto(r, "verify")
    /\ UNCHANGED sessions

\* The Argon2 run ends.  A handler that still waits for it drops its permit and sleeps
\* for what is left of LOGIN_MIN_DURATION; otherwise nobody reads the result.
VerifyEnds(r) ==
    /\ r \in running
    /\ running' = running \ {r}
    /\ \/ /\ At(r, "verify")
          /\ permits' = permits + 1
          /\ \E valid \in BOOLEAN :
                login' = [login EXCEPT ![r].stage = "floor", ![r].valid = valid]
       \/ /\ ~At(r, "verify")
          /\ UNCHANGED <<permits, login>>
    /\ UNCHANGED sessions

\* The sleep is over: 401, or create_admin_session.
FloorOver(r) ==
    /\ At(r, "floor")
    /\ Goto(r, IF login[r].valid THEN "room" ELSE "refused")
    /\ UNCHANGED <<permits, running, sessions>>

\* Mutant: the permit is forgotten with the handler.
GoneWithPermit(r) ==
    /\ login[r].stage \in {"queued", "verify", "floor"}
    /\ Goto(r, "gone")
    /\ UNCHANGED <<permits, running, sessions>>

\* The client goes away: the handler is dropped at an await, and with it its place in
\* the queue or its permit.  An Argon2 run that has begun goes on.
Gone(r) ==
    /\ login[r].stage \in {"queued", "verify", "floor"}
    /\ Goto(r, "gone")
    /\ permits' = IF At(r, "verify") THEN permits + 1 ELSE permits
    /\ UNCHANGED <<running, sessions>>

-----------------------------------------------------------------------------
\* make_room: the test of the number of sessions.
Room(r) ==
    /\ At(r, "room") /\ Cardinality(Creating) < Threads
    /\ Goto(r, IF Cardinality(DOMAIN sessions) < MaxSessions THEN "insert" ELSE "clean")
    /\ UNCHANGED <<permits, running, sessions>>

\* make_room: cleanup_expired.
Clean(r) ==
    /\ At(r, "clean")
    /\ sessions' = Without(sessions, ExpiredSessions)
    /\ Goto(r, "count")
    /\ UNCHANGED <<permits, running>>

\* Mutant: one goes for the one that comes.
CountOne(r) ==
    /\ At(r, "count")
    /\ login' = [login EXCEPT ![r].stage = "pick",
                              ![r].excess = IF Cardinality(DOMAIN sessions) < MaxSessions
                                            THEN 0 ELSE 1]
    /\ UNCHANGED <<permits, running, sessions>>

\* make_room: how many sessions have to go (saturating at 0).
Count(r) ==
    /\ At(r, "count")
    /\ LET n == Cardinality(DOMAIN sessions) + 1 IN
       login' = [login EXCEPT ![r].stage = "pick",
                              ![r].excess = IF n > MaxSessions THEN n - MaxSessions ELSE 0]
    /\ UNCHANGED <<permits, running, sessions>>

\* make_room: the sessions are listed and sorted by their last access; the first
\* `excess` of them are to go.  Sessions of the same second come in any order.
Pick(r) ==
    /\ At(r, "pick")
    /\ \E victims \in SUBSET DOMAIN sessions :
          /\ Cardinality(victims) = IF login[r].excess < Cardinality(DOMAIN sessions)
                                    THEN login[r].excess ELSE Cardinality(DOMAIN sessions)
          /\ \A v \in victims, s \in DOMAIN sessions \ victims :
                sessions[v].idle >= sessions[s].idle
          /\ login' = [login EXCEPT ![r].stage = "evict", ![r].victims = victims]
    /\ UNCHANGED <<permits, running, sessions>>

\* make_room: they are removed, if they are still there.
Evict(r) ==
    /\ At(r, "evict")
    /\ sessions' = Without(sessions, login[r].victims)
    /\ login' = [login EXCEPT ![r].stage = "insert", ![r].victims = {}, ![r].excess = 0]
    /\ UNCHANGED <<permits, running>>

\* create_admin_session: the new session; auth_login answers with its cookies.
Insert(r) ==
    /\ At(r, "insert")
    /\ sessions' = [s \in DOMAIN sessions \cup {r} |->
                       IF s = r THEN [age |-> 0, idle |-> 0] ELSE sessions[s]]
    /\ Goto(r, "in")
    /\ UNCHANGED <<permits, running>>

-----------------------------------------------------------------------------
\* enforce_api_csrf on a mutating call: validate_admin_csrf of a client that has the
\* cookies of the session.
CsrfHolds(s) == ~Expired(sessions[s])

\* An admin call with the cookies of session s: a safe one, or one that passes
\* enforce_api_csrf; then validate_admin_session, which removes the session if it has
\* expired.  (It releases the lock in between; a session that has expired stays so.)
Use(s) ==
    /\ s \in DOMAIN sessions
    /\ \E safe \in BOOLEAN : safe \/ CsrfHolds(s)
    /\ sessions' = IF Expired(sessions[s]) THEN Without(sessions, {s})
                   ELSE [sessions EXCEPT ![s].idle = 0]
    /\ UNCHANGED <<login, permits, running>>

\* cleanup_expired of the maintenance tick in main.
Maintenance ==
    /\ ExpiredSessions # {}
    /\ sessions' = Without(sessions, ExpiredSessions)
    /\ UNCHANGED <<login, permits, running>>

\* A second passes.
Tick ==
    /\ sessions # <<>>
    /\ sessions' = [s \in DOMAIN sessions |->
          [age  |-> IF Overdue(sessions[s]) THEN sessions[s].age ELSE sessions[s].age + 1,
           idle |-> IF Idle(sessions[s]) THEN sessions[s].idle ELSE sessions[s].idle + 1]]
    /\ UNCHANGED <<login, permits, running>>

Create(r) == Room(r) \/ Clean(r) \/ Count(r) \/ Pick(r) \/ Evict(r) \/ Insert(r)

Handle(r) == Acquire(r) \/ VerifyEnds(r) \/ FloorOver(r) \/ Create(r)

Next ==
    \/ \E r \in Logins : Arrive(r) \/ TooLong(r) \/ Gone(r) \/ Handle(r)
    \/ \E s \in Logins : Use(s)
    \/ Maintenance \/ Tick

Spec == Init /\ [][Next]_vars

\* tokio polls the handlers, an Argon2 run ends, a sleep ends, time passes and the
\* maintenance task keeps ticking.  Nothing is assumed of clients.
Fairness ==
    /\ \A r \in Logins : WF_vars(Handle(r))
    /\ WF_vars(Maintenance) /\ WF_vars(Tick)

FairSpec == Spec /\ Fairness

-----------------------------------------------------------------------------
\* "The map is capped" (auth.rs:68-69): make_room and the insert are not one step, so
\* logins on several threads can evict the same session and all insert; but `excess`
\* is computed from what is there, so the map never exceeds its limit by more than the
\* threads that are in create_admin_session together.
SessionsBounded == Cardinality(DOMAIN sessions) <= MaxSessions + Threads - 1

\* A login that waits for its turn is answered, unless its client goes away: "a leaked
\* permit wedges every later login" (auth.rs:160), wherever clients go away.
LoginAnswered ==
    \A r \in Logins : At(r, "queued") ~> (login[r].stage \in {"in", "refused", "gone"})

\* Sessions do not stay past the absolute limit, however often they are used: again and
\* again every overdue one has been removed, by a login, by a call that uses it or by
\* the maintenance tick (a session that never ended would be overdue for ever).
SessionsEnd == []<>(\A s \in DOMAIN sessions : ~Overdue(sessions[s]))
=============================================================================
