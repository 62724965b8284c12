-------------------------- MODULE ConnectorSessions --------------------------
(***************************************************************************)
(* The sessions of the connectors on the server: authentication, the       *)
(* session permit, ConnectorRegistry, and the admin calls that end a       *)
(* session (crates/server/src/transport/{quic,websocket}.rs,               *)
(* connector_manager.rs and api/connectors.rs).                            *)
(*                                                                         *)
(* A member of Sessions is one run of run_session, over either transport.  *)
(* A step is what one task does between two points where another task can  *)
(* be seen to interfere: the read guard of the token lookup, the semaphore,*)
(* the write guard of the registry.  `register` drops that guard before it *)
(* shuts the replaced manager down, so it is two steps; `unregister` and   *)
(* `unregister_manager` hold it, so each is one.                           *)
(*                                                                         *)
(* A token is known by its generation: 0 once the connector is deleted.    *)
(* The tunnels of a session are in WssTunnel.tla and StreamSlots.tla.      *)
(***************************************************************************)
EXTENDS Naturals, FiniteSets

CONSTANTS
    Connectors, \* connector ids
    Sessions,   \* runs of run_session
    NoSession,  \* an absent registry entry
    Permits,    \* MAX_CONNECTOR_SESSIONS, for each transport
    MaxTokens   \* bound: token generations of a connector

ASSUME NoSessionAssumption == NoSession \notin Sessions
ASSUME SessionsAssumption == IsFiniteSet(Sessions)
ASSUME PermitsAssumption == Permits \in Nat \ {0} /\ MaxTokens \in Nat \ {0}

VARIABLES
    sess,     \* each session: where it is, and its manager
    registry, \* ConnectorRegistry::managers
    token,    \* generation of the connector's token
    rotating, \* regenerate_connector_token has saved and not yet called unregister
    permits   \* permits left in each transport's semaphore

vars == <<sess, registry, token, rotating, permits>>

Transports == {"quic", "wss"}

Stages == {"new", "authenticated", "admitted", "replacing", "running", "ending",
           "leaving", "done"}

Session ==
    [stage     : Stages,
     transport : Transports,
     connector : Connectors,
     token     : 0..MaxTokens,              \* the generation it showed
     armed     : BOOLEAN,                   \* would see a shutdown
     kicked    : BOOLEAN,                   \* shutdown() was called
     woken     : BOOLEAN,                   \* and the session sees it
     replaces  : Sessions \cup {NoSession}]

TypeOK ==
    /\ sess \in [Sessions -> Session]
    /\ registry \in [Connectors -> Sessions \cup {NoSession}]
    /\ token \in [Connectors -> 0..MaxTokens]
    /\ rotating \in [Connectors -> BOOLEAN]
    /\ permits \in [Transports -> 0..Permits]

Init ==
    /\ sess \in [Sessions -> [stage : {"new"}, transport : Transports,
                              connector : Connectors, token : {0}, armed : {FALSE},
                              kicked : {FALSE}, woken : {FALSE}, replaces : {NoSession}]]
    /\ registry = [c \in Connectors |-> NoSession]
    /\ token = [c \in Connectors |-> 1]
    /\ rotating = [c \in Connectors |-> FALSE]
    /\ permits = [t \in Transports |-> Permits]

-----------------------------------------------------------------------------
\* ConnectorManager::shutdown, as the session sees it: a QUIC connection is closed, a
\* WSS writer is notified if its Notified was created before.
Shutdown(all, s) ==
    [all EXCEPT ![s] = [@ EXCEPT !.kicked = TRUE, !.woken = all[s].armed]]

Goto(s, stage) == sess' = [sess EXCEPT ![s].stage = stage]

\* The Auth frame, or the bearer token, names the connector: a lookup under the read
\* guard of the state.
Authenticate(s) ==
    /\ sess[s].stage = "new"
    /\ token[sess[s].connector] > 0
    /\ sess' = [sess EXCEPT ![s] = [@ EXCEPT !.stage = "authenticated",
                                            !.token = token[sess[s].connector]]]
    /\ UNCHANGED <<registry, token, rotating, permits>>

\* No frame in time, a token of no connector.
Reject(s) ==
    /\ sess[s].stage = "new"
    /\ Goto(s, "done")
    /\ UNCHANGED <<registry, token, rotating, permits>>

\* try_acquire_owned.
Admit(s) ==
    LET t == sess[s].transport IN
    /\ sess[s].stage = "authenticated"
    /\ permits[t] > 0
    /\ permits' = [permits EXCEPT ![t] = @ - 1]
    /\ Goto(s, "admitted")
    /\ UNCHANGED <<registry, token, rotating>>

\* "session limit reached", "Too many connector connections".
TurnAway(s) ==
    /\ sess[s].stage = "authenticated"
    /\ permits[sess[s].transport] = 0
    /\ Goto(s, "done")
    /\ UNCHANGED <<registry, token, rotating, permits>>

\* The WebSocket upgrade never completes: the closure that owns the permit is dropped.
UpgradeFails(s) ==
    /\ sess[s].stage = "admitted" /\ sess[s].transport = "wss"
    /\ Goto(s, "leaving")
    /\ UNCHANGED <<registry, token, rotating, permits>>

\* Mutant: the writer creates its Notified when it first waits, after `register`.
RegisterUnarmed(s) ==
    LET c == sess[s].connector IN
    /\ sess[s].stage = "admitted"
    /\ registry' = [registry EXCEPT ![c] = s]
    /\ sess' = [sess EXCEPT ![s] =
                   [@ EXCEPT !.stage = IF registry[c] = NoSession THEN "running"
                                       ELSE "replacing",
                             !.armed = sess[s].transport = "quic",
                             !.replaces = registry[c]]]
    /\ UNCHANGED <<token, rotating, permits>>

\* run_session up to the insert of `register`: the manager is created, the shutdown
\* watched from now on, and the manager replaces the one in the map.
Register(s) ==
    LET c == sess[s].connector IN
    /\ sess[s].stage = "admitted"
    /\ registry' = [registry EXCEPT ![c] = s]
    /\ sess' = [sess EXCEPT ![s] =
                   [@ EXCEPT !.stage = IF registry[c] = NoSession THEN "running"
                                       ELSE "replacing",
                             !.armed = TRUE,
                             !.replaces = registry[c]]]
    /\ UNCHANGED <<token, rotating, permits>>

\* previous.shutdown(), with the registry no longer locked.
ShutdownPrevious(s) ==
    /\ sess[s].stage = "replacing"
    /\ sess' = [Shutdown(sess, sess[s].replaces) EXCEPT
                   ![s] = [@ EXCEPT !.stage = "running", !.replaces = NoSession]]
    /\ UNCHANGED <<registry, token, rotating, permits>>

\* connection.closed() returns, or the writer of the WebSocket sees the notify.
SeeShutdown(s) ==
    /\ sess[s].stage = "running" /\ sess[s].woken
    /\ Goto(s, "ending")
    /\ UNCHANGED <<registry, token, rotating, permits>>

\* The connection is lost, silent too long or closed by the connector.
LinkLost(s) ==
    /\ sess[s].stage = "running"
    /\ Goto(s, "ending")
    /\ UNCHANGED <<registry, token, rotating, permits>>

\* Mutant: unregister_manager removes whatever manager the connector has.
UnregisterAnyManager(s) ==
    LET c == sess[s].connector IN
    /\ sess[s].stage = "ending"
    /\ registry' = [registry EXCEPT ![c] = NoSession]
    /\ sess' = [Shutdown(sess, s) EXCEPT ![s].stage = "leaving"]
    /\ UNCHANGED <<token, rotating, permits>>

\* Mutant: the session ends without unregister_manager.
ForgetToUnregister(s) ==
    /\ sess[s].stage = "ending"
    /\ Goto(s, "leaving")
    /\ UNCHANGED <<registry, token, rotating, permits>>

\* unregister_manager: only if the map still holds this very manager.
UnregisterManager(s) ==
    LET c == sess[s].connector IN
    /\ sess[s].stage = "ending"
    /\ \/ /\ registry[c] = s
          /\ registry' = [registry EXCEPT ![c] = NoSession]
          /\ sess' = [Shutdown(sess, s) EXCEPT ![s].stage = "leaving"]
       \/ /\ registry[c] # s
          /\ Goto(s, "leaving")
          /\ UNCHANGED registry
    /\ UNCHANGED <<token, rotating, permits>>

\* Mutant: the permit is leaked.
LeaveWithPermit(s) ==
    /\ sess[s].stage = "leaving"
    /\ Goto(s, "done")
    /\ UNCHANGED <<registry, token, rotating, permits>>

\* The last set_last_seen, and the return that drops the permit.
Leave(s) ==
    /\ sess[s].stage = "leaving"
    /\ permits' = [permits EXCEPT ![sess[s].transport] = @ + 1]
    /\ Goto(s, "done")
    /\ UNCHANGED <<registry, token, rotating>>

-----------------------------------------------------------------------------
\* ConnectorRegistry::unregister.
Unregister(c) ==
    /\ registry' = [registry EXCEPT ![c] = NoSession]
    /\ sess' = IF registry[c] = NoSession THEN sess ELSE Shutdown(sess, registry[c])

\* regenerate_connector_token, up to the drop of the write guard.  (A save that fails
\* is rolled back and changes nothing.)
RotateToken(c) ==
    /\ ~rotating[c]
    /\ token[c] \in 1..(MaxTokens - 1)
    /\ token' = [token EXCEPT ![c] = @ + 1]
    /\ rotating' = [rotating EXCEPT ![c] = TRUE]
    /\ UNCHANGED <<sess, registry, permits>>

\* "The old token's session must not outlive it."
EndRotation(c) ==
    /\ rotating[c]
    /\ Unregister(c)
    /\ rotating' = [rotating EXCEPT ![c] = FALSE]
    /\ UNCHANGED <<token, permits>>

\* delete_connector: removed, saved and unregistered under one write guard, which no
\* token lookup can divide.
DeleteConnector(c) ==
    /\ token[c] > 0
    /\ token' = [token EXCEPT ![c] = 0]
    /\ Unregister(c)
    /\ UNCHANGED <<rotating, permits>>

\* update_connector when force_wss changes, and connector_disconnect.
Kick(c) ==
    /\ registry[c] # NoSession
    /\ Unregister(c)
    /\ UNCHANGED <<token, rotating, permits>>

-----------------------------------------------------------------------------
Over == (\A s \in Sessions : sess[s].stage = "done") /\ UNCHANGED vars

Run(s) ==
    \/ Admit(s) \/ TurnAway(s) \/ Register(s) \/ ShutdownPrevious(s)
    \/ SeeShutdown(s) \/ UnregisterManager(s) \/ Leave(s)

Next ==
    \/ \E s \in Sessions :
        Run(s) \/ Authenticate(s) \/ Reject(s) \/ UpgradeFails(s) \/ LinkLost(s)
    \/ \E c \in Connectors :
        RotateToken(c) \/ EndRotation(c) \/ DeleteConnector(c) \/ Kick(c)
    \/ Over

Spec == Init /\ [][Next]_vars

\* A task that can go on is polled; the handler that saved a new token goes on to
\* unregister.  Nothing is assumed of the connectors, of the network or of the admin.
Fairness ==
    /\ \A s \in Sessions : WF_vars(Run(s))
    /\ \A c \in Connectors : WF_vars(EndRotation(c))

FairSpec == Spec /\ Fairness

-----------------------------------------------------------------------------
\* The session has put its manager in the registry and not yet taken it out.
Attached(s) == sess[s].stage \in {"replacing", "running", "ending"}

\* The sessions that own a permit of transport t.
Holders(t) ==
    {s \in Sessions : /\ sess[s].transport = t
                      /\ sess[s].stage \in {"admitted", "replacing", "running", "ending",
                                            "leaving"}}

\* The registry never holds a session that has ended, nor one of another connector: a
\* request routed through it (ConnectorRegistry::get) finds a session that still runs
\* its own teardown.
NoGhost ==
    \A c \in Connectors : registry[c] # NoSession =>
        Attached(registry[c]) /\ sess[registry[c]].connector = c

\* A session out of the registry while its loops still run has been shut down, or the
\* session that replaced it is about to do so: no session is ever forgotten, alive and
\* unreachable, whatever the order of reconnects, kicks and teardowns.
NoneForgotten ==
    \A s \in Sessions : Attached(s) =>
        \/ registry[sess[s].connector] = s
        \/ sess[s].kicked
        \/ \E r \in Sessions : sess[r].stage = "replacing" /\ sess[r].replaces = s

\* The registry is exact: it names no session that is over, and leaves out none that runs
\* unless a shutdown has reached it or is about to.
RegistryExact == NoGhost /\ NoneForgotten

\* A shutdown() is never lost on a session that is set up or running: the WSS writer
\* watches the notify from before `register` made the manager reachable.
KickIsSeen == \A s \in Sessions : Attached(s) /\ sess[s].kicked => sess[s].woken

\* The teardown of a session never takes a newer one out of the registry
\* (unregister_manager compares pointers).
ReplacementSurvives ==
    [][\A s \in Sessions :
        sess[s].stage = "ending" /\ sess'[s].stage = "leaving" =>
            \A c \in Connectors : registry[c] # s => registry'[c] = registry[c]]_vars

\* Every permit is either in the semaphore or with a session that has not returned: a
\* reconnecting connector cannot use up MAX_CONNECTOR_SESSIONS.
PermitsConserved ==
    \A t \in Transports : permits[t] + Cardinality(Holders(t)) = Permits

\* A session that is out of the registry, or on its way out, and still has its permit.
Leftover(s) ==
    sess[s].stage = "leaving" \/ (Attached(s) /\ registry[sess[s].connector] # s)

\* A session that was shut down, or was replaced, ends and gives its permit back, even
\* if shutdown() ran before the session first waited for it: again and again none is
\* left (no session registers twice, so one that did not end would be left for ever).
KickedSessionEnds == []<>(\A s \in Sessions : ~Leftover(s))

\* What regenerate_connector_token says of its last step: once it has returned, no
\* session that showed an older token is in the registry.
OldTokenNeverServes ==
    \A c \in Connectors :
        registry[c] # NoSession /\ ~rotating[c] /\ token[c] > 0 =>
            sess[registry[c]].token = token[c]

=============================================================================
