------------------------------ MODULE Reconnect ------------------------------
(***************************************************************************)
(* The life of one connector process (crates/connector/src/main.rs): poll  *)
(* the settings, dial over QUIC and then over WSS, serve until the session *)
(* ends, wait, and again; with the dialling of connect_any, the mux of a   *)
(* WSS session and its idle timeout (crates/connector/src/transport*.rs),  *)
(* and as much of the server as the process can tell: the token, the       *)
(* force_wss setting, the session it registers and the kick of it.         *)
(*                                                                         *)
(* Time is counted in ticks.  A deadline that has come is met before the   *)
(* next tick.  The session a process leaves behind on the server is in     *)
(* ConnectorSessions; here the server has the current one only.            *)
(***************************************************************************)
EXTENDS Integers

CONSTANTS
    STABLE_SESSION,
    READ_TIMEOUT,   \* HEARTBEAT_READ_TIMEOUT_SECS, also the idle timeout of QUIC
    PING_INTERVAL,  \* HEARTBEAT_INTERVAL_SECS
    POLL_TIMEOUT,   \* the timeout of the settings request
    WSS_TIMEOUT,    \* WSS_CONNECT_TIMEOUT and WSS_HANDSHAKE_TIMEOUT
    MaxShift, MaxBackoff,
    Addresses,      \* addresses that the server's name resolves to
    QueueSize,      \* CONNECTOR_CHANNEL_CAPACITY, of the queue to the writer
    Outbound        \* messages the tunnels can send before they need an answer

ASSUME ReconnectAssumption ==
    /\ STABLE_SESSION \in Nat \ {0} /\ READ_TIMEOUT \in Nat \ {0}
    /\ PING_INTERVAL \in 1..(READ_TIMEOUT - 1)
    /\ POLL_TIMEOUT \in Nat /\ WSS_TIMEOUT \in Nat
    /\ MaxShift \in Nat /\ MaxBackoff \in Nat \ {0}
    /\ Addresses \in Nat /\ QueueSize \in Nat \ {0} /\ Outbound \in Nat

\* The longest wait is as long as a stable session, and the doubling reaches it (30s, 30s
\* and 1 << 5 in the code).
ASSUME BackoffAssumption == MaxBackoff >= STABLE_SESSION /\ 2^MaxShift >= STABLE_SESSION

\* What the provers do not know of exponentiation.
ASSUME DoublingAssumption == \A n \in 0..MaxShift : 2^(n + 1) = 2 * 2^n

VARIABLES
    pc,             \* "poll" | "quic" | "wss" | "session" | "sleep" | "exited" | "stopped"
    secret, force,  \* transport_config: is the obfuscation secret known, and force_wss
    retry_count,
    age,            \* ticks since `started`
    left,           \* ticks left of the wait under way
    tries,          \* addresses that connect_any has left
    link,           \* the transport of the session: "none" | "quic" | "wss"
    silence,        \* ticks since the read of the session began to wait
    owed,           \* messages that the tunnels of a WSS session can still send
    queue,          \* messages in the queue to the writer
    writer,         \* what the writer is: "up" or "failed"
    valid, forced,  \* the server: is the token valid, and force_wss
    seat,           \* the session on the server: "none" | "auth" | "checked" | "registered"
    raced,          \* history: the token was revoked under a session not yet registered
    https, udp,     \* do TCP connections and datagrams get through
    rest, quick     \* history: ticks since the last poll, and polls in a row that came
                    \* within STABLE_SESSION of the one before

loop == <<pc, secret, force, retry_count>>
clock == <<age, left, tries>>
session == <<link, silence, owed, queue, writer>>
server == <<valid, forced, seat, raced>>
net == <<https, udp>>
polls == <<rest, quick>>
loopVars == <<loop, clock, session, server, net, polls>>

SessionGone == link' = "none" /\ silence' = 0 /\ owed' = 0 /\ queue' = 0 /\ writer' = "up"

LoopTypeOK ==
    /\ pc \in {"poll", "quic", "wss", "session", "sleep", "exited", "stopped"}
    /\ secret \in BOOLEAN /\ force \in BOOLEAN /\ retry_count \in 0..(MaxShift + 1)
    /\ age \in 0..STABLE_SESSION /\ left \in Nat /\ tries \in 0..Addresses
    /\ link \in {"none", "quic", "wss"} /\ silence \in 0..READ_TIMEOUT
    /\ owed \in 0..Outbound /\ queue \in 0..(QueueSize + 1) /\ writer \in {"up", "failed"}
    /\ valid \in BOOLEAN /\ forced \in BOOLEAN /\ raced \in BOOLEAN
    /\ seat \in {"none", "auth", "checked", "registered"}
    /\ https \in BOOLEAN /\ udp \in BOOLEAN
    /\ rest \in 0..STABLE_SESSION /\ quick \in Nat

\* cmd_run starts the loop; nothing is known of the settings.
LoopInit ==
    /\ pc = "poll" /\ secret = FALSE /\ force = FALSE /\ retry_count = 0
    /\ age = 0 /\ left = POLL_TIMEOUT /\ tries = 0
    /\ link = "none" /\ silence = 0 /\ owed = 0 /\ queue = 0 /\ writer = "up"
    /\ valid = TRUE /\ forced \in BOOLEAN /\ seat = "none" /\ raced = FALSE
    /\ https \in BOOLEAN /\ udp \in BOOLEAN
    /\ rest = STABLE_SESSION /\ quick = 0

-----------------------------------------------------------------------------
\* The loop.

reconnect_backoff_secs(attempt) ==
    LET shift == IF attempt <= 1 THEN 0 ELSE IF attempt - 1 < MaxShift THEN attempt - 1 ELSE MaxShift
    IN  IF 2^shift < MaxBackoff THEN 2^shift ELSE MaxBackoff

\* The top of the loop: a settings request.
BeginPoll ==
    /\ pc' = "poll" /\ left' = POLL_TIMEOUT
    /\ rest' = 0 /\ quick' = IF rest < STABLE_SESSION THEN quick + 1 ELSE 0

\* Mutant: a session that the server ended is redialled at once.
OverUnlessClean(clean) ==
    /\ IF clean \/ age >= STABLE_SESSION
       THEN retry_count' = 0 /\ BeginPoll
       ELSE /\ retry_count' = IF retry_count <= MaxShift THEN retry_count + 1 ELSE retry_count
            /\ pc' = "sleep" /\ left' = reconnect_backoff_secs(retry_count')
            /\ UNCHANGED polls
    /\ age' = 0 /\ tries' = 0
    /\ SessionGone
    /\ UNCHANGED <<secret, force, server, net>>

\* run_session has returned, with Ok when the server ended the session (`clean`): on with
\* a poll if it took STABLE_SESSION, else a wait first.  Retries beyond the longest wait
\* are not told apart.
SessionOver(clean) ==
    /\ IF age >= STABLE_SESSION
       THEN retry_count' = 0 /\ BeginPoll
       ELSE /\ retry_count' = IF retry_count <= MaxShift THEN retry_count + 1 ELSE retry_count
            /\ pc' = "sleep" /\ left' = reconnect_backoff_secs(retry_count')
            /\ UNCHANGED polls
    /\ age' = 0 /\ tries' = 0
    /\ SessionGone
    /\ UNCHANGED <<secret, force, server, net>>

Wake ==
    /\ pc = "sleep" /\ left = 0
    /\ BeginPoll
    /\ UNCHANGED <<secret, force, retry_count, age, tries, session, server, net>>

\* run_session begins: QUIC unless it is forbidden or there is no secret for it.
RunSession(known, wss) ==
    /\ secret' = known /\ force' = wss
    /\ age' = 0 /\ tries' = Addresses
    /\ pc' = IF known /\ ~wss THEN "quic" ELSE "wss"
    /\ left' = IF known /\ ~wss THEN READ_TIMEOUT ELSE WSS_TIMEOUT
    /\ UNCHANGED <<retry_count, session, server, net, polls>>

\* The process ends, and its state with it.
Gone(how) ==
    /\ pc' = how /\ secret' = FALSE /\ force' = FALSE /\ retry_count' = 0
    /\ age' = 0 /\ left' = 0 /\ tries' = 0
    /\ SessionGone
    /\ rest' = 0 /\ quick' = 0
    /\ UNCHANGED <<server, net>>

\* Mutant: a rejected token is one more failed request.
PollRejectedRetries ==
    /\ pc = "poll" /\ https /\ ~valid
    /\ RunSession(secret, force)

\* The settings request: a 401, the settings, or no usable answer.
PollRejected ==
    /\ pc = "poll" /\ https /\ ~valid
    /\ Gone("exited")

PollSettings ==
    /\ pc = "poll" /\ https /\ valid
    /\ RunSession(TRUE, forced)

\* Mutant: a failed request ends the process.
PollFailsExits ==
    /\ pc = "poll" /\ ~https
    /\ Gone("exited")

PollFails ==
    /\ pc = "poll" /\ ~https
    /\ RunSession(secret, force)

-----------------------------------------------------------------------------
\* connect_any: one address after the other.

Serve(transport, place) ==
    /\ pc' = "session" /\ link' = transport /\ seat' = place
    /\ silence' = 0 /\ queue' = 0 /\ writer' = "up"
    /\ owed' = IF transport = "wss" THEN Outbound ELSE 0
    /\ left' = 0 /\ tries' = 0
    /\ UNCHANGED <<secret, force, retry_count, age, valid, forced, raced, net, polls>>

\* A QUIC session runs once the Auth frame is written; the server has yet to read it.  A
\* WSS one runs once the server has checked the token and switched protocols.
Connects ==
    /\ tries > 0
    /\ \/ pc = "quic" /\ udp /\ Serve("quic", "auth")
       \/ pc = "wss" /\ https /\ valid /\ Serve("wss", "checked")

\* An address is refused, fails or times out: the next one, then WSS, then an error.
AttemptFails ==
    \/ /\ pc = "quic" /\ tries > 1
       /\ tries' = tries - 1 /\ left' = READ_TIMEOUT
       /\ UNCHANGED <<loop, age, session, server, net, polls>>
    \/ /\ pc = "quic" /\ tries <= 1
       /\ pc' = "wss" /\ tries' = Addresses /\ left' = WSS_TIMEOUT
       /\ UNCHANGED <<secret, force, retry_count, age, session, server, net, polls>>
    \/ /\ pc = "wss" /\ tries > 1
       /\ tries' = tries - 1 /\ left' = WSS_TIMEOUT
       /\ UNCHANGED <<loop, age, session, server, net, polls>>
    \/ pc = "wss" /\ tries <= 1 /\ SessionOver(FALSE)

-----------------------------------------------------------------------------
\* The session.

Up == IF link = "quic" THEN udp ELSE https

\* The mux sits in write_tx.send with a message in its hand: it reads nothing.
Blocked == queue = QueueSize + 1

\* recv returns a frame, a ping at the least; with it the tunnels may get new credit.
Frame ==
    /\ pc = "session" /\ link = "wss" /\ https /\ seat = "registered"
    /\ ~Blocked
    /\ silence' = 0 /\ owed' = Outbound
    /\ UNCHANGED <<loop, clock, link, queue, writer, server, net, polls>>

\* The other arm of the select: a message of a tunnel goes to the writer's queue, and the
\* next recv starts its timeout afresh.
SendOut ==
    /\ pc = "session" /\ owed > 0 /\ writer = "up"
    /\ ~Blocked
    /\ queue' = queue + 1 /\ owed' = owed - 1 /\ silence' = 0
    /\ UNCHANGED <<loop, clock, link, writer, server, net, polls>>

\* write_loop: a message leaves, or the connection is given up by TCP.
Write ==
    /\ queue > 0 /\ writer = "up" /\ https
    /\ queue' = queue - 1
    /\ UNCHANGED <<loop, clock, link, silence, owed, writer, server, net, polls>>

WriterFails ==
    /\ queue > 0 /\ writer = "up"
    /\ ~https \/ seat = "none"
    /\ writer' = "failed"
    /\ UNCHANGED <<loop, clock, link, silence, owed, queue, server, net, polls>>

SendFails ==
    /\ pc = "session" /\ writer = "failed"
    /\ Blocked \/ owed > 0
    /\ SessionOver(FALSE)

\* Mutant: the mux goes on after a read that timed out.
ReadGoesOn ==
    /\ pc = "session" /\ silence = READ_TIMEOUT
    /\ ~Blocked
    /\ silence' = 0
    /\ UNCHANGED <<loop, clock, link, owed, queue, writer, server, net, polls>>

\* The timeout of recv, or the idle timeout of QUIC.
ReadTimesOut ==
    /\ pc = "session" /\ silence = READ_TIMEOUT
    /\ ~Blocked
    /\ SessionOver(FALSE)

\* The server's close, or a broken connection.
Closes ==
    /\ pc = "session"
    /\ ~Blocked
    /\ \/ Up /\ seat = "none" /\ SessionOver(TRUE)
       \/ ~Up /\ SessionOver(FALSE)

-----------------------------------------------------------------------------
\* The server, and the rest.

\* run_session of the QUIC server: the Auth frame arrives and its token is looked up.
CheckToken ==
    /\ seat = "auth" /\ udp
    /\ seat' = IF valid THEN "checked" ELSE "none"
    /\ UNCHANGED <<loop, clock, session, valid, forced, raced, net, polls>>

SessionRegistered ==
    /\ seat = "checked"
    /\ seat' = "registered"
    /\ UNCHANGED <<loop, clock, session, valid, forced, raced, net, polls>>

\* The session limit, the auth timeout, a replacement, the read timeout, a restart.
ServerEnds ==
    /\ seat # "none"
    /\ seat' = "none"
    /\ UNCHANGED <<loop, clock, session, valid, forced, raced, net, polls>>

\* ConnectorRegistry::unregister reaches a session that is registered.
Kicked == IF seat = "registered" THEN "none" ELSE seat

\* delete_connector and regenerate_connector_token.
Revoke ==
    /\ valid
    /\ valid' = FALSE /\ seat' = Kicked /\ raced' = (seat = "checked")
    /\ UNCHANGED <<loop, clock, session, forced, net, polls>>

\* update_connector
SetForce ==
    /\ forced' = ~forced /\ seat' = Kicked
    /\ UNCHANGED <<loop, clock, session, valid, raced, net, polls>>

Network ==
    /\ \E h, u \in BOOLEAN : https' = h /\ udp' = u
    /\ UNCHANGED <<loop, clock, session, server, polls>>

\* SIGTERM or SIGINT ends cmd_run wherever the loop is.
Signal ==
    /\ pc \notin {"exited", "stopped"}
    /\ Gone("stopped")

Capped(n, max) == IF n < max THEN n + 1 ELSE max

\* A tick does not pass a deadline, nor a ping that is due.
Tick ==
    /\ \/ /\ pc \in {"poll", "quic", "wss", "sleep"} /\ left > 0
          /\ left' = left - 1
          /\ UNCHANGED silence
       \/ /\ pc = "session" /\ silence < READ_TIMEOUT
          /\ link = "wss" /\ https /\ seat = "registered" /\ ~Blocked => silence < PING_INTERVAL
          /\ silence' = IF Blocked \/ (link = "quic" /\ udp /\ seat # "none") THEN 0
                        ELSE silence + 1
          /\ UNCHANGED left
    /\ age' = IF pc \in {"quic", "wss", "session"} THEN Capped(age, STABLE_SESSION) ELSE age
    /\ rest' = Capped(rest, STABLE_SESSION)
    /\ quick' = IF rest' < STABLE_SESSION THEN quick ELSE 0
    /\ UNCHANGED <<loop, tries, link, owed, queue, writer, server, net>>

Loop == Wake \/ PollRejected \/ PollSettings \/ PollFails \/ AttemptFails
Ends == SendFails \/ ReadTimesOut \/ Closes

LoopNext ==
    \/ Loop \/ Connects \/ Ends
    \/ Frame \/ SendOut \/ Write \/ WriterFails
    \/ CheckToken \/ SessionRegistered \/ ServerEnds \/ Revoke \/ SetForce
    \/ Network \/ Signal \/ Tick

LoopSpec == LoopInit /\ [][LoopNext]_loopVars

\* The process is scheduled, time passes and TCP gives up on a dead connection.  Of a
\* server that answers, an attempt is not refused for ever, and neither is a session.
FairLoopSpec ==
    /\ LoopSpec
    /\ WF_loopVars(Loop) /\ WF_loopVars(Ends) /\ WF_loopVars(WriterFails) /\ WF_loopVars(Tick)
    /\ SF_loopVars(Connects) /\ SF_loopVars(CheckToken) /\ SF_loopVars(SessionRegistered)

-----------------------------------------------------------------------------
\* The server is not redialled hot, however sessions end: polls that follow each other
\* within STABLE_SESSION are at most as many as the doubling wait lets through.  A server
\* that drops every session right after its auth, with a clean close, does not change it.
NeverHot == quick > 0 => 2^(quick - 1) < STABLE_SESSION

\* A connector that was deleted, or whose token was regenerated, stops for good once the
\* server can be reached, whatever it was doing; the exception is a session between its
\* token check and its registration, which the kick does not find.
DeletedStops ==
    (<>[](https /\ udp) /\ []~raced) => (~valid ~> pc \in {"exited", "stopped"})

\* While the server can be reached over TCP and the token is valid, a connector gets back
\* to a registered session again and again, after any failures, silences and kicks, and
\* with UDP blocked or not.
ComesBack == <>[](https /\ valid /\ pc # "stopped") => []<>(seat = "registered")

\* A WSS session on a dead network ends: the idle timeout, which every outbound message
\* starts afresh, fires once the tunnels are out of credit, or the writer fails under a
\* mux that waits for room in its queue.
SilenceNoticed == (pc = "session" /\ link = "wss" /\ ~https) ~> (pc # "session" \/ https)

=============================================================================
