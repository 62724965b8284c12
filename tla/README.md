# x2rp: TLA+ models, model checking and proofs

x2rp publishes web services of private networks under one public domain. A
**server** terminates HTTPS and routes each request by its `Host`; a
**connector** on the private network dials out to the server and carries the
requests to the origins. This directory models the parts of both programs where
tasks, queues, locks, failures and restarts interact. TLC checks the models on
small instances and TLAPS proves the central invariants for every instance.

File names below are relative to `src/crates/`.

## 1. The system and its parts

| Part | Source | Status |
|---|---|---|
| `SendCredit`, the send window of a stream | `proto/src/lib.rs` | `SendCredit`, `CreditGate`, proved |
| Flow control of one direction of a stream | `server/src/connector_manager.rs`, `connector/src/session_manager.rs` | `StreamFlow`, proved |
| One bridged stream over WebSocket, both ends | the same two files, `connector/src/transport_wss.rs` | `WssTunnel`, proved |
| Stream slots of a session | `server/src/connector_manager.rs` | `StreamSlots`, proved |
| Sessions, registry, permits, tokens, kicks | `server/src/connector_manager.rs`, `server/src/transport/*` , `server/src/api/connectors.rs` | `ConnectorSessions`, proved |
| Admin state, its file, the route table; setup, routes and connectors API | `server/src/api/*`, `server/src/main.rs`, `server/src/proxy.rs` | `AdminState`, proved |
| Message codec | `proto/src/lib.rs` | `Codec`, proved |
| Obfuscated UDP socket | `proto/src/obfs.rs` | `Obfs`, proved in part |
| QUIC tunnels of a session, server and connector end | `server/src/connector_manager.rs`, `connector/src/transport_quic.rs` | `QuicTunnels`, proved |
| The connector process: settings poll, dialling, mux and read timeout, backoff | `connector/src/main.rs`, `transport*.rs` | `Reconnect`, proved |
| Edge proxy, DNS recheck, address guards, allowlist, backend dialling | `server/src/proxy.rs`, `allowlist.rs`, `proto/src/ssrf.rs`, `connector/src/transport.rs` | `EdgeProxy`, proved |
| Rate limiter | `server/src/rate_limit.rs` | `RateLimiter`, proved |
| Admin sessions, login, CSRF | `server/src/auth.rs`, `server/src/api/auth_api.rs`, `server/src/http_middleware.rs` | `Logins`, proved |
| Certificates and their renewal | `server/src/tls.rs`, `server/src/main.rs` | `Certificates`, proved |
| Secret files, QUIC endpoint setup, static files, headers, web console, scripts | | not modelled: no state of their own |

How they interact: a client's connection to the edge becomes a call of
`ConnectorManager::bridge` on the manager that the registry holds for the
route's connector. Over QUIC every bridged connection has a QUIC stream. Over
WebSocket all of them share one socket: `Connect`, `ConnectOk`, `ConnectErr`,
`Data`, `Close`, `Reset` and `WindowUpdate` messages carry a stream id, and each
direction of each stream is limited by a credit window. A session ends when its
socket does, when a newer session of the same connector replaces it, or when the
admin API kicks it.

`PROJECT.json` lists every part, the hazards of the code at their lines, and for
every definition the lines it models.

## 2. Modules

Payloads are abstracted to their position in the stream or to their length,
names to model values; control, guards, early returns and their order are kept.
Names follow the source. A definition commented `Mutant:` is a plausible bug in
the definition after it; it is never used by the specification and shows that a
property can fail.

### CreditGate and SendCredit

`SendCredit` has one action for each atomic access of `acquire`, `add` and
`close`: the test of `closed`, the compare-and-swap on `credit`, the creation of
the `Notified`, the two re-reads, the park. `notify_waiters` is external: it
wakes every `Notified` that exists and stores nothing. `CreditGate` is what
`acquire` promises: it waits, then takes its need in one step or is refused.
`ImplementsGate` states the refinement (same variables, the position inside the
loop forgotten).

### StreamFlow

One direction: reader, `acquire`, channel, window check of the receiver
(`recv_outstanding`), queue, writer, `drained_since_grant`, `WindowUpdate`.
Chunks have every length from 1 to `Chunk`. `Polices` says whether the receiver
resets a stream that overruns its window (the server does, the connector does
not look).

### WssTunnel

One stream and both ends: the tunnel task with its upload and download, the
server's read loop and writer, the connector's mux loop, its stream task and the
backend. Connect timeout, refusal, backend failure, client abort, loss of the
link and a kick can happen at every step. Flow control is kept with one unit per
payload; `StreamFlow` has the lengths. `Kicks` switches the admin's kick on.

### Codec and Obfs

`Codec` has bodies and frames as sequences of bytes: `encode`, `frame`, `decode`
and `read_frame` with every length check and error, UTF-8 as `String::from_utf8`
tests it, and limits that are constants, so that short strings reach and pass them.
`WellFormed` is what the type `Message` admits: a `u32` for an id, UTF-8 for a string,
bytes for a payload. The variable `line` is one exchange: a WebSocket message, a body
that nobody encoded, or a stream on which a frame and what follows it arrive byte by
byte.

`Obfs` cuts a `Transmit` into segments behind an IV each, loses datagrams, joins
others the way receive offload does, adds stray ones, and runs `poll_recv` batch by
batch. A byte under a keystream carries the IV of the keystream, so a wrong offset
shows. `taken` is what quinn gets, `meant` what it should.

### StreamSlots and QuicTunnels

`active_streams` with many tunnels: reserve by compare-and-swap, the entry in
`streams` that owns the slot, removal by the tunnel or by the read loop, the
decrement as a step of its own, `shutdown()` as drain and store. `link` is
chosen in the initial state; a QUIC tunnel has no entry and frees its own slot.

`QuicTunnels` extends it with what happens to a QUIC tunnel between slot and
release: `open_bi` under the stream limit of the peer, the `Connect` frame, the
connector's accept loop and `splice_data_stream`, its dial, the reply, both copies
with their half-closes, resets and stops, `CONNECT_TIMEOUT`, and a connection that
each side loses in its own time. Slot and stream have the same limit but different
lives: a tunnel with a slot may wait for a stream that the tunnel before it still
holds at the other end.

### Reconnect

The loop of `cmd_run` in ticks: settings poll (answered, failed, rejected), QUIC
through `connect_any` address by address, WSS, session, `started.elapsed()`, wait.
A WSS session has its queue to the writer, the writer, the credit of its tunnels
and the read timeout that every outbound message starts anew. Of the server there
is the token, `force_wss`, and the place of the session between its check and its
registration. TCP and UDP come and go, and an administrator revokes and changes the
setting at any time. `rest`, `quick` and `raced` are history variables.

### EdgeProxy

A request from `request_filter` to its upstream connection and its end: Host,
route, allowlist, the registry, target and guard, the DNS cache, the lookup with its
timeout, the relay. Each read of shared state is a step of its own, and other
threads publish routes, end sessions, fill and clean the cache between two of them.
Addresses are a form (v4, v6, mapped, NAT64) and a range, which is what the guards
tell apart. `since` is the age of an answer as the resolver gave it, not as the
cache stamps it.

### RateLimiter

One tier of the limiter: each use of the shared map in `check` and `make_room` is a
step, entries live on while a thread holds their `Arc`, `maintenance_tick` cleans up
in between. `owed` is what a key may still spend as long as it stays in the map.

### ConnectorSessions

Sessions of several connectors from their first frame to the end of
`run_session`: token lookup, permit, upgrade, `register` (the swap in the map
and the shutdown of the previous manager are two steps), the end seen by the
session, `unregister_manager`, the permit's return. The admin regenerates the
token, deletes or kicks at any time. For a WebSocket session the shutdown is a
`Notify`, which stores nothing: `armed` says that the `Notified` exists.

### AdminState

`mem` is the `AppState` behind its lock, `file` what a read of the state file
returns, `survives` what the file may hold after a power loss. `job` is the call
that holds the write lock. Every call is `Change` (with what a failed save
leaves in memory, what it takes out of the route table and what it publishes),
then `Rename`, `SyncDir`, `Unroute`, `Answer`, with `SaveFails` before or after
the rename. `post_setup` and `update_resource` await between a read and the
lock; `setups` and `edits` hold them meanwhile. `Restart` ends the process at any
step, `PowerLoss` also drops a rename that is not on disk. `kept` and `gone` are
history variables: what callers were told exists and is gone.

### Certificates

The two files `key` and `cert` carry the number of the order that issued them.
`main` provisions at start, the renewal task tries once a day: `Ensure`
(`ensure_certs`), `Issue` or `OrderFails` (`obtain_certificate` up to the
download; the ACME server and the DNS zone are external), then `Rename` and
`SyncDir` for the key and again for the certificate, then `Load`. `SaveFails`
and `Crash` can come at every step, and `survives` holds the file pairs that a
power loss may leave. An error ends the process at start and costs one day in
the renewal task. `misses`, `late` and `removed` are history variables.

### Logins

Logins queue for the Argon2 slots, verify on the blocking pool, wait out the
time floor and create a session. `make_room` and the insert are five accesses to
the shared map (`Clean`, `Count`, `Pick`, `Evict`, `Insert`); at most `Threads`
logins are inside at once. A client may go away while its login is queued,
verifying or waiting (`Gone`): the permit comes back, the Argon2 run goes on.
`Use` is an admin call with its CSRF check; `Maintenance` and `Tick` are the
cleanup and the clock.

### How the modules fit together

`SendCredit` implements `CreditGate` (checked as `ImplementsGate`, proved as
`AcquireIsAtomic`). This is why `StreamFlow` and `WssTunnel` may take `acquire`
as one step. `StreamFlow` has the lengths of payloads and shows that the window
check never fires for an honest peer and that no queue exceeds the window.
`WssTunnel` therefore leaves the branch of an overrun out; `PeersBehave` bounds its
queues by the window. `StreamSlots` counts many tunnels; `QuicTunnels` runs its
actions together with the streams of a QUIC session, while for WSS the tunnel of
`WssTunnel` is a life cycle there. `FramesDelimited` is why a frame is two cells in
`QuicTunnels`. `ConnectorSessions` takes a manager as a flag and follows sessions
around the registry; `Reconnect` sees the current one of them from the other end.
`EdgeProxy` takes routes from `AdminState`, registrations from `ConnectorSessions`
and a tunnel as something that succeeds or fails. `MCProto` and `MCEdge` put parts
that share no state into one run, one of them moving at a time.

## 3. Runs

| Run | Instance | Checks |
|---|---|---|
| `proto` | credit: window 3, two callers, grants up to above the window; flow: window 6, threshold 3, chunk 4, channel 2, 12 bytes; codec: strings of up to 5 bytes with characters of one to four, limits 2 to 4, each body also changed, cut or extended; socket: Transmits up to 5 bytes, IV of 2, batch of 3, 2 strays | `NoLostWakeup`, `CloseEndsAcquire`, `ImplementsGate`, `NeverOverrun`, `InOrderDelivery`, `AllDelivered`, `CodecInverse`, `FramesDelimited`, `PacketsSurvive`, `ReceiverAwake` |
| `wss_tunnel` | window 2, 2 payloads each way, queues of 1, kicks, fair | `NoTruncation`, `PeersBehave`, `NoOrphanBackend`, `TunnelEnds` |
| `wss_tunnel_kick` | window 1, 2 up, fair, kicks | violation of `UploadNeverLeaks` |
| `quic_tunnels` | 3 tunnels, 2 slots, 1 stream, 1 cell of payload each way, fair | `SlotsExact`, `SpliceExact`, `TunnelsClose` |
| `connector_sessions` | 1 connector, 3 sessions, 2 permits, 2 tokens, fair | `RegistryExact`, `PermitsConserved`, `ReplacementSurvives`, `KickedSessionEnds` |
| `connector_sessions_token` | 1 connector, 2 sessions | violation of `OldTokenNeverServes` |
| `reconnect` | stable session, read timeout and longest wait 2 ticks, 2 addresses, queue of 1, 2 outbound messages, fair | `NeverHot`, `DeletedStops`, `ComesBack`, `SilenceNoticed` |
| `edge` | 2 requests, 4 resources, 3 clients, 2 answers of the resolver, TTL and lookup timeout 1; limiter: 2 threads, 4 clients with 2 keys, cap 1, burst 1; fair | `SafeDial`, `OneResource`, `FreshDial`, `BudgetHolds`, `EveryRequestEnds` |
| `admin_state` | 2 routes, 2 subdomains, 2 targets, 1 connector, 2 tokens, 1 fault | `StatesConsistent`, `RoutesMatch`, `AnswersHold` |
| `admin_rollback` | 1 route, 1 fault | violation of `RollbackMatchesDisk` |
| `certificates` | lifetime 4, threshold 2, 7 days, 3 faults, fair | `NeverStuck`, `InService`, `ServedInDate`, `ComesUp` |
| `logins` | 4 logins, 1 slot, 1 session, 2 threads, limits of 1, fair | `SessionsBounded`, `LoginAnswered`, `SessionsEnd` |

Run one with `tlc -config <cfg> <module>`, the names being in `PROJECT.json`. The
largest instances have 582,142 (`wss_tunnel`), 304,125 (`edge`), 239,547
(`quic_tunnels`), 111,489 (`proto`) and 77,192 (`reconnect`) distinct states and
take between twenty seconds and two minutes. Deadlock is not checked where a finite
load is simply over (`proto`, `wss_tunnel`, `wss_tunnel_kick`, `logins`) or where the
names or faults of the instance are used up (`admin_state`, `admin_rollback`).

### Bounds, and why they are enough

- `proto`, credit: one sender, since `acquire` has one caller per stream. Two
  threads in `add` or `close` at once are enough for one to change the counter
  while the other is about to notify. Flow: a chunk that exceeds the threshold and a
  window that is no multiple of the chunk, so that credit, queue and grants get out
  of step; twelve bytes are two windows. Threshold + chunk = window + 1 is the
  tightest instance that the assumption admits (the code's constants are far from
  it). Codec: strings go one byte beyond the highest limit and have characters across
  every limit; ids have different bytes in each place. Socket: five bytes give up to
  five segments with and without a short last one; three buffers make a batch with an
  invalid one in every position.
- `wss_tunnel`: a threshold below the window and queues of 1, so that each pump waits
  for its queue, and its grants cross the end of the stream.
- `quic_tunnels`: one tunnel more than slots, so that the limit refuses, and one slot
  more than streams, so that a tunnel waits in `open_bi`.
- `connector_sessions`: three sessions, so that a replacement is itself replaced
  while the first tears down; two permits, so that a third one can be refused.
- `reconnect`: a tick is about fifteen seconds, so the thirty-second constants are two
  ticks; two addresses have a last one and one that is not; two outbound messages
  fill the queue of one and make the mux wait.
- `edge`: any two resources differ in target, port, way or allowlist; two
  requests share the cache; TTL and timeout of one tick let an answer be older than its
  stamp. Two threads are enough for every race on one entry, and two keys for an
  eviction under a cap of one.
- `admin_state`: two routes are needed for a clash of subdomains, two tokens for a
  regeneration, two targets for a pair of target and connector that is not valid.
  One fault is enough to fail, restart or lose power at any step. Route ids, tokens
  and subdomains are symmetric: nothing compares them but for equality.
- `certificates`: seven days hold the first order and two renewals; three faults
  exceed the margin of two days.
- `logins`: four logins on two threads reach the worst overshoot of the cap of
  one. They are numbered as they arrive. Ages saturate one above their limit, so time
  itself has no bound.

The constants `MaxEdits`, `MaxFaults`, `MaxTokens`, `Horizon`, `Total`, `MaxLogins`,
`Uploads`, `Downloads`, `Bytes`, `Outbound`, `MaxContents` and `MaxStrays` are what the
instance cuts off and the code does not. They are parameters of the proofs, which hold
for every value; only `PacketsSurvive` rests on `MaxContents` and `MaxStrays` as the run
has them. The limits of `Codec`, the `IV_LEN` of 12 and the constants of time are those
of the code scaled down; the proofs about `Codec` hold for the code's limits too.

### Fairness

Weak fairness, but for three actions of `reconnect`. What each fair specification
assumes:

- every module: tokio polls a task that can go on (so a handler that took a step
  takes its next one), and a timer that has run out fires;
- `proto`: source and sink keep up, since `AllDelivered` is about the window and not
  about a client that stops reading. Nothing is assumed of codec and socket;
- `wss_tunnel`, `wss_tunnel_kick`: each end notices that the other is gone
  (the read timeout of the connector, the failed read of the server). Nothing is
  assumed of client and backend, except that a write to them returns;
- `quic_tunnels`: a connection lost on one side is lost on the other (the idle
  timeout), the edge ends its request, and a backend that was half-closed or dropped
  ends its response. The code has no deadline for a backend that stays silent;
- `connector_sessions`: a write to the socket returns, and a handler that saved a
  new token goes on to `unregister`. Nothing is assumed of connectors or admins;
- `reconnect`: time passes and TCP gives up on a dead connection. Strongly fair are a
  successful connect, the check of the token and the registration: a server that can
  be reached again and again does not refuse a valid token for ever. The network, the
  administrator and signals are free;
- `edge`: time passes, and the timers of a lookup and of an upstream fire. The
  resolver may never answer;
- `certificates`: the service manager restarts the server (`Restart=always`), the
  clock goes on and the calls of an attempt return, with an answer or an error;
- `logins`: an Argon2 run and a sleep end, the clock and the maintenance tick go
  on. Nothing is assumed of clients.

## 4. Proofs

`tlapm <module>` checks each of the eight proof modules. All theorems hold for every
value of the constants that satisfies the named assumptions of the module.

| Module | Theorems | Assumptions |
|---|---|---|
| `ProtoProofs` | `CreditTypeCorrect`, `WakeupsAreNotLost`, `AcquireIsAtomic` of `SendCredit`; `FlowTypeCorrect`, `CreditIsConserved`, `HonestPeerNeverReset`, `PumpNeverStarves`, `DeliveredInOrder` of `StreamFlow`; `CodecRoundTrips`, `FramesDelimitThemselves` of `Codec`; `ReceiverStaysAwake` of `Obfs` | needs between 1 and the window (the pumps read at most a chunk); threshold + chunk <= window + 1, true of the constants of `proto`; the limits of strings fit a `u16`, that of payloads a `u32`, no string is allowed to be longer than a target, and no target than a payload, true of the constants of `proto`; messages are well formed and bodies are bytes |
| `WssServerProofs`, `WssTunnelProofs` | `NothingIsTruncated`, `PeersAlwaysBehave`, `NoBackendIsOrphaned` of `WssTunnel` | 0 < threshold <= window, room for one message in a channel |
| `QuicTunnelsProofs` | `TypeCorrect`, `SlotsAreExact`, `LimitHolds`, `ShutdownNeverOvercounts` of `StreamSlots`; `QuicImplementsSlots`, `QuicSlotsAreExact`, `SplicesAreExact` of `QuicTunnels` | finitely many tunnels, the limit fits the counter |
| `ConnectorSessionsProofs` | `TypeCorrect`, `RegistryIsExact`, `NoKickIsLost`, `PermitsAreConserved`, `TeardownSparesOthers` of `ConnectorSessions`; `ConnectorIsNeverHot` of `Reconnect` | finitely many sessions; the longest wait is no shorter than `STABLE_SESSION` and the doubling reaches it |
| `AdminStateProofs` | `TypeCorrect`, `StatesAreConsistent`, `RoutesFollow`, `AnswersAlwaysHold` | ids, tokens and administrators are told apart |
| `EdgeProofs` | `DialsAreSafe`, `ServedByOneResource`, `DialsAreFresh` of `EdgeProxy`; `BudgetAlwaysHolds` of `RateLimiter`; `CertTypeCorrect`, `RenewalNeverSticks`, `RenewedIsServed`, `ServedStaysInDate` of `Certificates` | resources, clients and answers are well formed; finitely many threads and clients, a burst of at least one; 0 < threshold <= lifetime |
| `LoginsProofs` | `SessionsAreBounded` | at least one slot, session and worker thread |

Each module defines an inductive invariant for each part, proves that `Init` implies it
and that every action keeps it, one lemma or step per action, and derives the
theorems from it.

- **SendCredit.** `NoLostWakeup` says nothing of a sender that has re-checked one
  of the two conditions and is about to park. `WakeIsDue` adds what each re-check
  has established. `AcquireIsAtomic` maps the loop to `CreditGate`: the successful
  compare-and-swap is the step that takes, all else stutters.
- **StreamFlow.** The messages under way and the queue tile the stream: the wire
  goes from `Received` to `sent`, the queue from `written` to `Received`, the
  updates from `Applied` to `granted`, without gaps. With `CreditConserved` the
  window check and the order of delivery follow.
- **Codec.** Nothing here is recursive, so what holds of every input is proved from the
  definitions: big-endian numbers, strings and payloads are read back as they were
  written, with any bytes behind them (`GetU32`, `GetStr`, `GetData`, `GetField`), and
  what can be read to the end was written (`GotU32`, ..., `GotField`). From the first
  follows that `decode` undoes `encode` (`RoundTrip`), from the second that no other
  body decodes to the same message (`DecodedIsEncoded`). A cut error text is still
  UTF-8 because the cut is at the start of a character (`CutUtf8`); that there is such
  a place at all is again an argument with a least number. For frames, `CodecInv` says
  that what is here and what is due are, end to end, the frame and its tail; `FrameRead`
  then tells what `read_frame` does at each byte. `CodecInv` also holds under TLC on the
  instance of `proto`.
- **Obfs.** A task that waits has found the socket empty, and every buffer queued since
  has woken it (`Awake`); a poll that took a batch never leaves it waiting.
- **WssTunnel.** The invariant is in `WssInvariant`, the steps of the server's side in
  `WssServerProofs`, those of the connector's side and the theorems in
  `WssTunnelProofs`. The three properties say nothing of the messages under way, so
  the invariant counts them (`In(s2c, "Data")` and so on). `UpSum` and `DownSum` say
  that credit, payloads paid for, under way, queued and written, and the grants on
  their way back never exceed a window, which bounds the queues. `UploadWhole` and
  `DownloadWhole` say where each payload taken is, the one as long as the upload is not
  given up and the other as long as nothing fails; no `Data` comes after a `Close`
  (`CloseLast`). `ServerPhases` and `ConnectorPhases`
  order the two ends: what one has sent tells where the other is. `ResetDue` says that
  a stream which the server has given up has its `Reset` on the way or is over. `WssInv`
  also holds under TLC on the instance of `wss_tunnel` and with a window of 3, a
  threshold of 2 and queues of 2. An action with several outcomes is proved branch by
  branch; the branches are named in `WssInvariant`.
- **StreamSlots.** `SlotsExact` and `NeverOvercounts` are inductive together; the
  cardinality lemmas are about one owner more or fewer.
- **QuicTunnels.** A step of a tunnel is a step of its slot in `StreamSlots` or leaves
  the slots alone, so the accounting carries over (`QuicImplementsSlots`). For the
  payload, `TunnelOK` is inductive tunnel by tunnel: while an end splices, the stream
  holds exactly the run of cells between what its reader got and what its writer sent
  (`Upward`, `Downward`), and before that nothing but the frame that is due (`Begun`).
  The sequence lemmas say how a run grows at one end, shrinks at the other, and what
  stands behind a frame.
- **ConnectorSessions.** `SetUp` adds that a session cannot be shut down before it
  registers and watches for its shutdown from then on. The permits' type needs
  `PermitsConserved`, since a session that leaves gives a permit back. That a
  teardown spares the other sessions is an action property: only the step out of
  `ending` has to be looked at, and it clears no entry but its own.
- **Reconnect.** `NeverHot` counts polls and not what holds them back. `HotInv` adds that
  each poll that came quickly has cost an attempt, that what is left of a wait and what
  has passed since the last poll make up the whole wait, and that a session which held
  has held since the last poll. A poll within `STABLE_SESSION` of the last then
  followed a wait shorter than that, so `2^(retry_count - 1)` is below `STABLE_SESSION`. The provers know no law of
  exponentiation: `DoublingAssumption` states `2^(n + 1) = 2 * 2^n`, and that the powers
  grow is proved from it with the least number at which they would not
  (`LeastNumber`).
- **AdminState.** Every state in memory or on disk is `Sane` and `Honours` what
  callers were told. What makes this inductive is what the call under the lock has
  in hand (`JobInv`): the state it rolls back to is as good as the one in memory,
  the enabled routes will have changed as announced, and the file is on disk
  before the answer. `ChangeInv` is the common part of all calls. No route exists
  before setup, which the boot relies on when it publishes nothing.
- **Certificates.** Until the certificate is renamed, the one on disk is outdated,
  so a new key beside it is never taken for a pair in force; afterwards both files
  are those of the last order. `expiry + misses >= day + Threshold` says that each
  failed attempt costs one day of the margin.
- **EdgeProxy.** `EdgeInv` says where a request stands: from the allowlist on it
  carries one published resource that admits its client, and what it has chosen to
  dial is that resource's and has passed the guard of its way. For the ages, an
  answer is no older than its lookup has waited, and a cached answer is older than its
  stamp by one lookup at most.
- **RateLimiter.** The cells left in the entry of a key are at most what the key is
  owed, and a key that is not in the map is owed a whole burst. A new entry starts
  full, so its number must be one that neither the map nor a thread uses; that there
  always is one is a cardinality argument over keys and threads.
- **Logins.** The bound on the map is not inductive: two logins may both be about to
  insert. `Fits` says what the map will hold once a set of logins in
  `create_admin_session` has evicted what each has picked and inserted; either that
  keeps to the bound, or one of them has yet to pick as many victims as it takes. It
  holds for every set of such logins, and no more than `Threads` are in there.

Only model-checked, because the prover has no liveness under fairness:
`CloseEndsAcquire`, `AllDelivered`, `TunnelEnds`, `TunnelsClose`, `KickedSessionEnds`,
`DeletedStops`, `ComesBack`, `SilenceNoticed`, `EveryRequestEnds`, `ComesUp`,
`LoginAnswered`, `SessionsEnd`. Because it computes along sequences with a recursive
fold, of which the prover has no induction: `PacketsSurvive`.

## 5. Where code and comments differ

- **A stream registered after the drain** (`wss_tunnel_kick`). `wss_tunnel` inserts
  its stream without looking whether `shutdown()` has drained the map. If the
  session's loops still carry its `Connect` and the answer, nobody closes its
  credit: the upload stays parked. `connector_manager.rs:37` says it never leaks.
- **A token regenerated between lookup and registration**
  (`connector_sessions_token`). `unregister` reaches only registered managers, so
  a session authenticated before and registered after serves on.
  `api/connectors.rs:246` says it must not outlive the old token.
- **A save that fails after its rename** (`admin_rollback`). The callers roll memory
  back while the new state is on disk. `api/resources.rs:331` says memory then
  matches disk.

Met while modelling, without a run of their own:

- The Argon2 run of a login whose client has gone goes on after its permit is back
  (`Gone` in `Logins`), so more runs than slots can be under way; the comment in
  `auth.rs` gives the slots as the bound of their memory.
- The cap of the rate limiter is not hard: threads that evict the same oldest entry
  all insert, and `make_room` evicts one entry however many there are too many. A new
  entry has `last_seen_epoch` 0 until it is stored, so a cleanup or an eviction in
  between takes it for the oldest. `BudgetHolds` is stated for a key as long as it
  stays in the map.
- `started.elapsed()` in `connector/src/main.rs` includes the dialling: a failed
  attempt of 30 seconds resets the backoff like a session that held. `NeverHot` holds,
  because such an attempt has itself taken that long.
- A connector keeps its old settings after a poll that failed, and `force_wss` may
  change between the poll and the dial.
- A QUIC backend that fails looks like one that has ended to the server
  (`BackendSpliceEnds`), since the connector finishes its half either way.
  `SpliceExact` counts what the connector has read of a backend, so what a broken
  backend did not deliver is outside it.

Properties that hold with an exception which the code makes necessary:
`InService` except after a renewal whose save failed after the rename (it is not
reloaded, and the next day finds it in force), `NeverStuck` and `ComesUp` except
after someone removed the key of a certificate in force, `SessionsBounded` with an
allowance of one session per further thread, `DeletedStops` except for the session of
`OldTokenNeverServes`, and `TunnelEnds` except for the tunnel of `UploadNeverLeaks`.

## 6. Not modelled

Having no state of their own: secret files (`proto/src/host.rs`), the configuration of
the QUIC endpoints and of TLS, static files, security headers, the web console, the
installation scripts. External: tokio, quinn, Pingora, the ACME server, the DNS zone and
resolver, Argon2, governor, the cipher of the obfuscation.

Left out of modelled parts: Pingora's connection pool and its retries, status codes and
the header filters of the edge, the parsing of `Host` and of URLs, the locks of single
shards of a map during `retain`, `connector status` and `logs`, the configuration file of
the connector, stream ids and their reuse after 2^32 streams, connector names,
`last_seen`, and a wall clock that goes back.

Two hazards have no property. `sink.send` of the server's WebSocket writer has no
deadline, so that a kicked session ends is shown only if a write returns. And the cap of
the rate limiter is not a bound that the code keeps.
