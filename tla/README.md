# Verification of expose

`expose` puts local services on the internet.  A client opens a websocket to the
server (the relay) and registers a tunnel under a subdomain; the server forwards
HTTP requests for that subdomain, or TCP connections to a port of the tunnel, over
the websocket, and the client hands them to a local service.  This directory holds
TLA+ models of the parts of the relay and of the client where concurrency and failure
make them hard to test, TLC configurations that check them on small instances, and
proofs of the main invariants for every instance.

## Inventory

| part | state | operations | interacts with |
|---|---|---|---|
| Pending request store (`tunnel_manager.rs`, `PendingStore`) | `requests` (id to oneshot sender, deadline, tunnel), `per_tunnel` counts, `pending_gauge` | register, remove, drain, fulfill, close, sweep | every proxy handler, every session, admin calls, sweeper |
| Tunnel registry (`tunnel_manager.rs`, `TunnelManager`) | `tunnels` (subdomain to tunnel) | allocate, register with limits, get, remove, disconnect | sessions, proxy handlers, admin calls |
| HTTP proxy handler (`proxy/`) | one future per request | resolve host, look up, rate limit, register, send or stream, await with timeout | registry, store, writer of the session |
| Websocket session (`server.rs`, `handle_socket`) | writer task and its queue of 64 frames, read loop | handshake, registration, ack, dispatch of frames, cleanup | registry, store, TCP registry |
| TCP registry (`tcp_proxy.rs`) | listener, connections, reader tasks per tunnel | accept, data and close in both directions | session, external TCP peers |
| Admin API, auth, health, metrics | a rate limiter, counters | list, disconnect, report | registry |
| Client session (`expose-client/tunnel.rs`) | writer task, ping task, main loop | handshake, frame dispatch, shutdown | server session, local service |
| Client reconnect loop, multi-tunnel session (`tunnel.rs`, `multi.rs`) | `attempt`, `has_connected` | back off, retry, give up | client session |
| Client HTTP and TCP proxies | buffered streams, open connections | reassemble, forward, answer | client session, local service |
| Protocol, configuration | none | encode, decode, version check, validate, normalise | all |

What is hard in it: all server tasks share concurrent maps (DashMap) and atomics on
a multi-threaded runtime.  Each operation on a map is atomic and sequences of them
are not, so every check followed by an update, and every list of ids collected and
then worked off, is exposed to interleaving.  Requests have three ways to end (the
client's answer, the end of the tunnel, a deadline) that race; sessions end in order,
by an error or by an admin call, and each of these cleans up differently; tasks await
each other through channels.  What each part must guarantee:

- store: one owner per request, exactly one final answer, every request answered,
  limits and gauge close to the truth;
- registry: a name leads to the session that registered it, a live tunnel keeps its
  name, what a finished session used is free again;
- sessions on both sides: they end when the other side does, and do not wait for
  ever on their own tasks;
- reconnecting: delays within bounds, the attempt limit kept, shutdown obeyed;
- streaming and TCP: bytes in order and complete, one connection's failure does not
  end the others.

`PROJECT.json` lists the components, the hazards with their lines, and the
correspondence of every definition to the source.

## Modules

| module | content |
|---|---|
| `PendingStore` | the store with handlers, sessions, admin calls and the sweeper |
| `MCPendingStore` | symmetry for TLC |
| `PendingStoreProofs` | proofs about it |
| `TunnelRegistry` | the map of tunnels and the listeners, with sessions and admin calls |
| `MCTunnelRegistry` | symmetry for TLC |
| `TunnelRegistryProofs` | proofs about it |
| `Backoff` | `ReconnectBackoff`: the delays and the limit, used by the next two |
| `TunnelSession` | the two ends of a tunnel's websocket, with all their tasks, and the client's reconnect loop |
| `TunnelSessionProofs` | proofs about it |
| `TcpForward` | TCP connections through a tunnel: accept loop, reader tasks, both connection maps |
| `BodyRelay` | abstract specification: what a tunnel promises for request bodies |
| `HttpRelay` | collecting, streaming and reassembly of bodies; implements `BodyRelay` |
| `MultiSession` | the client's `multi` command: several tunnels over one websocket |
| `TcpForwardProofs`, `HttpRelayProofs`, `MultiSessionProofs` | proofs about the modules they are named after |
| `FrameQueues` | lemmas on FIFO queues of frames: what is in one and in which order, after a frame was appended or taken |
| `MCTunnelSession`, `MCTcpForward`, `MCHttpRelay`, `MCMultiSession` | instances for TLC |

The modules cut the system by question, not by crate.  `TunnelSession` has the channels
and their senders and knows frames only by what they do to a session: a frame of kind
"bad" is one on which the client's `handle_frame` fails, one of kind "stray" one on
which the relay's read loop fails.  `HttpRelay` (`PushChunk`) and `TcpForward`
(`HandleData`, `HandleClientData`) show where such frames come from, with channel,
writer and websocket reduced to one FIFO.

### PendingStore

`requests`, `per_tunnel` and `pending_gauge` are the fields of the code.  A handler is
a program counter `pc[r]` per request: `Lookup`, the two checks of
`register_pending_request` with their rejections, `InsertRequest`, the two increments,
`SendRequest` or a failure, `Receive` or `HandlerTimeout`.  The other tasks are
*workers*: for each tunnel the session in `fulfill()`, the session in `close()` and an
admin call in `disconnect_tunnel()`, and one sweeper.  All of them go through
`PendingStore::remove`, modelled once as `Take`, `DecrementGauge`, `DecrementTunnel`,
`RemoveEntry`; they differ in what they do with the request it returns (`Answer` or
`Drain`).  One action is one operation on a map or an atomic.

- A response, a body, a header is not modelled: a request has been `sent` or not, and
  an answer is `response`, `502` (close) or `504` (sweeper).
- Time is the set `expired` of requests past the deadline computed at registration.
  The handler's own timeout starts later and with the same duration, so it fires only
  for a request in `expired`.
- `drain_for_tunnel` iterates shard by shard: it sees what is there all along and any
  subset of what comes meanwhile (`BeginDrain`, `EndScan`).
- From the lookup to the end of the registration a handler does not await, and
  neither does `fulfill`, `close` or a sweep.  At most `Threads` of these run at the
  same time; `ThreadFree` guards their starts.  This bound is external to the code
  (tokio's worker threads) and is what makes the overshoot of the limits finite.
- `requests.len()` of the global check adds up the shards one by one and is one read in
  the model.  The sum has every request that was there before it began and stays, and
  each thread has at most one registration under way then, so the bound of
  `GlobalOvershoot` is the same.
- A client answers only requests that were sent over its own tunnel.  The code does
  not compare the tunnel of a response with that of the request; ids are random and
  go to one client only.
- An answer for a request that has left the store changes nothing (`fulfill` logs it),
  and a tick of the sweeper without expired requests neither; both are stuttering.
- The tunnel limiter's bucket is outside the module: `RateLimited` may happen whenever
  it is asked.

### TunnelRegistry

A session makes one tunnel with a fresh id, so the session stands for its tunnel.
`pc[s]` follows `handle_socket`: the handshake fails or `Allocate` finds a free name;
`CheckGlobal`, `CheckKey`, `CheckFree` and `Insert` are the four operations of
`register_tunnel`; `BindListener` and `SendAck` complete the setup; `EndLoop` leads to
the cleanup (`CloseHandle`, `RemoveListener`, `Unmap`, and the wait for the writer);
`SetupFails` and `AbortLoop` are the `?` and `return Err` paths that skip it.  An
admin call finds the key of an id (`AdminFind`; `asked` is the tunnel of that id) and
then removes by key (`AdminRemove`).  `Insert` replaces and `Unmap` removes by name, as the code does.
What `close()` does to pending requests is the other module's matter; here it is the
set `closed`.  In the other direction, `PendingStore`'s `Displaced` is what a
replacement or a removal by name looks like from there.

Name sanitizing is abstracted (a name that does not sanitize is a failed handshake),
and five random draws are one choice of a free name or, if any name is taken, a
failure.

### TunnelSession

`cpc` follows `run_with_token` and `run_single_session` of the client: top of the loop,
handshake, main loop ("running"), `drop(tx); writer_task.await` ("draining"), backoff.
The channel `cqueue` has three kinds of senders: the main loop while it runs, the ping
task (`ping`) and one proxy task per request (`tasks`).  The writer ends when all are
gone and the queue is empty (`WriterEnds`), or when a send fails (`WriterFails`).  At
the relay, `spc[c]` follows `handle_socket` for connection `c`; its writer's channel is
held by the session and by the map's entry (`owner`).  `Register` puts the tunnel into
the map, so requests are queued for it from then on; `Acknowledge` queues the ack behind
them, and what was queued before it is read and dropped by the client's handshake
(`HandshakeDrops`).  Between the two, a listener that cannot be bound or a writer that is
gone ends the session and leaves the entry (`RegisteredFails`).  `ReadEnd` is the end by a
Disconnect or Close, with the cleanup; `ReadFails` is a `?` or the `Err` arm, without.

- The client asks for a fixed subdomain, so `owner` is one variable.
- `Connect` is one step.  `connect_async` and the handshake both wait without a time limit
  and without looking at the token, so an upgrade that is never answered has the same
  effect as a Connect that is not (fault "silent").
- A write to a dead connection may be swallowed by a buffer or fail; a socket closed
  with unread input may take written frames with it (`Hangup`).
- Pings and pongs matter because they fill the queue and fail; they are not followed
  beyond the writer.
- `losses` is a history variable: the failed sessions in a row, which the documentation
  of delays and limit talks about.  `attempt` is what the code counts.
- `Forget` recycles a connection of which neither end has any part, so that few
  connections serve for behaviours of any length.

### TcpForward

Each connection of a caller is a key of two maps, `sconns` at the relay and `cconns` at
the client, with a reader task beside each.  The actions are the operations between two
awaits: `Announce` (TcpConnect is sent, the reader spawned), `Insert`, `ReaderReads`,
`ReaderEnds`, `ReaderRemoves`, the arms of the read loop on data, close and ack, and at
the client `SpawnConnect`, `LocalConnects`, `LocalInsert`, `ReportConnect`,
`HandleData`, `HandleClose` and the local reader.

`handle_client_data` keeps two guards of DashMaps while it awaits `write_all`, of the
tunnels map and of the tunnel's connections: `swriting` is the connection written to, and
`sparked` says that the write has had to wait.  A task that needs the shard of a
connection (`Insert`, `ReaderRemoves`, the accept loop on its way out) or, in another
session, the shard of the tunnels map (`OtherBlocks`) then blocks the worker thread it runs
on (`sblocked`).  A step of the relay needs a thread that is not blocked, and so does the
write when it goes on.  `Starved` is the state in which none is left.

The n-th piece of data of a connection is the number n.  The local service takes what it is
sent, so the client's write is one step; the client keeps the same kind of guard, but needs
its shard only from tasks of its own runtime.

### HttpRelay and BodyRelay

A body is a sequence of pieces of one size unit; a request picks its size, and whether it
declares it, from `Sizes` at the start.  The body reaches the relay in HTTP frames of
any length: `ReadFrame` takes any number of the pieces that are left.
`ShouldStream` chooses between `Collect` and `SendRequest` on one side, and `SendStart`,
`ReadFrame`, `SendChunk`, `SendEnd` on the other; `ChunkEnd` is where `data.chunks(..)`
cuts what was read.  The
writer refuses a frame over `FrameMax` when it encodes it (`WriterDies`), and the
client's `PushChunk` fails over an unknown stream or one past `ClientMax`.  A handler
may be dropped at any of its awaits (`BodyFails`).  `got` is what the client's proxy tasks
were handed: whether the local service can be reached (`handle_http_request` answers with
502 if not) is not part of the question.

`BodyRelay` says what this is for: a request is accepted or refused once, and the
service gets the body of an accepted one whole, unmixed and at most once, and nothing
of a refused one.  `HttpRelay!Relayed` instantiates it with `pc` mapped to the outcome and
the content a function of the request; `BodiesRelayed` is its specification as a
property.

### MultiSession

`mpc` and `next` follow the handshakes, one Connect and its ack per tunnel in turn;
`contexts` and `routes` are the maps of `MultiTunnelManager`; `HandleRequest`,
`HandleStart`, `HandleOpen`, `HandleData` and `HandleEnd` are the arms of `handle_frame`,
where a TCP connection and a streamed HTTP request are both an *item* (`form` tells them
apart) with a first frame, data and an end.  The relay looks an HTTP request's tunnel up by
its name and does not ask for its protocol, so HTTP items go to TCP tunnels too; the client
finds a context without an HTTP proxy for them and neither handles nor tracks them.  While
the local service does not take the data of a TCP connection, the main loop waits
("writing").

`writer[c]` is kept per connection because a failed handshake returns without ending the
writer and ping task of its connection.  A writer ends when the last of its senders is
dropped (`WriterEnds`): those of the main loop, of the ping task (until the token is
cancelled) and of the tasks of items (`tasks[c]`: HTTP requests until they are answered,
TCP connections until the local service closes or the relay's close aborts the reader).  A
response too large to encode ends it with an error, which the session returns.  When `run`
has returned, `main` drops the runtime with all tasks that are left, and their sockets are
shut without a Close (`Exit`).

At the relay, registration and ack of a Connect are two steps (`RelayRegisters`,
`RelayAcks`), so items may come before the ack and are dropped by `wait_for_connect_ack`.

`AckEach` says which relay the client talks to.  With `TRUE` it is one that answers
every Connect, which is what the client is written for; with `FALSE` it is the one of
this repository.  The properties of routing need the first, since the second never
lets two tunnels come up; the run `multi_all` shows that.

## Runs

| run | checks | result |
|---|---|---|
| `pending_safety` | three handlers, session, sweeper, two threads, global limit 1: types, `OnePlace`, `AnswerJustified`, `GlobalOvershoot`, `GaugeCovers` | hold, 1.5 million states |
| `pending_admin` | two handlers, with an admin call and a rival session: `OnePlace`, `SettledForGood` | hold, 0.5 million states |
| `pending_live` | two handlers under `FairSpec`: `EveryRequestAnswered`, `EveryWaiterReturns` | hold, 0.14 million states |
| `pending_tunnel_limit` | `PerTunnelLimit`, the documented limit | violated |
| `registry_safety` | three sessions, three names, an admin call, two threads, limits 1: types, `MapSound`, `LostOnlyToRival`, `LimitsOvershoot` | hold, 0.76 million states |
| `registry_tracks` | `TracksEveryActive`, the documented role of the manager | violated |
| `session` | every fault, two connections, one request, queues of 1: types, `SleepsAsDocumented`, `GivesUpAtLimit`, `ShutdownObeyed`, `GoneLinkEndsSession`, `GracefulStopFreesName` | hold, 105 thousand states |
| `session_reconnects` | `LostSessionReconnects`, the documented recovery, with broken connections as the only fault | violated |
| `tcp_forward` | two connections in one shard, another session, two threads: types, `PrefixDelivered`, `LeaksExplained`, `ClientFailsWithCause`, `RelayAbortsWithCause`, `ThreadsComeBack`, `CloseReachesService` | hold, 0.44 million states |
| `http_relay` | two requests, five sizes of bodies, every cut into frames: types, `StreamsAccounted`, `BreaksWithCause`, the refinement `BodiesRelayed`, `SentBodyArrives` | hold, 0.22 million states |
| `multi` | two HTTP tunnels and a TCP tunnel, two connections, one item: types, `RoutedHome`, `RouteFound`, `RoutesAccounted`, `ShutdownReleases` | hold, 0.2 million states |
| `multi_all` | `AllTunnelsEstablished`, the documented result, at this repository's relay without faults | violated |

Bounds.  Two threads are the smallest number that interleaves; two requests make two
owners, two counts and a shared per-tunnel entry possible, and the third lets one
request fill the limit while two race for it.  One tunnel suffices because tunnels
interact only through the global count and the gauge, and the proofs cover any number.
The limits are 1 or 2, so that every run reaches them; the per-tunnel limit is 2
where the global limit of 1 is the one to be exceeded.  `Requests` and `Sessions` bound how many
arrive; each arrives once, since ids are fresh.

`session`: two connections let a lost session and its successor exist at the same time,
which is when the stale entry refuses the new one; a queue of 1 is full as soon as a
ping waits, so every send can meet a full queue; three attempts from a base of ten
seconds pass through the doubling and reach the cap of 32 seconds before the limit.
`AttemptMax` stands for the saturation of a `u32`; `SessionConstants` asks that it lies
past the last doubling of the delay, as it does by far.
`tcp_forward`: two connections are what a shared shard and a session ended for another
connection's sake need; one sends two pieces and receives one, the other is closed
while its local connect is still under way (`Quiet`).  Two threads are fewer than the tasks
that can block at the same time (an insert or the accept loop on its way out, two readers,
a task of another session), so states in which every thread is blocked are reached: there
the write that would release them has no thread to go on, and `ThreadsComeBack` and
`CloseReachesService` name that outcome (`Starved`) instead of leaving it out.  Each
behaviour has at most one of a broken websocket, a failed accept and a shutdown
(`Undisturbed`); the number of blocked tasks does not depend on it.
`http_relay`: the limits are in the order of their defaults except that collecting is
allowed above the frame limit, and the bodies lie below, between and above them; a queue of
2 lets chunks of both requests interleave and fill it.
`multi`: three tunnels have a first, a middle and a last handshake and both protocols;
the second connection lets the client go on after one was abandoned or broke; one item is
enough because routes are per item, and it is sent at any time, during the handshakes too.

What the violations show:

- *Per-tunnel limit.*  The count is read before the insert and raised after it, so
  two handlers pass together.  `GlobalOvershoot` and its theorem say how far the
  corresponding global limit can be exceeded: by fewer requests than there are
  threads.  For the per-tunnel limit no such bound is stated, because a count can be
  thrown away by `RemoveEntry`, after which it stays too low while requests are
  pending.
- *Registry.*  An admin disconnect leaves the session running; another client
  registers the name; the first session's cleanup removes the entry by name.
  `LostOnlyToRival` shows that this, the race of two registrations and an admin call
  meant for a rival of the same name are the only ways, apart from an admin call for the
  tunnel's own id.
- *Reconnecting.*  The relay's session returns from a read error without the cleanup, so
  the name stays taken by a tunnel that is dead.  The client, with its fixed
  subdomain, is refused at every attempt.  `GracefulStopFreesName` shows the orderly
  way is sound: the name is free although the session's own wait for its writer may
  never return.
- *Multi.*  The relay takes one Connect per websocket and ignores the next; the client
  waits for the second ack without a time limit and without looking at the token.

What the passing runs say about the sharp edges of the code, each of them a
property with its exceptions named:

- A TCP connection can end the session of all others only in the races that
  `ClientFailsWithCause` and `RelayAbortsWithCause` list (data before the insert, data
  after the other side's close); `LeaksExplained` lists the entries that stay behind.
- A request can break a tunnel only with a body between two limits that do not agree
  (`BreaksWithCause`): the client's buffer limit below the relay's streaming limit, or
  a collect limit configured above the frame limit.
- A write to a TCP caller that does not read can take all worker threads of the relay:
  the tasks that wait for its locks block them, and the write itself has none left to go
  on with (`Starved`).  Short of that, `ThreadsComeBack` shows the threads return.
- A client of `multi` stops when it is told to only if the local services let go: a
  request that the service does not answer, or an open TCP connection, keeps a sender, and
  `writer_task.await` waits for it (`LetGo` in `ShutdownReleases`).
- A client that is told to stop does so unless the relay leaves its handshake
  unanswered (`ShutdownObeyed`); no time limit of the client ends that wait, although a
  comment of the tests' mock server expects one ("never send ConnectAck - client should
  timeout", `expose-client/tests/helpers/mock_server.rs:218`; that mock closes the
  connection instead, which the client does notice).  And a dead connection frees a session from waiting for
  a local service that never answers (`GoneLinkEndsSession`); after a shutdown this no
  longer holds, since the ping task has ended.

## Fairness

`PendingStore.Fairness`: the sweeper's interval ticks while the manager lives and the
runtime polls what is ready, so the sweeper, a registration, a `remove` or drain under
way, and a handler whose channel or timer is ready progress; the clock passes every
deadline.  Nothing is assumed of the client, the HTTP caller, the end of a session, or
of the send, which can stall on a full queue or a slow body.  A session's step guarded
by `ThreadFree` is never assumed to happen, except the sweep; every holder of a
thread is itself fair and finitely many requests arrive, so a thread is free for it in
the end.  `EveryWaiterReturns` therefore starts at the wait: a handler
that stalls in the send returns only if the caller or the session ends it, while its
request is answered all the same.

`TunnelSession.Fairness`: both runtimes poll ready tasks and timers fire.  A `select!`
picks at random among ready branches, so each branch that stays ready is taken.  A send
on a dead connection fails at some time: `WriterFails` is strongly fair, because writes
that are swallowed go between.  The relay's answer to a Connect is assumed only where
"silent" is not among the faults.  Nothing is assumed of the local service
(`ShutdownObeyed` states what it needs of it), the user, callers and the network.

`TcpForward.Fairness`: the relay's tasks run as long as a thread is free, and blocked
ones go on when their lock is free.  Nothing is assumed of the callers: `ThreadsComeBack`
has the premise that those who stopped reading read in the end.  `HttpRelay.FairSpec`: the
writer and the client's main loop; nothing of the handlers.  `MultiSession.FairSpec`: as
for `TunnelSession`, and a relay that reads what it is sent.  A writer on a dead connection
is assumed to fail only until the token is cancelled, because it is the ping that finds
out; after `main` has returned writers do not go on but are dropped.  The local services
may stay silent or keep a connection open for ever; `ShutdownReleases` states as its premise
that they do not (`LetGo`).

The runs assume the manager is not dropped: dropping it cancels the sweeper, and
happens when the process ends.

## Proofs

Every invariant, every action property and the refinement that a passing run checks are
also theorems, for any sets of requests, tunnels, sessions, connections, items and names
(finite ones where they are counted), any limits, body sizes, chunk sizes and queue
capacities, any faults and any positive number of threads: the named `ASSUME`s of the
modules are all that is assumed.  They say that the limits are natural numbers, that a
placeholder such as "no connection" is not one of the real ones (`NoKeyFresh`: no API key
is not a key), that chunks and queues are not of size zero and that the attempt counter
saturates past the last doubling.

| theorem | states | inductive argument |
|---|---|---|
| `PendingStoreProofs!TypeCorrect` | `[]TypeOK` | `TypeOK` is inductive; its clause on `Holding` ties `cur` to `task` |
| `OneOwner` | `[]OnePlace` | inductive with `TypeOK`; each worker step is first reduced to its effect on requests (`WorkerEffect`) |
| `OvershootBounded` | `[]GlobalOvershoot` | `Overshoot` adds the handlers past the check to those stored, and bounds them by the threads |
| `GaugeNeverUnder` | `[]GaugeCovers` | `Ledger`: gauge + inserted-not-counted >= stored + removed-not-credited |
| `AnswersAreFinal` | `SettledForGood` | from `OnePlace`: a second answer needs a second owner |
| `AnswersJustified` | `[]AnswerJustified` | `Sources`: the cause of an answer is there from when a worker takes the request in hand, on its list already |
| `TunnelRegistryProofs!TypeCorrect` | `[](TypeOK /\ Named)` | `Named`: whoever writes an entry has a name to write it under |
| `MapStaysSound` | `[]MapSound` | `MapInv` adds that a removed listener stays away during the cleanup |
| `LossHasARival` | `[]LostOnlyToRival` | a registered session keeps its name (`RivalsStay`), so a rival remains one; `AskedOK`: what an admin call was asked for was registered under the key it found, so whatever else it removes has a rival |
| `LimitsBounded` | `[]LimitsOvershoot` | `LimitInv`: mapped tunnels and sessions past the check together, in all and per key |
| `TunnelSessionProofs!TypeCorrect` | `[]TypeOK` | `Unaccepted`: nothing is queued for a connection before its Connect was read, so an Error finds room |
| `LimitKept` | `[]GivesUpAtLimit` | `Counting`: the code's counter agrees with the losses in a row while the client is at work; every step is a loss or leaves both alone (`LossOrUncounted`) |
| `DelaysDocumented` | `[]SleepsAsDocumented` | `Delayed`: what is documented for the losses so far is what the backoff returned |
| `TcpForwardProofs!TypeCorrect` | `[]TypeOK` | with the blocked tasks finite, and one lemma for all steps that block a thread (`BlockStep`) |
| `BytesInOrder` | `[]PrefixDelivered` | `Flows`: the pieces on the way continue what has arrived and none is missing |
| `LeaksHaveCause` | `[]LeaksExplained` | `ForwardInv` = types, `Flows` and `Protocol` |
| `ClientFailureCaused`, `RelayAbortCaused` | `ClientFailsWithCause`, `RelayAbortsWithCause` | from `ForwardInv`, at the step that fails |
| `HttpRelayProofs!TypeCorrect` | `[]TypeOK` | with what each kind of frame holds (`Good`) |
| `StreamsAreAccounted`, `BreaksHaveCause` | `[]StreamsAccounted`, `[]BreaksWithCause` | `RelayInv` |
| `RelayImplements` | `Spec => BodiesRelayed` | refinement of `BodyRelay` under `RelayInv` |
| `MultiSessionProofs!TypeCorrect` | `[]TypeOK` | with `LinkOK`: a free connection is clean, and that of the session has no stale frames |
| `ItemsRoutedHome`, `RoutesFound`, `RoutesAreAccounted` | `[]RoutedHome`, `[]RouteFound`, `[]RoutesAccounted` | `ItemInv` |

Why the strengthenings are needed:

- *Limits.*  `OvershootBounded` and `LimitsBounded` need to count those about to insert:
  the stored requests, or mapped tunnels, alone say nothing about them.
  `GaugeNeverUnder` needs `Ledger` because in between, gauge and store differ by exactly
  the tasks that are between two of their operations.
- *Answers.*  `AnswerJustified` is about the moment of the answer, and its cause lies
  several steps before: a sweeper collects expired ids, a closer lists the requests of
  its own tunnel, and only later is each one removed and answered.
- *Backoff.*  The properties are about the history of losses and the code decides by its
  counter.  The documented delay is a recursive function; that the function exists is
  shown by a witness (the delays of the backoff satisfy its equation, `DocumentedUnfolds`)
  and its value is carried along from loss to loss by the invariant, so no induction over
  numbers is needed.  The proof found a requirement of the model: the counter may
  saturate only after the delay has stopped doubling.
- *TCP.*  Frames are under way in both directions while the maps change.  `Protocol(k)`
  says what each frame of a connection on the wire implies of the two maps, reader tasks
  and callers (a connect comes before everything else, a close is the last), what is
  true of a connection that is missing from the relay's map, and of one that was left
  behind.
- *Bodies.*  `RelayInv` keeps, for each request of a working tunnel: the order of its
  frames (start, chunks, end) whatever lies between them, what they say of handler and
  client, and `Chain`: the chunks on the wire are the body from where the client's buffer
  ends to where the handler has got, without a gap, and an end comes only after the whole.
  A streamed body is whole because the chain is empty when the end is at the head.
- *Multi.*  `Sent(x)`: the frames of an item are on one connection and the item is for
  one tunnel; `Order(x)`: an end or data frame comes after the first frame, which is
  still on the wire, has made the route, was dropped in a handshake, or was that of an
  HTTP request for a TCP tunnel's name (`Untracked`).

Only model-checked: all liveness (`EveryRequestAnswered`, `EveryWaiterReturns`,
`ShutdownObeyed`, `GoneLinkEndsSession`, `GracefulStopFreesName`, `ThreadsComeBack`,
`CloseReachesService`, `SentBodyArrives`, `ShutdownReleases`), which needs reasoning about
fairness and `ENABLED` that the prover does not offer, and the four violated properties,
which are counterexamples.

## Plan

1. `RequestReply`, an abstract specification of one request (registered, then answered
   once) that `PendingStore` implements, and its proof from `OnePlace` and `Sources`.
2. How far a per-tunnel limit can be exceeded while no count has been thrown away.
3. What the liveness properties rest on as invariants: whoever waits for a channel is
   waited for by a sender that can still move (`TunnelSession`), and, in `TcpForward`,
   a relay with more threads than tasks that can block is never `Starved`.

## Not modelled

- Host resolution, header conversion, public URLs, name sanitizing, the version check and
  error texts: functions without state.  In the models they are the choice of a tunnel
  or one of the reasons of a refusal.
- Configuration: read once at the start; its values are the constants of the modules.
  A chunk size of zero, which the configuration does not refuse, is outside
  `RelayConstants`.
- Authentication of the admin API and its rate limit, the read-only endpoints, health
  and metrics: nothing reads back what they keep.
- The token bucket of a tunnel, the concurrency limit of the router, the bincode
  encoding: libraries.
- The client's side of the DashMap lock, and a local service that stops reading; in
  `MultiSession`, which of a tunnel's proxies fails and why (a frame of kind "bad"); in
  `TunnelSession`, clients without a fixed subdomain, which get a random name at each
  reconnect.
- splice, io_uring, socket options, TLS set-up, tracing: system calls without state of
  their own.
