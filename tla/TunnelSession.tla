--------------------------- MODULE TunnelSession ---------------------------
(***************************************************************************)
(* The two ends of a tunnel's websocket and the client's reconnect loop:   *)
(*                                                                         *)
(*   - the client (expose-client/src/tunnel.rs): run_with_token with its   *)
(*     backoff, and a session with a main loop, a writer task, a ping task *)
(*     and one task per proxied request, which all share one channel;      *)
(*   - the relay (expose-server/src/server.rs, handle_socket): one session *)
(*     per connection with its writer task, and the entry that the         *)
(*     manager's map keeps for the client's subdomain.                     *)
(*                                                                         *)
(* The client asks for a fixed subdomain.  A task ends only when its       *)
(* channel has no sender left or its socket fails, so who keeps a sender   *)
(* decides who waits for whom; that is what this module is about.          *)
(***************************************************************************)
EXTENDS Backoff, Sequences, FiniteSets

CONSTANTS
    Conns,         \* connections that can exist at the same time
    Requests,      \* HTTP requests that reach the relay for this tunnel
    QueueCap,      \* capacity of the two mpsc channels (64 in the code)
    Faults         \* what the surroundings may do: subset of FaultKinds

FaultKinds == {"connect",  \* a connection attempt fails
               "refuse",   \* the relay refuses for its key, version or capacity checks
               "bind",     \* the relay finds no port for the listener of a TCP tunnel
               "silent",   \* the relay may leave a Connect unanswered
               "break",    \* the connection of an established session breaks
               "drop",     \* a connection breaks during the handshake
               "bad",      \* a frame on which the client's handle_frame fails
               "stray",    \* a frame on which the relay's read loop fails
               "huge"}     \* a local response too large to be encoded

NoConn == "no connection"

\* The attempt counter (a u32) saturates only after the delay has stopped doubling.
ASSUME SessionConstants ==
    /\ AttemptMax >= 5
    /\ QueueCap \in Nat \ {0}
    /\ Faults \subseteq FaultKinds
    /\ NoConn \notin Conns

VARIABLES
    cpc,        \* where run_with_token stands
    shutdown,   \* the cancellation token
    attempt,    \* ReconnectBackoff.attempt
    delay,      \* the delay last returned by next_delay, in ms
    losses,     \* history: failed sessions in a row, the last connected one included
    cur,        \* the connection of the current client session
    ended,      \* why the client's main loop ended
    cqueue,     \* the client's channel of Outgoing frames
    cwriter,    \* the client's writer task
    ping,       \* whether the client's ping task runs and keeps a sender
    tasks,      \* requests whose proxy task runs and keeps a sender
    link,       \* each connection: free, up, closed by the client, or broken
    c2s, s2c,   \* frames under way on each connection
    spc,        \* where handle_socket stands
    squeue,     \* the relay's channel of OutgoingFrames
    swriter,    \* whether the relay's writer task runs
    owner,      \* the connection whose tunnel the map has for the subdomain
    fresh       \* requests that have not reached the relay yet

loopVars    == <<shutdown, attempt, delay, losses>>
sessionVars == <<ended, cqueue, cwriter, ping, tasks>>
netVars     == <<link, c2s, s2c>>
relayVars   == <<spc, squeue, swriter, owner, fresh>>
vars == <<cpc, cur, loopVars, sessionVars, netVars, relayVars>>

ClientPcs == {"loop", "handshake", "running", "draining", "sleeping", "stopped", "failed"}
Final     == {"stopped", "failed"}
RelayPcs  == {"none", "waiting", "registered", "reading", "closing", "gone"}
Frame(kind, r) == [kind |-> kind, req |-> r]
Plain(kind)    == [kind |-> kind]

Init ==
    /\ cpc = "loop" /\ shutdown = FALSE
    /\ attempt = 0 /\ delay = 0 /\ losses = 0
    /\ cur = NoConn /\ ended = "none"
    /\ cqueue = <<>> /\ cwriter = "none" /\ ping = FALSE /\ tasks = {}
    /\ link = [c \in Conns |-> "free"]
    /\ c2s = [c \in Conns |-> <<>>] /\ s2c = [c \in Conns |-> <<>>]
    /\ spc = [c \in Conns |-> "none"]
    /\ squeue = [c \in Conns |-> <<>>]
    /\ swriter = [c \in Conns |-> FALSE]
    /\ owner = NoConn /\ fresh = Requests

-----------------------------------------------------------------------------
(***************************************************************************)
(* run_with_token between two sessions                                     *)
(***************************************************************************)
\* The history counts as far as it matters: to the limit, or to where the delay
\* no longer changes.
LossCap == IF MaxAttempts = 0 THEN 7 ELSE MaxAttempts + 1
OneMoreLoss(had) == IF had THEN 1 ELSE Lesser(losses + 1, LossCap)

\* Mutant: every lost session resets the backoff.
AfterLoss_Resets(had) ==
    /\ cpc' = "sleeping" /\ attempt' = 1 /\ delay' = DelayAfter(0)
    /\ losses' = OneMoreLoss(had)
    /\ UNCHANGED shutdown

\* run_with_token on SessionResult::Reconnect.
AfterLoss(had) ==
    LET n == IF had THEN 0 ELSE attempt
    IN  /\ losses' = OneMoreLoss(had)
        /\ IF shutdown
           THEN cpc' = "stopped" /\ UNCHANGED <<attempt, delay>>
           ELSE IF Exhausted(n)
                THEN cpc' = "failed" /\ attempt' = n /\ UNCHANGED delay
                ELSE cpc' = "sleeping" /\ attempt' = Saturating(n) /\ delay' = DelayAfter(n)
        /\ UNCHANGED shutdown

-----------------------------------------------------------------------------
(***************************************************************************)
(* The client: connecting and the handshake                                *)
(***************************************************************************)
\* ctrl_c cancels the token, at any time.
Cancel ==
    /\ ~ shutdown
    /\ shutdown' = TRUE
    /\ UNCHANGED <<cpc, cur, attempt, delay, losses, sessionVars, netVars, relayVars>>

StopAtTop ==
    /\ cpc = "loop" /\ shutdown
    /\ cpc' = "stopped"
    /\ UNCHANGED <<cur, loopVars, sessionVars, netVars, relayVars>>

ConnectFails ==
    /\ "connect" \in Faults
    /\ cpc = "loop" /\ ~ shutdown
    /\ AfterLoss(FALSE)
    /\ UNCHANGED <<cur, sessionVars, netVars, relayVars>>

\* connect_async succeeds and perform_handshake writes its Connect.  Neither await has a
\* time limit or looks at the token, so an upgrade that is never answered is one with a
\* handshake that is not.
Connect(c) ==
    /\ cpc = "loop" /\ ~ shutdown
    /\ link[c] = "free"
    /\ cpc' = "handshake" /\ cur' = c
    /\ link' = [link EXCEPT ![c] = "up"]
    /\ c2s' = [c2s EXCEPT ![c] = <<Plain("connect")>>]
    /\ spc' = [spc EXCEPT ![c] = "waiting"]
    /\ swriter' = [swriter EXCEPT ![c] = TRUE]
    /\ UNCHANGED <<loopVars, sessionVars, s2c, squeue, owner, fresh>>

\* Both halves of the relay's socket have been dropped.
RelayClosed(c) == spc[c] = "gone" /\ ~ swriter[c]

\* The connection is gone, seen from the client.
LinkGone(c) == link[c] = "broken" \/ RelayClosed(c)

\* The client's reader finds an error where the next frame should be.
ReadError == s2c[cur] = <<>> /\ LinkGone(cur)

\* The session returns and the socket is dropped.  Closing a TCP socket with
\* unread input resets the connection, and what was written may be lost.
Hangup ==
    \/ /\ link' = [link EXCEPT ![cur] = IF @ = "up" THEN "closed" ELSE @]
       /\ UNCHANGED c2s
    \/ /\ link[cur] = "up" /\ s2c[cur] # <<>>
       /\ link' = [link EXCEPT ![cur] = "broken"]
       /\ c2s' = [c2s EXCEPT ![cur] = <<>>]

\* perform_handshake: the ack starts the session with its tasks.
Acknowledged ==
    /\ cpc = "handshake"
    /\ s2c[cur] # <<>> /\ Head(s2c[cur]).kind = "ack"
    /\ s2c' = [s2c EXCEPT ![cur] = Tail(@)]
    /\ cpc' = "running" /\ ended' = "none"
    /\ cqueue' = <<>> /\ cwriter' = "up" /\ ping' = TRUE /\ tasks' = {}
    /\ UNCHANGED <<cur, loopVars, link, c2s, relayVars>>

\* perform_handshake: what the relay forwards before its ack is dropped.
HandshakeDrops ==
    /\ cpc = "handshake"
    /\ s2c[cur] # <<>> /\ Head(s2c[cur]).kind \in {"request", "bad"}
    /\ s2c' = [s2c EXCEPT ![cur] = Tail(@)]
    /\ UNCHANGED <<cpc, cur, loopVars, sessionVars, link, c2s, relayVars>>

\* perform_handshake: an Error, a Close or the end of the stream.  It does not
\* look at the token and has no time limit.
HandshakeFails ==
    /\ cpc = "handshake"
    /\ \/ s2c[cur] # <<>> /\ Head(s2c[cur]).kind \in {"error", "close"}
       \/ ReadError
    /\ AfterLoss(FALSE)
    /\ Hangup
    /\ UNCHANGED <<cur, sessionVars, s2c, relayVars>>

-----------------------------------------------------------------------------
(***************************************************************************)
(* The client: a session and its tasks                                     *)
(***************************************************************************)
\* The main loop is left: drop(tx), then the writer is awaited.
Leave(why) ==
    /\ cpc' = "draining" /\ ended' = why
    /\ UNCHANGED <<cur, loopVars, cwriter, ping, tasks, relayVars>>

\* Mutant: the channel is unbounded.
Offer_Unbounded(f) ==
    IF cwriter = "up" THEN cqueue' = Append(cqueue, f) ELSE UNCHANGED cqueue

\* mpsc::Sender::send, by a task of the client: it waits for room, and fails
\* once the writer is gone.
Offer(f) ==
    \/ cwriter = "up" /\ Len(cqueue) < QueueCap /\ cqueue' = Append(cqueue, f)
    \/ cwriter # "up" /\ UNCHANGED cqueue

ShutdownSeen ==
    /\ cpc = "running" /\ shutdown
    /\ Offer(Plain("disconnect"))
    /\ Leave("shutdown")
    /\ UNCHANGED netVars

LoopFails ==
    /\ cpc = "running"
    /\ \/ /\ s2c[cur] # <<>> /\ Head(s2c[cur]).kind \in {"close", "bad"}
          /\ s2c' = [s2c EXCEPT ![cur] = Tail(@)]
       \/ ReadError /\ UNCHANGED s2c
    /\ Leave("error")
    /\ UNCHANGED <<cqueue, link, c2s>>

\* handle_frame: a request is given to a task of its own, with a sender.
SpawnProxyTask ==
    /\ cpc = "running"
    /\ s2c[cur] # <<>> /\ Head(s2c[cur]).kind = "request"
    /\ s2c' = [s2c EXCEPT ![cur] = Tail(@)]
    /\ tasks' = tasks \cup {Head(s2c[cur]).req}
    /\ UNCHANGED <<cpc, cur, loopVars, ended, cqueue, cwriter, ping, link, c2s, relayVars>>

\* The local service answers and the task sends what it got: a response, one
\* that is too large, or (a TCP tunnel's reader) data the relay has no use for.
TaskAnswers(r) ==
    /\ r \in tasks /\ cpc \in {"running", "draining"}
    /\ \E kind \in {"response"} \cup (Faults \cap {"huge", "stray"}) : Offer(Frame(kind, r))
    /\ tasks' = tasks \ {r}
    /\ UNCHANGED <<cpc, cur, loopVars, ended, cwriter, ping, netVars, relayVars>>

\* Mutant: the ping task does not look at the token.
PingStops_Never ==
    /\ ping /\ cwriter # "up"
    /\ ping' = FALSE
    /\ UNCHANGED <<cpc, cur, loopVars, ended, cqueue, cwriter, tasks, netVars, relayVars>>

PingStops ==
    /\ ping /\ (shutdown \/ cwriter # "up")
    /\ ping' = FALSE
    /\ UNCHANGED <<cpc, cur, loopVars, ended, cqueue, cwriter, tasks, netVars, relayVars>>

\* Mutant: pings are sent by the main loop, so none is sent once it has ended.
PingTick_InLoop ==
    /\ ping /\ cpc = "running"
    /\ cwriter = "up" /\ Len(cqueue) < QueueCap
    /\ cqueue' = Append(cqueue, Plain("ping"))
    /\ UNCHANGED <<cpc, cur, loopVars, ended, cwriter, ping, tasks, netVars, relayVars>>

PingTick ==
    /\ ping
    /\ cwriter = "up" /\ Len(cqueue) < QueueCap
    /\ cqueue' = Append(cqueue, Plain("ping"))
    /\ UNCHANGED <<cpc, cur, loopVars, ended, cwriter, ping, tasks, netVars, relayVars>>

\* The writer task sends a frame; on a connection that is gone a buffer may
\* swallow it.  A pong is all the relay makes of a ping: pings are not followed.
WriterSends ==
    /\ cwriter = "up" /\ cqueue # <<>> /\ Head(cqueue).kind # "huge"
    /\ cqueue' = Tail(cqueue)
    /\ c2s' = IF LinkGone(cur) \/ Head(cqueue).kind = "ping" THEN c2s
              ELSE [c2s EXCEPT ![cur] = Append(@, Head(cqueue))]
    /\ UNCHANGED <<cpc, cur, loopVars, ended, cwriter, ping, tasks, link, s2c, relayVars>>

\* The frame is too large to be encoded, or the send fails: the writer returns
\* its error and drops the channel.  The main loop does not notice.
WriterFails ==
    /\ cwriter = "up" /\ cqueue # <<>>
    /\ LinkGone(cur) \/ Head(cqueue).kind = "huge"
    /\ cwriter' = "err" /\ cqueue' = <<>>
    /\ UNCHANGED <<cpc, cur, loopVars, ended, ping, tasks, netVars, relayVars>>

\* recv() returns None: nothing is queued and every sender is gone.
WriterEnds ==
    /\ cwriter = "up" /\ cqueue = <<>>
    /\ cpc = "draining" /\ ~ ping /\ tasks = {}
    /\ cwriter' = "ok"
    /\ c2s' = IF link[cur] = "up" THEN [c2s EXCEPT ![cur] = Append(@, Plain("close"))] ELSE c2s
    /\ UNCHANGED <<cpc, cur, loopVars, ended, cqueue, ping, tasks, link, s2c, relayVars>>

\* writer_task.await returns and the session with it.
Join ==
    /\ cpc = "draining" /\ cwriter \in {"ok", "err"}
    /\ IF cwriter = "ok" /\ ended = "shutdown"
       THEN cpc' = "stopped" /\ attempt' = 0 /\ UNCHANGED <<shutdown, delay, losses>>
       ELSE AfterLoss(TRUE)
    /\ Hangup
    /\ UNCHANGED <<cur, sessionVars, s2c, relayVars>>

SleepEnds ==
    /\ cpc = "sleeping"
    /\ cpc' = "loop"
    /\ UNCHANGED <<cur, loopVars, sessionVars, netVars, relayVars>>

StopAsleep ==
    /\ cpc = "sleeping" /\ shutdown
    /\ cpc' = "stopped"
    /\ UNCHANGED <<cur, loopVars, sessionVars, netVars, relayVars>>

-----------------------------------------------------------------------------
(***************************************************************************)
(* The relay: one session per connection                                   *)
(***************************************************************************)
clientVars == <<cpc, cur, loopVars, sessionVars>>

Post(c, f) == squeue' = [squeue EXCEPT ![c] = Append(@, f)]
Become(c, to) == spc' = [spc EXCEPT ![c] = to]
Consume(c) == c2s' = [c2s EXCEPT ![c] = Tail(@)]
Incoming(c, kinds) == c2s[c] # <<>> /\ Head(c2s[c]).kind \in kinds

\* The first Connect, with the name free: from now on requests are forwarded, ...
Register(c) ==
    /\ spc[c] = "waiting" /\ Incoming(c, {"connect"})
    /\ owner = NoConn
    /\ owner' = c
    /\ Consume(c) /\ Become(c, "registered")
    /\ UNCHANGED <<clientVars, link, s2c, squeue, swriter, fresh>>

\* ... and the ack waits for room behind them.
Acknowledge(c) ==
    /\ spc[c] = "registered"
    /\ swriter[c] /\ Len(squeue[c]) < QueueCap
    /\ Become(c, "reading") /\ Post(c, Plain("ack"))
    /\ UNCHANGED <<clientVars, netVars, swriter, owner, fresh>>

\* The listener of a TCP tunnel cannot be bound, or the writer is gone: a `?` returns
\* and the map keeps the entry.
RegisteredFails(c) ==
    /\ spc[c] = "registered"
    /\ "bind" \in Faults \/ ~ swriter[c]
    /\ Become(c, "gone")
    /\ UNCHANGED <<clientVars, netVars, squeue, swriter, owner, fresh>>

\* allocate_subdomain finds the name taken: the `?` returns without an Error.
NameTaken(c) ==
    /\ spc[c] = "waiting" /\ Incoming(c, {"connect"})
    /\ owner # NoConn
    /\ Consume(c) /\ Become(c, "gone")
    /\ UNCHANGED <<clientVars, link, s2c, squeue, swriter, owner, fresh>>

\* Version, key and capacity: an Error is queued and handle_socket returns.
Refuse(c) ==
    /\ "refuse" \in Faults
    /\ spc[c] = "waiting" /\ Incoming(c, {"connect"})
    /\ Consume(c) /\ Become(c, "gone") /\ Post(c, Plain("error"))
    /\ UNCHANGED <<clientVars, link, s2c, swriter, owner, fresh>>

\* A response is for the pending store; anything else of no effect is ignored.
ReadResponse(c) ==
    /\ spc[c] = "reading" /\ Incoming(c, {"response"})
    /\ Consume(c)
    /\ UNCHANGED <<clientVars, link, s2c, relayVars>>

\* Mutant: the writer is awaited before the name is unmapped.
ReadEnd_AwaitsFirst(c) ==
    /\ spc[c] = "reading" /\ Incoming(c, {"disconnect", "close"})
    /\ Consume(c) /\ Become(c, "closing")
    /\ UNCHANGED <<clientVars, link, s2c, squeue, swriter, owner, fresh>>

\* Disconnect or Close: the loop ends, the name is unmapped and the session
\* awaits its writer, whose channel its own handle keeps open.
ReadEnd(c) ==
    /\ spc[c] = "reading" /\ Incoming(c, {"disconnect", "close"})
    /\ owner' = NoConn
    /\ Consume(c) /\ Become(c, "closing")
    /\ UNCHANGED <<clientVars, link, s2c, squeue, swriter, fresh>>

\* wait_for_connect finds no Connect before the connection ends.
NoConnect(c) ==
    /\ spc[c] = "waiting" /\ c2s[c] = <<>> /\ link[c] # "up"
    /\ Become(c, "gone")
    /\ UNCHANGED <<clientVars, netVars, squeue, swriter, owner, fresh>>

\* A `?` or the Err arm: handle_socket returns and the map keeps the entry.
ReadFails(c) ==
    /\ spc[c] = "reading"
    /\ \/ Incoming(c, {"stray"})
       \/ c2s[c] = <<>> /\ link[c] # "up"
    /\ Become(c, "gone")
    /\ c2s' = [c2s EXCEPT ![c] = <<>>]
    /\ UNCHANGED <<clientVars, link, s2c, squeue, swriter, owner, fresh>>

\* Senders of the relay's writer: the session until it returns (its tx, then
\* its handle) and the entry of the map.
RelayWriterSends(c) ==
    /\ swriter[c] /\ squeue[c] # <<>>
    /\ squeue' = [squeue EXCEPT ![c] = Tail(@)]
    /\ \/ link[c] = "up" /\ s2c' = [s2c EXCEPT ![c] = Append(@, Head(squeue[c]))]
          /\ UNCHANGED swriter
       \/ link[c] # "up" /\ swriter' = [swriter EXCEPT ![c] = FALSE] /\ UNCHANGED s2c
       \/ link[c] # "up" /\ UNCHANGED <<swriter, s2c>>
    /\ UNCHANGED <<clientVars, link, c2s, spc, owner, fresh>>

RelayWriterEnds(c) ==
    /\ swriter[c] /\ squeue[c] = <<>>
    /\ spc[c] = "gone" /\ owner # c
    /\ swriter' = [swriter EXCEPT ![c] = FALSE]
    /\ s2c' = IF link[c] = "up" THEN [s2c EXCEPT ![c] = Append(@, Plain("close"))] ELSE s2c
    /\ UNCHANGED <<clientVars, link, c2s, spc, squeue, owner, fresh>>

\* writer.await returns: only a failed send can have ended the writer.
RelayJoin(c) ==
    /\ spc[c] = "closing" /\ ~ swriter[c]
    /\ Become(c, "gone")
    /\ UNCHANGED <<clientVars, netVars, squeue, swriter, owner, fresh>>

\* A proxy handler finds the tunnel in the map and queues its request; on a
\* TCP tunnel, or for a body past the client's limit, what is queued is a
\* frame the client fails on.
Forward(c, r) ==
    /\ owner = c /\ r \in fresh
    /\ fresh' = fresh \ {r}
    /\ \/ ~ swriter[c] /\ UNCHANGED squeue
       \/ /\ swriter[c] /\ Len(squeue[c]) < QueueCap
          /\ \E kind \in {"request"} \cup (Faults \cap {"bad"}) : Post(c, Frame(kind, r))
    /\ UNCHANGED <<clientVars, netVars, spc, swriter, owner>>

\* The network: an established connection breaks and loses what is under way.
Break(c) ==
    /\ link[c] = "up"
    /\ (IF cpc = "handshake" THEN "drop" ELSE "break") \in Faults
    /\ link' = [link EXCEPT ![c] = "broken"]
    /\ c2s' = [c2s EXCEPT ![c] = <<>>] /\ s2c' = [s2c EXCEPT ![c] = <<>>]
    /\ UNCHANGED <<clientVars, relayVars>>

\* A connection that neither end has any part of any more.
Forget(c) ==
    /\ link[c] \in {"closed", "broken"} /\ RelayClosed(c) /\ owner # c
    /\ cur # c \/ cpc \in {"loop", "sleeping"}
    /\ link' = [link EXCEPT ![c] = "free"]
    /\ spc' = [spc EXCEPT ![c] = "none"]
    /\ c2s' = [c2s EXCEPT ![c] = <<>>] /\ s2c' = [s2c EXCEPT ![c] = <<>>]
    /\ squeue' = [squeue EXCEPT ![c] = <<>>]
    /\ cur' = IF cur = c THEN NoConn ELSE cur
    /\ UNCHANGED <<cpc, loopVars, sessionVars, swriter, owner, fresh>>

-----------------------------------------------------------------------------
ClientStep ==
    \/ StopAtTop \/ Acknowledged \/ HandshakeDrops \/ HandshakeFails
    \/ LoopFails \/ SpawnProxyTask \/ Join \/ StopAsleep
PingStep   == PingStops \/ PingTick
WriterStep == WriterSends \/ WriterFails \/ WriterEnds

RelayAnswer(c) == Register(c) \/ NameTaken(c) \/ Refuse(c)
RelayBegin(c)  == Acknowledge(c) \/ RegisteredFails(c)
RelayRead(c)   == NoConnect(c) \/ ReadResponse(c) \/ ReadEnd(c) \/ ReadFails(c) \/ RelayJoin(c)
RelayWriter(c) == RelayWriterSends(c) \/ RelayWriterEnds(c)

Finished == cpc \in Final /\ UNCHANGED vars

Next ==
    \/ Cancel \/ ConnectFails \/ ClientStep \/ ShutdownSeen \/ SleepEnds
    \/ PingStep \/ WriterStep
    \/ \E r \in Requests : TaskAnswers(r)
    \/ \E c \in Conns :
          \/ Connect(c)
          \/ RelayAnswer(c) \/ RelayBegin(c) \/ RelayRead(c) \/ RelayWriter(c)
          \/ \E r \in Requests : Forward(c, r)
          \/ Break(c) \/ Forget(c)
    \/ Finished

Spec == Init /\ [][Next]_vars

(***************************************************************************)
(* Fairness: both runtimes poll their ready tasks, and timers fire.  A     *)
(* select picks among ready branches at random, so a branch that stays     *)
(* ready is taken; sends on a dead connection fail in the end.  Nothing is *)
(* assumed of the local service, the user, the callers of the tunnel and   *)
(* the network, and the answer of the relay to a Connect only where        *)
(* "silent" is not among the faults.                                       *)
(***************************************************************************)
Fairness ==
    /\ WF_vars(ClientStep) /\ WF_vars(ShutdownSeen) /\ WF_vars(SleepEnds)
    /\ WF_vars(PingStops) /\ WF_vars(PingTick)
    /\ WF_vars(WriterStep) /\ SF_vars(WriterFails)
    /\ WF_vars(\E c \in Conns : Connect(c))
    /\ \A c \in Conns : /\ "silent" \notin Faults => WF_vars(RelayAnswer(c))
                        /\ WF_vars(RelayBegin(c)) /\ WF_vars(RelayRead(c))
                        /\ WF_vars(RelayWriter(c)) /\ WF_vars(Forget(c))

FairSpec == Spec /\ Fairness

-----------------------------------------------------------------------------
(***************************************************************************)
(* Properties                                                              *)
(***************************************************************************)

PlainKinds   == {"connect", "ack", "error", "close", "disconnect", "ping"}
RequestKinds == {"request", "response", "bad", "stray", "huge"}
Frames == [kind : PlainKinds] \cup [kind : RequestKinds, req : Requests]

\* The variables keep their types; a client session past its connection attempt
\* has a connection, and neither channel holds more than its capacity.
TypeOK ==
    /\ cpc \in ClientPcs /\ shutdown \in BOOLEAN
    /\ attempt \in 0 .. AttemptMax /\ delay \in 0 .. CapDelay /\ losses \in 0 .. LossCap
    /\ cur \in Conns \cup {NoConn} /\ ended \in {"none", "shutdown", "error"}
    /\ cqueue \in Seq(Frames) /\ Len(cqueue) <= QueueCap
    /\ cwriter \in {"none", "up", "ok", "err"}
    /\ ping \in BOOLEAN /\ tasks \subseteq Requests
    /\ link \in [Conns -> {"free", "up", "closed", "broken"}]
    /\ c2s \in [Conns -> Seq(Frames)] /\ s2c \in [Conns -> Seq(Frames)]
    /\ spc \in [Conns -> RelayPcs]
    /\ squeue \in [Conns -> Seq(Frames)] /\ \A c \in Conns : Len(squeue[c]) <= QueueCap
    /\ swriter \in [Conns -> BOOLEAN]
    /\ owner \in Conns \cup {NoConn} /\ fresh \subseteq Requests
    /\ cpc \in {"handshake", "running", "draining"} => cur \in Conns

\* "starting delay (1s, doubles up to 32s)" (README.md:104): the delay after the
\* n-th loss in a row.
DocumentedDelay[n \in 1 .. LossCap] ==
    IF n = 1 THEN Lesser(BaseDelay, CapDelay) ELSE Lesser(2 * DocumentedDelay[n - 1], CapDelay)

\* The client sleeps what is documented for the losses it had in a row: a
\* session that got as far as running starts the count anew, one that did not
\* (connection or handshake failed) continues it.  With a base below the default
\* of one second the doubling ends earlier, at 32 times the base.
SleepsAsDocumented ==
    cpc = "sleeping" /\ BaseDelay >= 1000 => losses >= 1 /\ delay = DocumentedDelay[losses]

\* The client gives up exactly when reconnect_max_attempts retries in a row have
\* failed: never with 0 (no limit), never earlier, and it does not sleep again
\* after that.
GivesUpAtLimit ==
    /\ cpc = "failed" => MaxAttempts # 0 /\ losses = MaxAttempts + 1
    /\ cpc = "sleeping" /\ MaxAttempts # 0 => losses <= MaxAttempts

\* With a local service that answers, a cancelled token stops the client: the
\* main loop and the backoff look at it, and a session that waits for its writer
\* is released because the ping task gives up its sender.  The one exception is
\* a handshake that the relay leaves unanswered: nothing in the client times it out.
ShutdownObeyed ==
    (\A r \in Requests : []<>(r \notin tasks))
        => \/ shutdown ~> cpc \in Final
           \/ <>[](cpc = "handshake")

\* A client that waits for its writer on a connection that is gone gets out of
\* the wait even if the local service never answers: a ping fails.  After a
\* shutdown the ping task is gone, and only an answer or the user ends the wait.
GoneLinkEndsSession ==
    (cpc = "draining" /\ LinkGone(cur)) ~> (cpc # "draining" \/ shutdown)

\* A client that stopped in order leaves its Disconnect and Close for the relay
\* to read, and the relay frees the name, although its session then waits for a writer
\* that may never end: a later start gets the name again.
GracefulStopFreesName ==
    \A c \in Conns :
        (/\ cpc = "stopped" /\ cwriter = "ok" /\ cur = c /\ link[c] = "closed"
         /\ spc[c] = "reading" /\ \A i \in 1 .. Len(c2s[c]) : c2s[c][i].kind # "stray")
            ~> owner = NoConn

\* "the client will automatically back off and reconnect" (README.md:193)
LostSessionReconnects ==
    (ended = "error") ~> ((cpc = "running" /\ ended = "none") \/ cpc \in Final)
=============================================================================
