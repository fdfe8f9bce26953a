---------------------------- MODULE MultiSession ----------------------------
(***************************************************************************)
(* The client's multi command (expose-client/src/multi.rs): several        *)
(* tunnels over one websocket.  A session sends one Connect after the      *)
(* other, waits for the ack of each, and then routes what arrives to the   *)
(* context of the tunnel it is for.                                        *)
(*                                                                         *)
(* The relay is modelled as far as the client depends on it.  AckEach says *)
(* whether it acknowledges every Connect, which the client relies on, or   *)
(* only the first one of a connection, as expose-server does.  Channel,    *)
(* writer task and websocket are one FIFO per direction.  What a session   *)
(* does with a single tunnel's frames is in HttpRelay and TcpForward.      *)
(***************************************************************************)
EXTENDS Backoff, Sequences, FiniteSets

CONSTANTS
    N,          \* number of configured tunnels
    Tcp,        \* the tunnels among 1 .. N that have protocol "tcp"
    Conns,      \* connections that can exist at the same time
    Items,      \* HTTP requests and TCP connections of callers
    Cap,        \* frames under way from the relay on a connection
    AckEach,    \* whether the relay acknowledges every Connect
    Faults      \* subset of FaultKinds

FaultKinds == {"connect",   \* a connection attempt fails
               "refuse",    \* the relay refuses a Connect
               "break",     \* a connection breaks
               "bad",       \* a frame on which handle_frame fails
               "huge"}      \* a response that the writer task cannot encode

Tunnels  == 1 .. N
NoConn   == "no connection"
NoTunnel == 0

ASSUME MultiConstants ==
    /\ N \in Nat \ {0} /\ Tcp \subseteq Tunnels /\ Cap \in Nat \ {0}
    /\ AckEach \in BOOLEAN /\ Faults \subseteq FaultKinds /\ NoConn \notin Conns

VARIABLES
    mpc,        \* where run_with_token and run_single_session stand
    shutdown,   \* the cancellation token
    attempt,    \* ReconnectBackoff.attempt
    connected,  \* has_connected
    ended,      \* why the main loop ended
    cur,        \* the connection of the session
    next,       \* the tunnel whose handshake is under way
    contexts,   \* MultiTunnelManager: tunnels with a context
    routes,     \* http_requests and tcp_connections: from items to tunnels
    writer,     \* the writer task of each connection: none, up, done or err
    tasks,      \* items of each connection with a task that keeps a sender of the writer
    link,       \* each connection: free, up, closed by the client, or broken
    c2s, s2c,   \* frames under way
    rel,        \* the relay's session: none, fresh, open or gone
    owner,      \* the connection that each tunnel's name belongs to at the relay
    phase,      \* what the relay has sent of each item: new, open, data, done
    form,       \* whether an item is an HTTP request or a TCP connection
    target,     \* the tunnel each item is for
    via,        \* the connection whose session the relay sends the item over
    reached,    \* history: tunnels whose local proxy was given something of an item
    lost        \* history: items whose first frame was read during a handshake

clientVars == <<mpc, shutdown, attempt, connected, ended, cur, next, contexts, routes>>
netVars    == <<writer, tasks, link, c2s, s2c>>
relayVars  == <<rel, owner, phase, form, target, via>>
history    == <<reached, lost>>
vars == <<clientVars, netVars, relayVars, history>>

Final == {"stopped", "failed"}
Shaking == {"connecting", "waiting"}
Plain(kind)          == [kind |-> kind]
ConnectFor(t)        == [kind |-> "connect", tunnel |-> t]
ItemFrame(kind, x)   == [kind |-> kind, item |-> x]

\* request: HttpRequest.  For an item of form "http" or "tcp": open is HttpRequestStart or
\* TcpConnect, data HttpRequestChunk or TcpData, end HttpRequestEnd or TcpClose.
ItemKinds == {"request", "open", "data", "end"}

Init ==
    /\ mpc = "loop" /\ shutdown = FALSE /\ attempt = 0 /\ connected = FALSE
    /\ ended = "none" /\ cur = NoConn /\ next = 1 /\ contexts = {} /\ routes = <<>>
    /\ writer = [c \in Conns |-> "none"] /\ tasks = [c \in Conns |-> {}]
    /\ link = [c \in Conns |-> "free"]
    /\ c2s = [c \in Conns |-> <<>>] /\ s2c = [c \in Conns |-> <<>>]
    /\ rel = [c \in Conns |-> "none"] /\ owner = [t \in Tunnels |-> NoConn]
    /\ phase = [x \in Items |-> "new"] /\ form = [x \in Items |-> "none"]
    /\ target = [x \in Items |-> NoTunnel] /\ via = [x \in Items |-> NoConn]
    /\ reached = [x \in Items |-> {}] /\ lost = {}

-----------------------------------------------------------------------------
(***************************************************************************)
(* run_with_token                                                          *)
(***************************************************************************)
Cancel ==
    /\ ~ shutdown
    /\ shutdown' = TRUE
    /\ UNCHANGED <<mpc, attempt, connected, ended, cur, next, contexts, routes,
                   netVars, relayVars, history>>

\* SessionResult::Reconnect.  The session is left; its connection is not closed
\* as long as the writer task has a sender.
AfterLoss(had) ==
    LET n == IF had THEN 0 ELSE attempt
    IN  /\ connected' = (connected \/ (had /\ ~ shutdown))
        /\ IF shutdown
           THEN mpc' = "stopped" /\ UNCHANGED attempt
           ELSE IF Exhausted(n)
                THEN mpc' = "failed" /\ attempt' = n
                ELSE mpc' = "sleeping" /\ attempt' = Saturating(n)
        /\ cur' = NoConn /\ contexts' = {} /\ routes' = <<>>
        /\ UNCHANGED <<shutdown, ended, next>>

StopAtTop ==
    /\ mpc = "loop" /\ shutdown
    /\ mpc' = "stopped"
    /\ UNCHANGED <<shutdown, attempt, connected, ended, cur, next, contexts, routes,
                   netVars, relayVars, history>>

\* The delay is slept out whatever the token says.
SleepEnds ==
    /\ mpc = "sleeping"
    /\ mpc' = "loop"
    /\ UNCHANGED <<shutdown, attempt, connected, ended, cur, next, contexts, routes,
                   netVars, relayVars, history>>

ConnectFails ==
    /\ "connect" \in Faults
    /\ mpc = "loop" /\ ~ shutdown
    /\ AfterLoss(FALSE)
    /\ UNCHANGED <<netVars, relayVars, history>>

Connect(c) ==
    /\ mpc = "loop" /\ ~ shutdown /\ link[c] = "free"
    /\ mpc' = "connecting" /\ cur' = c /\ next' = 1 /\ contexts' = {} /\ routes' = <<>>
    /\ ended' = "none"
    /\ link' = [link EXCEPT ![c] = "up"] /\ writer' = [writer EXCEPT ![c] = "up"]
    /\ rel' = [rel EXCEPT ![c] = "fresh"]
    /\ UNCHANGED <<shutdown, attempt, connected, tasks, c2s, s2c, owner, phase, form, target, via, history>>

-----------------------------------------------------------------------------
(***************************************************************************)
(* run_single_session: the handshakes                                      *)
(***************************************************************************)
Incoming(kinds) == cur # NoConn /\ s2c[cur] # <<>> /\ Head(s2c[cur]).kind \in kinds
Consumed == s2c' = [s2c EXCEPT ![cur] = Tail(@)]
ReadError == cur # NoConn /\ s2c[cur] = <<>> /\ (link[cur] = "broken" \/ rel[cur] = "gone")

\* What a writer task sends on a connection that is gone is lost.
AfterWrite(c, f) == IF link[c] = "up" THEN [c2s EXCEPT ![c] = Append(@, f)] ELSE c2s
Written(c, f) == c2s' = AfterWrite(c, f)

\* The last half of the socket is dropped, with `sent` written.  Closing a TCP socket
\* with unread input resets the connection, and what was written may be lost.
HangUp(c, sent) ==
    \/ /\ link' = [link EXCEPT ![c] = IF @ = "up" THEN "closed" ELSE @]
       /\ c2s' = sent
    \/ /\ link[c] = "up" /\ s2c[c] # <<>>
       /\ link' = [link EXCEPT ![c] = "broken"]
       /\ c2s' = [c2s EXCEPT ![c] = <<>>]

\* The session is left, and its half of the socket dropped.
DropReader == IF writer[cur] = "up" THEN UNCHANGED <<link, c2s>> ELSE HangUp(cur, c2s)

\* send_connect; it fails when the writer task is gone.
SendConnect ==
    /\ mpc = "connecting"
    /\ \/ /\ writer[cur] = "up" /\ Written(cur, ConnectFor(next))
          /\ mpc' = "waiting"
          /\ UNCHANGED <<shutdown, attempt, connected, ended, cur, next, contexts, routes, link>>
       \/ writer[cur] # "up" /\ AfterLoss(connected) /\ DropReader
    /\ UNCHANGED <<writer, tasks, s2c, relayVars, history>>

RegisterContext == contexts' = contexts \cup {next}

\* Mutant: the session runs as soon as one tunnel is acknowledged.
Acked_One ==
    /\ mpc = "waiting" /\ Incoming({"ack"}) /\ Consumed
    /\ RegisterContext /\ mpc' = "running"
    /\ UNCHANGED <<shutdown, attempt, connected, ended, cur, next, routes, writer, tasks, link, c2s,
                   relayVars, history>>

\* wait_for_connect_ack and register_context, for the tunnel whose turn it is.
Acked ==
    /\ mpc = "waiting" /\ Incoming({"ack"}) /\ Consumed
    /\ RegisterContext
    /\ IF next = N THEN mpc' = "running" /\ UNCHANGED next
       ELSE mpc' = "connecting" /\ next' = next + 1
    /\ UNCHANGED <<shutdown, attempt, connected, ended, cur, routes, writer, tasks, link, c2s,
                   relayVars, history>>

\* wait_for_connect_ack reads anything else and drops it.
Dropped ==
    /\ mpc = "waiting" /\ Incoming(ItemKinds) /\ Consumed
    /\ lost' = IF Head(s2c[cur]).kind \in {"request", "open"}
               THEN lost \cup {Head(s2c[cur]).item} ELSE lost
    /\ UNCHANGED <<clientVars, writer, tasks, link, c2s, relayVars, reached>>

\* An Error, a Close or a failed read: the session returns as if it had been
\* connected when an earlier one was.
HandshakeFails ==
    /\ mpc = "waiting"
    /\ Incoming({"error", "close", "bad"}) \/ ReadError
    /\ AfterLoss(connected) /\ DropReader
    /\ UNCHANGED <<writer, tasks, s2c, relayVars, history>>

-----------------------------------------------------------------------------
(***************************************************************************)
(* MultiTunnelManager::handle_frame                                        *)
(***************************************************************************)
Routed == mpc = "running" /\ cur # NoConn
routingRest == <<shutdown, attempt, connected, ended, cur, next, contexts, writer, link, c2s,
                 relayVars, lost>>

\* Mutant: every HTTP request goes to the first HTTP context.
HttpContexts_Any(t) == contexts \ Tcp

\* http_context_by_headers for a request whose Host names tunnel t.
HttpContexts(t) == IF t \in contexts THEN {t} ELSE contexts \ Tcp

\* pick_tcp_context: any, as a TcpConnect does not say which tunnel it is for.
TcpContexts == contexts \cap Tcp

Reach(x, t) == reached' = [reached EXCEPT ![x] = @ \cup {t}]
Track(x, t) == routes' = [y \in DOMAIN routes \cup {x} |-> IF y = x THEN t ELSE routes[y]]
Clear(x)    == routes' = [y \in DOMAIN routes \ {x} |-> routes[y]]

\* A task for x is spawned with a sender of the session's writer.
Spawn(x) == tasks' = [tasks EXCEPT ![cur] = @ \cup {x}]

\* http_context_for_request or tcp_context: the context that was remembered, if any.
AlongRoute(x) == IF x \in DOMAIN routes THEN Reach(x, routes[x]) ELSE UNCHANGED reached

\* HttpRequest: a task hands it to the context's proxy, if that is an HTTP proxy.
HandleRequest ==
    /\ Routed /\ Incoming({"request"}) /\ Consumed
    /\ LET x == Head(s2c[cur]).item
       IN  \/ \E t \in HttpContexts(target[x]) :
                 IF t \in Tcp THEN UNCHANGED <<reached, tasks>> ELSE Reach(x, t) /\ Spawn(x)
           \/ HttpContexts(target[x]) = {} /\ UNCHANGED <<reached, tasks>>
    /\ UNCHANGED <<mpc, routes, routingRest>>

\* HttpRequestStart: the context is chosen by the Host header, and remembered if it
\* has an HTTP proxy.
HandleStart ==
    /\ Routed /\ Incoming({"open"}) /\ Consumed
    /\ LET x == Head(s2c[cur]).item
       IN  /\ form[x] = "http"
           /\ \/ \E t \in HttpContexts(target[x]) :
                    IF t \in Tcp THEN UNCHANGED <<routes, reached>> ELSE Track(x, t) /\ Reach(x, t)
              \/ HttpContexts(target[x]) = {} /\ UNCHANGED <<routes, reached>>
    /\ UNCHANGED <<mpc, tasks, routingRest>>

\* TcpConnect: a context is picked and remembered; a task connects, and reads until
\* the local service closes.
HandleOpen ==
    /\ Routed /\ Incoming({"open"}) /\ Consumed
    /\ LET x == Head(s2c[cur]).item
       IN  /\ form[x] = "tcp"
           /\ \/ \E t \in TcpContexts : Track(x, t) /\ Reach(x, t) /\ Spawn(x)
              \/ TcpContexts = {} /\ UNCHANGED <<routes, reached, tasks>>
    /\ UNCHANGED <<mpc, routingRest>>

\* Mutant: the route is cleared with the first chunk.
HandleData_Clears ==
    /\ Routed /\ Incoming({"data"}) /\ Consumed
    /\ LET x == Head(s2c[cur]).item
       IN  AlongRoute(x) /\ Clear(x)
    /\ UNCHANGED <<mpc, tasks, routingRest>>

\* HttpRequestChunk or TcpData, for the context of the first frame.  The loop waits
\* while the local service does not take the data of a TCP connection.
HandleData ==
    /\ Routed /\ Incoming({"data"}) /\ Consumed
    /\ LET x == Head(s2c[cur]).item
       IN  /\ AlongRoute(x)
           /\ mpc' = IF form[x] = "tcp" /\ x \in DOMAIN routes THEN "writing" ELSE mpc
    /\ UNCHANGED <<routes, tasks, routingRest>>

DataWritten ==
    /\ mpc = "writing"
    /\ mpc' = "running"
    /\ UNCHANGED <<shutdown, attempt, connected, ended, cur, next, contexts, routes,
                   netVars, relayVars, history>>

\* Mutant: the route of a finished request is kept.
HandleEnd_Keeps ==
    /\ Routed /\ Incoming({"end"}) /\ Consumed
    /\ LET x == Head(s2c[cur]).item
       IN  AlongRoute(x)
    /\ UNCHANGED <<mpc, routes, tasks, routingRest>>

\* HttpRequestEnd or TcpClose: the last of it, and the route is cleared.  The buffered
\* request is given to a task; the reader of a TCP connection is aborted, unless its
\* task has yet to connect.
HandleEnd ==
    /\ Routed /\ Incoming({"end"}) /\ Consumed
    /\ LET x == Head(s2c[cur]).item
       IN  /\ AlongRoute(x) /\ Clear(x)
           /\ \/ x \in DOMAIN routes /\ form[x] = "http" /\ Spawn(x)
              \/ x \in DOMAIN routes /\ form[x] = "tcp"
                 /\ tasks' = [tasks EXCEPT ![cur] = @ \ {x}]
              \/ (x \in DOMAIN routes => form[x] = "tcp") /\ UNCHANGED tasks
    /\ UNCHANGED <<mpc, routingRest>>

-----------------------------------------------------------------------------
(***************************************************************************)
(* run_single_session: its end                                             *)
(***************************************************************************)
Leave(why) ==
    /\ mpc' = "draining" /\ ended' = why
    /\ UNCHANGED <<shutdown, attempt, connected, cur, next, contexts, routes, writer, tasks,
                   link, relayVars, history>>

ShutdownSeen ==
    /\ Routed /\ shutdown
    /\ IF writer[cur] = "up" THEN Written(cur, Plain("disconnect")) ELSE UNCHANGED c2s
    /\ Leave("shutdown") /\ UNCHANGED s2c

\* A Close, an Error or a failed read; a frame that handle_frame fails on, such as a
\* chunk over the limit or data of a connection that is not there yet.
LoopFails ==
    /\ Routed
    /\ \/ Incoming({"close", "error", "bad"}) /\ Consumed
       \/ /\ "bad" \in Faults /\ Incoming({"data"}) /\ Consumed
          /\ Head(s2c[cur]).item \in DOMAIN routes
       \/ ReadError /\ UNCHANGED s2c
    /\ Leave("error") /\ UNCHANGED c2s

\* The local service resets the connection it is written to.
WriteFails ==
    /\ "bad" \in Faults /\ mpc = "writing"
    /\ Leave("error") /\ UNCHANGED <<s2c, c2s>>

\* Mutant: the ping task does not look at the token.
PingOver_Never == FALSE

\* The ping task, which keeps a sender of every writer, ends with the token.
PingOver == shutdown

\* The writer task of c is over; the socket goes with it if the session is left.
WriterOver(c, how, sent) ==
    /\ writer' = [writer EXCEPT ![c] = how]
    /\ IF c = cur THEN c2s' = sent /\ UNCHANGED link ELSE HangUp(c, sent)

\* The writer task of a session that is left ends when the last sender is dropped:
\* neither the ping task nor a task of an item has one.  It sends a Close.
WriterEnds(c) ==
    /\ writer[c] = "up" /\ PingOver /\ tasks[c] = {}
    /\ c # cur \/ mpc = "draining"
    /\ WriterOver(c, "done", AfterWrite(c, Plain("close")))
    /\ UNCHANGED <<clientVars, tasks, s2c, relayVars, history>>

\* A ping or another frame cannot be sent.
WriterFails(c) ==
    /\ writer[c] = "up" /\ (link[c] = "broken" \/ rel[c] = "gone")
    /\ WriterOver(c, "done", c2s)
    /\ UNCHANGED <<clientVars, tasks, s2c, relayVars, history>>

\* A task of an item is over: the local service has answered or closed.  Its answer may
\* be too large to encode, which ends the writer task with an error and without a Close;
\* what the relay does with other answers is left out.
TaskEnds(c, x) ==
    /\ x \in tasks[c]
    /\ tasks' = [tasks EXCEPT ![c] = @ \ {x}]
    /\ \/ UNCHANGED <<writer, link, c2s>>
       \/ "huge" \in Faults /\ writer[c] = "up" /\ WriterOver(c, "err", c2s)
    /\ UNCHANGED <<clientVars, s2c, relayVars, history>>

\* writer_task.await: its error counts more than the reason for which the loop ended.
Join ==
    /\ mpc = "draining" /\ writer[cur] # "up"
    /\ IF ended = "shutdown" /\ writer[cur] = "done"
       THEN /\ mpc' = "stopped" /\ attempt' = 0 /\ cur' = NoConn
            /\ contexts' = {} /\ routes' = <<>>
            /\ UNCHANGED <<shutdown, connected, ended, next>>
       ELSE AfterLoss(TRUE)
    /\ HangUp(cur, c2s)
    /\ UNCHANGED <<writer, tasks, s2c, relayVars, history>>

\* main returns, and the runtime drops the tasks that are left: the sockets they hold
\* are shut without a Close.
Exit(c) ==
    /\ mpc \in Final /\ writer[c] = "up"
    /\ WriterOver(c, "done", c2s)
    /\ tasks' = [tasks EXCEPT ![c] = {}]
    /\ UNCHANGED <<clientVars, s2c, relayVars, history>>

-----------------------------------------------------------------------------
(***************************************************************************)
(* The relay                                                               *)
(***************************************************************************)
\* What the relay sends on a connection that is gone is lost.
ToClient(c, f) == s2c' = IF link[c] = "up" THEN [s2c EXCEPT ![c] = Append(@, f)] ELSE s2c
Received(c) == c2s' = [c2s EXCEPT ![c] = Tail(@)]
Reads(c, kinds) == c2s[c] # <<>> /\ Head(c2s[c]).kind \in kinds
Freed(c) == owner' = [t \in Tunnels |-> IF owner[t] = c THEN NoConn ELSE owner[t]]

\* A Connect for a name that is free: from now on what callers send is forwarded, ...
RelayRegisters(c) ==
    /\ rel[c] = "fresh" \/ (rel[c] = "open" /\ AckEach)
    /\ Reads(c, {"connect"})
    /\ LET t == Head(c2s[c]).tunnel
       IN  owner[t] = NoConn /\ owner' = [owner EXCEPT ![t] = c]
    /\ rel' = [rel EXCEPT ![c] = "open"]
    /\ UNCHANGED <<clientVars, netVars, phase, form, target, via, history>>

\* ... and the ack comes behind it.  The read loop of expose-server ignores every Connect
\* but the first.
RelayAcks(c) ==
    /\ rel[c] = "open" /\ Reads(c, {"connect"}) /\ Received(c)
    /\ IF owner[Head(c2s[c]).tunnel] = c THEN ToClient(c, Plain("ack")) ELSE ~ AckEach /\ UNCHANGED s2c
    /\ UNCHANGED <<clientVars, writer, tasks, link, relayVars, history>>

\* The name is taken, or another check fails.  A first Connect ends the session.
RelayRefuses(c) ==
    /\ rel[c] \in {"fresh", "open"} /\ Reads(c, {"connect"})
    /\ rel[c] = "fresh" \/ AckEach
    /\ owner[Head(c2s[c]).tunnel] # c
    /\ owner[Head(c2s[c]).tunnel] # NoConn \/ "refuse" \in Faults
    /\ Received(c)
    /\ IF rel[c] = "fresh"
       THEN rel' = [rel EXCEPT ![c] = "gone"] /\ ToClient(c, Plain("close"))
       ELSE UNCHANGED rel /\ ToClient(c, Plain("error"))
    /\ UNCHANGED <<clientVars, writer, tasks, link, owner, phase, form, target, via, history>>

\* The session is over, and what was being sent over it is given up.
Over(c) ==
    /\ rel' = [rel EXCEPT ![c] = "gone"]
    /\ c2s' = [c2s EXCEPT ![c] = <<>>]
    /\ phase' = [x \in Items |-> IF via[x] = c /\ phase[x] \in {"open", "data"}
                                 THEN "left" ELSE phase[x]]

\* A Disconnect or a Close: the session frees its names.
RelayEnds(c) ==
    /\ rel[c] \in {"fresh", "open"} /\ Reads(c, {"disconnect", "close"})
    /\ Over(c) /\ Freed(c)
    /\ UNCHANGED <<clientVars, writer, tasks, link, s2c, form, target, via, history>>

\* The connection is gone: the session returns and the map keeps its names.
RelayAborts(c) ==
    /\ rel[c] \in {"fresh", "open"} /\ c2s[c] = <<>> /\ link[c] # "up"
    /\ Over(c)
    /\ UNCHANGED <<clientVars, writer, tasks, link, s2c, owner, form, target, via, history>>

\* A caller's request or connection for a tunnel, in one frame or several.  The relay
\* finds an HTTP request's tunnel by its name alone, and TCP tunnels have names too.
Forward(c, x) ==
    /\ rel[c] = "open" /\ Len(s2c[c]) < Cap
    /\ \/ /\ phase[x] = "new"
          /\ \E t \in Tunnels, f \in {"http", "tcp"},
                kind \in {"request", "open"} \cup (Faults \cap {"bad"}) :
                /\ owner[t] = c /\ (f = "tcp" => t \in Tcp /\ kind = "open")
                /\ form' = [form EXCEPT ![x] = f]
                /\ target' = [target EXCEPT ![x] = t] /\ via' = [via EXCEPT ![x] = c]
                /\ phase' = [phase EXCEPT ![x] = IF kind = "open" THEN "open" ELSE "done"]
                /\ ToClient(c, ItemFrame(kind, x))
       \/ /\ phase[x] \in {"open", "data"} /\ via[x] = c
          /\ \/ phase[x] = "open" /\ phase' = [phase EXCEPT ![x] = "data"]
                /\ ToClient(c, ItemFrame("data", x))
             \/ phase' = [phase EXCEPT ![x] = "done"] /\ ToClient(c, ItemFrame("end", x))
          /\ UNCHANGED <<form, target, via>>
    /\ UNCHANGED <<clientVars, writer, tasks, link, c2s, rel, owner, history>>

\* A stream that is given up half way is not ended.
GiveUp(x) ==
    /\ phase[x] \in {"open", "data"}
    /\ phase' = [phase EXCEPT ![x] = "left"]
    /\ UNCHANGED <<clientVars, netVars, rel, owner, form, target, via, history>>

Break(c) ==
    /\ "break" \in Faults /\ link[c] = "up"
    /\ link' = [link EXCEPT ![c] = "broken"]
    /\ c2s' = [c2s EXCEPT ![c] = <<>>] /\ s2c' = [s2c EXCEPT ![c] = <<>>]
    /\ UNCHANGED <<clientVars, writer, tasks, relayVars, history>>

\* A connection that neither end has any part of any more.
Forget(c) ==
    /\ link[c] \in {"closed", "broken"} /\ writer[c] \in {"done", "err"} /\ rel[c] = "gone"
    /\ c # cur /\ tasks[c] = {}
    /\ \A t \in Tunnels : owner[t] # c
    /\ link' = [link EXCEPT ![c] = "free"] /\ writer' = [writer EXCEPT ![c] = "none"]
    /\ rel' = [rel EXCEPT ![c] = "none"]
    /\ c2s' = [c2s EXCEPT ![c] = <<>>] /\ s2c' = [s2c EXCEPT ![c] = <<>>]
    /\ UNCHANGED <<clientVars, tasks, owner, phase, form, target, via, history>>

-----------------------------------------------------------------------------
Session == \/ StopAtTop \/ SendConnect \/ Acked \/ Dropped \/ HandshakeFails
           \/ HandleRequest \/ HandleStart \/ HandleOpen \/ HandleData \/ HandleEnd
           \/ LoopFails \/ Join
RelayConnect(c) == RelayRegisters(c) \/ RelayAcks(c)
Relay(c)  == RelayConnect(c) \/ RelayRefuses(c) \/ RelayEnds(c) \/ RelayAborts(c)

Finished == mpc \in Final /\ UNCHANGED vars

Next ==
    \/ Cancel \/ ConnectFails \/ SleepEnds \/ Session \/ ShutdownSeen
    \/ DataWritten \/ WriteFails
    \/ \E c \in Conns :
          \/ Connect(c) \/ WriterEnds(c) \/ WriterFails(c) \/ Exit(c)
          \/ Relay(c) \/ Break(c) \/ Forget(c)
          \/ \E x \in Items : Forward(c, x) \/ TaskEnds(c, x)
    \/ \E x \in Items : GiveUp(x)
    \/ Finished

Spec == Init /\ [][Next]_vars

\* Ready tasks run and timers fire, on both sides; nothing is assumed of the user, the
\* callers, the local services and the network.  A ping finds a dead connection, until
\* the token ends the ping task.
FairSpec ==
    /\ Spec
    /\ WF_vars(Session) /\ WF_vars(ShutdownSeen) /\ WF_vars(SleepEnds)
    /\ WF_vars(\E c \in Conns : Connect(c))
    /\ \A c \in Conns : /\ WF_vars(WriterEnds(c)) /\ WF_vars(WriterFails(c) /\ ~ shutdown)
                        /\ WF_vars(Exit(c)) /\ WF_vars(Relay(c)) /\ WF_vars(Forget(c))

-----------------------------------------------------------------------------
(***************************************************************************)
(* Properties                                                              *)
(***************************************************************************)

\* The variables keep their types; a session that is past its handshakes has a
\* context for every tunnel, and one that is left has none.
TypeOK ==
    /\ mpc \in {"loop", "draining", "sleeping", "running", "writing"} \cup Shaking \cup Final
    /\ shutdown \in BOOLEAN /\ connected \in BOOLEAN /\ attempt \in 0 .. AttemptMax
    /\ ended \in {"none", "shutdown", "error"}
    /\ cur \in Conns \cup {NoConn} /\ next \in Tunnels /\ contexts \subseteq Tunnels
    /\ DOMAIN routes \subseteq Items /\ \A x \in DOMAIN routes : routes[x] \in Tunnels
    /\ writer \in [Conns -> {"none", "up", "done", "err"}] /\ tasks \in [Conns -> SUBSET Items]
    /\ link \in [Conns -> {"free", "up", "closed", "broken"}]
    /\ rel \in [Conns -> {"none", "fresh", "open", "gone"}]
    /\ owner \in [Tunnels -> Conns \cup {NoConn}]
    /\ form \in [Items -> {"none", "http", "tcp"}]
    /\ target \in [Items -> Tunnels \cup {NoTunnel}] /\ via \in [Items -> Conns \cup {NoConn}]
    /\ reached \in [Items -> SUBSET Tunnels] /\ lost \subseteq Items
    /\ contexts = CASE mpc \in Shaking -> 1 .. next - 1
                    [] mpc \in {"running", "writing", "draining"} -> Tunnels
                    [] OTHER -> {}

\* The local services an item may reach: that of its tunnel, and none for an HTTP
\* request that names a TCP tunnel.
Homes(x) == IF form[x] = "tcp" THEN {target[x]} ELSE {target[x]} \ Tcp

\* What callers send to a tunnel reaches only that tunnel's local service: an HTTP
\* request always, a TCP connection if there is one TCP tunnel.
RoutedHome ==
    \A x \in Items : form[x] = "http" \/ Cardinality(Tcp) = 1 => reached[x] \subseteq Homes(x)

\* A streamed HTTP request that names a TCP tunnel: no context is remembered for it.
Untracked(x) == form[x] = "http" /\ target[x] \in Tcp

\* In the main loop, a chunk or an end finds the route of its first frame, unless that
\* frame came while the session was still waiting for the ack of another tunnel and
\* was dropped, or the item is an HTTP request for the name of a TCP tunnel.
RouteFound ==
    Routed /\ Incoming({"data", "end"}) =>
        LET x == Head(s2c[cur]).item IN x \in DOMAIN routes \/ x \in lost \/ Untracked(x)

\* A route that is kept is in use: the relay is still at the item, or its end is on
\* the way; or the relay gave up or the tunnel was taken from it, and the route
\* stays until the session ends.
RoutesAccounted ==
    Routed =>
        \A x \in DOMAIN routes :
            \/ phase[x] \in {"open", "data", "left"}
            \/ \E i \in 1 .. Len(s2c[cur]) : s2c[cur][i] = ItemFrame("end", x)
            \/ ReadError

\* The local services answer or close, and take the data they are sent.
LetGo ==
    /\ \A c \in Conns, x \in Items : []<>(x \notin tasks[c])
    /\ []<>(mpc # "writing")

InLoop(c) == cur = c /\ mpc \in {"running", "writing", "draining"}

\* If the local services let go of it (a silent one, or an open TCP connection, keeps
\* writer_task.await waiting for ever), a cancelled token stops the client, after the
\* delay it may be sleeping, and shuts all its connections, those of failed handshakes
\* included.  The session that is past its handshakes gives its names back, unless its
\* connection broke or was reset, or its writer failed on a response it could not encode.
ShutdownReleases ==
    LetGo =>
        /\ shutdown ~> (mpc \in Final /\ \A c \in Conns : link[c] # "up")
        /\ \A c \in Conns :
              shutdown /\ InLoop(c) /\ writer[c] = "up" ~>
                  \/ \A t \in Tunnels : owner[t] # c
                  \/ link[c] = "broken" \/ writer[c] = "err"

\* "Then run `expose-client multi --config tunnels.toml` to establish all tunnels in
\* one session." (README.md:153)
AllTunnelsEstablished == <>(shutdown \/ (mpc = "running" /\ contexts = Tunnels))
=============================================================================
