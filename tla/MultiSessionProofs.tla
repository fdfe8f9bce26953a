------------------------- MODULE MultiSessionProofs -------------------------
(***************************************************************************)
(* Proofs about MultiSession, for any number of tunnels, connections and   *)
(* items, any capacity and any faults, and for both kinds of relay.        *)
(***************************************************************************)
EXTENDS MultiSession, FrameQueues, FiniteSetTheorems

-----------------------------------------------------------------------------
(***************************************************************************)
(* The inductive invariant                                                 *)
(***************************************************************************)
AllKinds    == ItemKinds \cup {"bad"}
Later       == {"data", "end"}
Of(kinds, x) == {ItemFrame(k, x) : k \in kinds}
Frames == {Plain(k) : k \in {"ack", "close", "error"}} \cup {ItemFrame(k, x) : k \in AllKinds, x \in Items}

Modes     == {"loop", "draining", "sleeping", "running", "writing"} \cup Shaking \cup Final
Routing   == {"running", "writing", "draining"}
InSession == Shaking \cup Routing
Phases    == {"new", "open", "data", "done", "left"}
Underway  == {"open", "data"}

ClientTypes ==
    /\ mpc \in Modes /\ shutdown \in BOOLEAN /\ connected \in BOOLEAN
    /\ attempt \in 0 .. AttemptMax /\ ended \in {"none", "shutdown", "error"}
    /\ cur \in Conns \cup {NoConn} /\ next \in Tunnels /\ contexts \subseteq Tunnels

RouteTypes == DOMAIN routes \subseteq Items /\ \A x \in DOMAIN routes : routes[x] \in Tunnels

ContextsOK ==
    /\ mpc \in Shaking => contexts = 1 .. next - 1
    /\ mpc \in Routing => contexts = Tunnels
    /\ mpc \notin InSession => contexts = {}

\* A session has a connection, and a route is made in the main loop only.
SessionOK ==
    /\ mpc \in InSession <=> cur # NoConn
    /\ mpc \notin Routing => DOMAIN routes = {}

NetTypes ==
    /\ writer \in [Conns -> {"none", "up", "done", "err"}] /\ tasks \in [Conns -> SUBSET Items]
    /\ link \in [Conns -> {"free", "up", "closed", "broken"}]
    /\ s2c \in [Conns -> Seq(Frames)]

RelayTypes ==
    /\ rel \in [Conns -> {"none", "fresh", "open", "gone"}]
    /\ owner \in [Tunnels -> Conns \cup {NoConn}]
    /\ phase \in [Items -> Phases] /\ form \in [Items -> {"none", "http", "tcp"}]
    /\ target \in [Items -> Tunnels \cup {NoTunnel}] /\ via \in [Items -> Conns \cup {NoConn}]

HistoryTypes == reached \in [Items -> SUBSET Tunnels] /\ lost \subseteq Items

\* A connection that is free is clean, and that of the session is up or empty.
LinkOK(c) ==
    /\ link[c] = "free" => rel[c] = "none" /\ s2c[c] = <<>>
    /\ cur = c => link[c] = "up" \/ (link[c] = "broken" /\ s2c[c] = <<>>)

Typed ==
    /\ ClientTypes /\ RouteTypes /\ ContextsOK /\ SessionOK
    /\ NetTypes /\ RelayTypes /\ HistoryTypes /\ \A c \in Conns : LinkOK(c)

Home(x)  == form[x] = "http" \/ Cardinality(Tcp) = 1
Known(x) == x \in DOMAIN routes \/ x \in lost \/ Untracked(x)

\* An item's frames are on one connection, and it goes to one tunnel.
Sent(x) ==
    /\ phase[x] = "new" => /\ reached[x] = {} /\ x \notin DOMAIN routes
                           /\ \A c \in Conns : ~ Has(s2c[c], Of(AllKinds, x))
    /\ \A c \in Conns : Has(s2c[c], Of(AllKinds, x)) => via[x] = c
    /\ x \in DOMAIN routes => via[x] = cur
    /\ phase[x] # "new" => target[x] \in Tunnels /\ (form[x] = "tcp" => target[x] \in Tcp)
    /\ phase[x] \in Underway => via[x] \in Conns /\ rel[via[x]] = "open"
    /\ Home(x) => reached[x] \subseteq Homes(x) /\ (x \in DOMAIN routes => routes[x] \in Homes(x))

\* In which order an item's frames come, and what they say of relay and client.
Queued(q, x) ==
    /\ ~ Before(q, Of(Later, x), Of({"open"}, x))
    /\ ~ Before(q, Of({"end"}, x), Of(Later, x))
    /\ Has(q, Of({"end"}, x)) => phase[x] = "done"
    /\ Has(q, Of(Later, x)) => Has(q, Of({"open"}, x)) \/ Known(x)
    /\ via[x] = cur /\ phase[x] \in Underway => Has(q, Of({"open"}, x)) \/ Known(x)
    /\ Has(q, Of({"open"}, x)) \/ x \in DOMAIN routes =>
          phase[x] \in Underway \cup {"left"} \/ Has(q, Of({"end"}, x))

Order(x) == cur # NoConn /\ link[cur] = "up" => Queued(s2c[cur], x)

ItemInv == \A x \in Items : Sent(x) /\ Order(x)

-----------------------------------------------------------------------------
(***************************************************************************)
(* Frames                                                                  *)
(***************************************************************************)
LEMMA FrameForms ==
    /\ \A f \in Frames : f.kind \in AllKinds => f.item \in Items /\ f = ItemFrame(f.kind, f.item)
    /\ \A x : \A kinds : \A f \in Of(kinds, x) : f.kind \in kinds /\ f.item = x
    /\ \A x : \A kinds : \A k \in kinds : ItemFrame(k, x) \in Of(kinds, x)
    /\ \A k \in {"ack", "close", "error"} : Plain(k) \in Frames /\ Plain(k).kind = k
    /\ \A k \in AllKinds : \A x \in Items : ItemFrame(k, x) \in Frames
    /\ {"open", "data", "end", "request", "bad"} = AllKinds
  <1>1. \A f \in Frames : f.kind \in AllKinds => f.item \in Items /\ f = ItemFrame(f.kind, f.item)
    <2> SUFFICES ASSUME NEW f \in Frames, f.kind \in AllKinds
                 PROVE  f.item \in Items /\ f = ItemFrame(f.kind, f.item)
      OBVIOUS
    <2>1. CASE \E k \in {"ack", "close", "error"} : f = Plain(k)
      BY <2>1 DEF Plain, AllKinds, ItemKinds
    <2>2. CASE \E k \in AllKinds, x \in Items : f = ItemFrame(k, x)
      BY <2>2 DEF ItemFrame
    <2> QED BY <2>1, <2>2 DEF Frames
  <1>2. ASSUME NEW x, NEW kinds, NEW f \in Of(kinds, x) PROVE f.kind \in kinds /\ f.item = x
    BY DEF Of, ItemFrame
  <1>3. ASSUME NEW x, NEW kinds, NEW k \in kinds PROVE ItemFrame(k, x) \in Of(kinds, x)
    BY DEF Of
  <1>4. \A k \in {"ack", "close", "error"} : Plain(k) \in Frames /\ Plain(k).kind = k
    BY DEF Frames, Plain
  <1>5. \A k \in AllKinds : \A x \in Items : ItemFrame(k, x) \in Frames
    BY DEF Frames
  <1>6. {"open", "data", "end", "request", "bad"} = AllKinds
    BY DEF AllKinds, ItemKinds
  <1> QED BY <1>1, <1>2, <1>3, <1>4, <1>5, <1>6

LEMMA TypesAreTypes == Typed => TypeOK
  <1>1. ASSUME ClientTypes, ContextsOK
        PROVE  contexts = CASE mpc \in Shaking -> 1 .. next - 1
                            [] mpc \in {"running", "writing", "draining"} -> Tunnels
                            [] OTHER -> {}
    BY <1>1 DEF ContextsOK, InSession, Routing, Shaking
  <1> QED BY <1>1 DEF Typed, TypeOK, ClientTypes, RouteTypes, NetTypes, RelayTypes, HistoryTypes, Modes

-----------------------------------------------------------------------------
(***************************************************************************)
(* The types                                                               *)
(***************************************************************************)
Links == \A c \in Conns : LinkOK(c)
Clients == ClientTypes /\ RouteTypes /\ ContextsOK /\ SessionOK

\* What a step does not touch keeps its type.
LEMMA Untouched ==
    ASSUME Typed
    PROVE  /\ UNCHANGED clientVars => Clients'
           /\ UNCHANGED relayVars => RelayTypes'
           /\ UNCHANGED history => HistoryTypes'
           /\ UNCHANGED <<writer, tasks, link, s2c>> => NetTypes'
           /\ UNCHANGED <<cur, link, s2c, rel>> => Links'
           /\ UNCHANGED <<link, s2c, rel>> /\ cur' = NoConn => Links'
  <1>1. UNCHANGED clientVars => Clients'
    BY DEF Typed, clientVars, Clients, ClientTypes, RouteTypes, ContextsOK, SessionOK
  <1>2. UNCHANGED relayVars => RelayTypes'
    BY DEF Typed, relayVars, RelayTypes
  <1>3. UNCHANGED history => HistoryTypes'
    BY DEF Typed, history, HistoryTypes
  <1>4. UNCHANGED <<writer, tasks, link, s2c>> => NetTypes'
    BY DEF Typed, NetTypes
  <1>5. UNCHANGED <<cur, link, s2c, rel>> => Links'
    BY DEF Typed, Links, LinkOK
  <1>6. UNCHANGED <<link, s2c, rel>> /\ cur' = NoConn => Links'
    BY MultiConstants DEF Typed, Links, LinkOK
  <1> QED BY <1>1, <1>2, <1>3, <1>4, <1>5, <1>6

LEMMA Assembled ==
    ASSUME Clients', NetTypes', RelayTypes', HistoryTypes', Links'
    PROVE  Typed'
  BY DEF Clients, Links, Typed

\* The session is left.
LEMMA LossTypes ==
    ASSUME Typed, NEW had \in BOOLEAN, AfterLoss(had)
    PROVE  Clients' /\ cur' = NoConn /\ DOMAIN routes' = {}
  <1>1. /\ cur' = NoConn /\ contexts' = {} /\ routes' = <<>> /\ UNCHANGED <<shutdown, ended, next>>
        /\ connected' = (connected \/ (had /\ ~ shutdown))
        /\ mpc' \in {"stopped", "failed", "sleeping"}
    BY DEF AfterLoss
  <1>2. attempt' \in 0 .. AttemptMax
    BY BackoffConstants DEF AfterLoss, Saturating, Typed, ClientTypes
  <1>3. DOMAIN routes' = {}
    BY <1>1
  <1>4. ClientTypes'
    BY <1>1, <1>2 DEF Typed, ClientTypes, Modes, Final
  <1>5. RouteTypes' /\ ContextsOK' /\ SessionOK'
    BY <1>1, <1>3 DEF RouteTypes, ContextsOK, SessionOK, InSession, Shaking, Routing
  <1> QED BY <1>1, <1>3, <1>4, <1>5 DEF Clients

\* A frame is taken from the connection of the session, ...
LEMMA TakenTypes ==
    ASSUME Typed, NEW kinds, Incoming(kinds), Consumed, UNCHANGED <<writer, link>>
    PROVE  /\ (tasks' \in [Conns -> SUBSET Items] => NetTypes') /\ cur \in Conns /\ link[cur] = "up"
           /\ s2c[cur] \in Seq(Frames) /\ s2c[cur] # <<>> /\ s2c'[cur] = Tail(s2c[cur])
           /\ Head(s2c[cur]) \in Frames /\ Head(s2c[cur]).kind \in kinds
           /\ \A c \in Conns : c # cur => s2c'[c] = s2c[c]
           /\ UNCHANGED <<cur, rel>> => Links'
  <1>1. cur \in Conns /\ s2c[cur] # <<>> /\ Head(s2c[cur]).kind \in kinds
    BY DEF Incoming, Typed, ClientTypes
  <1>2. s2c \in [Conns -> Seq(Frames)] /\ LinkOK(cur)
    BY <1>1 DEF Typed, NetTypes
  <1>3. Tail(s2c[cur]) \in Seq(Frames) /\ Head(s2c[cur]) \in Frames
    BY <1>1, <1>2, TailPositions
  <1>4. s2c' = [s2c EXCEPT ![cur] = Tail(s2c[cur])]
    BY DEF Consumed
  <1>5. /\ s2c' \in [Conns -> Seq(Frames)] /\ s2c'[cur] = Tail(s2c[cur])
        /\ \A c \in Conns : c # cur => s2c'[c] = s2c[c]
    BY <1>1, <1>2, <1>3, <1>4
  <1>6. link[cur] = "up"
    BY <1>1, <1>2 DEF LinkOK
  <1>7. tasks' \in [Conns -> SUBSET Items] => NetTypes'
    BY <1>5 DEF Typed, NetTypes
  <1>8. UNCHANGED <<cur, rel>> => Links'
    BY <1>5, <1>6 DEF Links, LinkOK, Typed
  <1> QED BY <1>1, <1>2, <1>3, <1>5, <1>6, <1>7, <1>8

\* ... and another put on a connection.
LEMMA PutTypes ==
    ASSUME Typed, NEW c \in Conns, NEW f \in Frames, ToClient(c, f), UNCHANGED <<writer, tasks, link>>
    PROVE  /\ NetTypes' /\ s2c[c] \in Seq(Frames)
           /\ link[c] = "up" => s2c'[c] = Append(s2c[c], f)
           /\ link[c] # "up" => s2c' = s2c
           /\ \A d \in Conns : d # c => s2c'[d] = s2c[d]
           /\ UNCHANGED cur /\ (\A d \in Conns : rel[d] = "none" => rel'[d] = "none") => Links'
  <1>1. s2c \in [Conns -> Seq(Frames)]
    BY DEF Typed, NetTypes
  <1>2. Append(s2c[c], f) \in Seq(Frames)
    BY <1>1, AppendPositions
  <1>3. /\ s2c' \in [Conns -> Seq(Frames)]
        /\ link[c] = "up" => s2c'[c] = Append(s2c[c], f)
        /\ link[c] # "up" => s2c' = s2c
        /\ \A d \in Conns : d # c => s2c'[d] = s2c[d]
    BY <1>1, <1>2 DEF ToClient
  <1>4. NetTypes'
    BY <1>3 DEF Typed, NetTypes
  <1>5. UNCHANGED cur /\ (\A d \in Conns : rel[d] = "none" => rel'[d] = "none") => Links'
    BY <1>3 DEF Links, LinkOK, Typed
  <1> QED BY <1>1, <1>3, <1>4, <1>5

LEMMA HangUpTypes ==
    ASSUME Typed, NEW c \in Conns, NEW with, HangUp(c, with)
    PROVE  /\ link' \in [Conns -> {"free", "up", "closed", "broken"}]
           /\ \A d \in Conns : d # c => link'[d] = link[d]
           /\ link'[c] = "free" => link[c] = "free"
  <1>1. link \in [Conns -> {"free", "up", "closed", "broken"}]
    BY DEF Typed, NetTypes
  <1> QED BY <1>1 DEF HangUp

\* A writer task that is over leaves the session its half of the socket.
LEMMA OverTypes ==
    ASSUME Typed, NEW c \in Conns, NEW how, NEW sent, WriterOver(c, how, sent)
    PROVE  /\ link' \in [Conns -> {"free", "up", "closed", "broken"}]
           /\ \A d \in Conns : link'[d] = "free" => link[d] = "free"
           /\ \A d \in Conns : d = cur => link'[d] = link[d]
  <1>1. UNCHANGED link \/ (c # cur /\ HangUp(c, sent))
    BY DEF WriterOver
  <1>2. link \in [Conns -> {"free", "up", "closed", "broken"}]
    BY DEF Typed, NetTypes
  <1> QED BY <1>1, <1>2, HangUpTypes

\* The session is left with its half of the socket.
LEMMA DropTypes ==
    ASSUME Typed, mpc \in InSession, DropReader \/ HangUp(cur, c2s), cur' = NoConn,
           UNCHANGED <<writer, tasks, s2c, relayVars>>
    PROVE  NetTypes' /\ Links'
  <1>1. cur \in Conns /\ link \in [Conns -> {"free", "up", "closed", "broken"}]
    BY DEF Typed, ClientTypes, SessionOK, NetTypes
  <1>2. UNCHANGED link \/ HangUp(cur, c2s)
    BY DEF DropReader
  <1>3. /\ link' \in [Conns -> {"free", "up", "closed", "broken"}]
        /\ \A d \in Conns : link'[d] = "free" => link[d] = "free"
    BY <1>1, <1>2, HangUpTypes
  <1> QED BY <1>3, MultiConstants DEF Typed, NetTypes, Links, LinkOK, relayVars

LEMMA TypedLoop ==
    ASSUME Typed, \/ Cancel \/ StopAtTop \/ SleepEnds \/ ConnectFails \/ \E c \in Conns : Connect(c)
    PROVE  Typed'
  <1>1. ASSUME UNCHANGED <<attempt, connected, ended, cur, next, contexts, routes>>,
               mpc' \in Modes, mpc' \in InSession <=> mpc \in InSession,
               mpc' \in Routing <=> mpc \in Routing, mpc' \in Shaking <=> mpc \in Shaking,
               shutdown' \in BOOLEAN
        PROVE  Clients'
    BY <1>1 DEF Typed, Clients, ClientTypes, RouteTypes, ContextsOK, SessionOK
  <1>2. CASE Cancel
    <2>1. mpc \in Modes
      BY DEF Typed, ClientTypes
    <2>2. Clients'
      BY <1>1, <1>2, <2>1 DEF Cancel
    <2> QED BY <1>2, <2>2, Untouched, Assembled DEF Cancel, netVars, relayVars
  <1>3. CASE StopAtTop
    <2>1. Clients'
      BY <1>1, <1>3 DEF StopAtTop, Modes, InSession, Routing, Shaking, Final, Typed, ClientTypes
    <2> QED BY <1>3, <2>1, Untouched, Assembled DEF StopAtTop, netVars, relayVars
  <1>4. CASE SleepEnds
    <2>1. Clients'
      BY <1>1, <1>4 DEF SleepEnds, Modes, InSession, Routing, Shaking, Final, Typed, ClientTypes
    <2> QED BY <1>4, <2>1, Untouched, Assembled DEF SleepEnds, netVars, relayVars
  <1>5. CASE ConnectFails
    <2>1. Clients' /\ cur' = NoConn
      BY <1>5, LossTypes DEF ConnectFails
    <2> QED BY <1>5, <2>1, Untouched, Assembled DEF ConnectFails, netVars, relayVars
  <1>6. ASSUME NEW c \in Conns, Connect(c) PROVE Typed'
    <2>1. /\ mpc' = "connecting" /\ cur' = c /\ next' = 1 /\ contexts' = {} /\ routes' = <<>>
          /\ ended' = "none" /\ UNCHANGED <<shutdown, attempt, connected>>
          /\ link' = [link EXCEPT ![c] = "up"] /\ writer' = [writer EXCEPT ![c] = "up"]
          /\ rel' = [rel EXCEPT ![c] = "fresh"] /\ UNCHANGED <<tasks, s2c, owner, phase, form, target, via, history>>
      BY <1>6 DEF Connect
    <2>2. 1 \in Tunnels /\ 1 .. 1 - 1 = {} /\ c # NoConn
      BY MultiConstants DEF Tunnels
    <2>3. ClientTypes'
      BY <2>1, <2>2 DEF Typed, ClientTypes, Modes, Shaking
    <2>4. DOMAIN routes' = {}
      BY <2>1
    <2>5. RouteTypes' /\ ContextsOK' /\ SessionOK'
      BY <2>1, <2>2, <2>4 DEF RouteTypes, ContextsOK, SessionOK, InSession, Shaking, Routing
    <2>6. NetTypes' /\ RelayTypes'
      BY <2>1 DEF Typed, NetTypes, RelayTypes
    <2>7. Links'
      BY <2>1 DEF Typed, NetTypes, RelayTypes, Links, LinkOK
    <2> QED BY <2>1, <2>3, <2>5, <2>6, <2>7, Untouched, Assembled DEF Clients
  <1> QED BY <1>2, <1>3, <1>4, <1>5, <1>6

LEMMA TypedHandshake ==
    ASSUME Typed, SendConnect \/ Acked \/ Dropped \/ HandshakeFails
    PROVE  Typed'
  <1>0. connected \in BOOLEAN
    BY DEF Typed, ClientTypes
  <1>1. CASE SendConnect
    <2>1. UNCHANGED <<writer, tasks, s2c, relayVars, history>> /\ mpc = "connecting"
      BY <1>1 DEF SendConnect
    <2>2. CASE AfterLoss(connected) /\ DropReader
      <3>1. Clients' /\ cur' = NoConn
        BY <1>0, <2>2, LossTypes
      <3>2. NetTypes' /\ Links'
        BY <2>1, <2>2, <3>1, DropTypes DEF Shaking, InSession
      <3> QED BY <2>1, <3>1, <3>2, Untouched, Assembled
    <2>3. CASE /\ mpc' = "waiting"
               /\ UNCHANGED <<shutdown, attempt, connected, ended, cur, next, contexts, routes, link>>
      <3>1. Clients'
        BY <2>1, <2>3 DEF Typed, Clients, ClientTypes, RouteTypes, ContextsOK, SessionOK, Modes,
             InSession, Shaking, Routing
      <3> QED BY <2>1, <2>3, <3>1, Untouched, Assembled DEF relayVars
    <2> QED BY <1>1, <2>2, <2>3 DEF SendConnect
  <1>2. CASE Acked
    <2>1. /\ mpc = "waiting" /\ Incoming({"ack"}) /\ Consumed /\ contexts' = contexts \cup {next}
          /\ UNCHANGED <<shutdown, attempt, connected, ended, cur, routes, writer, tasks, link, relayVars, history>>
          /\ IF next = N THEN mpc' = "running" /\ next' = next ELSE mpc' = "connecting" /\ next' = next + 1
      BY <1>2 DEF Acked, RegisterContext
    <2>2. NetTypes' /\ Links'
      BY <2>1, TakenTypes DEF relayVars, Typed, NetTypes
    <2>3. next \in 1 .. N /\ N \in Nat \ {0} /\ contexts = 1 .. next - 1
      BY <2>1, MultiConstants DEF Typed, ClientTypes, ContextsOK, Shaking, Tunnels
    <2>4. contexts' = 1 .. next
      BY <2>1, <2>3
    <2>5. next' \in 1 .. N /\ contexts' \subseteq 1 .. N
      BY <2>1, <2>3, <2>4
    <2>6. ClientTypes'
      BY <2>1, <2>5 DEF Typed, ClientTypes, Modes, Shaking, Tunnels
    <2>7. CASE next = N
      <3>1. ContextsOK' /\ SessionOK' /\ RouteTypes'
        BY <2>1, <2>3, <2>4, <2>7 DEF Typed, ContextsOK, SessionOK, RouteTypes, InSession, Shaking,
             Routing, Tunnels
      <3> QED BY <2>1, <2>2, <2>6, <3>1, Untouched, Assembled DEF Clients
    <2>8. CASE next # N
      <3>1. 1 .. next = 1 .. (next + 1) - 1
        BY <2>3
      <3>2. ContextsOK' /\ SessionOK' /\ RouteTypes'
        BY <2>1, <2>4, <2>8, <3>1 DEF Typed, ContextsOK, SessionOK, RouteTypes, InSession, Shaking, Routing
      <3> QED BY <2>1, <2>2, <2>6, <3>2, Untouched, Assembled DEF Clients
    <2> QED BY <2>7, <2>8
  <1>3. CASE Dropped
    <2>1. /\ Incoming(ItemKinds) /\ Consumed /\ UNCHANGED <<clientVars, writer, tasks, link, relayVars, reached>>
          /\ lost' \subseteq lost \cup {Head(s2c[cur]).item}
      BY <1>3 DEF Dropped
    <2>2. NetTypes' /\ Links' /\ Head(s2c[cur]).item \in Items
      BY <2>1, TakenTypes, FrameForms DEF relayVars, clientVars, AllKinds, Typed, NetTypes
    <2>3. HistoryTypes'
      BY <2>1, <2>2 DEF Typed, HistoryTypes
    <2> QED BY <2>1, <2>2, <2>3, Untouched, Assembled
  <1>4. CASE HandshakeFails
    <2>1. /\ mpc = "waiting" /\ AfterLoss(connected) /\ DropReader
          /\ UNCHANGED <<writer, tasks, s2c, relayVars, history>>
      BY <1>4 DEF HandshakeFails
    <2>2. Clients' /\ cur' = NoConn
      BY <1>0, <2>1, LossTypes
    <2>3. NetTypes' /\ Links'
      BY <2>1, <2>2, DropTypes DEF Shaking, InSession
    <2> QED BY <2>1, <2>2, <2>3, Untouched, Assembled
  <1> QED BY <1>1, <1>2, <1>3, <1>4

\* The contexts that may be chosen for an item, in the main loop.
LEMMA ContextsFound ==
    ASSUME Typed, mpc = "running"
    PROVE  /\ contexts = Tunnels /\ TcpContexts = Tcp /\ Tcp \subseteq Tunnels
           /\ \A t \in Tunnels : HttpContexts(t) = {t}
           /\ \A t : HttpContexts(t) \subseteq Tunnels
  <1>1. contexts = Tunnels /\ Tcp \subseteq Tunnels
    BY MultiConstants DEF Typed, ContextsOK, Routing
  <1> QED BY <1>1 DEF TcpContexts, HttpContexts

LEMMA TypedRouting ==
    ASSUME Typed, HandleRequest \/ HandleStart \/ HandleOpen \/ HandleData \/ HandleEnd
    PROVE  Typed'
  <1>1. PICK x : x = Head(s2c[cur]).item
    OBVIOUS
  <1>2. /\ mpc = "running" /\ Incoming({"request", "open", "data", "end"}) /\ Consumed
        /\ UNCHANGED routingRest /\ mpc' \in {"running", "writing"}
    BY DEF HandleRequest, HandleStart, HandleOpen, HandleData, HandleEnd, Routed, Incoming
  <1>3. /\ tasks' \in [Conns -> SUBSET Items] => NetTypes'
        /\ Links' /\ x \in Items /\ cur \in Conns
    BY <1>1, <1>2, TakenTypes, FrameForms DEF routingRest, relayVars
  <1>4. RelayTypes'
    BY <1>2, Untouched DEF routingRest
  <1>5. /\ RouteTypes /\ reached \in [Items -> SUBSET Tunnels] /\ lost \subseteq Items
        /\ tasks \in [Conns -> SUBSET Items]
    BY DEF Typed, HistoryTypes, NetTypes
  <1>6. \A t \in Tunnels : Reach(x, t) => reached' \in [Items -> SUBSET Tunnels]
    BY <1>3, <1>5 DEF Reach
  <1>7. AlongRoute(x) => reached' \in [Items -> SUBSET Tunnels]
    BY <1>5, <1>6 DEF AlongRoute, RouteTypes
  <1>8. Spawn(x) => tasks' \in [Conns -> SUBSET Items]
    BY <1>3, <1>5 DEF Spawn
  <1>9. UNCHANGED routes => RouteTypes'
    BY <1>5 DEF RouteTypes
  <1>10. \A t \in Tunnels : Track(x, t) => RouteTypes'
    BY <1>3, <1>5 DEF Track, RouteTypes
  <1>11. Clear(x) => RouteTypes'
    BY <1>5 DEF Clear, RouteTypes
  <1>12. ASSUME RouteTypes', reached' \in [Items -> SUBSET Tunnels], tasks' \in [Conns -> SUBSET Items]
         PROVE Typed'
    <2>1. HistoryTypes'
      BY <1>2, <1>5, <1>12 DEF HistoryTypes, routingRest
    <2>2. ClientTypes' /\ ContextsOK' /\ SessionOK'
      BY <1>2 DEF Typed, ClientTypes, ContextsOK, SessionOK, routingRest, Routing, InSession, Shaking, Modes
    <2> QED BY <1>3, <1>4, <1>12, <2>1, <2>2, Assembled DEF Clients
  <1>13. CASE HandleRequest
    <2>1. UNCHANGED routes
      BY <1>13 DEF HandleRequest
    <2>2. UNCHANGED <<reached, tasks>> \/ \E t \in Tunnels : Reach(x, t) /\ Spawn(x)
      BY <1>1, <1>2, <1>13, ContextsFound DEF HandleRequest
    <2> QED BY <1>5, <1>6, <1>8, <1>9, <1>12, <2>1, <2>2
  <1>14. CASE HandleStart
    <2>1. UNCHANGED tasks
      BY <1>14 DEF HandleStart
    <2>2. UNCHANGED <<routes, reached>> \/ \E t \in Tunnels : Track(x, t) /\ Reach(x, t)
      BY <1>1, <1>2, <1>14, ContextsFound DEF HandleStart
    <2> QED BY <1>5, <1>6, <1>9, <1>10, <1>12, <2>1, <2>2
  <1>15. CASE HandleOpen
    <2>1. \/ UNCHANGED <<routes, reached, tasks>>
          \/ \E t \in Tunnels : Track(x, t) /\ Reach(x, t) /\ Spawn(x)
      BY <1>1, <1>2, <1>15, ContextsFound DEF HandleOpen
    <2> QED BY <1>5, <1>6, <1>8, <1>9, <1>10, <1>12, <2>1
  <1>16. CASE HandleData
    <2>1. UNCHANGED <<routes, tasks>> /\ AlongRoute(x)
      BY <1>1, <1>16 DEF HandleData
    <2> QED BY <1>5, <1>7, <1>9, <1>12, <2>1
  <1>17. CASE HandleEnd
    <2>1. /\ AlongRoute(x) /\ Clear(x)
          /\ Spawn(x) \/ tasks' = [tasks EXCEPT ![cur] = @ \ {x}] \/ UNCHANGED tasks
      BY <1>1, <1>17 DEF HandleEnd
    <2>2. tasks' \in [Conns -> SUBSET Items]
      BY <1>3, <1>5, <1>8, <2>1
    <2> QED BY <1>7, <1>11, <1>12, <2>1, <2>2
  <1> QED BY <1>13, <1>14, <1>15, <1>16, <1>17

LEMMA TypedEnd ==
    ASSUME Typed, \/ ShutdownSeen \/ LoopFails \/ DataWritten \/ WriteFails \/ Join
                  \/ \E c \in Conns : WriterEnds(c) \/ WriterFails(c) \/ Exit(c)
                  \/ \E c \in Conns, x \in Items : TaskEnds(c, x)
    PROVE  Typed'
  <1>1. ASSUME NEW why \in {"shutdown", "error"}, Leave(why), mpc \in {"running", "writing"}
        PROVE  Clients' /\ RelayTypes' /\ HistoryTypes' /\ UNCHANGED <<writer, tasks, link, cur, rel>>
    <2>1. /\ mpc' = "draining" /\ ended' = why
          /\ UNCHANGED <<shutdown, attempt, connected, cur, next, contexts, routes, writer, tasks, link>>
          /\ UNCHANGED relayVars /\ UNCHANGED history
      BY <1>1 DEF Leave
    <2>2. Clients'
      BY <1>1, <2>1 DEF Typed, Clients, ClientTypes, RouteTypes, ContextsOK, SessionOK, Modes,
           InSession, Shaking, Routing
    <2> QED BY <2>1, <2>2, Untouched DEF relayVars
  <1>2. CASE ShutdownSeen
    <2>1. Leave("shutdown") /\ mpc = "running" /\ UNCHANGED s2c
      BY <1>2 DEF ShutdownSeen, Routed
    <2> QED BY <1>1, <2>1, Untouched, Assembled
  <1>3. CASE LoopFails
    <2>1. Leave("error") /\ mpc = "running"
      BY <1>3 DEF LoopFails, Routed
    <2>2. CASE Incoming({"close", "error", "bad", "data"}) /\ Consumed
      BY <1>1, <2>1, <2>2, TakenTypes, Assembled DEF Typed, NetTypes
    <2>3. CASE UNCHANGED s2c
      BY <1>1, <2>1, <2>3, Untouched, Assembled
    <2> QED BY <1>3, <2>2, <2>3 DEF LoopFails, Incoming
  <1>4. CASE WriteFails
    <2>1. Leave("error") /\ mpc = "writing" /\ UNCHANGED s2c
      BY <1>4 DEF WriteFails
    <2> QED BY <1>1, <2>1, Untouched, Assembled
  <1>5. CASE DataWritten
    <2>1. /\ mpc = "writing" /\ mpc' = "running"
          /\ UNCHANGED <<shutdown, attempt, connected, ended, cur, next, contexts, routes>>
          /\ UNCHANGED <<writer, tasks, link, s2c, rel>> /\ UNCHANGED relayVars /\ UNCHANGED history
      BY <1>5 DEF DataWritten, netVars, relayVars
    <2>2. Clients'
      BY <2>1 DEF Typed, Clients, ClientTypes, RouteTypes, ContextsOK, SessionOK, Modes,
           InSession, Shaking, Routing
    <2> QED BY <2>1, <2>2, Untouched, Assembled
  <1>6. CASE Join
    <2>1. /\ mpc = "draining" /\ HangUp(cur, c2s) /\ UNCHANGED <<writer, tasks, s2c, relayVars, history>>
      BY <1>6 DEF Join
    <2>2. Clients' /\ cur' = NoConn
      <3>1. CASE AfterLoss(TRUE)
        BY <3>1, LossTypes
      <3>2. CASE /\ mpc' = "stopped" /\ attempt' = 0 /\ cur' = NoConn /\ contexts' = {} /\ routes' = <<>>
                 /\ UNCHANGED <<shutdown, connected, ended, next>>
        <4>1. DOMAIN routes' = {} /\ 0 \in 0 .. AttemptMax
          BY <3>2, BackoffConstants
        <4> QED BY <3>2, <4>1 DEF Typed, Clients, ClientTypes, RouteTypes, ContextsOK, SessionOK,
                  Modes, InSession, Shaking, Routing, Final
      <3> QED BY <1>6, <3>1, <3>2 DEF Join
    <2>3. NetTypes' /\ Links'
      BY <2>1, <2>2, DropTypes DEF InSession, Routing
    <2> QED BY <2>1, <2>2, <2>3, Untouched, Assembled
  <1>7. ASSUME NEW c \in Conns, UNCHANGED <<clientVars, s2c, relayVars, history>>,
               tasks' \in [Conns -> SUBSET Items], NEW how \in {"done", "err"}, NEW sent,
               WriterOver(c, how, sent)
        PROVE  Typed'
    <2>1. writer' = [writer EXCEPT ![c] = how]
      BY <1>7 DEF WriterOver
    <2>2. /\ link' \in [Conns -> {"free", "up", "closed", "broken"}]
          /\ \A d \in Conns : link'[d] = "free" => link[d] = "free"
          /\ \A d \in Conns : d = cur => link'[d] = link[d]
      BY <1>7, OverTypes
    <2>3. NetTypes' /\ Links'
      BY <1>7, <2>1, <2>2 DEF Typed, NetTypes, Links, LinkOK, relayVars, clientVars
    <2> QED BY <1>7, <2>3, Untouched, Assembled
  <1>8. ASSUME NEW c \in Conns, WriterEnds(c) \/ WriterFails(c) \/ Exit(c) PROVE Typed'
    <2>1. /\ UNCHANGED <<clientVars, s2c, relayVars, history>>
          /\ UNCHANGED tasks \/ tasks' = [tasks EXCEPT ![c] = {}]
          /\ \E sent : WriterOver(c, "done", sent)
      BY <1>8 DEF WriterEnds, WriterFails, Exit
    <2>2. tasks' \in [Conns -> SUBSET Items]
      BY <2>1 DEF Typed, NetTypes
    <2> QED BY <1>7, <2>1, <2>2
  <1>9. ASSUME NEW c \in Conns, NEW x \in Items, TaskEnds(c, x) PROVE Typed'
    <2>1. /\ UNCHANGED <<clientVars, s2c, relayVars, history>>
          /\ tasks' = [tasks EXCEPT ![c] = @ \ {x}]
          /\ UNCHANGED <<writer, link>> \/ WriterOver(c, "err", c2s)
      BY <1>9 DEF TaskEnds
    <2>2. tasks' \in [Conns -> SUBSET Items]
      BY <2>1 DEF Typed, NetTypes
    <2>3. CASE UNCHANGED <<writer, link>>
      <3>1. NetTypes' /\ Links'
        BY <2>1, <2>2, <2>3 DEF Typed, NetTypes, Links, LinkOK, relayVars, clientVars
      <3> QED BY <2>1, <3>1, Untouched, Assembled
    <2> QED BY <1>7, <2>1, <2>2, <2>3
  <1> QED BY <1>2, <1>3, <1>4, <1>5, <1>6, <1>8, <1>9

LEMMA TypedRelay ==
    ASSUME Typed, NEW c \in Conns,
           \/ RelayConnect(c) \/ RelayRefuses(c) \/ RelayEnds(c) \/ RelayAborts(c)
           \/ Break(c) \/ Forget(c) \/ \E x \in Items : Forward(c, x)
    PROVE  Typed'
  <1>1. UNCHANGED clientVars /\ UNCHANGED history
    BY DEF RelayConnect, RelayRegisters, RelayAcks, RelayRefuses, RelayEnds, RelayAborts, Break,
         Forget, Forward
  <1>2. Clients' /\ HistoryTypes' /\ UNCHANGED cur
    BY <1>1, Untouched DEF clientVars
  <1>3. RelayTypes /\ NetTypes
    BY DEF Typed
  <1>4. CASE RelayConnect(c)
    <2>1. /\ rel[c] \in {"fresh", "open"} /\ UNCHANGED <<writer, tasks, link, phase, form, target, via>>
          /\ UNCHANGED s2c \/ ToClient(c, Plain("ack"))
          /\ \/ UNCHANGED <<rel, owner>>
             \/ /\ owner' = [owner EXCEPT ![Head(c2s[c]).tunnel] = c]
                /\ rel' = [rel EXCEPT ![c] = "open"]
      BY <1>4 DEF RelayConnect, RelayRegisters, RelayAcks, netVars, relayVars
    <2>2. RelayTypes'
      BY <1>3, <2>1 DEF RelayTypes
    <2>3. \A d \in Conns : rel[d] = "none" => rel'[d] = "none"
      BY <1>3, <2>1 DEF RelayTypes
    <2>4. CASE UNCHANGED s2c
      <3>1. NetTypes' /\ Links'
        BY <1>2, <1>3, <2>1, <2>3, <2>4 DEF NetTypes, Links, LinkOK, Typed
      <3> QED BY <1>2, <2>2, <3>1, Assembled
    <2>5. CASE ToClient(c, Plain("ack"))
      <3>1. NetTypes' /\ Links'
        BY <1>2, <2>1, <2>3, <2>5, PutTypes, FrameForms
      <3> QED BY <1>2, <2>2, <3>1, Assembled
    <2> QED BY <2>1, <2>4, <2>5
  <1>5. CASE RelayRefuses(c)
    <2>1. /\ rel[c] \in {"fresh", "open"} /\ UNCHANGED <<writer, tasks, link, owner, phase, form, target, via>>
          /\ rel' = rel \/ rel' = [rel EXCEPT ![c] = "gone"]
          /\ ToClient(c, Plain("close")) \/ ToClient(c, Plain("error"))
      BY <1>5 DEF RelayRefuses
    <2>2. RelayTypes'
      BY <1>3, <2>1 DEF RelayTypes
    <2>3. \A d \in Conns : rel[d] = "none" => rel'[d] = "none"
      BY <1>3, <2>1 DEF RelayTypes
    <2>4. NetTypes' /\ Links'
      BY <1>2, <2>1, <2>3, PutTypes, FrameForms
    <2> QED BY <1>2, <2>2, <2>4, Assembled
  <1>6. CASE RelayEnds(c) \/ RelayAborts(c)
    <2>1. /\ rel[c] \in {"fresh", "open"} /\ UNCHANGED <<writer, tasks, link, s2c, form, target, via>>
          /\ rel' = [rel EXCEPT ![c] = "gone"]
          /\ phase' = [x \in Items |-> IF via[x] = c /\ phase[x] \in {"open", "data"}
                                       THEN "left" ELSE phase[x]]
          /\ owner' = owner \/ owner' = [t \in Tunnels |-> IF owner[t] = c THEN NoConn ELSE owner[t]]
      BY <1>6 DEF RelayEnds, RelayAborts, Over, Freed
    <2>2. RelayTypes'
      BY <1>3, <2>1 DEF RelayTypes, Phases
    <2>3. \A d \in Conns : rel[d] = "none" => rel'[d] = "none"
      BY <1>3, <2>1 DEF RelayTypes
    <2>4. NetTypes' /\ Links'
      BY <1>2, <1>3, <2>1, <2>3 DEF Typed, NetTypes, Links, LinkOK
    <2> QED BY <1>2, <2>2, <2>4, Assembled
  <1>7. CASE Break(c)
    <2>1. /\ link' = [link EXCEPT ![c] = "broken"] /\ s2c' = [s2c EXCEPT ![c] = <<>>]
          /\ UNCHANGED <<writer, tasks, relayVars>> /\ <<>> \in Seq(Frames)
      BY <1>7 DEF Break
    <2>2. NetTypes' /\ Links'
      BY <1>2, <1>3, <2>1 DEF Typed, NetTypes, Links, LinkOK, relayVars
    <2> QED BY <1>2, <2>1, <2>2, Untouched, Assembled
  <1>8. CASE Forget(c)
    <2>1. /\ link' = [link EXCEPT ![c] = "free"] /\ writer' = [writer EXCEPT ![c] = "none"]
          /\ rel' = [rel EXCEPT ![c] = "none"] /\ s2c' = [s2c EXCEPT ![c] = <<>>]
          /\ UNCHANGED <<tasks, owner, phase, form, target, via>> /\ <<>> \in Seq(Frames) /\ c # cur
      BY <1>8 DEF Forget
    <2>2. NetTypes' /\ RelayTypes'
      BY <1>3, <2>1 DEF NetTypes, RelayTypes
    <2>3. Links'
      BY <1>2, <1>3, <2>1 DEF Typed, NetTypes, RelayTypes, Links, LinkOK
    <2> QED BY <1>2, <2>2, <2>3, Assembled
  <1>9. ASSUME NEW x \in Items, Forward(c, x) PROVE Typed'
    <2>1. UNCHANGED <<writer, tasks, link, rel, owner>>
      BY <1>9 DEF Forward
    <2>2. PICK kind \in AllKinds : ToClient(c, ItemFrame(kind, x))
      BY <1>9, FrameForms DEF Forward
    <2>3. NetTypes' /\ Links'
      BY <1>2, <2>1, <2>2, PutTypes, FrameForms
    <2>4. /\ form' = form \/ \E f \in {"http", "tcp"} : form' = [form EXCEPT ![x] = f]
          /\ target' = target \/ \E t \in Tunnels : target' = [target EXCEPT ![x] = t]
          /\ via' = via \/ via' = [via EXCEPT ![x] = c]
          /\ \E p \in Phases : phase' = [phase EXCEPT ![x] = p]
      BY <1>9 DEF Forward, Phases
    <2>5. RelayTypes'
      BY <1>3, <2>1, <2>4 DEF RelayTypes
    <2> QED BY <1>2, <2>3, <2>5, Assembled
  <1> QED BY <1>4, <1>5, <1>6, <1>7, <1>8, <1>9

LEMMA TypedGiveUp ==
    ASSUME Typed, NEW x \in Items, GiveUp(x)
    PROVE  Typed'
  <1>1. /\ phase' = [phase EXCEPT ![x] = "left"] /\ UNCHANGED <<clientVars, history>>
        /\ UNCHANGED <<writer, tasks, link, s2c, cur, rel, owner, form, target, via>>
    BY DEF GiveUp, netVars, clientVars
  <1>2. RelayTypes'
    BY <1>1 DEF Typed, RelayTypes, Phases
  <1> QED BY <1>1, <1>2, Untouched, Assembled

-----------------------------------------------------------------------------
(***************************************************************************)
(* Steps that concern no frame of an item                                  *)
(***************************************************************************)
\* The queue p holds of x what q holds.
Alike(p, q, x) ==
    /\ Has(p, Of({"open"}, x)) <=> Has(q, Of({"open"}, x))
    /\ Has(p, Of({"end"}, x)) <=> Has(q, Of({"end"}, x))
    /\ Has(p, Of(Later, x)) <=> Has(q, Of(Later, x))
    /\ Before(p, Of(Later, x), Of({"open"}, x)) => Before(q, Of(Later, x), Of({"open"}, x))
    /\ Before(p, Of({"end"}, x), Of(Later, x)) => Before(q, Of({"end"}, x), Of(Later, x))

LEMMA AlikeAppend ==
    ASSUME NEW q \in Seq(Frames), NEW f \in Frames, NEW x, f \notin Of(AllKinds, x)
    PROVE  /\ Alike(Append(q, f), q, x)
           /\ Has(Append(q, f), Of(AllKinds, x)) <=> Has(q, Of(AllKinds, x))
  <1>1. f \notin Of({"open"}, x) /\ f \notin Of({"end"}, x) /\ f \notin Of(Later, x)
    BY DEF Of, Later, AllKinds, ItemKinds
  <1>2. \A A : Has(Append(q, f), A) <=> Has(q, A) \/ f \in A
    BY HasAppend
  <1>3. \A A, B : Before(Append(q, f), A, B) => Before(q, A, B) \/ (Has(q, A) /\ f \in B)
    BY BeforeAppend
  <1> QED BY <1>1, <1>2, <1>3 DEF Alike

LEMMA AlikeTail ==
    ASSUME NEW q \in Seq(Frames), q # <<>>, NEW x, Head(q) \notin Of({"open", "data", "end"}, x)
    PROVE  /\ Alike(Tail(q), q, x)
           /\ Has(Tail(q), Of(AllKinds, x)) => Has(q, Of(AllKinds, x))
  <1>1. Head(q) \notin Of({"open"}, x) /\ Head(q) \notin Of({"end"}, x) /\ Head(q) \notin Of(Later, x)
    BY DEF Of, Later
  <1>2. \A A : Has(q, A) <=> Has(Tail(q), A) \/ Head(q) \in A
    BY HasTail
  <1>3. \A A, B : Before(Tail(q), A, B) => Before(q, A, B)
    BY BeforeTail
  <1> QED BY <1>1, <1>2, <1>3 DEF Alike

\* The relay sends a frame that is not one of x.
LEMMA PutElsewhere ==
    ASSUME Typed, NEW c \in Conns, NEW f \in Frames, ToClient(c, f), UNCHANGED <<writer, tasks, link>>,
           NEW x, f \notin Of(AllKinds, x), NEW d \in Conns
    PROVE  /\ Alike(s2c'[d], s2c[d], x)
           /\ Has(s2c'[d], Of(AllKinds, x)) => Has(s2c[d], Of(AllKinds, x))
  <1>1. /\ s2c[c] \in Seq(Frames)
        /\ link[c] = "up" => s2c'[c] = Append(s2c[c], f)
        /\ link[c] # "up" => s2c' = s2c
        /\ d # c => s2c'[d] = s2c[d]
    BY PutTypes
  <1>2. CASE s2c'[d] = s2c[d]
    BY <1>2 DEF Alike
  <1>3. CASE d = c /\ link[c] = "up"
    <2>1. s2c'[d] = Append(s2c[d], f) /\ s2c[d] \in Seq(Frames)
      BY <1>1, <1>3
    <2> QED BY <2>1, AlikeAppend
  <1> QED BY <1>1, <1>2, <1>3

LEMMA Carried ==
    ASSUME NEW x \in Items, Sent(x), Order(x), cur' = cur \/ cur' = NoConn,
           form'[x] = form[x], target'[x] = target[x], via'[x] = via[x], reached'[x] = reached[x],
           phase'[x] = phase[x] \/ (phase[x] \in Underway /\ phase'[x] = "left"),
           phase'[x] \in Underway => rel'[via[x]] = "open",
           x \in DOMAIN routes' => x \in DOMAIN routes /\ routes'[x] = routes[x] /\ cur' = cur,
           cur' = cur /\ Known(x) => Known(x)',
           \A c \in Conns : Has(s2c'[c], Of(AllKinds, x)) => Has(s2c[c], Of(AllKinds, x)),
           cur' = cur /\ cur # NoConn /\ link'[cur] = "up" =>
               link[cur] = "up" /\ Alike(s2c'[cur], s2c[cur], x)
    PROVE  Sent(x)' /\ Order(x)'
  <1>1. Sent(x)'
    <2>1. (Home(x)' <=> Home(x)) /\ Homes(x)' = Homes(x)
      BY DEF Home, Homes
    <2>2. phase'[x] = "new" => phase[x] = "new"
      BY DEF Underway
    <2>3. phase'[x] # "new" => phase[x] # "new"
      BY DEF Underway
    <2>4. phase'[x] \in Underway => phase[x] \in Underway
      BY DEF Underway
    <2> QED BY <2>1, <2>2, <2>3, <2>4 DEF Sent
  <1>2. ASSUME cur' # NoConn, link'[cur'] = "up" PROVE Queued(s2c[cur], x)'
    <2>1. cur' = cur /\ Queued(s2c[cur], x) /\ Alike(s2c'[cur], s2c[cur], x)
      BY <1>2 DEF Order
    <2>2. x \in DOMAIN routes' => x \in DOMAIN routes
      OBVIOUS
    <2>3. Known(x) => Known(x)'
      BY <2>1
    <2> QED BY <2>1, <2>2, <2>3 DEF Queued, Alike, Underway
  <1> QED BY <1>1, <1>2 DEF Order

\* Neither frames nor the relay's view of items change, and the session goes on or
\* is left.
LEMMA CarriedQuietly ==
    ASSUME ItemInv, UNCHANGED <<s2c, phase, form, target, via, reached, lost>>,
           \/ UNCHANGED <<cur, routes>> /\ (cur # NoConn => link'[cur] = link[cur])
           \/ cur' = NoConn /\ DOMAIN routes' = {},
           \A c \in Conns : rel[c] = "open" => rel'[c] = "open"
    PROVE  ItemInv'
  <1> SUFFICES ASSUME NEW x \in Items PROVE Sent(x)' /\ Order(x)'
    BY DEF ItemInv
  <1>1. Sent(x) /\ Order(x)
    BY DEF ItemInv
  <1>2. phase'[x] \in Underway => rel'[via[x]] = "open"
    BY <1>1 DEF Sent
  <1>3. \A q : Alike(q, q, x)
    BY DEF Alike
  <1>4. CASE UNCHANGED <<cur, routes>> /\ (cur # NoConn => link'[cur] = link[cur])
    <2>1. Known(x) => Known(x)'
      BY <1>4 DEF Known, Untracked
    <2> QED BY <1>1, <1>2, <1>3, <1>4, <2>1, Carried
  <1>5. CASE cur' = NoConn /\ DOMAIN routes' = {} /\ cur # NoConn
    BY <1>1, <1>2, <1>5, Carried
  <1>6. CASE cur' = NoConn /\ DOMAIN routes' = {} /\ cur = NoConn
    <2>1. Sent(x)'
      BY <1>1, <1>2, <1>6 DEF Sent, Home, Homes
    <2> QED BY <1>6, <2>1 DEF Order
  <1> QED BY <1>4, <1>5, <1>6

LEMMA QuietSteps ==
    ASSUME Typed, ItemInv,
           \/ Cancel \/ StopAtTop \/ SleepEnds \/ ConnectFails \/ SendConnect \/ HandshakeFails
           \/ ShutdownSeen \/ (LoopFails /\ UNCHANGED s2c) \/ DataWritten \/ WriteFails \/ Join
           \/ UNCHANGED vars
           \/ \E c \in Conns : WriterEnds(c) \/ WriterFails(c) \/ Exit(c)
           \/ \E c \in Conns, x \in Items : TaskEnds(c, x)
    PROVE  ItemInv'
  <1>1. UNCHANGED <<s2c, rel, phase, form, target, via, reached, lost>>
    BY DEF Cancel, StopAtTop, SleepEnds, ConnectFails, SendConnect, HandshakeFails, ShutdownSeen,
         LoopFails, DataWritten, WriteFails, Leave, Join, WriterEnds, WriterFails, Exit, TaskEnds,
         vars, netVars, relayVars, history
  <1>2. \/ UNCHANGED <<cur, routes>> /\ (cur # NoConn => link'[cur] = link[cur])
        \/ cur' = NoConn /\ DOMAIN routes' = {}
    <2>0. connected \in BOOLEAN
      BY DEF Typed, ClientTypes
    <2>1. CASE \/ Cancel \/ StopAtTop \/ SleepEnds \/ ShutdownSeen \/ LoopFails \/ DataWritten
               \/ WriteFails \/ UNCHANGED vars
      BY <2>1 DEF Cancel, StopAtTop, SleepEnds, ShutdownSeen, LoopFails, DataWritten, WriteFails,
           Leave, vars, netVars, clientVars
    <2>2. CASE ConnectFails \/ HandshakeFails
      BY <2>0, <2>2, LossTypes DEF ConnectFails, HandshakeFails
    <2>3. CASE SendConnect
      BY <2>0, <2>3, LossTypes DEF SendConnect
    <2>4. CASE Join
      <3>1. CASE cur' = NoConn /\ routes' = <<>>
        BY <3>1
      <3>2. CASE AfterLoss(TRUE)
        BY <3>2, LossTypes
      <3> QED BY <2>4, <3>1, <3>2 DEF Join
    <2>5. ASSUME NEW c \in Conns, UNCHANGED clientVars,
                 UNCHANGED link \/ \E how, sent : WriterOver(c, how, sent)
          PROVE  UNCHANGED <<cur, routes>> /\ (cur # NoConn => link'[cur] = link[cur])
      <3>1. cur # NoConn => cur \in Conns
        BY DEF Typed, ClientTypes
      <3> QED BY <2>5, <3>1, OverTypes DEF clientVars
    <2>6. ASSUME NEW c \in Conns,
                 WriterEnds(c) \/ WriterFails(c) \/ Exit(c) \/ \E x \in Items : TaskEnds(c, x)
          PROVE  UNCHANGED clientVars /\ (UNCHANGED link \/ \E how, sent : WriterOver(c, how, sent))
      BY <2>6 DEF WriterEnds, WriterFails, Exit, TaskEnds
    <2> QED BY <2>1, <2>2, <2>3, <2>4, <2>5, <2>6
  <1> QED BY <1>1, <1>2, CarriedQuietly

LEMMA ConnectKeeps ==
    ASSUME Typed, ItemInv, NEW c \in Conns, Connect(c)
    PROVE  ItemInv'
  <1> SUFFICES ASSUME NEW x \in Items PROVE Sent(x)' /\ Order(x)'
    BY DEF ItemInv
  <1>1. /\ cur' = c /\ routes' = <<>> /\ rel' = [rel EXCEPT ![c] = "fresh"] /\ link[c] = "free"
        /\ UNCHANGED <<s2c, phase, form, target, via, reached, lost>>
    BY DEF Connect, history
  <1>2. rel[c] = "none" /\ s2c[c] = <<>> /\ rel \in [Conns -> {"none", "fresh", "open", "gone"}]
    BY <1>1 DEF Typed, LinkOK, RelayTypes
  <1>3. Sent(x) /\ DOMAIN routes' = {}
    BY <1>1 DEF ItemInv
  <1>4. phase[x] \in Underway => via[x] # c /\ rel'[via[x]] = "open"
    BY <1>1, <1>2, <1>3 DEF Sent
  <1>5. Sent(x)'
    BY <1>1, <1>3, <1>4 DEF Sent, Home, Homes
  <1>6. (\A A : ~ Has(s2c'[c], A)) /\ (\A A, B : ~ Before(s2c'[c], A, B))
    BY <1>1, <1>2, EmptyQueue
  <1>7. Queued(s2c[cur], x)'
    BY <1>1, <1>3, <1>4, <1>6 DEF Queued
  <1> QED BY <1>5, <1>7 DEF Order

\* A step of the relay, or a break, that sends no frame of an item.
LEMMA RelaySteps ==
    ASSUME Typed, ItemInv,
           \/ \E c \in Conns : \/ RelayConnect(c) \/ RelayRefuses(c) \/ RelayEnds(c) \/ RelayAborts(c)
                               \/ Break(c) \/ Forget(c)
           \/ \E x \in Items : GiveUp(x)
    PROVE  ItemInv'
  <1> SUFFICES ASSUME NEW x \in Items PROVE Sent(x)' /\ Order(x)'
    BY DEF ItemInv
  <1>0. /\ Sent(x) /\ Order(x) /\ s2c \in [Conns -> Seq(Frames)]
        /\ link \in [Conns -> {"free", "up", "closed", "broken"}]
        /\ rel \in [Conns -> {"none", "fresh", "open", "gone"}] /\ phase \in [Items -> Phases]
        /\ cur \in Conns \cup {NoConn}
    BY DEF ItemInv, Typed, NetTypes, RelayTypes, ClientTypes
  <1>1. UNCHANGED <<cur, routes, lost, reached, form, target, via>>
    BY DEF RelayConnect, RelayRegisters, RelayAcks, RelayRefuses, RelayEnds, RelayAborts, Break,
         Forget, GiveUp, relayVars, clientVars, history
  <1>2. Known(x) => Known(x)'
    BY <1>1 DEF Known, Untracked
  <1>3. \A q : Alike(q, q, x)
    BY DEF Alike
  <1>4. ASSUME NEW c \in Conns, RelayConnect(c) \/ RelayRefuses(c) PROVE Sent(x)' /\ Order(x)'
    <2>1. /\ UNCHANGED <<phase, writer, tasks, link>> /\ rel[c] \in {"fresh", "open"}
          /\ \/ UNCHANGED s2c \/ \E k \in {"ack", "close", "error"} : ToClient(c, Plain(k))
          /\ \/ UNCHANGED rel \/ rel' = [rel EXCEPT ![c] = "open"]
             \/ rel[c] = "fresh" /\ rel' = [rel EXCEPT ![c] = "gone"]
      BY <1>4 DEF RelayConnect, RelayRegisters, RelayAcks, RelayRefuses, netVars, relayVars
    <2>2. phase'[x] \in Underway => rel'[via[x]] = "open"
      BY <1>0, <2>1 DEF Sent
    <2>3. \A d \in Conns : /\ Alike(s2c'[d], s2c[d], x)
                           /\ Has(s2c'[d], Of(AllKinds, x)) => Has(s2c[d], Of(AllKinds, x))
      <3>1. CASE UNCHANGED s2c
        BY <1>3, <3>1
      <3>2. ASSUME NEW k \in {"ack", "close", "error"}, ToClient(c, Plain(k)), NEW d \in Conns
            PROVE  /\ Alike(s2c'[d], s2c[d], x)
                   /\ Has(s2c'[d], Of(AllKinds, x)) => Has(s2c[d], Of(AllKinds, x))
        <4>1. Plain(k) \in Frames /\ Plain(k).kind = k
          BY FrameForms
        <4>2. Plain(k) \notin Of(AllKinds, x)
          BY <4>1, FrameForms DEF AllKinds, ItemKinds
        <4> QED BY <2>1, <3>2, <4>1, <4>2, PutElsewhere
      <3> QED BY <2>1, <3>1, <3>2
    <2> QED BY <1>0, <1>1, <1>2, <2>1, <2>2, <2>3, Carried
  <1>5. ASSUME NEW c \in Conns, RelayEnds(c) \/ RelayAborts(c) PROVE Sent(x)' /\ Order(x)'
    <2>1. /\ UNCHANGED <<link, s2c>> /\ rel' = [rel EXCEPT ![c] = "gone"]
          /\ phase' = [y \in Items |-> IF via[y] = c /\ phase[y] \in {"open", "data"}
                                       THEN "left" ELSE phase[y]]
      BY <1>5 DEF RelayEnds, RelayAborts, Over
    <2>2. /\ phase'[x] = phase[x] \/ (phase[x] \in Underway /\ phase'[x] = "left")
          /\ phase'[x] \in Underway => phase[x] \in Underway /\ via[x] # c
      BY <2>1 DEF Underway
    <2>3. phase'[x] \in Underway => rel'[via[x]] = "open"
      BY <1>0, <2>1, <2>2 DEF Sent
    <2> QED BY <1>0, <1>1, <1>2, <1>3, <2>1, <2>2, <2>3, Carried
  <1>6. ASSUME NEW c \in Conns, Break(c) \/ Forget(c) PROVE Sent(x)' /\ Order(x)'
    <2>1. /\ s2c' = [s2c EXCEPT ![c] = <<>>] /\ UNCHANGED phase
          /\ \/ link' = [link EXCEPT ![c] = "broken"] /\ UNCHANGED rel
             \/ link' = [link EXCEPT ![c] = "free"] /\ rel' = [rel EXCEPT ![c] = "none"] /\ rel[c] = "gone"
      BY <1>6 DEF Break, Forget, relayVars
    <2>2. phase'[x] \in Underway => rel'[via[x]] = "open"
      BY <1>0, <2>1 DEF Sent
    <2>3. \A d \in Conns : Has(s2c'[d], Of(AllKinds, x)) => Has(s2c[d], Of(AllKinds, x))
      BY <1>0, <2>1, EmptyQueue
    <2>4. cur # NoConn /\ link'[cur] = "up" => link[cur] = "up" /\ Alike(s2c'[cur], s2c[cur], x)
      BY <1>0, <1>3, <2>1
    <2> QED BY <1>0, <1>1, <1>2, <2>1, <2>2, <2>3, <2>4, Carried
  <1>7. ASSUME NEW y \in Items, GiveUp(y) PROVE Sent(x)' /\ Order(x)'
    <2>1. /\ UNCHANGED <<link, s2c, rel>> /\ phase' = [phase EXCEPT ![y] = "left"]
          /\ phase[y] \in {"open", "data"}
      BY <1>7 DEF GiveUp, netVars
    <2>2. phase'[x] = phase[x] \/ (phase[x] \in Underway /\ phase'[x] = "left")
      BY <1>0, <2>1 DEF Underway
    <2>3. phase'[x] \in Underway => rel'[via[x]] = "open"
      BY <1>0, <2>1, <2>2 DEF Sent, Underway
    <2> QED BY <1>0, <1>1, <1>2, <1>3, <2>1, <2>2, <2>3, Carried
  <1> QED BY <1>4, <1>5, <1>6, <1>7

-----------------------------------------------------------------------------
(***************************************************************************)
(* A frame of an item is sent                                              *)
(***************************************************************************)
LEMMA ForwardKeepsOthers ==
    ASSUME Typed, NEW c \in Conns, NEW y \in Items, Forward(c, y), NEW x \in Items, x # y,
           Sent(x), Order(x)
    PROVE  Sent(x)' /\ Order(x)'
  <1>1. UNCHANGED <<writer, tasks, link, rel, owner, cur, routes, reached, lost>>
    BY DEF Forward, clientVars, history
  <1>2. PICK kind \in AllKinds : ToClient(c, ItemFrame(kind, y))
    BY FrameForms DEF Forward
  <1>3. form'[x] = form[x] /\ target'[x] = target[x] /\ via'[x] = via[x] /\ phase'[x] = phase[x]
    BY DEF Forward, Typed, RelayTypes
  <1>4. ItemFrame(kind, y) \in Frames /\ ItemFrame(kind, y) \notin Of(AllKinds, x)
    <2>1. ItemFrame(kind, y).item = y
      BY DEF ItemFrame
    <2> QED BY <2>1, FrameForms
  <1>5. \A d \in Conns : /\ Alike(s2c'[d], s2c[d], x)
                         /\ Has(s2c'[d], Of(AllKinds, x)) => Has(s2c[d], Of(AllKinds, x))
    BY <1>1, <1>2, <1>4, PutElsewhere
  <1>6. phase'[x] \in Underway => rel'[via[x]] = "open"
    BY <1>1, <1>3 DEF Sent
  <1>7. Known(x) => Known(x)'
    BY <1>1, <1>3 DEF Known, Untracked
  <1>8. cur \in Conns \cup {NoConn}
    BY DEF Typed, ClientTypes
  <1> QED BY <1>1, <1>3, <1>5, <1>6, <1>7, <1>8, Carried

\* What the queue of the item's connection holds of it, with one frame more.
LEMMA PutOwn ==
    ASSUME NEW q \in Seq(Frames), NEW x \in Items, NEW kind \in AllKinds, NEW p,
           p = Append(q, ItemFrame(kind, x))
    PROVE  /\ Has(p, Of({"open"}, x)) <=> Has(q, Of({"open"}, x)) \/ kind = "open"
           /\ Has(p, Of({"end"}, x)) <=> Has(q, Of({"end"}, x)) \/ kind = "end"
           /\ Has(p, Of(Later, x)) <=> Has(q, Of(Later, x)) \/ kind \in Later
           /\ Before(p, Of(Later, x), Of({"open"}, x)) =>
                 \/ Before(q, Of(Later, x), Of({"open"}, x))
                 \/ kind = "open" /\ Has(q, Of(Later, x))
           /\ Before(p, Of({"end"}, x), Of(Later, x)) =>
                 \/ Before(q, Of({"end"}, x), Of(Later, x))
                 \/ kind \in Later /\ Has(q, Of({"end"}, x))
  <1> DEFINE f == ItemFrame(kind, x)
  <1>1. /\ f \in Of({"open"}, x) <=> kind = "open"
        /\ f \in Of({"end"}, x) <=> kind = "end"
        /\ f \in Of(Later, x) <=> kind \in Later
    <2>1. f.kind = kind
      BY DEF ItemFrame
    <2> QED BY <2>1, FrameForms
  <1>2. f \in Frames
    BY FrameForms
  <1> HIDE DEF f
  <1>3. \A A : Has(p, A) <=> Has(q, A) \/ f \in A
    BY <1>2, HasAppend DEF f
  <1>4. \A A, B : Before(p, A, B) => Before(q, A, B) \/ (Has(q, A) /\ f \in B)
    BY <1>2, BeforeAppend DEF f
  <1> QED BY <1>1, <1>3, <1>4

LEMMA KindsWithin ==
    ASSUME NEW q, NEW x
    PROVE  /\ Has(q, Of({"open"}, x)) => Has(q, Of(AllKinds, x))
           /\ Has(q, Of({"end"}, x)) => Has(q, Of(Later, x)) /\ Has(q, Of(AllKinds, x))
           /\ Has(q, Of(Later, x)) => Has(q, Of(AllKinds, x))
  <1>1. /\ Of({"open"}, x) \subseteq Of(AllKinds, x) /\ Of({"end"}, x) \subseteq Of(Later, x)
        /\ Of(Later, x) \subseteq Of(AllKinds, x)
    BY DEF Of, Later, AllKinds, ItemKinds
  <1> QED BY <1>1 DEF Has

LEMMA ForwardKeepsOwn ==
    ASSUME Typed, NEW c \in Conns, NEW x \in Items, Forward(c, x), Sent(x), Order(x)
    PROVE  Sent(x)' /\ Order(x)'
  <1>1. UNCHANGED <<writer, tasks, link, rel, owner, cur, routes, reached, lost>> /\ rel[c] = "open"
    BY DEF Forward, clientVars, history
  <1>2. PICK kind \in AllKinds :
            /\ ToClient(c, ItemFrame(kind, x))
            /\ \/ /\ phase[x] = "new" /\ via'[x] = c
                  /\ target'[x] \in Tunnels /\ (form'[x] = "tcp" => target'[x] \in Tcp)
                  /\ kind \notin Later /\ phase'[x] = IF kind = "open" THEN "open" ELSE "done"
               \/ /\ phase[x] \in Underway /\ via[x] = c /\ UNCHANGED <<form, target, via>>
                  /\ kind \in Later /\ phase'[x] = IF kind = "data" THEN "data" ELSE "done"
    BY FrameForms DEF Forward, Typed, RelayTypes, Underway, Later
  <1>3. ItemFrame(kind, x) \in Frames
    BY FrameForms
  <1>4. /\ s2c[c] \in Seq(Frames)
        /\ link[c] = "up" => s2c'[c] = Append(s2c[c], ItemFrame(kind, x))
        /\ link[c] # "up" => s2c' = s2c
        /\ \A d \in Conns : d # c => s2c'[d] = s2c[d]
    BY <1>1, <1>2, <1>3, PutTypes
  <1>5. Sent(x)'
    <2>1. /\ via'[x] = c /\ phase'[x] # "new"
          /\ target'[x] \in Tunnels /\ (form'[x] = "tcp" => target'[x] \in Tcp)
      BY <1>2 DEF Sent, Underway
    <2>2. \A d \in Conns : Has(s2c'[d], Of(AllKinds, x)) => d = c
      BY <1>2, <1>4 DEF Sent
    <2>3. x \in DOMAIN routes' => via'[x] = cur'
      BY <1>1, <1>2 DEF Sent
    <2>4. Home(x)' => /\ reached'[x] \subseteq Homes(x)'
                      /\ x \in DOMAIN routes' => routes'[x] \in Homes(x)'
      <3>1. CASE phase[x] = "new"
        BY <1>1, <3>1 DEF Sent
      <3>2. CASE UNCHANGED <<form, target>>
        BY <1>1, <3>2 DEF Sent, Home, Homes
      <3> QED BY <1>2, <3>1, <3>2
    <2> QED BY <1>1, <2>1, <2>2, <2>3, <2>4 DEF Sent
  <1>6. ASSUME cur # NoConn, link[cur] = "up" PROVE Queued(s2c[cur], x)'
    <2>0. Queued(s2c[cur], x) /\ cur \in Conns
      BY <1>6 DEF Order, Typed, ClientTypes
    <2>1. CASE cur = c
      <3>1. s2c'[cur] = Append(s2c[cur], ItemFrame(kind, x)) /\ s2c[cur] \in Seq(Frames)
        BY <1>4, <1>6, <2>1
      <3> DEFINE p == s2c'[cur]
                 q == s2c[cur]
      <3>2. /\ Has(p, Of({"open"}, x)) <=> Has(q, Of({"open"}, x)) \/ kind = "open"
            /\ Has(p, Of({"end"}, x)) <=> Has(q, Of({"end"}, x)) \/ kind = "end"
            /\ Has(p, Of(Later, x)) <=> Has(q, Of(Later, x)) \/ kind \in Later
            /\ Before(p, Of(Later, x), Of({"open"}, x)) =>
                  \/ Before(q, Of(Later, x), Of({"open"}, x))
                  \/ kind = "open" /\ Has(q, Of(Later, x))
            /\ Before(p, Of({"end"}, x), Of(Later, x)) =>
                  \/ Before(q, Of({"end"}, x), Of(Later, x))
                  \/ kind \in Later /\ Has(q, Of({"end"}, x))
        BY <3>1, PutOwn
      <3>3. CASE phase[x] = "new"
        <4>1. ~ Has(q, Of(AllKinds, x)) /\ x \notin DOMAIN routes
          BY <2>0, <3>3 DEF Sent
        <4>2. ~ Has(q, Of({"open"}, x)) /\ ~ Has(q, Of({"end"}, x)) /\ ~ Has(q, Of(Later, x))
          BY <4>1, KindsWithin
        <4>3. kind \notin Later /\ phase'[x] = IF kind = "open" THEN "open" ELSE "done"
          BY <1>2, <3>3 DEF Underway
        <4> HIDE DEF p, q
        <4>4. ~ Has(p, Of({"end"}, x)) /\ ~ Has(p, Of(Later, x)) /\ (Has(p, Of({"open"}, x)) <=> kind = "open")
          BY <3>2, <4>2, <4>3 DEF Later
        <4>5. ~ Before(p, Of(Later, x), Of({"open"}, x)) /\ ~ Before(p, Of({"end"}, x), Of(Later, x))
          BY <2>0, <3>2, <4>2, <4>3 DEF Queued, q
        <4> QED BY <1>1, <4>1, <4>3, <4>4, <4>5 DEF Queued, Underway, p
      <3>4. CASE phase[x] \in Underway
        <4>1. /\ kind \in Later /\ phase'[x] = (IF kind = "data" THEN "data" ELSE "done") /\ via[x] = cur
          BY <1>2, <2>1, <3>4 DEF Underway
        <4>2. ~ Has(q, Of({"end"}, x)) /\ (Has(q, Of({"open"}, x)) \/ Known(x))
          BY <2>0, <3>4, <4>1 DEF Queued, Underway
        <4>3. Known(x)' <=> Known(x)
          BY <1>1, <1>2, <3>4 DEF Known, Untracked, Underway
        <4>4. ~ Before(p, Of(Later, x), Of({"open"}, x)) /\ ~ Before(p, Of({"end"}, x), Of(Later, x))
          BY <2>0, <3>2, <4>1, <4>2 DEF Queued, Later
        <4>5. /\ Has(p, Of({"open"}, x)) \/ Known(x)'
              /\ Has(p, Of({"end"}, x)) <=> kind = "end"
          BY <3>2, <4>2, <4>3
        <4> HIDE DEF q
        <4> QED BY <1>1, <4>1, <4>4, <4>5 DEF Queued, Underway, Later
      <3> QED BY <1>2, <3>3, <3>4
    <2>2. CASE cur # c
      <3>1. s2c'[cur] = s2c[cur] /\ via'[x] = c
        BY <1>2, <1>4, <2>0, <2>2
      <3>2. ~ Has(s2c[cur], Of(AllKinds, x)) /\ x \notin DOMAIN routes
        BY <1>2, <2>0, <2>2 DEF Sent
      <3>3. /\ ~ Has(s2c[cur], Of({"open"}, x)) /\ ~ Has(s2c[cur], Of({"end"}, x))
            /\ ~ Has(s2c[cur], Of(Later, x))
        BY <3>2, KindsWithin
      <3> QED BY <1>1, <2>0, <2>2, <3>1, <3>2, <3>3 DEF Queued
    <2> QED BY <2>1, <2>2
  <1> QED BY <1>1, <1>5, <1>6 DEF Order

-----------------------------------------------------------------------------
(***************************************************************************)
(* A frame of an item is taken                                             *)
(***************************************************************************)
\* What the steps that take a frame have in common.
Takes(kinds) ==
    /\ Incoming(kinds) /\ Consumed /\ UNCHANGED <<cur, writer, link, rel, phase, form, target, via>>

LEMMA TakeElsewhere ==
    ASSUME Typed, NEW kinds, Takes(kinds), NEW x \in Items, Sent(x), Order(x),
           Head(s2c[cur]) \notin Of({"open", "data", "end"}, x), reached'[x] = reached[x],
           x \in DOMAIN routes' <=> x \in DOMAIN routes,
           x \in DOMAIN routes => routes'[x] = routes[x], lost \subseteq lost'
    PROVE  Sent(x)' /\ Order(x)'
  <1>1. /\ s2c[cur] \in Seq(Frames) /\ s2c[cur] # <<>> /\ s2c'[cur] = Tail(s2c[cur]) /\ cur \in Conns
        /\ \A c \in Conns : c # cur => s2c'[c] = s2c[c]
        /\ UNCHANGED <<cur, link, rel, phase, form, target, via>>
    BY TakenTypes DEF Takes
  <1>2. /\ Alike(s2c'[cur], s2c[cur], x)
        /\ Has(s2c'[cur], Of(AllKinds, x)) => Has(s2c[cur], Of(AllKinds, x))
    BY <1>1, AlikeTail
  <1>3. \A c \in Conns : Has(s2c'[c], Of(AllKinds, x)) => Has(s2c[c], Of(AllKinds, x))
    BY <1>1, <1>2
  <1>4. phase'[x] \in Underway => rel'[via[x]] = "open"
    BY <1>1 DEF Sent
  <1>5. Known(x) => Known(x)'
    BY <1>1 DEF Known, Untracked
  <1> QED BY <1>1, <1>2, <1>3, <1>4, <1>5, Carried

\* The item of the frame: where it belongs, ...
LEMMA TakeOwnSent ==
    ASSUME Typed, NEW kinds, Takes(kinds), NEW x \in Items, Sent(x),
           Head(s2c[cur]) \in Of(AllKinds, x),
           Home(x) => /\ reached'[x] \subseteq Homes(x)
                      /\ x \in DOMAIN routes' => routes'[x] \in Homes(x)
    PROVE  Sent(x)' /\ phase[x] # "new" /\ target[x] \in Tunnels
  <1>1. /\ s2c[cur] \in Seq(Frames) /\ s2c[cur] # <<>> /\ s2c'[cur] = Tail(s2c[cur]) /\ cur \in Conns
        /\ \A c \in Conns : c # cur => s2c'[c] = s2c[c]
        /\ UNCHANGED <<cur, link, rel, phase, form, target, via>>
    BY TakenTypes DEF Takes
  <1>2. \A A : Has(s2c[cur], A) <=> Has(s2c'[cur], A) \/ Head(s2c[cur]) \in A
    BY <1>1, HasTail
  <1>3. via[x] = cur /\ phase[x] # "new" /\ target[x] \in Tunnels
    BY <1>1, <1>2 DEF Sent
  <1>4. \A c \in Conns : Has(s2c'[c], Of(AllKinds, x)) => via[x] = c
    BY <1>1, <1>2 DEF Sent
  <1>5. (Home(x)' <=> Home(x)) /\ Homes(x)' = Homes(x)
    BY <1>1 DEF Home, Homes
  <1>6. Sent(x)'
    BY <1>1, <1>3, <1>4, <1>5 DEF Sent
  <1> QED BY <1>3, <1>6

\* ... whether its route is there, ...
LEMMA TakeOwnKnown ==
    ASSUME Typed, NEW kinds, Takes(kinds), NEW x \in Items, Order(x), NEW kind \in {"open", "data", "end"},
           Head(s2c[cur]) \in Of({kind}, x)
    PROVE  /\ kind \in Later => Known(x)
           /\ kind = "end" => phase[x] = "done" /\ ~ Has(s2c'[cur], Of(Later, x))
           /\ kind \in Later => ~ Has(s2c'[cur], Of({"open"}, x))
           /\ kind # "end" => (Has(s2c'[cur], Of({"end"}, x)) <=> Has(s2c[cur], Of({"end"}, x)))
           /\ \A A : Has(s2c'[cur], A) => Has(s2c[cur], A)
           /\ \A A, B : Before(s2c'[cur], A, B) => Before(s2c[cur], A, B)
           /\ Has(s2c[cur], Of({kind}, x)) /\ Queued(s2c[cur], x)
  <1>1. /\ s2c[cur] \in Seq(Frames) /\ s2c[cur] # <<>> /\ s2c'[cur] = Tail(s2c[cur]) /\ cur \in Conns
        /\ link[cur] = "up"
    BY TakenTypes DEF Takes
  <1>2. Queued(s2c[cur], x)
    BY <1>1, MultiConstants DEF Order
  <1>3. \A A : Has(s2c[cur], A) <=> Has(s2c'[cur], A) \/ Head(s2c[cur]) \in A
    BY <1>1, HasTail
  <1>4. /\ \A A, B : Before(s2c'[cur], A, B) => Before(s2c[cur], A, B)
        /\ \A A, B : Head(s2c[cur]) \in A /\ Has(s2c'[cur], B) => Before(s2c[cur], A, B)
    BY <1>1, BeforeTail
  <1>5. /\ Head(s2c[cur]) \in Of({"open"}, x) <=> kind = "open"
        /\ Head(s2c[cur]) \in Of({"end"}, x) <=> kind = "end"
        /\ Head(s2c[cur]) \in Of(Later, x) <=> kind \in Later
    <2>1. Head(s2c[cur]) = ItemFrame(kind, x)
      BY DEF Of
    <2>2. Head(s2c[cur]).kind = kind
      BY FrameForms
    <2> QED BY <2>1, <2>2, FrameForms
  <1>6. kind \in Later => ~ Has(s2c'[cur], Of({"open"}, x)) /\ ~ Has(s2c[cur], Of({"open"}, x))
    BY <1>2, <1>3, <1>4, <1>5 DEF Queued, Later
  <1>7. kind \in Later => Known(x)
    BY <1>2, <1>3, <1>5, <1>6 DEF Queued
  <1>8. kind = "end" => phase[x] = "done" /\ ~ Has(s2c'[cur], Of(Later, x))
    BY <1>2, <1>3, <1>4, <1>5 DEF Queued
  <1> QED BY <1>2, <1>3, <1>4, <1>5, <1>6, <1>7, <1>8

\* ... and what stays of it in the queue.
LEMMA TakeOwnOrder ==
    ASSUME Typed, NEW kinds, Takes(kinds), NEW x \in Items, Order(x), NEW kind \in {"open", "data", "end"},
           Head(s2c[cur]) \in Of({kind}, x), kind # "end" => Known(x)',
           kind = "end" => x \notin DOMAIN routes',
           kind = "data" /\ x \in DOMAIN routes' => x \in DOMAIN routes
    PROVE  Order(x)'
  <1>1. /\ kind = "end" => phase[x] = "done" /\ ~ Has(s2c'[cur], Of(Later, x))
        /\ kind \in Later => ~ Has(s2c'[cur], Of({"open"}, x))
        /\ kind # "end" => (Has(s2c'[cur], Of({"end"}, x)) <=> Has(s2c[cur], Of({"end"}, x)))
        /\ \A A : Has(s2c'[cur], A) => Has(s2c[cur], A)
        /\ \A A, B : Before(s2c'[cur], A, B) => Before(s2c[cur], A, B)
        /\ Has(s2c[cur], Of({kind}, x)) /\ Queued(s2c[cur], x)
    BY TakeOwnKnown
  <1>2. UNCHANGED <<cur, phase, via>>
    BY DEF Takes
  <1>3. CASE kind = "end"
    <2>1. ~ Has(s2c'[cur], Of({"end"}, x))
      BY <1>1, <1>3, KindsWithin
    <2> QED BY <1>1, <1>2, <1>3, <2>1 DEF Order, Queued, Later, Underway
  <1>4. CASE kind = "data"
    BY <1>1, <1>2, <1>4 DEF Order, Queued, Later
  <1>5. CASE kind = "open"
    BY <1>1, <1>2, <1>5 DEF Order, Queued
  <1> QED BY <1>3, <1>4, <1>5

\* The frame at the head is of one item and of one kind.
LEMMA HeadOf ==
    ASSUME Typed, NEW kinds, Takes(kinds), kinds \subseteq AllKinds, NEW y, y = Head(s2c[cur]).item
    PROVE  /\ y \in Items /\ Head(s2c[cur]).kind \in kinds
           /\ Head(s2c[cur]) \in Of({Head(s2c[cur]).kind}, y) /\ Head(s2c[cur]) \in Of(AllKinds, y)
           /\ \A x : \A ks : Head(s2c[cur]) \in Of(ks, x) => x = y /\ Head(s2c[cur]).kind \in ks
  <1>1. Head(s2c[cur]) \in Frames /\ Head(s2c[cur]).kind \in kinds
    BY TakenTypes DEF Takes
  <1>2. y \in Items /\ Head(s2c[cur]) = ItemFrame(Head(s2c[cur]).kind, y)
    BY <1>1, FrameForms
  <1>3. Head(s2c[cur]) \in Of({Head(s2c[cur]).kind}, y) /\ Head(s2c[cur]) \in Of(AllKinds, y)
    BY <1>1, <1>2, FrameForms
  <1>4. \A x : \A ks : Head(s2c[cur]) \in Of(ks, x) => x = y /\ Head(s2c[cur]).kind \in ks
    BY FrameForms
  <1> QED BY <1>1, <1>2, <1>3, <1>4

LEMMA AckedKeeps ==
    ASSUME Typed, ItemInv, Acked \/ (LoopFails /\ Incoming({"close", "error", "bad"}) /\ Consumed)
    PROVE  ItemInv'
  <1>1. /\ Takes({"ack", "close", "error", "bad"}) /\ UNCHANGED <<routes, reached, lost>>
    BY DEF Acked, LoopFails, Leave, Takes, Incoming, relayVars, history
  <1>2. \A x : Head(s2c[cur]) \notin Of({"open", "data", "end"}, x)
    <2>1. Head(s2c[cur]).kind \in {"ack", "close", "error", "bad"}
      BY <1>1 DEF Takes, Incoming
    <2> QED BY <2>1, FrameForms
  <1> QED BY <1>1, <1>2, TakeElsewhere DEF ItemInv

LEMMA DroppedKeeps ==
    ASSUME Typed, ItemInv, Dropped
    PROVE  ItemInv'
  <1>1. PICK y : y = Head(s2c[cur]).item
    OBVIOUS
  <1>2. /\ Takes(ItemKinds) /\ ItemKinds \subseteq AllKinds /\ UNCHANGED <<routes, reached>>
        /\ lost \subseteq lost' /\ (Head(s2c[cur]).kind = "open" => y \in lost')
    BY <1>1 DEF Dropped, Takes, relayVars, clientVars, AllKinds
  <1>3. DOMAIN routes = {}
    BY DEF Dropped, Typed, SessionOK, Routing
  <1>4. /\ y \in Items /\ Head(s2c[cur]).kind \in ItemKinds
        /\ Head(s2c[cur]) \in Of({Head(s2c[cur]).kind}, y) /\ Head(s2c[cur]) \in Of(AllKinds, y)
        /\ \A x : \A ks : Head(s2c[cur]) \in Of(ks, x) => x = y /\ Head(s2c[cur]).kind \in ks
    BY <1>1, <1>2, HeadOf
  <1>5. ASSUME NEW x \in Items, x # y \/ Head(s2c[cur]).kind = "request" PROVE Sent(x)' /\ Order(x)'
    <2>1. Head(s2c[cur]) \notin Of({"open", "data", "end"}, x)
      BY <1>4, <1>5
    <2>2. Sent(x) /\ Order(x)
      BY DEF ItemInv
    <2> QED BY <1>2, <2>1, <2>2, TakeElsewhere
  <1>6. ASSUME Head(s2c[cur]).kind # "request" PROVE Sent(y)' /\ Order(y)'
    <2>1. PICK kind \in {"open", "data", "end"} : kind = Head(s2c[cur]).kind
      BY <1>4, <1>6 DEF ItemKinds
    <2>2. Sent(y) /\ Order(y) /\ Head(s2c[cur]) \in Of({kind}, y)
      BY <1>4, <2>1 DEF ItemInv
    <2>3. Home(y) => reached'[y] \subseteq Homes(y)
      BY <1>2, <2>2 DEF Sent
    <2>4. Sent(y)'
      BY <1>2, <1>3, <1>4, <2>2, <2>3, TakeOwnSent
    <2>5. kind \in Later => Known(y)
      BY <1>2, <1>4, <2>2, TakeOwnKnown
    <2>6. kind # "end" => Known(y)'
      BY <1>2, <2>1, <2>5 DEF Known, Untracked, Later, Takes
    <2>7. Order(y)'
      BY <1>2, <1>3, <1>4, <2>2, <2>6, TakeOwnOrder
    <2> QED BY <2>4, <2>7
  <1> QED BY <1>4, <1>5, <1>6 DEF ItemInv

\* The main loop hands what comes for an item to the tunnel it is for.
LEMMA RoutingKeeps ==
    ASSUME Typed, ItemInv,
           \/ HandleRequest \/ HandleStart \/ HandleOpen \/ HandleData \/ HandleEnd
           \/ (LoopFails /\ Incoming({"data"}) /\ Consumed)
    PROVE  ItemInv'
  <1>1. PICK y : y = Head(s2c[cur]).item
    OBVIOUS
  <1> DEFINE kind == Head(s2c[cur]).kind
  <1>2. /\ Takes(ItemKinds) /\ ItemKinds \subseteq AllKinds /\ UNCHANGED lost /\ mpc = "running"
    BY DEF HandleRequest, HandleStart, HandleOpen, HandleData, HandleEnd, LoopFails, Leave, Takes,
         routingRest, relayVars, history, AllKinds, ItemKinds, Incoming, Routed
  <1>3. /\ y \in Items /\ Head(s2c[cur]) \in Of({kind}, y) /\ Head(s2c[cur]) \in Of(AllKinds, y)
        /\ \A x : \A ks : Head(s2c[cur]) \in Of(ks, x) => x = y /\ kind \in ks
    BY <1>1, <1>2, HeadOf
  <1>4. reached \in [Items -> SUBSET Tunnels] /\ RouteTypes /\ Sent(y) /\ Order(y)
    BY <1>3 DEF Typed, HistoryTypes, ItemInv
  <1>5. ASSUME NEW x \in Items, x # y,
               x \in DOMAIN routes' <=> x \in DOMAIN routes, x \in DOMAIN routes => routes'[x] = routes[x],
               reached'[x] = reached[x]
        PROVE  Sent(x)' /\ Order(x)'
    <2>1. Head(s2c[cur]) \notin Of({"open", "data", "end"}, x)
      BY <1>3, <1>5
    <2>2. Sent(x) /\ Order(x)
      BY DEF ItemInv
    <2> QED BY <1>2, <1>5, <2>1, <2>2, TakeElsewhere
  <1>6. /\ phase[y] # "new" /\ target[y] \in Tunnels /\ (form[y] = "tcp" => target[y] \in Tcp)
        /\ UNCHANGED <<form, target>>
    <2>1. /\ s2c[cur] \in Seq(Frames) /\ s2c[cur] # <<>> /\ cur \in Conns
      BY <1>2, TakenTypes DEF Takes
    <2>2. Has(s2c[cur], Of(AllKinds, y))
      BY <1>3, <2>1, HasTail
    <2> QED BY <1>2, <1>4, <2>1, <2>2 DEF Sent, Takes
  <1>7. /\ contexts = Tunnels /\ TcpContexts = Tcp /\ HttpContexts(target[y]) = {target[y]}
    BY <1>2, <1>6, ContextsFound
  <1>8. ASSUME NEW t, Reach(y, t)
        PROVE  /\ reached'[y] = reached[y] \cup {t}
               /\ \A x \in Items : x # y => reached'[x] = reached[x]
    BY <1>3, <1>4, <1>8 DEF Reach
  <1>9. ASSUME AlongRoute(y) \/ UNCHANGED reached
        PROVE  /\ Home(y) => reached'[y] \subseteq Homes(y)
               /\ \A x \in Items : x # y => reached'[x] = reached[x]
    <2>1. CASE UNCHANGED reached
      BY <1>4, <2>1 DEF Sent
    <2>2. CASE y \in DOMAIN routes /\ Reach(y, routes[y])
      BY <1>4, <1>8, <2>2 DEF Sent
    <2> QED BY <1>9, <2>1, <2>2 DEF AlongRoute
  <1>10. CASE HandleRequest
    <2>1. kind = "request" /\ UNCHANGED routes
      BY <1>10 DEF HandleRequest, Incoming
    <2>2. UNCHANGED reached \/ (target[y] \notin Tcp /\ Reach(y, target[y]))
      BY <1>1, <1>7, <1>10 DEF HandleRequest
    <2>3. /\ Home(y) => reached'[y] \subseteq Homes(y)
          /\ \A x \in Items : x # y => reached'[x] = reached[x]
      BY <1>4, <1>8, <2>2 DEF Sent, Homes
    <2>4. Sent(y)'
      <3>1. Home(y) => (y \in DOMAIN routes' => routes'[y] \in Homes(y))
        BY <1>4, <2>1 DEF Sent
      <3> QED BY <1>2, <1>3, <1>4, <2>3, <3>1, TakeOwnSent
    <2>5. Order(y)'
      <3>1. Head(s2c[cur]) \notin Of({"open", "data", "end"}, y)
        BY <1>3, <2>1
      <3>2. /\ s2c[cur] \in Seq(Frames) /\ s2c[cur] # <<>> /\ s2c'[cur] = Tail(s2c[cur])
            /\ cur \in Conns /\ UNCHANGED <<cur, link, phase, via>>
        BY <1>2, TakenTypes DEF Takes
      <3>3. Alike(s2c'[cur], s2c[cur], y)
        BY <3>1, <3>2, AlikeTail
      <3>4. Known(y)' <=> Known(y)
        BY <1>2, <1>6, <2>1 DEF Known, Untracked
      <3> QED BY <1>4, <2>1, <3>2, <3>3, <3>4 DEF Order, Queued, Alike
    <2> QED BY <1>5, <2>1, <2>3, <2>4, <2>5 DEF ItemInv
  <1>11. ASSUME kind = "open", NEW t, Track(y, t), Reach(y, t), Home(y) => t \in Homes(y)
         PROVE  ItemInv'
    <2>1. Head(s2c[cur]) \in Of({"open"}, y)
      BY <1>3, <1>11
    <2>2. routes' = [z \in DOMAIN routes \cup {y} |-> IF z = y THEN t ELSE routes[z]]
      BY <1>11 DEF Track
    <2>3. Home(y) => reached'[y] \subseteq Homes(y) /\ routes'[y] \in Homes(y)
      BY <1>4, <1>8, <1>11, <2>2 DEF Sent
    <2>4. Sent(y)'
      BY <1>2, <1>3, <1>4, <2>3, TakeOwnSent
    <2>5. Known(y)'
      BY <2>2 DEF Known
    <2>6. Order(y)'
      BY <1>2, <1>3, <1>4, <2>1, <2>5, TakeOwnOrder
    <2>7. \A x \in Items : x # y => /\ x \in DOMAIN routes' <=> x \in DOMAIN routes
                                    /\ x \in DOMAIN routes => routes'[x] = routes[x]
                                    /\ reached'[x] = reached[x]
      BY <1>8, <1>11, <2>2
    <2> QED BY <1>5, <2>4, <2>6, <2>7 DEF ItemInv
  <1>12. CASE HandleStart
    <2>1. kind = "open" /\ form[y] = "http"
      BY <1>1, <1>12 DEF HandleStart, Incoming
    <2>2. CASE target[y] \notin Tcp
      <3>1. Track(y, target[y]) /\ Reach(y, target[y])
        BY <1>1, <1>7, <1>12, <2>2 DEF HandleStart
      <3>2. target[y] \in Homes(y)
        BY <2>2 DEF Homes
      <3> QED BY <1>11, <2>1, <3>1, <3>2
    <2>3. CASE target[y] \in Tcp
      <3>1. UNCHANGED <<routes, reached>>
        BY <1>1, <1>7, <1>12, <2>3 DEF HandleStart
      <3>2. Head(s2c[cur]) \in Of({"open"}, y)
        BY <1>3, <2>1
      <3>3. Home(y) => /\ reached'[y] \subseteq Homes(y)
                       /\ y \in DOMAIN routes' => routes'[y] \in Homes(y)
        BY <1>4, <3>1 DEF Sent
      <3>4. Sent(y)'
        BY <1>2, <1>3, <1>4, <3>3, TakeOwnSent
      <3>5. Known(y)'
        BY <1>6, <2>1, <2>3 DEF Known, Untracked
      <3>6. Order(y)'
        BY <1>2, <1>3, <1>4, <3>2, <3>5, TakeOwnOrder
      <3> QED BY <1>5, <3>1, <3>4, <3>6 DEF ItemInv
    <2> QED BY <2>2, <2>3
  <1>13. CASE HandleOpen
    <2>1. kind = "open" /\ form[y] = "tcp" /\ target[y] \in Tcp
      BY <1>1, <1>6, <1>13 DEF HandleOpen, Incoming
    <2>2. PICK t \in Tcp : Track(y, t) /\ Reach(y, t)
      BY <1>1, <1>7, <1>13, <2>1 DEF HandleOpen
    <2>3. Cardinality(Tcp) = 1 => t = target[y]
      <3>1. IsFiniteSet(Tcp)
        <4>1. IsFiniteSet(1 .. N)
          BY MultiConstants, FS_Interval
        <4> QED BY <4>1, MultiConstants, FS_Subset DEF Tunnels
      <3>2. ASSUME Cardinality(Tcp) = 1 PROVE \E z : Tcp = {z}
        BY <3>1, <3>2, FS_Singleton
      <3> QED BY <2>1, <3>2
    <2>4. Home(y) => t \in Homes(y)
      BY <2>1, <2>3 DEF Home, Homes
    <2> QED BY <1>11, <2>1, <2>2, <2>4
  <1>14. ASSUME kind = "data", UNCHANGED routes, AlongRoute(y) \/ UNCHANGED reached
         PROVE  ItemInv'
    <2>1. Head(s2c[cur]) \in Of({"data"}, y)
      BY <1>3, <1>14
    <2>2. Home(y) => (y \in DOMAIN routes' => routes'[y] \in Homes(y))
      BY <1>4, <1>14 DEF Sent
    <2>3. Sent(y)'
      BY <1>2, <1>3, <1>4, <1>9, <1>14, <2>2, TakeOwnSent
    <2>4. Known(y)
      BY <1>2, <1>3, <1>4, <2>1, TakeOwnKnown DEF Later
    <2>5. Known(y)'
      BY <1>2, <1>6, <1>14, <2>4 DEF Known, Untracked
    <2>6. Order(y)'
      BY <1>2, <1>3, <1>4, <1>14, <2>1, <2>5, TakeOwnOrder
    <2> QED BY <1>5, <1>9, <1>14, <2>3, <2>6 DEF ItemInv
  <1>15. CASE HandleData
    <2>1. kind = "data" /\ UNCHANGED routes /\ AlongRoute(y)
      BY <1>1, <1>15 DEF HandleData, Incoming
    <2> QED BY <1>14, <2>1
  <1>16. CASE LoopFails /\ Incoming({"data"}) /\ Consumed
    <2>1. kind = "data" /\ UNCHANGED routes /\ UNCHANGED reached
      BY <1>16 DEF LoopFails, Leave, Incoming, history
    <2> QED BY <1>14, <2>1
  <1>17. CASE HandleEnd
    <2>1. /\ Head(s2c[cur]) \in Of({"end"}, y) /\ AlongRoute(y)
          /\ routes' = [z \in DOMAIN routes \ {y} |-> routes[z]]
      BY <1>1, <1>3, <1>17 DEF HandleEnd, Clear, Incoming
    <2>2. y \notin DOMAIN routes'
      BY <2>1
    <2>3. Sent(y)'
      BY <1>2, <1>3, <1>4, <1>9, <2>1, <2>2, TakeOwnSent
    <2>4. Order(y)'
      BY <1>2, <1>3, <1>4, <2>1, <2>2, TakeOwnOrder
    <2>5. \A x \in Items : x # y => /\ x \in DOMAIN routes' <=> x \in DOMAIN routes
                                    /\ x \in DOMAIN routes => routes'[x] = routes[x]
      BY <2>1
    <2> QED BY <1>5, <1>9, <2>1, <2>3, <2>4, <2>5 DEF ItemInv
  <1> QED BY <1>10, <1>12, <1>13, <1>15, <1>16, <1>17

-----------------------------------------------------------------------------
(***************************************************************************)
(* The invariant                                                           *)
(***************************************************************************)
LEMMA InvInit ==
    ASSUME Init
    PROVE  Typed /\ ItemInv
  <1>1. /\ \A c \in Conns : s2c[c] = <<>> /\ link[c] = "free" /\ rel[c] = "none"
        /\ DOMAIN routes = {} /\ cur = NoConn /\ mpc = "loop"
    BY DEF Init
  <1>2. 1 \in Tunnels /\ 0 \in 0 .. AttemptMax /\ <<>> \in Seq(Frames)
    BY MultiConstants, BackoffConstants DEF Tunnels
  <1>3. Clients
    BY <1>1, <1>2 DEF Init, Clients, ClientTypes, RouteTypes, ContextsOK, SessionOK, Modes, InSession,
         Shaking, Routing, Final
  <1>4. NetTypes /\ RelayTypes /\ HistoryTypes
    BY <1>2 DEF Init, NetTypes, RelayTypes, HistoryTypes, Phases
  <1>5. Links
    BY <1>1, MultiConstants DEF Links, LinkOK
  <1>6. ASSUME NEW x \in Items PROVE Sent(x) /\ Order(x)
    <2>1. /\ phase[x] = "new" /\ reached[x] = {} /\ x \notin DOMAIN routes
      BY <1>1 DEF Init
    <2>2. \A c \in Conns : \A A : ~ Has(s2c[c], A)
      BY <1>1, EmptyQueue
    <2> QED BY <1>1, <2>1, <2>2 DEF Sent, Order, Underway
  <1> QED BY <1>3, <1>4, <1>5, <1>6 DEF Typed, Clients, Links, ItemInv

LEMMA StepCases ==
    ASSUME [Next]_vars
    PROVE  \/ Cancel \/ StopAtTop \/ SleepEnds \/ ConnectFails \/ (\E c \in Conns : Connect(c))
           \/ SendConnect \/ Acked \/ Dropped \/ HandshakeFails
           \/ HandleRequest \/ HandleStart \/ HandleOpen \/ HandleData \/ HandleEnd
           \/ ShutdownSeen \/ LoopFails \/ DataWritten \/ WriteFails \/ Join
           \/ (\E c \in Conns : WriterEnds(c) \/ WriterFails(c) \/ Exit(c))
           \/ (\E c \in Conns, x \in Items : TaskEnds(c, x))
           \/ (\E c \in Conns : \/ RelayConnect(c) \/ RelayRefuses(c) \/ RelayEnds(c) \/ RelayAborts(c)
                                \/ Break(c) \/ Forget(c))
           \/ (\E c \in Conns, x \in Items : Forward(c, x))
           \/ (\E x \in Items : GiveUp(x)) \/ UNCHANGED vars
  BY DEF Next, Session, Relay, Finished

LEMMA InvNext ==
    ASSUME Typed, ItemInv, [Next]_vars
    PROVE  Typed' /\ ItemInv'
  <1>1. CASE Cancel \/ StopAtTop \/ SleepEnds \/ ConnectFails
    BY <1>1, TypedLoop, QuietSteps
  <1>2. CASE \E c \in Conns : Connect(c)
    BY <1>2, TypedLoop, ConnectKeeps
  <1>3. CASE SendConnect \/ HandshakeFails
    BY <1>3, TypedHandshake, QuietSteps
  <1>4. CASE Acked
    BY <1>4, TypedHandshake, AckedKeeps
  <1>5. CASE Dropped
    BY <1>5, TypedHandshake, DroppedKeeps
  <1>6. CASE HandleRequest \/ HandleStart \/ HandleOpen \/ HandleData \/ HandleEnd
    BY <1>6, TypedRouting, RoutingKeeps
  <1>7. CASE LoopFails
    <2>1. \/ Incoming({"close", "error", "bad"}) /\ Consumed
          \/ Incoming({"data"}) /\ Consumed
          \/ UNCHANGED s2c
      BY <1>7 DEF LoopFails
    <2> QED BY <1>7, <2>1, TypedEnd, AckedKeeps, RoutingKeeps, QuietSteps
  <1>8. CASE \/ ShutdownSeen \/ DataWritten \/ WriteFails \/ Join
             \/ (\E c \in Conns : WriterEnds(c) \/ WriterFails(c) \/ Exit(c))
             \/ (\E c \in Conns, x \in Items : TaskEnds(c, x))
    BY <1>8, TypedEnd, QuietSteps
  <1>9. CASE \E c \in Conns : \/ RelayConnect(c) \/ RelayRefuses(c) \/ RelayEnds(c) \/ RelayAborts(c)
                              \/ Break(c) \/ Forget(c)
    BY <1>9, TypedRelay, RelaySteps
  <1>10. ASSUME NEW c \in Conns, NEW y \in Items, Forward(c, y) PROVE Typed' /\ ItemInv'
    <2>1. Typed'
      BY <1>10, TypedRelay
    <2>2. ASSUME NEW x \in Items PROVE Sent(x)' /\ Order(x)'
      <3>1. Sent(x) /\ Order(x)
        BY DEF ItemInv
      <3> QED BY <1>10, <3>1, ForwardKeepsOwn, ForwardKeepsOthers
    <2> QED BY <2>1, <2>2 DEF ItemInv
  <1>11. CASE \E x \in Items : GiveUp(x)
    BY <1>11, TypedGiveUp, RelaySteps
  <1>12. CASE UNCHANGED vars
    <2>1. Typed'
      BY <1>12, Untouched, Assembled DEF vars, netVars, clientVars, relayVars
    <2> QED BY <1>12, <2>1, QuietSteps
  <1> QED BY <1>1, <1>2, <1>3, <1>4, <1>5, <1>6, <1>7, <1>8, <1>9, <1>10, <1>11, <1>12, StepCases

LEMMA Always == Spec => [](Typed /\ ItemInv)
  BY InvInit, InvNext, PTL DEF Spec

-----------------------------------------------------------------------------
(***************************************************************************)
(* Theorems                                                                *)
(***************************************************************************)
\* The variables keep their types; MultiTunnelManager has a context for exactly the
\* tunnels acknowledged so far, and for all of them in the main loop.
THEOREM TypeCorrect == Spec => []TypeOK
  BY Always, TypesAreTypes, PTL

\* handle_frame gives what comes for a tunnel to the local service of that tunnel
\* only: HTTP requests always, TCP connections when one tunnel is a TCP tunnel.
THEOREM ItemsRoutedHome == Spec => []RoutedHome
  <1>1. ItemInv => RoutedHome
    BY DEF ItemInv, Sent, Home, RoutedHome
  <1> QED BY <1>1, Always, PTL

\* In the main loop, the first frame of every item whose chunk or end arrives was
\* routed, or was read and dropped by wait_for_connect_ack, or began an HTTP request
\* for the name of a TCP tunnel, which is not tracked.
THEOREM RoutesFound == Spec => []RouteFound
  <1>1. Typed /\ ItemInv => RouteFound
    <2> SUFFICES ASSUME Typed, ItemInv, Incoming(Later), NEW x, x = Head(s2c[cur]).item
                 PROVE  Known(x)
      BY DEF RouteFound, Known, Later
    <2>1. /\ cur \in Conns /\ s2c[cur] # <<>> /\ Head(s2c[cur]).kind \in Later
          /\ s2c[cur] \in Seq(Frames) /\ LinkOK(cur)
      BY DEF Incoming, Typed, ClientTypes, NetTypes
    <2>2. Head(s2c[cur]) \in Frames /\ Later \subseteq AllKinds
      BY <2>1, TailPositions DEF Later, AllKinds, ItemKinds
    <2>3. x \in Items /\ Head(s2c[cur]) \in Of(Later, x)
      BY <2>1, <2>2, FrameForms
    <2>4. Queued(s2c[cur], x)
      <3>1. link[cur] = "up"
        BY <2>1 DEF LinkOK
      <3> QED BY <2>1, <2>3, <3>1, MultiConstants DEF ItemInv, Order
    <2>5. Has(s2c[cur], Of(Later, x))
      BY <2>1, <2>3, HasTail
    <2>6. ~ Has(s2c[cur], Of({"open"}, x))
      <3>1. Head(s2c[cur]) \notin Of({"open"}, x)
        BY <2>1, FrameForms DEF Later
      <3>2. ~ Has(Tail(s2c[cur]), Of({"open"}, x))
        BY <2>1, <2>3, <2>4, BeforeTail DEF Queued
      <3> QED BY <2>1, <3>1, <3>2, HasTail
    <2> QED BY <2>4, <2>5, <2>6 DEF Queued
  <1> QED BY <1>1, Always, PTL

\* An entry of http_requests or tcp_connections that is kept in the main loop is of
\* an item the relay is still at, has its end on the way, or was given up.
THEOREM RoutesAreAccounted == Spec => []RoutesAccounted
  <1>1. Typed /\ ItemInv => RoutesAccounted
    <2> SUFFICES ASSUME Typed, ItemInv, Routed, NEW x \in DOMAIN routes, ~ ReadError
                 PROVE  \/ phase[x] \in {"open", "data", "left"}
                        \/ \E i \in 1 .. Len(s2c[cur]) : s2c[cur][i] = ItemFrame("end", x)
      BY DEF RoutesAccounted
    <2>1. cur \in Conns /\ cur # NoConn /\ LinkOK(cur) /\ x \in Items
      BY DEF Routed, Typed, ClientTypes, RouteTypes
    <2>2. link[cur] = "up"
      BY <2>1 DEF LinkOK, ReadError
    <2>3. Queued(s2c[cur], x)
      BY <2>1, <2>2 DEF ItemInv, Order
    <2>4. phase[x] \in {"open", "data", "left"} \/ Has(s2c[cur], Of({"end"}, x))
      BY <2>3 DEF Queued, Underway
    <2> QED BY <2>4 DEF Has, Of
  <1> QED BY <1>1, Always, PTL
=============================================================================
