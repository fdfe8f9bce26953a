----------------------------- MODULE TcpForward -----------------------------
(***************************************************************************)
(* A TCP tunnel: callers connect to a listener of the relay, and each of   *)
(* their connections is mirrored by one to the local service.              *)
(*                                                                         *)
(*   - the relay (expose-server/src/tcp_proxy.rs): the accept loop, one    *)
(*     reader task per connection, the connections map, and the arms of    *)
(*     the session's read loop that work on it;                            *)
(*   - the client (expose-client/src/tcp_proxy.rs and handle_frame of      *)
(*     tunnel.rs): the main loop, one task per connect, one reader per     *)
(*     local connection, and its connections map.                          *)
(*                                                                         *)
(* Channel, writer task and websocket of a direction are one FIFO; how a   *)
(* session is torn down is in TunnelSession.  The n-th piece of data of a  *)
(* connection is the number n.  The local service takes what it is sent;   *)
(* a caller may stop reading.                                              *)
(***************************************************************************)
EXTENDS Naturals, Sequences, FiniteSets

CONSTANTS
    Ids,        \* the connections callers make
    UpMax,      \* pieces of data a caller sends
    DownMax,    \* pieces of data the service sends
    Cap,        \* capacity of each direction (64 and the socket's buffers)
    Threads,    \* worker threads of the relay's runtime
    OneShard,   \* whether all ids fall into one shard of the relay's map
    Others,     \* other sessions, whose tunnels share a shard of the relay's tunnels map
    Slow,       \* callers that may stop reading
    Quiet       \* connections without data, whose local connect does not return

NoId == "no id"

ASSUME ForwardConstants ==
    /\ UpMax \in Nat /\ DownMax \in Nat
    /\ Cap \in Nat \ {0} /\ Threads \in Nat \ {0}
    /\ OneShard \in BOOLEAN /\ Slow \subseteq Ids /\ Quiet \subseteq Ids
    /\ NoId \notin Ids

VARIABLES
    wire,       \* the websocket: "up" or "down"
    down, up,   \* frames from the relay to the client, and back
    \* callers
    caller,     \* open (at first in the backlog of the listener) or closed
    full,       \* callers whose receive buffer is full
    toCaller,   \* what each caller was sent
    \* the relay
    listening,  \* whether the accept loop runs
    accepting,  \* the connection that handle_connection works on
    sreader,    \* the reader task of each connection
    sread,      \* how much it has read
    sconns,     \* the keys of the connections map
    sloop,      \* the session's read loop
    swriting,   \* the connection it is writing to, whose entry it has locked
    swrote,     \* the piece of data it is writing
    sparked,    \* whether write_all waits for the caller, off its thread
    sblocked,   \* tasks that block a thread, waiting for that lock
    \* the client
    cloop,      \* the main loop
    ctask,      \* handle_connect for each connection
    creader,    \* the reader task of each local connection
    cread,      \* how much it has read
    cconns,     \* the keys of the connections map
    toService,  \* what each local connection was sent
    \* history
    missed,     \* closes of the relay that came before the client's insert
    overtaken   \* connections whose reader was done before the relay's insert

callerVars == <<caller, full, toCaller>>
acceptVars == <<listening, accepting>>
readerVars == <<sreader, sread>>
loopVars   == <<sloop, swriting, swrote, sparked>>
clientVars == <<cloop, ctask, creader, cread, cconns, toService, missed>>
vars == <<wire, down, up, callerVars, acceptVars, readerVars, sconns, loopVars,
          sblocked, clientVars, overtaken>>

ReaderPcs == {"none", "run", "closing", "done", "aborted"}
TaskPcs   == {"none", "connecting", "inserting", "acking", "refusing", "done", "refused"}
Frame(kind, k)    == [kind |-> kind, id |-> k]
Data(k, n)        == [kind |-> "data", id |-> k, n |-> n]
Bye               == [kind |-> "bye"]

\* Tasks that can block a thread: the accept loop, in an insert or on its way out, the
\* readers, and other sessions that register or remove a tunnel.
Stopping == <<"accept", NoId>>
Blockers == ({"accept", "reader"} \X Ids) \cup {Stopping} \cup ({"other"} \X Others)

Init ==
    /\ wire = "up" /\ down = <<>> /\ up = <<>>
    /\ caller = [k \in Ids |-> "open"] /\ full = {}
    /\ toCaller = [k \in Ids |-> <<>>]
    /\ listening = TRUE /\ accepting = NoId
    /\ sreader = [k \in Ids |-> "none"] /\ sread = [k \in Ids |-> 0]
    /\ sconns = {} /\ sloop = "reading" /\ swriting = NoId /\ swrote = 0
    /\ sparked = FALSE /\ sblocked = {}
    /\ cloop = "reading"
    /\ ctask = [k \in Ids |-> "none"]
    /\ creader = [k \in Ids |-> "none"] /\ cread = [k \in Ids |-> 0]
    /\ cconns = {} /\ toService = [k \in Ids |-> <<>>]
    /\ missed = {} /\ overtaken = {}

-----------------------------------------------------------------------------
(***************************************************************************)
(* Sending: both channels are bounded, and fail once their writer is gone. *)
(***************************************************************************)
\* Mutant: the relay's channel is unbounded.
SendDown_Unbounded(f) == wire = "up" /\ down' = Append(down, f)

SendDown(f) == wire = "up" /\ Len(down) < Cap /\ down' = Append(down, f)
SendUp(f)   == wire = "up" /\ Len(up) < Cap /\ up' = Append(up, f)
LostDown    == wire = "down" /\ UNCHANGED down
LostUp      == wire = "down" /\ UNCHANGED up

\* Bound: a behaviour has one of the three disturbances, a broken websocket, a
\* failed accept or a user who stops the client.
Undisturbed == wire = "up" /\ listening /\ Stopping \notin sblocked /\ cloop # "left"

\* The websocket is lost with what is under way.
WireBreaks ==
    /\ Undisturbed
    /\ wire' = "down" /\ down' = <<>> /\ up' = <<>>
    /\ UNCHANGED <<callerVars, acceptVars, readerVars, sconns, loopVars, sblocked,
                   clientVars, overtaken>>

-----------------------------------------------------------------------------
(***************************************************************************)
(* Callers                                                                 *)
(***************************************************************************)
CallerCloses(k) ==
    /\ caller[k] = "open"
    /\ caller' = [caller EXCEPT ![k] = "closed"]
    /\ full' = full \ {k}
    /\ UNCHANGED <<wire, down, up, toCaller, acceptVars, readerVars, sconns, loopVars,
                   sblocked, clientVars, overtaken>>

\* A caller stops reading, or reads again; it matters while the relay writes to it.
\* The write then waits without a thread.
CallerStalls(k) ==
    /\ k \in Slow /\ caller[k] = "open" /\ swriting = k
    /\ full' = IF k \in full THEN full \ {k} ELSE full \cup {k}
    /\ sparked' = TRUE
    /\ UNCHANGED <<wire, down, up, caller, toCaller, acceptVars, readerVars, sconns, sloop,
                   swriting, swrote, sblocked, clientVars, overtaken>>

-----------------------------------------------------------------------------
(***************************************************************************)
(* The relay.  Its map is a DashMap: the guard that handle_client_data     *)
(* keeps while it awaits write_all locks the entry's shard, and a task     *)
(* that needs the shard meanwhile blocks its thread.  The guard of the     *)
(* tunnels map, kept as long, stops other sessions in the same way.        *)
(***************************************************************************)
Locked(k) == swriting # NoId /\ (OneShard \/ swriting = k)

\* The task may use the shard of k now (a blocked one has its thread already).
HasShard(k) == ~ Locked(k)

\* Some thread is neither blocked nor taken by the session, which has one while it writes
\* until write_all has to wait.  Only a lock kept by a write that waits is said to block:
\* while write_all goes on, the others get the lock as soon as it returns.
ThreadFree == Cardinality(sblocked) < IF swriting # NoId /\ ~ sparked THEN Threads - 1 ELSE Threads

\* No thread is left to go on with the write, and so none will be: every thread waits
\* for the lock that the write holds.
Starved == sparked /\ Cardinality(sblocked) = Threads

Accept(k) ==
    /\ listening /\ accepting = NoId /\ Stopping \notin sblocked
    /\ sreader[k] = "none"
    /\ accepting' = k
    /\ UNCHANGED <<wire, down, up, callerVars, listening, readerVars, sconns, loopVars,
                   sblocked, clientVars, overtaken>>

\* handle_connection: TcpConnect is sent, then the reader is started.
Announce(k) ==
    /\ accepting = k /\ sreader[k] = "none"
    /\ \/ SendDown(Frame("connect", k)) /\ sreader' = [sreader EXCEPT ![k] = "run"]
          /\ UNCHANGED accepting
       \/ LostDown /\ sreader' = [sreader EXCEPT ![k] = "done"] /\ accepting' = NoId
    /\ UNCHANGED <<wire, up, callerVars, listening, sread, sconns, loopVars, sblocked,
                   clientVars, overtaken>>

\* handle_connection: only then the connection goes into the map.
Insert(k) ==
    /\ accepting = k /\ sreader[k] # "none" /\ HasShard(k)
    /\ sconns' = sconns \cup {k}
    /\ accepting' = NoId
    /\ overtaken' = IF sreader[k] = "done" THEN overtaken \cup {k} ELSE overtaken
    /\ sblocked' = sblocked \ {<<"accept", k>>}
    /\ UNCHANGED <<wire, down, up, callerVars, listening, readerVars, loopVars, clientVars>>

InsertBlocks(k) ==
    /\ accepting = k /\ sreader[k] # "none" /\ Locked(k) /\ sparked
    /\ <<"accept", k>> \notin sblocked
    /\ sblocked' = sblocked \cup {<<"accept", k>>}
    /\ UNCHANGED <<wire, down, up, callerVars, acceptVars, readerVars, sconns, loopVars,
                   clientVars, overtaken>>

\* The accept loop is left and aborts the readers it finds in the map.
StopListening ==
    /\ listening /\ accepting = NoId /\ swriting = NoId
    /\ listening' = FALSE
    /\ sreader' = [k \in Ids |-> IF k \in sconns /\ sreader[k] = "run" THEN "aborted"
                                 ELSE sreader[k]]
    /\ sblocked' = sblocked \ {Stopping}
    /\ UNCHANGED <<wire, down, up, callerVars, accepting, sread, sconns, loopVars, clientVars,
                   overtaken>>

\* The token is cancelled: by remove_tunnel, when the session ends in order.
AcceptCancelled == sloop \in {"cancelled", "ended"} /\ StopListening
AcceptFails     == Undisturbed /\ StopListening

\* The loop is left while the map is locked.
AcceptFailBlocks ==
    /\ Undisturbed /\ accepting = NoId /\ swriting # NoId /\ sparked
    /\ sblocked' = sblocked \cup {Stopping}
    /\ UNCHANGED <<wire, down, up, callerVars, acceptVars, readerVars, sconns, loopVars,
                   clientVars, overtaken>>

\* register_tunnel or remove_tunnel of another session, which meets the guard of the
\* tunnels map.
OtherBlocks(o) ==
    /\ swriting # NoId /\ sparked /\ <<"other", o>> \notin sblocked
    /\ sblocked' = sblocked \cup {<<"other", o>>}
    /\ UNCHANGED <<wire, down, up, callerVars, acceptVars, readerVars, sconns, loopVars,
                   clientVars, overtaken>>

OtherGoesOn(o) ==
    /\ swriting = NoId /\ <<"other", o>> \in sblocked
    /\ sblocked' = sblocked \ {<<"other", o>>}
    /\ UNCHANGED <<wire, down, up, callerVars, acceptVars, readerVars, sconns, loopVars,
                   clientVars, overtaken>>

\* read_loop: some bytes, or a send that fails, which leaves the map alone.
ReaderReads(k) ==
    /\ sreader[k] = "run" /\ sread[k] < UpMax /\ k \notin Quiet
    /\ \/ SendDown(Data(k, sread[k] + 1)) /\ sread' = [sread EXCEPT ![k] = @ + 1]
          /\ UNCHANGED sreader
       \/ LostDown /\ sreader' = [sreader EXCEPT ![k] = "done"] /\ UNCHANGED sread
    /\ UNCHANGED <<wire, up, callerVars, acceptVars, sconns, loopVars, sblocked, clientVars,
                   overtaken>>

\* Mutant: the loop is not left after the TcpClose.
ReaderEnds_GoesOn(k) ==
    /\ sreader[k] = "run" /\ caller[k] = "closed"
    /\ SendDown(Frame("close", k)) \/ LostDown
    /\ sreader' = [sreader EXCEPT ![k] = IF sread[k] = UpMax THEN "closing" ELSE @]
    /\ UNCHANGED <<wire, up, callerVars, acceptVars, sread, sconns, loopVars, sblocked,
                   clientVars, overtaken>>

\* Mutant: a read error ends the task without a TcpClose.
ReaderEnds_Silent(k) ==
    /\ sreader[k] = "run" /\ caller[k] = "closed"
    /\ sreader' = [sreader EXCEPT ![k] = "closing"]
    /\ UNCHANGED <<wire, down, up, callerVars, acceptVars, sread, sconns, loopVars, sblocked,
                   clientVars, overtaken>>

\* read_loop: the end of the stream or an error, TcpClose before the removal.
ReaderEnds(k) ==
    /\ sreader[k] = "run" /\ caller[k] = "closed"
    /\ SendDown(Frame("close", k)) \/ LostDown
    /\ sreader' = [sreader EXCEPT ![k] = "closing"]
    /\ UNCHANGED <<wire, up, callerVars, acceptVars, sread, sconns, loopVars, sblocked,
                   clientVars, overtaken>>

ReaderRemoves(k) ==
    /\ sreader[k] = "closing" /\ HasShard(k)
    /\ sconns' = sconns \ {k}
    /\ sreader' = [sreader EXCEPT ![k] = "done"]
    /\ sblocked' = sblocked \ {<<"reader", k>>}
    /\ UNCHANGED <<wire, down, up, callerVars, acceptVars, sread, loopVars, clientVars,
                   overtaken>>

ReaderBlocks(k) ==
    /\ sreader[k] = "closing" /\ Locked(k) /\ sparked
    /\ <<"reader", k>> \notin sblocked
    /\ sblocked' = sblocked \cup {<<"reader", k>>}
    /\ UNCHANGED <<wire, down, up, callerVars, acceptVars, readerVars, sconns, loopVars,
                   clientVars, overtaken>>

-----------------------------------------------------------------------------
(***************************************************************************)
(* The relay's session: the read loop                                      *)
(***************************************************************************)
CanRead == sloop = "reading" /\ swriting = NoId
Arrives(kind) == CanRead /\ up # <<>> /\ Head(up).kind = kind

relayRest == <<wire, down, callerVars, acceptVars, sread, sblocked, clientVars, overtaken>>

\* handle_client_data finds the connection and locks it, or fails, and the `?`
\* of the read loop ends the session.
HandleClientData ==
    /\ Arrives("data")
    /\ up' = Tail(up)
    /\ IF Head(up).id \in sconns
       THEN swriting' = Head(up).id /\ swrote' = Head(up).n /\ sparked' = FALSE /\ UNCHANGED sloop
       ELSE sloop' = "aborted" /\ UNCHANGED <<swriting, swrote, sparked>>
    /\ UNCHANGED <<relayRest, sreader, sconns>>

\* Mutant: a session that is aborted keeps the guard.
FinishWrite_Keeps ==
    /\ swriting # NoId /\ swriting \notin full /\ (sparked => ThreadFree) /\ sloop = "reading"
    /\ \/ /\ toCaller' = [toCaller EXCEPT ![swriting] = Append(@, swrote)]
          /\ swriting' = NoId /\ swrote' = 0 /\ sparked' = FALSE /\ UNCHANGED sloop
       \/ /\ caller[swriting] = "closed"
          /\ sloop' = "aborted" /\ UNCHANGED <<toCaller, swriting, swrote, sparked>>
    /\ UNCHANGED <<wire, down, up, caller, full, acceptVars, readerVars, sconns,
                   sblocked, clientVars, overtaken>>

\* write_all returns, and the locks with it; if it had to wait, it needs a thread again.
\* To a caller that has closed, it may fail.
FinishWrite ==
    /\ swriting # NoId /\ swriting \notin full /\ (sparked => ThreadFree)
    /\ \/ /\ toCaller' = [toCaller EXCEPT ![swriting] = Append(@, swrote)]
          /\ UNCHANGED sloop
       \/ /\ caller[swriting] = "closed"
          /\ sloop' = "aborted" /\ UNCHANGED toCaller
    /\ swriting' = NoId /\ swrote' = 0 /\ sparked' = FALSE
    /\ UNCHANGED <<wire, down, up, caller, full, acceptVars, readerVars, sconns,
                   sblocked, clientVars, overtaken>>

\* handle_client_close: the connection leaves the map and its reader is aborted.
Drop(k) ==
    /\ sconns' = sconns \ {k}
    /\ sreader' = [sreader EXCEPT ![k] = IF k \in sconns /\ @ = "run" THEN "aborted" ELSE @]

HandleClientClose ==
    /\ Arrives("close")
    /\ up' = Tail(up) /\ Drop(Head(up).id)
    /\ UNCHANGED <<loopVars, relayRest>>

\* Mutant: the ack's success is not looked at.
HandleClientAck_Any ==
    /\ Arrives("ack") \/ Arrives("nack")
    /\ up' = Tail(up) /\ Drop(Head(up).id)
    /\ UNCHANGED <<loopVars, relayRest>>

HandleClientAck ==
    /\ Arrives("ack") \/ Arrives("nack")
    /\ up' = Tail(up)
    /\ IF Head(up).kind = "nack" THEN Drop(Head(up).id) ELSE UNCHANGED <<sconns, sreader>>
    /\ UNCHANGED <<loopVars, relayRest>>

\* The client disconnects: remove_tunnel cancels the token ...
Disconnected ==
    /\ Arrives("bye")
    /\ up' = Tail(up) /\ sloop' = "cancelled"
    /\ UNCHANGED <<swriting, swrote, sparked, relayRest, sreader, sconns>>

\* ... and clears the map, which detaches the readers that were not aborted.
Clear ==
    /\ sloop = "cancelled"
    /\ sloop' = "ended" /\ sconns' = {}
    /\ UNCHANGED <<swriting, swrote, sparked, up, relayRest, sreader>>

\* receiver.next() fails: the session returns and leaves everything as it is.
LinkError ==
    /\ CanRead /\ wire = "down"
    /\ sloop' = "aborted"
    /\ UNCHANGED <<swriting, swrote, sparked, up, relayRest, sreader, sconns>>

-----------------------------------------------------------------------------
(***************************************************************************)
(* The client                                                              *)
(***************************************************************************)
relayVars == <<callerVars, acceptVars, readerVars, sconns, loopVars, sblocked, overtaken>>
Delivered(kind) == cloop = "reading" /\ down # <<>> /\ Head(down).kind = kind

\* handle_frame, TcpConnect: a task of its own opens the local connection.
SpawnConnect ==
    /\ Delivered("connect")
    /\ down' = Tail(down)
    /\ ctask' = [ctask EXCEPT ![Head(down).id] = "connecting"]
    /\ UNCHANGED <<wire, up, relayVars, cloop, creader, cread, cconns, toService, missed>>

\* TcpStream::connect returns, and the reader is started ...
LocalConnects(k) ==
    /\ ctask[k] = "connecting" /\ k \notin Quiet
    /\ \/ /\ ctask' = [ctask EXCEPT ![k] = "inserting"]
          /\ creader' = [creader EXCEPT ![k] = "run"]
       \/ ctask' = [ctask EXCEPT ![k] = "refusing"] /\ UNCHANGED creader
    /\ UNCHANGED <<wire, down, up, relayVars, cloop, cread, cconns, toService, missed>>

\* ... before the connection goes into the map, ...
LocalInsert(k) ==
    /\ ctask[k] = "inserting"
    /\ ctask' = [ctask EXCEPT ![k] = "acking"]
    /\ cconns' = cconns \cup {k}
    /\ UNCHANGED <<wire, down, up, relayVars, cloop, creader, cread, toService, missed>>

\* ... and the relay is told.
ReportConnect(k) ==
    /\ \/ ctask[k] = "acking" /\ (SendUp(Frame("ack", k)) \/ LostUp)
          /\ ctask' = [ctask EXCEPT ![k] = "done"]
       \/ ctask[k] = "refusing" /\ (SendUp(Frame("nack", k)) \/ LostUp)
          /\ ctask' = [ctask EXCEPT ![k] = "refused"]
    /\ UNCHANGED <<wire, down, relayVars, cloop, creader, cread, cconns, toService, missed>>

\* Mutant: data of an unknown connection is skipped.
HandleData_Skips ==
    /\ Delivered("data")
    /\ down' = Tail(down)
    /\ toService' = IF Head(down).id \in cconns
                    THEN [toService EXCEPT ![Head(down).id] = Append(@, Head(down).n)] ELSE toService
    /\ UNCHANGED <<cloop, wire, up, relayVars, ctask, creader, cread, cconns, missed>>

\* handle_data: an unknown connection, or a write to a service that has closed,
\* is an error that ends the main loop.
HandleData ==
    /\ Delivered("data")
    /\ down' = Tail(down)
    /\ LET k == Head(down).id
       IN  \/ /\ k \in cconns
              /\ toService' = [toService EXCEPT ![k] = Append(@, Head(down).n)]
              /\ UNCHANGED cloop
           \/ /\ k \notin cconns \/ creader[k] = "done"
              /\ cloop' = "failed" /\ UNCHANGED toService
    /\ UNCHANGED <<wire, up, relayVars, ctask, creader, cread, cconns, missed>>

\* handle_close: a connection that is not in the map yet is not found.
HandleClose ==
    /\ Delivered("close")
    /\ down' = Tail(down)
    /\ LET k == Head(down).id
       IN  /\ cconns' = cconns \ {k}
           /\ creader' = [creader EXCEPT ![k] = IF k \in cconns /\ @ = "run" THEN "aborted" ELSE @]
           /\ missed' = IF ctask[k] \in {"connecting", "inserting"} THEN missed \cup {k} ELSE missed
    /\ UNCHANGED <<wire, up, relayVars, cloop, ctask, cread, toService>>

\* read_loop of the client.
LocalReads(k) ==
    /\ creader[k] = "run" /\ cread[k] < DownMax
    /\ \/ SendUp(Data(k, cread[k] + 1)) /\ cread' = [cread EXCEPT ![k] = @ + 1]
          /\ UNCHANGED creader
       \/ LostUp /\ creader' = [creader EXCEPT ![k] = "done"] /\ UNCHANGED cread
    /\ UNCHANGED <<wire, down, relayVars, cloop, ctask, cconns, toService, missed>>

\* The service closes: TcpClose.  A read error ends the task without one.
\* Either way the entry stays in the client's map.
LocalEnds(k) ==
    /\ creader[k] = "run"
    /\ SendUp(Frame("close", k)) \/ LostUp \/ UNCHANGED up
    /\ creader' = [creader EXCEPT ![k] = "done"]
    /\ UNCHANGED <<wire, down, relayVars, cloop, ctask, cread, cconns, toService, missed>>

\* The user stops the client: a Disconnect is sent and the main loop is left.
Shutdown ==
    /\ cloop = "reading" /\ Undisturbed
    /\ SendUp(Bye)
    /\ cloop' = "left"
    /\ UNCHANGED <<wire, down, relayVars, ctask, creader, cread, cconns, toService, missed>>

ReadError ==
    /\ cloop = "reading" /\ wire = "down"
    /\ cloop' = "failed"
    /\ UNCHANGED <<wire, down, up, relayVars, ctask, creader, cread, cconns, toService, missed>>

-----------------------------------------------------------------------------
AcceptTask  == \/ AcceptCancelled
               \/ \E k \in Ids : Accept(k) \/ Announce(k) \/ Insert(k) \/ InsertBlocks(k)
ReaderCloses(k) == ReaderEnds(k) \/ ReaderRemoves(k) \/ ReaderBlocks(k)
SessionTask == \/ HandleClientData \/ HandleClientClose \/ HandleClientAck \/ Disconnected
                \/ Clear \/ LinkError

\* A task of the relay runs on a thread that is not blocked; a task that was
\* blocked goes on when its lock is free.
Unblocks == \/ \E k \in Ids : \/ <<"accept", k>> \in sblocked /\ Insert(k)
                              \/ <<"reader", k>> \in sblocked /\ ReaderRemoves(k)
            \/ Stopping \in sblocked /\ StopListening
            \/ \E o \in Others : OtherGoesOn(o)
Relay    == \/ ThreadFree /\ \/ AcceptTask \/ AcceptFails \/ AcceptFailBlocks \/ SessionTask
                              \/ \E k \in Ids : ReaderReads(k) \/ ReaderCloses(k)
                              \/ \E o \in Others : OtherBlocks(o)
            \/ FinishWrite \/ Unblocks

MainLoop == SpawnConnect \/ HandleData \/ HandleClose \/ ReadError
ConnectTask(k) == LocalConnects(k) \/ LocalInsert(k) \/ ReportConnect(k)
Client   == MainLoop \/ Shutdown \/ \E k \in Ids : ConnectTask(k) \/ LocalReads(k) \/ LocalEnds(k)

Callers  == \E k \in Ids : CallerCloses(k) \/ CallerStalls(k)

Next == Relay \/ Client \/ Callers \/ WireBreaks

Spec == Init /\ [][Next]_vars

\* Ready tasks are run, on the relay as long as it has a thread left.  Nothing is
\* assumed of the callers, the service, the user and the network.
Fairness ==
    /\ WF_vars(ThreadFree /\ SessionTask) /\ WF_vars(ThreadFree /\ AcceptTask)
    /\ WF_vars(FinishWrite) /\ WF_vars(Unblocks) /\ WF_vars(MainLoop)
    /\ \A k \in Ids : WF_vars(ThreadFree /\ ReaderCloses(k)) /\ WF_vars(ConnectTask(k))

FairSpec == Spec /\ Fairness

-----------------------------------------------------------------------------
(***************************************************************************)
(* Properties                                                              *)
(***************************************************************************)
FrameKinds == {"connect", "close", "ack", "nack"}
Frames == [kind : FrameKinds, id : Ids] \cup [kind : {"data"}, id : Ids, n : Nat]
            \cup {Bye}

\* The variables keep their types, a direction holds no more than its capacity,
\* and no more tasks are blocked than the relay has threads.
TypeOK ==
    /\ wire \in {"up", "down"}
    /\ down \in Seq(Frames) /\ up \in Seq(Frames) /\ Len(down) <= Cap /\ Len(up) <= Cap
    /\ caller \in [Ids -> {"open", "closed"}] /\ full \subseteq Slow
    /\ toCaller \in [Ids -> Seq(Nat)] /\ toService \in [Ids -> Seq(Nat)]
    /\ listening \in BOOLEAN /\ accepting \in Ids \cup {NoId}
    /\ sreader \in [Ids -> ReaderPcs] /\ creader \in [Ids -> ReaderPcs]
    /\ sread \in [Ids -> 0 .. UpMax] /\ cread \in [Ids -> 0 .. DownMax]
    /\ sconns \subseteq Ids /\ cconns \subseteq Ids
    /\ sloop \in {"reading", "cancelled", "ended", "aborted"}
    /\ swriting \in Ids \cup {NoId} /\ swrote \in 0 .. DownMax /\ sparked \in BOOLEAN
    /\ sblocked \subseteq Blockers /\ Cardinality(sblocked) <= Threads
    /\ cloop \in {"reading", "left", "failed"} /\ ctask \in [Ids -> TaskPcs]
    /\ missed \subseteq Ids /\ overtaken \subseteq Ids

FirstOf(n) == [i \in 1 .. n |-> i]

\* Each connection carries its bytes whole and in order, both ways, and no other
\* connection's: what arrives at the service and at the caller is always a prefix
\* of what the other one sent.  Data for a connection that is unknown, because its
\* insert is still to come, must therefore end the session and not be skipped.
PrefixDelivered ==
    \A k \in Ids : /\ toService[k] = FirstOf(Len(toService[k])) /\ Len(toService[k]) <= sread[k]
                  /\ toCaller[k] = FirstOf(Len(toCaller[k])) /\ Len(toCaller[k]) <= cread[k]

\* On a live websocket the client's main loop fails over data only for a
\* connection whose local connect is under way or was refused, or which the local
\* service has closed: a TcpClose of the relay is the last it says of a connection.
ClientFailsWithCause ==
    [][cloop' = "failed" /\ cloop # "failed" /\ wire = "up"
        => LET k == Head(down).id
           IN  ctask[k] \in {"connecting", "inserting", "refusing", "refused"} \/ creader[k] = "done"]_vars

\* On a live websocket the relay aborts a session over data only for a connection
\* that is just being inserted, or whose caller has closed.
RelayAbortsWithCause ==
    [][sloop' = "aborted" /\ sloop # "aborted" /\ wire = "up"
        => LET k == IF swriting # NoId THEN swriting ELSE Head(up).id
           IN  accepting = k \/ caller[k] = "closed"]_vars

InTransit(queue, kind, k) == \E i \in 1 .. Len(queue) : queue[i].kind = kind /\ queue[i].id = k

\* What can be left behind while the session lives.  A local connection outlives
\* the relay's only if the service ended it (its entry is never removed) or the
\* close came before the client's insert; and the relay keeps the entry of a
\* connection whose reader is done only if the reader was faster than the insert.
LeaksExplained ==
    wire = "up" /\ sloop = "reading" /\ listening =>
        \A k \in Ids :
            /\ (/\ k \in cconns /\ k \notin sconns /\ accepting # k
                /\ sreader[k] \in {"done", "aborted"} /\ ~ InTransit(down, "close", k))
                   => creader[k] = "done" \/ k \in missed \/ cloop # "reading"
            /\ k \in sconns /\ sreader[k] = "done" => k \in overtaken

\* If every caller reads in the end, the relay gets the threads back that wait for a
\* lock: handle_client_data gives both guards back whatever becomes of the write, and
\* what it locks next does not keep the others out for ever.  But the write may have had
\* to wait, and all threads be blocked before it can go on; then nothing moves again.
ThreadsComeBack ==
    (\A k \in Slow : <>[](k \notin full)) => (sblocked # {} ~> (sblocked = {} \/ Starved))

\* The close of a caller reaches the local connection that is established for it,
\* unless the service ends it first or all threads of the relay are blocked.
CloseReachesService ==
    \A k \in Ids :
        (caller[k] = "closed" /\ sreader[k] = "run" /\ k \in cconns)
            ~> \/ k \notin cconns \/ creader[k] = "done"
               \/ cloop # "reading" \/ sloop # "reading" \/ ~ listening \/ wire = "down"
               \/ Starved
=============================================================================
