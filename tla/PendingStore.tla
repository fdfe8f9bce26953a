---------------------------- MODULE PendingStore ----------------------------
(***************************************************************************)
(* The store of HTTP requests that wait for an answer of a tunnel client   *)
(* (expose-server/src/tunnel_manager.rs, PendingStore) together with every *)
(* task that touches it:                                                   *)
(*                                                                         *)
(*   - one proxy handler per HTTP request (proxy/mod.rs), which registers  *)
(*     the request, sends it to the client and awaits a oneshot channel;   *)
(*   - the websocket session of each tunnel (server.rs), which fulfills    *)
(*     requests with the client's responses and at its end closes the      *)
(*     tunnel, draining what is left;                                      *)
(*   - an admin call that disconnects a tunnel, draining it as well;       *)
(*   - the sweeper, which expires requests past their deadline.            *)
(*                                                                         *)
(* The maps are DashMaps and the counters atomics: each single operation   *)
(* on one of them is atomic, a sequence of them is not, and the runtime is *)
(* multi-threaded.  One action below is one such operation.                *)
(***************************************************************************)
EXTENDS Integers, FiniteSets

CONSTANTS
    Requests,       \* request ids; one handler each (Uuid::new_v4 per request)
    Tunnels,        \* tunnel ids
    Disconnected,   \* the tunnels an operator may disconnect through the admin API
    Contested,      \* the tunnels whose subdomain another session may take
    MaxGlobal,      \* PendingRequestConfig.max_global
    MaxPerTunnel,   \* PendingRequestConfig.max_per_tunnel
    Threads         \* worker threads of the tokio runtime

ASSUME RequestsFinite == IsFiniteSet(Requests)
ASSUME TunnelsFinite  == IsFiniteSet(Tunnels)
ASSUME DisconnectedTunnels == Disconnected \cup Contested \subseteq Tunnels
ASSUME LimitsNat      == MaxGlobal \in Nat /\ MaxPerTunnel \in Nat
ASSUME ThreadsPos     == Threads \in Nat \ {0}

VARIABLES
    tunnels,        \* ids the manager's map leads to
    requests,       \* keys of PendingStore.requests
    per_tunnel,     \* PendingStore.per_tunnel, NoEntry where there is no key
    pending_gauge,  \* PendingRequestMetrics.pending_gauge
    tunnel,         \* PendingRequest.tunnel_id: the tunnel a handler resolved
    pc,             \* where each handler stands
    outcome,        \* what the handler returned to its HTTP client
    sent,           \* requests whose frame was queued for the client
    expired,        \* requests whose deadline has passed
    reply,          \* what was sent on each request's oneshot channel
    task,           \* where each worker stands
    cur,            \* the request a worker is removing
    todo,           \* ids a worker collected and has still to remove
    drained         \* requests a close() removed and has still to answer

storeVars   == <<requests, per_tunnel, pending_gauge>>
handlerVars == <<tunnel, pc, outcome, sent>>
workerVars  == <<task, cur, todo, drained>>
vars == <<tunnels, storeVars, handlerVars, expired, reply, workerVars>>

(***************************************************************************)
(* The workers: fulfill() and close() run in the session task of a tunnel, *)
(* one after the other; disconnect_tunnel() runs in an admin handler.      *)
(***************************************************************************)
Fulfiller(t) == <<"fulfill", t>>
Closer(t)    == <<"close", t>>
Admin(t)     == <<"admin", t>>
Sweeper      == <<"sweep">>

Closers(t) == {Closer(t), Admin(t)}
AllClosers == UNION {Closers(t) : t \in Tunnels}
Workers    == {Fulfiller(t) : t \in Tunnels} \cup AllClosers \cup {Sweeper}

NoEntry   == -1
NoRequest == "no request"
NoTunnel  == "no tunnel"

ASSUME NoRequestFresh == NoRequest \notin Requests

HandlerPcs == {"idle", "routed", "global_ok", "tunnel_ok", "inserted",
               "gauged", "sending", "waiting", "done"}
\* From the lookup of the tunnel to the end of register_pending_request the
\* handler does not await: it holds its thread.
Registering == {"routed", "global_ok", "tunnel_ok", "inserted", "gauged"}
TaskPcs == {"idle", "unmapped", "scanning", "loop", "removed", "gauged",
            "emptied", "freed", "replying", "unmapping", "done", "aborted"}
AtRest  == {"idle", "done", "aborted"}
\* Between requests.remove and the hand-over of the removed request.
Holding == {"removed", "gauged", "emptied", "freed"}
Replies  == {"none", "response", "502", "504"}
\* "refused" stands for the answers given before a request is registered (404,
\* 429, 503), "abandoned" for a handler that failed or was dropped after it.
Outcomes == Replies \cup {"refused", "abandoned", "timeout"}

Of(t)    == {r \in Requests : tunnel[r] = t}
Count(t) == IF per_tunnel[t] = NoEntry THEN 0 ELSE per_tunnel[t]

\* fulfill, close, disconnect_tunnel and a sweep do not await either; what
\* runs at the same time is bounded by the threads of the runtime.
BusyHandlers == {r \in Requests : pc[r] \in Registering}
BusyWorkers  == {w \in Workers : task[w] \notin AtRest}
ThreadFree   == Cardinality(BusyHandlers) + Cardinality(BusyWorkers) < Threads

Init ==
    /\ tunnels = Tunnels
    /\ requests = {}
    /\ per_tunnel = [t \in Tunnels |-> NoEntry]
    /\ pending_gauge = 0
    /\ tunnel = [r \in Requests |-> NoTunnel]
    /\ pc = [r \in Requests |-> "idle"]
    /\ outcome = [r \in Requests |-> "none"]
    /\ sent = {}
    /\ expired = {}
    /\ reply = [r \in Requests |-> "none"]
    /\ task = [w \in Workers |-> "idle"]
    /\ cur = [w \in Workers |-> NoRequest]
    /\ todo = [w \in Workers |-> {}]
    /\ drained = [w \in Workers |-> {}]

-----------------------------------------------------------------------------
(***************************************************************************)
(* The handler: proxy_with_state and the register_pending_request it calls *)
(***************************************************************************)
Goto(r, to) ==
    /\ pc' = [pc EXCEPT ![r] = to]
    /\ UNCHANGED <<tunnels, outcome, expired, reply, workerVars>>

Return(r, res) ==
    /\ pc' = [pc EXCEPT ![r] = "done"]
    /\ outcome' = [outcome EXCEPT ![r] = res]
    /\ UNCHANGED <<tunnels, storeVars, tunnel, sent, expired, reply, workerVars>>

Lookup(r, t) ==
    /\ pc[r] = "idle"
    /\ ThreadFree
    /\ t \in tunnels
    /\ tunnel' = [tunnel EXCEPT ![r] = t]
    /\ Goto(r, "routed")
    /\ UNCHANGED <<storeVars, sent>>

NotFound(r, t) ==
    /\ pc[r] = "idle"
    /\ t \notin tunnels
    /\ Return(r, "refused")

\* RequestLimiter::check: the token bucket is outside this module, so either
\* answer is possible.
RateLimited(r) == pc[r] = "routed" /\ Return(r, "refused")

\* Mutant: the limit is compared with one `=` too many.
CheckGlobal_OffByOne(r) ==
    /\ pc[r] = "routed"
    /\ Cardinality(requests) <= MaxGlobal
    /\ Goto(r, "global_ok")
    /\ UNCHANGED <<storeVars, tunnel, sent>>

\* requests.len() adds up the shards one after the other; here it is one read.  The sum
\* has every request that was there before it began and stays, and besides those each
\* thread has at most one registration under way, so the bound of the overshoot is the same.
CheckGlobal(r) ==
    /\ pc[r] = "routed"
    /\ Cardinality(requests) < MaxGlobal
    /\ Goto(r, "global_ok")
    /\ UNCHANGED <<storeVars, tunnel, sent>>

RejectGlobal(r) ==
    /\ pc[r] = "routed"
    /\ Cardinality(requests) >= MaxGlobal
    /\ Return(r, "refused")

CheckTunnel(r) ==
    /\ pc[r] = "global_ok"
    /\ Count(tunnel[r]) < MaxPerTunnel
    /\ Goto(r, "tunnel_ok")
    /\ UNCHANGED <<storeVars, tunnel, sent>>

RejectTunnel(r) ==
    /\ pc[r] = "global_ok"
    /\ Count(tunnel[r]) >= MaxPerTunnel
    /\ Return(r, "refused")

InsertRequest(r) ==
    /\ pc[r] = "tunnel_ok"
    /\ requests' = requests \cup {r}
    /\ Goto(r, "inserted")
    /\ UNCHANGED <<per_tunnel, pending_gauge, tunnel, sent>>

IncrementGauge(r) ==
    /\ pc[r] = "inserted"
    /\ pending_gauge' = pending_gauge + 1
    /\ Goto(r, "gauged")
    /\ UNCHANGED <<requests, per_tunnel, tunnel, sent>>

IncrementTunnel(r) ==
    /\ pc[r] = "gauged"
    /\ per_tunnel' = [per_tunnel EXCEPT ![tunnel[r]] = Count(tunnel[r]) + 1]
    /\ Goto(r, "sending")
    /\ UNCHANGED <<requests, pending_gauge, tunnel, sent>>

\* The body is collected (or streamed) and queued for the tunnel's writer.
SendRequest(r) ==
    /\ pc[r] = "sending"
    /\ sent' = sent \cup {r}
    /\ Goto(r, "waiting")
    /\ UNCHANGED <<storeVars, tunnel>>

\* The body is too large or broken, or the writer is gone: the `?` returns
\* and the entry stays in the store.
SendFails(r) == pc[r] = "sending" /\ Return(r, "abandoned")

\* The HTTP client hangs up and the handler's future is dropped at an await.
ClientGone(r) == pc[r] \in {"sending", "waiting"} /\ Return(r, "abandoned")

\* Mutant: answers other than the client's are discarded.
Receive_ClientOnly(r) ==
    /\ pc[r] = "waiting"
    /\ reply[r] = "response"
    /\ Return(r, reply[r])

Receive(r) ==
    /\ pc[r] = "waiting"
    /\ reply[r] # "none"
    /\ Return(r, reply[r])

\* timeout() starts after the send, so it fires after the store's deadline; it
\* polls the channel first, so an answer that is there wins.
HandlerTimeout(r) ==
    /\ pc[r] = "waiting"
    /\ reply[r] = "none"
    /\ r \in expired
    /\ Return(r, "timeout")

\* Time passes the deadline computed in register_pending_request.
Expire(r) ==
    /\ r \notin expired
    /\ r \in requests \/ pc[r] = "waiting"
    /\ expired' = expired \cup {r}
    /\ UNCHANGED <<tunnels, storeVars, handlerVars, reply, workerVars>>

RegisterStep(r) ==
    \/ RateLimited(r)
    \/ CheckGlobal(r) \/ RejectGlobal(r)
    \/ CheckTunnel(r) \/ RejectTunnel(r)
    \/ InsertRequest(r) \/ IncrementGauge(r) \/ IncrementTunnel(r)

HandlerStep(r) ==
    \/ \E t \in Tunnels : Lookup(r, t) \/ NotFound(r, t)
    \/ RegisterStep(r)
    \/ SendRequest(r) \/ SendFails(r) \/ ClientGone(r)
    \/ Receive(r) \/ HandlerTimeout(r)

-----------------------------------------------------------------------------
(***************************************************************************)
(* PendingStore::remove, run by a worker w for the request r               *)
(***************************************************************************)
Enter(w, to) ==
    /\ task' = [task EXCEPT ![w] = to]
    /\ UNCHANGED <<handlerVars, expired>>

\* Mutant: the request is looked up and not removed.
Take_ByGet(w, r) ==
    /\ cur' = [cur EXCEPT ![w] = r]
    /\ Enter(w, "removed")
    /\ UNCHANGED <<tunnels, storeVars, reply, drained>>

Take(w, r) ==
    /\ requests' = requests \ {r}
    /\ cur' = [cur EXCEPT ![w] = r]
    /\ Enter(w, "removed")
    /\ UNCHANGED <<tunnels, per_tunnel, pending_gauge, reply, drained>>

\* Mutant: fetch_sub instead of the checked update.
DecrementGauge_Unchecked(w) ==
    /\ task[w] = "removed"
    /\ pending_gauge' = pending_gauge - 1
    /\ Enter(w, "gauged")
    /\ UNCHANGED <<tunnels, requests, per_tunnel, reply, cur, todo, drained>>

\* fetch_update with checked_sub: at zero the gauge stays where it is.
DecrementGauge(w) ==
    /\ task[w] = "removed"
    /\ pending_gauge' = IF pending_gauge > 0 THEN pending_gauge - 1 ELSE 0
    /\ Enter(w, "gauged")
    /\ UNCHANGED <<tunnels, requests, per_tunnel, reply, cur, todo, drained>>

\* The entry guard makes read, decrement and test one operation; the removal
\* of an entry that reached zero happens later, without the guard.
DecrementTunnel(w) ==
    /\ task[w] = "gauged"
    /\ LET t    == tunnel[cur[w]]
           left == IF per_tunnel[t] > 0 THEN per_tunnel[t] - 1 ELSE per_tunnel[t]
       IN  /\ per_tunnel' = [per_tunnel EXCEPT ![t] = left]
           /\ Enter(w, IF left = 0 THEN "emptied" ELSE "freed")
    /\ UNCHANGED <<tunnels, requests, pending_gauge, reply, cur, todo, drained>>

RemoveEntry(w) ==
    /\ task[w] = "emptied"
    /\ per_tunnel' = [per_tunnel EXCEPT ![tunnel[cur[w]]] = NoEntry]
    /\ Enter(w, "freed")
    /\ UNCHANGED <<tunnels, requests, pending_gauge, reply, cur, todo, drained>>

\* What the caller does with the request remove() returned: fulfill() and the
\* sweeper answer it at once, close() keeps it until its drain is over.
Answer(w, res, to) ==
    /\ task[w] = "freed"
    /\ reply' = [reply EXCEPT ![cur[w]] = res]
    /\ cur' = [cur EXCEPT ![w] = NoRequest]
    /\ Enter(w, to)
    /\ UNCHANGED <<tunnels, storeVars, todo, drained>>

\* Mutant: the removed request is not pushed to the drained ones.
Drain_Forgets(w) ==
    /\ task[w] = "freed"
    /\ cur' = [cur EXCEPT ![w] = NoRequest]
    /\ Enter(w, "loop")
    /\ UNCHANGED <<tunnels, storeVars, reply, todo, drained>>

Drain(w) ==
    /\ task[w] = "freed"
    /\ drained' = [drained EXCEPT ![w] = @ \cup {cur[w]}]
    /\ cur' = [cur EXCEPT ![w] = NoRequest]
    /\ Enter(w, "loop")
    /\ UNCHANGED <<tunnels, storeVars, reply, todo>>

RemoveStep(w) == DecrementGauge(w) \/ DecrementTunnel(w) \/ RemoveEntry(w)

\* The loops of the sweeper and of a drain: remove what was collected, one by
\* one; an id that someone else removed meanwhile is passed over.
TakeNext(w, r) ==
    /\ task[w] = "loop"
    /\ r \in todo[w] \cap requests
    /\ todo' = [todo EXCEPT ![w] = @ \ {r}]
    /\ Take(w, r)

\* Mutant: remove() lowers the gauge whether or not it removed something.
PassOver_Decrements(w, r) ==
    /\ task[w] = "loop"
    /\ r \in todo[w] \ requests
    /\ todo' = [todo EXCEPT ![w] = @ \ {r}]
    /\ pending_gauge' = IF pending_gauge > 0 THEN pending_gauge - 1 ELSE 0
    /\ UNCHANGED <<tunnels, requests, per_tunnel, handlerVars, expired, reply,
                   task, cur, drained>>

PassOver(w, r) ==
    /\ task[w] = "loop"
    /\ r \in todo[w] \ requests
    /\ todo' = [todo EXCEPT ![w] = @ \ {r}]
    /\ UNCHANGED <<tunnels, storeVars, handlerVars, expired, reply, task, cur, drained>>

(***************************************************************************)
(* ActiveTunnel::fulfill.  The client answers what it was sent; a response *)
(* to a request that has left the store finds no waiter and changes        *)
(* nothing.                                                                *)
(***************************************************************************)
Fulfill(t, r) ==
    /\ task[Fulfiller(t)] = "idle"
    /\ task[Closer(t)] = "idle"
    /\ ThreadFree
    /\ r \in sent \cap requests
    /\ tunnel[r] = t
    /\ Take(Fulfiller(t), r)
    /\ UNCHANGED todo

(***************************************************************************)
(* pending_request_sweeper: one tick with something to expire.  It reads   *)
(* the clock before it iterates, so what it collects had expired then.     *)
(* (expired_total, which it raises at the end, is read by nothing.)        *)
(***************************************************************************)
\* Mutant: the deadline is not looked at.
BeginSweep_Early ==
    /\ task[Sweeper] = "idle"
    /\ ThreadFree
    /\ requests # {}
    /\ todo' = [todo EXCEPT ![Sweeper] = requests]
    /\ Enter(Sweeper, "loop")
    /\ UNCHANGED <<tunnels, storeVars, reply, cur, drained>>

\* Mutant: only requests whose handler still awaits the channel are swept.
BeginSweep_AwaitedOnly ==
    LET due == {r \in requests \cap expired : pc[r] = "waiting"}
    IN  /\ task[Sweeper] = "idle"
        /\ ThreadFree
        /\ due # {}
        /\ todo' = [todo EXCEPT ![Sweeper] = due]
        /\ Enter(Sweeper, "loop")
        /\ UNCHANGED <<tunnels, storeVars, reply, cur, drained>>

BeginSweep ==
    /\ task[Sweeper] = "idle"
    /\ ThreadFree
    /\ requests \cap expired # {}
    /\ todo' = [todo EXCEPT ![Sweeper] = requests \cap expired]
    /\ Enter(Sweeper, "loop")
    /\ UNCHANGED <<tunnels, storeVars, reply, cur, drained>>

EndSweep ==
    /\ task[Sweeper] = "loop"
    /\ todo[Sweeper] = {}
    /\ Enter(Sweeper, "idle")
    /\ UNCHANGED <<tunnels, storeVars, reply, cur, todo, drained>>

(***************************************************************************)
(* ActiveTunnel::close.  drain_for_tunnel collects ids by iterating the    *)
(* map, one shard at a time: it sees every entry of the tunnel that is     *)
(* there all along and may or may not see one inserted meanwhile.  (An     *)
(* entry that goes meanwhile makes no difference: its removal finds        *)
(* nothing.)  Only when all are removed is each answered 502.              *)
(***************************************************************************)
BeginDrain(w, t) ==
    /\ todo' = [todo EXCEPT ![w] = requests \cap Of(t)]
    /\ Enter(w, "scanning")
    /\ UNCHANGED <<tunnels, storeVars, reply, cur, drained>>

EndScan(w, t) ==
    /\ task[w] = "scanning"
    /\ \E late \in SUBSET (requests \cap Of(t)) :
          todo' = [todo EXCEPT ![w] = @ \cup late]
    /\ Enter(w, "loop")
    /\ UNCHANGED <<tunnels, storeVars, reply, cur, drained>>

EndDrain(w) ==
    /\ task[w] = "loop"
    /\ todo[w] = {}
    /\ Enter(w, "replying")
    /\ UNCHANGED <<tunnels, storeVars, reply, cur, todo, drained>>

ReplyDrained(w, r) ==
    /\ task[w] = "replying"
    /\ r \in drained[w]
    /\ drained' = [drained EXCEPT ![w] = @ \ {r}]
    /\ reply' = [reply EXCEPT ![r] = "502"]
    /\ UNCHANGED <<tunnels, storeVars, handlerVars, expired, task, cur, todo>>

EndClose(w, to) ==
    /\ task[w] = "replying"
    /\ drained[w] = {}
    /\ Enter(w, to)
    /\ UNCHANGED <<tunnels, storeVars, reply, cur, todo, drained>>

CloseStep(w, t) ==
    \/ EndScan(w, t)
    \/ \E r \in Requests : TakeNext(w, r) \/ PassOver(w, r) \/ ReplyDrained(w, r)
    \/ RemoveStep(w) \/ Drain(w) \/ EndDrain(w)

(***************************************************************************)
(* The end of a session, and the admin call that disconnects a tunnel      *)
(***************************************************************************)
\* The read loop ends in order and the cleanup starts with handle.close().
BeginClose(t) ==
    /\ task[Closer(t)] = "idle"
    /\ task[Fulfiller(t)] = "idle"
    /\ ThreadFree
    /\ BeginDrain(Closer(t), t)

\* Then the session removes its tunnel from the manager's map.
SessionUnmap(t) ==
    /\ task[Closer(t)] = "unmapping"
    /\ tunnels' = tunnels \ {t}
    /\ Enter(Closer(t), "done")
    /\ UNCHANGED <<storeVars, reply, cur, todo, drained>>

\* A `?` in the read loop: handle_socket returns without any cleanup, and the
\* tunnel stays in the manager's map.
SessionAborts(t) ==
    /\ task[Closer(t)] = "idle"
    /\ task[Fulfiller(t)] = "idle"
    /\ Enter(Closer(t), "aborted")
    /\ UNCHANGED <<tunnels, storeVars, reply, cur, todo, drained>>

\* Another session inserts its tunnel under the same subdomain, or the cleanup
\* of one removes that name (module TunnelRegistry): the tunnel leaves the map
\* and its own session is not told.
Displaced(t) ==
    /\ t \in tunnels \cap Contested
    /\ tunnels' = tunnels \ {t}
    /\ UNCHANGED <<storeVars, handlerVars, expired, reply, workerVars>>

\* disconnect_tunnel unmaps the tunnel first and closes it then.
AdminUnmap(t) ==
    /\ task[Admin(t)] = "idle"
    /\ ThreadFree
    /\ t \in tunnels \cap Disconnected
    /\ tunnels' = tunnels \ {t}
    /\ Enter(Admin(t), "unmapped")
    /\ UNCHANGED <<storeVars, reply, cur, todo, drained>>

AdminBeginClose(t) == task[Admin(t)] = "unmapped" /\ BeginDrain(Admin(t), t)

FulfillStep(t) ==
    RemoveStep(Fulfiller(t)) \/ Answer(Fulfiller(t), "response", "idle")

SessionCloseStep(t) ==
    CloseStep(Closer(t), t) \/ EndClose(Closer(t), "unmapping") \/ SessionUnmap(t)

AdminCloseStep(t) ==
    AdminBeginClose(t) \/ CloseStep(Admin(t), t) \/ EndClose(Admin(t), "done")

TunnelStep(t) ==
    \/ \E r \in Requests : Fulfill(t, r)
    \/ FulfillStep(t)
    \/ BeginClose(t) \/ SessionCloseStep(t) \/ SessionAborts(t)
    \/ Displaced(t)
    \/ AdminUnmap(t) \/ AdminCloseStep(t)

SweepStep ==
    \/ BeginSweep \/ EndSweep
    \/ \E r \in Requests : TakeNext(Sweeper, r) \/ PassOver(Sweeper, r)
    \/ RemoveStep(Sweeper) \/ Answer(Sweeper, "504", "loop")

-----------------------------------------------------------------------------
\* Every handler has returned and nothing is stored or under way.
Quiet ==
    /\ requests = {}
    /\ \A r \in Requests : pc[r] \notin Registering
    /\ \A w \in Workers : task[w] \in AtRest

Terminated ==
    /\ Quiet
    /\ \A r \in Requests : pc[r] = "done"
    /\ UNCHANGED vars

Next ==
    \/ \E r \in Requests : HandlerStep(r) \/ Expire(r)
    \/ \E t \in Tunnels : TunnelStep(t)
    \/ SweepStep
    \/ Terminated

Spec == Init /\ [][Next]_vars

(***************************************************************************)
(* Fairness.  The runtime polls every runnable task, the clock advances    *)
(* and the interval of the sweeper ticks as long as the manager lives, so  *)
(* the sweeper, a remove() or drain under way and a handler whose channel  *)
(* or timer is ready make progress.  Nothing is assumed of the client, of  *)
(* the HTTP caller, of the session, or of the body and the send, which may *)
(* stall for ever.                                                         *)
(***************************************************************************)
Fairness ==
    /\ WF_vars(SweepStep)
    /\ \A r \in Requests : /\ WF_vars(Expire(r))
                          /\ WF_vars(RegisterStep(r))
                          /\ WF_vars(Receive(r) \/ HandlerTimeout(r))
    /\ \A t \in Tunnels : /\ WF_vars(FulfillStep(t))
                          /\ WF_vars(SessionCloseStep(t))
                          /\ WF_vars(AdminCloseStep(t))

FairSpec == Spec /\ Fairness

-----------------------------------------------------------------------------
(***************************************************************************)
(* Properties                                                              *)
(***************************************************************************)

\* The variables keep their types, and a worker holds a request exactly while
\* it is between the removal and the hand-over of it.
TypeOK ==
    /\ tunnels \subseteq Tunnels
    /\ requests \subseteq Requests
    /\ per_tunnel \in [Tunnels -> Nat \cup {NoEntry}]
    /\ pending_gauge \in Nat
    /\ tunnel \in [Requests -> Tunnels \cup {NoTunnel}]
    /\ pc \in [Requests -> HandlerPcs]
    /\ outcome \in [Requests -> Outcomes]
    /\ sent \subseteq Requests
    /\ expired \subseteq Requests
    /\ reply \in [Requests -> Replies]
    /\ task \in [Workers -> TaskPcs]
    /\ cur \in [Workers -> Requests \cup {NoRequest}]
    /\ todo \in [Workers -> SUBSET Requests]
    /\ drained \in [Workers -> SUBSET Requests]
    /\ \A r \in Requests :
          pc[r] \notin {"idle", "done"} => tunnel[r] \in Tunnels
    /\ \A w \in Workers : task[w] \in Holding <=> cur[w] \in Requests

\* requests.insert has run for r.
Registered(r) ==
    \/ pc[r] \in {"inserted", "gauged", "sending", "waiting"}
    \/ outcome[r] \in Replies \cup {"abandoned", "timeout"} /\ pc[r] = "done"

\* The workers that hold the sending half of r's oneshot channel.
Holders(r) == {w \in Workers : cur[w] = r \/ r \in drained[w]}

\* However handlers, sessions, admin calls and the sweeper interleave, the
\* channel of a registered request is in exactly one place: in the store, in
\* the hands of exactly one remover, or used for the one answer.  It is never
\* lost (the receiver never sees a dropped sender) and never answered by two.
OnePlace ==
    \A r \in Requests :
        /\ r \in requests => Registered(r) /\ Holders(r) = {} /\ reply[r] = "none"
        /\ reply[r] # "none" => Registered(r) /\ Holders(r) = {}
        /\ Registered(r) => r \in requests \/ Holders(r) # {} \/ reply[r] # "none"
        /\ \A v, w \in Holders(r) : v = w
        /\ Holders(r) # {} => Registered(r)
        /\ \A w \in Workers : ~ (cur[w] = r /\ r \in drained[w])

\* An answer is one the code may give: the client's response only to a request
\* that was sent to it, the sweeper's 504 only past the deadline, close()'s 502
\* only once the request's own tunnel is being closed; and the handler returns
\* what the channel carried.
AnswerJustified ==
    \A r \in Requests :
        /\ reply[r] = "response" => r \in sent
        /\ reply[r] = "504" => r \in expired
        /\ reply[r] = "502" =>
              \E w \in Closers(tunnel[r]) :
                  task[w] \notin {"idle", "unmapped", "aborted"}
        /\ outcome[r] = "timeout" => r \in expired
        /\ outcome[r] \in Replies => outcome[r] \in {"none", reply[r]}

\* max_global is checked before the insert and in another step, so it can be
\* exceeded, but only by the handlers that passed the check at the same time:
\* fewer than there are threads.
GlobalOvershoot == Cardinality(requests) <= MaxGlobal + Threads - 1

\* The pending gauge is raised after the insert and lowered, saturating, after
\* the removal.  Whatever the order, it never reports fewer requests than are
\* pending once the handlers that have inserted have counted as well.
GaugeCovers ==
    (\A r \in Requests : pc[r] # "inserted") => pending_gauge >= Cardinality(requests)

\* An answer is final, and a request that left the store never comes back to it.
SettledForGood ==
    [][\A r \in Requests :
          /\ reply[r] # "none" => reply'[r] = reply[r]
          /\ outcome[r] # "none" => outcome'[r] = outcome[r]
          /\ r \notin requests /\ r \in requests' => ~ Registered(r)]_vars

\* Every stored request is eventually answered, whatever becomes of its handler,
\* its session or its client: the sweeper is the last resort.
EveryRequestAnswered ==
    \A r \in Requests : r \in requests ~> reply[r] # "none"

\* A handler that awaits its answer returns.
EveryWaiterReturns ==
    \A r \in Requests : pc[r] = "waiting" ~> pc[r] = "done"

\* "Maximum pending requests allowed per tunnel." (config.rs:138)
PerTunnelLimit ==
    \A t \in Tunnels : Cardinality(requests \cap Of(t)) <= MaxPerTunnel
=============================================================================
