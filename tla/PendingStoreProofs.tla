------------------------- MODULE PendingStoreProofs -------------------------
(***************************************************************************)
(* Proofs about PendingStore, for any sets of requests and tunnels, any    *)
(* limits and any number of threads.                                       *)
(***************************************************************************)
EXTENDS PendingStore, FiniteSetTheorems, TLAPS

\* The tasks that act on the store are workers.
LEMMA WorkersOf ==
    /\ Sweeper \in Workers
    /\ \A t \in Tunnels : /\ Fulfiller(t) \in Workers
                          /\ Closer(t) \in Workers
                          /\ Admin(t) \in Workers
  BY DEF Workers, AllClosers, Closers

-----------------------------------------------------------------------------
(***************************************************************************)
(* Type correctness                                                        *)
(***************************************************************************)

LEMMA TypeInit == Init => TypeOK
  BY NoRequestFresh
  DEF Init, TypeOK, HandlerPcs, Outcomes, Replies, TaskPcs, Holding

LEMMA TypeHandler ==
    ASSUME TypeOK, NEW r \in Requests, HandlerStep(r) \/ Expire(r)
    PROVE  TypeOK'
  <1> USE DEF TypeOK, Goto, Return, HandlerPcs, Outcomes, Replies,
              storeVars, handlerVars, workerVars
  <1>1. ASSUME NEW t \in Tunnels, Lookup(r, t) PROVE TypeOK'
    BY <1>1 DEF Lookup
  <1>2. ASSUME NEW t \in Tunnels, NotFound(r, t) PROVE TypeOK'
    BY <1>2 DEF NotFound
  <1>3. CASE RateLimited(r)    BY <1>3 DEF RateLimited
  <1>4. CASE CheckGlobal(r)    BY <1>4 DEF CheckGlobal
  <1>5. CASE RejectGlobal(r)   BY <1>5 DEF RejectGlobal
  <1>6. CASE CheckTunnel(r)    BY <1>6 DEF CheckTunnel
  <1>7. CASE RejectTunnel(r)   BY <1>7 DEF RejectTunnel
  <1>8. CASE InsertRequest(r)  BY <1>8 DEF InsertRequest
  <1>9. CASE IncrementGauge(r) BY <1>9 DEF IncrementGauge
  <1>10. CASE IncrementTunnel(r)
    BY <1>10 DEF IncrementTunnel, Count, NoEntry
  <1>11. CASE SendRequest(r)    BY <1>11 DEF SendRequest
  <1>12. CASE SendFails(r)      BY <1>12 DEF SendFails
  <1>13. CASE ClientGone(r)     BY <1>13 DEF ClientGone
  <1>14. CASE Receive(r)        BY <1>14 DEF Receive
  <1>15. CASE HandlerTimeout(r) BY <1>15 DEF HandlerTimeout
  <1>16. CASE Expire(r)         BY <1>16 DEF Expire
  <1> QED
    BY <1>1, <1>2, <1>3, <1>4, <1>5, <1>6, <1>7, <1>8, <1>9, <1>10, <1>11,
       <1>12, <1>13, <1>14, <1>15, <1>16 DEF HandlerStep, RegisterStep

(***************************************************************************)
(* The steps of a worker, whichever it is                                  *)
(***************************************************************************)
LEMMA TypeRemove ==
    ASSUME TypeOK, NEW w \in Workers,
           RemoveStep(w) \/ Drain(w)
             \/ \E res \in Replies, to \in TaskPcs \ Holding : Answer(w, res, to)
    PROVE  TypeOK'
  <1> USE NoRequestFresh
      DEF TypeOK, Enter, TaskPcs, Holding, storeVars, handlerVars
  <1>1. CASE DecrementGauge(w)  BY <1>1 DEF DecrementGauge
  <1>2. CASE DecrementTunnel(w)
    <2> DEFINE t    == tunnel[cur[w]]
               left == IF per_tunnel[t] > 0 THEN per_tunnel[t] - 1 ELSE per_tunnel[t]
    <2>1. /\ per_tunnel' = [per_tunnel EXCEPT ![t] = left]
          /\ task' = [task EXCEPT ![w] = IF left = 0 THEN "emptied" ELSE "freed"]
          /\ task[w] = "gauged"
          /\ UNCHANGED <<tunnels, requests, pending_gauge, reply, cur, todo, drained,
                         handlerVars, expired>>
      BY <1>2 DEF DecrementTunnel
    <2>2. t \in Tunnels => left \in Nat \cup {NoEntry}
      BY DEF NoEntry
    <2> HIDE DEF t, left
    <2>3. per_tunnel' \in [Tunnels -> Nat \cup {NoEntry}]
      BY <2>1, <2>2
    <2>4. /\ task' \in [Workers -> TaskPcs]
          /\ \A v \in Workers : task'[v] \in Holding <=> cur[v] \in Requests
      BY <2>1
    <2> QED BY <2>1, <2>3, <2>4
  <1>3. CASE RemoveEntry(w)     BY <1>3 DEF RemoveEntry
  <1>4. CASE Drain(w)           BY <1>4 DEF Drain
  <1>5. ASSUME NEW res \in Replies, NEW to \in TaskPcs \ Holding, Answer(w, res, to)
        PROVE  TypeOK'
    BY <1>5 DEF Answer
  <1> QED BY <1>1, <1>2, <1>3, <1>4, <1>5 DEF RemoveStep

LEMMA TypeTake ==
    ASSUME TypeOK, NEW w \in Workers, NEW r \in Requests,
           TakeNext(w, r) \/ PassOver(w, r) \/ ReplyDrained(w, r)
             \/ (r \in requests /\ Take(w, r) /\ UNCHANGED todo)
    PROVE  TypeOK'
  <1> USE DEF TypeOK, Take, Enter, TaskPcs, Holding, storeVars, handlerVars
  <1>1. CASE TakeNext(w, r)     BY <1>1 DEF TakeNext
  <1>2. CASE PassOver(w, r)     BY <1>2 DEF PassOver
  <1>3. CASE ReplyDrained(w, r) BY <1>3 DEF ReplyDrained, Replies
  <1>4. CASE r \in requests /\ Take(w, r) /\ UNCHANGED todo  BY <1>4
  <1> QED BY <1>1, <1>2, <1>3, <1>4

\* Steps that neither take nor give a request.
LEMMA TypeMove ==
    ASSUME TypeOK, NEW w \in Workers, NEW to \in TaskPcs \ Holding,
           task[w] \notin Holding,
           Enter(w, to),
           tunnels' \subseteq Tunnels,
           todo' \in [Workers -> SUBSET Requests],
           UNCHANGED <<storeVars, reply, cur, drained>>
    PROVE  TypeOK'
  BY DEF TypeOK, Enter, storeVars, handlerVars

LEMMA TypeTunnel ==
    ASSUME TypeOK, NEW t \in Tunnels, TunnelStep(t)
    PROVE  TypeOK'
  <1> USE WorkersOf DEF TaskPcs, Holding
  <1>1. ASSUME NEW r \in Requests, Fulfill(t, r) PROVE TypeOK'
    BY <1>1, TypeTake DEF Fulfill
  <1>2. CASE FulfillStep(t)
    BY <1>2, TypeRemove DEF FulfillStep, Replies
  <1>3. ASSUME NEW w \in Closers(t), CloseStep(w, t) PROVE TypeOK'
    <2>1. w \in Workers  BY DEF Closers
    <2>2. CASE EndScan(w, t)
      <3>1. todo' \in [Workers -> SUBSET Requests]
        BY <2>1, <2>2 DEF EndScan, TypeOK, Of
      <3> QED BY <2>1, <2>2, <3>1, TypeMove DEF EndScan, TypeOK
    <2>3. ASSUME NEW r \in Requests, TakeNext(w, r) \/ PassOver(w, r) \/ ReplyDrained(w, r)
          PROVE  TypeOK'
      BY <2>1, <2>3, TypeTake
    <2>4. CASE RemoveStep(w) \/ Drain(w)
      BY <2>1, <2>4, TypeRemove
    <2>5. CASE EndDrain(w)
      BY <2>1, <2>5, TypeMove DEF EndDrain, TypeOK
    <2> QED BY <1>3, <2>2, <2>3, <2>4, <2>5 DEF CloseStep
  <1>4. ASSUME NEW w \in Closers(t), NEW to \in {"unmapping", "done"}, EndClose(w, to)
        PROVE  TypeOK'
    <2>1. w \in Workers  BY DEF Closers
    <2> QED BY <2>1, <1>4, TypeMove DEF EndClose, TypeOK
  <1>5. ASSUME NEW w \in Closers(t), BeginDrain(w, t), task[w] \notin Holding
        PROVE  TypeOK'
    <2>1. w \in Workers  BY DEF Closers
    <2>2. todo' \in [Workers -> SUBSET Requests]
      BY <2>1, <1>5 DEF BeginDrain, TypeOK, Of
    <2> QED BY <2>1, <2>2, <1>5, TypeMove DEF BeginDrain, TypeOK
  <1>6. CASE SessionUnmap(t) \/ SessionAborts(t) \/ AdminUnmap(t)
    BY <1>6, TypeMove DEF SessionUnmap, SessionAborts, AdminUnmap, TypeOK
  <1>10. CASE Displaced(t)
    BY <1>10 DEF Displaced, storeVars, handlerVars, workerVars, TypeOK
  <1>7. Closer(t) \in Closers(t) /\ Admin(t) \in Closers(t)
    BY DEF Closers
  <1>8. CASE BeginClose(t) \/ AdminBeginClose(t)
    BY <1>5, <1>7, <1>8 DEF BeginClose, AdminBeginClose
  <1>9. CASE SessionCloseStep(t) \/ AdminCloseStep(t)
    BY <1>3, <1>4, <1>6, <1>7, <1>8, <1>9 DEF SessionCloseStep, AdminCloseStep
  <1> QED BY <1>1, <1>2, <1>6, <1>8, <1>9, <1>10 DEF TunnelStep

LEMMA TypeSweep ==
    ASSUME TypeOK, SweepStep
    PROVE  TypeOK'
  <1> USE WorkersOf DEF TaskPcs, Holding
  <1>1. CASE BeginSweep
    <2>1. todo' \in [Workers -> SUBSET Requests]
      BY <1>1 DEF BeginSweep, TypeOK
    <2> QED BY <2>1, <1>1, TypeMove DEF BeginSweep, TypeOK
  <1>2. CASE EndSweep
    BY <1>2, TypeMove DEF EndSweep, TypeOK
  <1>3. ASSUME NEW r \in Requests, TakeNext(Sweeper, r) \/ PassOver(Sweeper, r)
        PROVE  TypeOK'
    BY <1>3, TypeTake
  <1>4. CASE RemoveStep(Sweeper) \/ Answer(Sweeper, "504", "loop")
    BY <1>4, TypeRemove DEF Replies
  <1> QED BY <1>1, <1>2, <1>3, <1>4 DEF SweepStep

LEMMA TypeNext == TypeOK /\ [Next]_vars => TypeOK'
  <1> SUFFICES ASSUME TypeOK, [Next]_vars PROVE TypeOK'
    OBVIOUS
  <1>1. CASE UNCHANGED vars
    BY <1>1 DEF vars, storeVars, handlerVars, workerVars, TypeOK
  <1> QED
    BY <1>1, TypeHandler, TypeTunnel, TypeSweep DEF Next, Terminated

\* Every reachable state of the store and its tasks is well typed: in particular
\* the saturating decrement keeps the gauge from going below zero, and a worker
\* holds a request exactly between its removal and its hand-over.
THEOREM TypeCorrect == Spec => []TypeOK
  BY TypeInit, TypeNext, PTL DEF Spec

-----------------------------------------------------------------------------
(***************************************************************************)
(* OnePlace: the channel of a registered request has one owner             *)
(***************************************************************************)

\* A step that moves no request keeps every request where it is.
LEMMA PlaceFrame ==
    ASSUME OnePlace, UNCHANGED <<requests, cur, drained, reply>>,
           \A r \in Requests : Registered(r)' = Registered(r)
    PROVE  OnePlace'
  BY DEF OnePlace, Holders

LEMMA PlaceHandler ==
    ASSUME TypeOK, OnePlace, NEW r \in Requests, HandlerStep(r) \/ Expire(r)
    PROVE  OnePlace'
  <1>1. CASE InsertRequest(r)
    <2>1. /\ pc[r] = "tunnel_ok" /\ pc' = [pc EXCEPT ![r] = "inserted"]
          /\ requests' = requests \cup {r}
          /\ UNCHANGED <<outcome, cur, drained, reply>>
      BY <1>1 DEF InsertRequest, Goto, workerVars
    <2>2. ~ Registered(r) /\ Registered(r)'
      BY <2>1 DEF Registered, TypeOK
    <2>3. \A q \in Requests \ {r} : Registered(q)' = Registered(q)
      BY <2>1 DEF Registered, TypeOK
    <2>4. Holders(r) = {} /\ reply[r] = "none"
      BY <2>2 DEF OnePlace
    <2>5. \A q \in Requests : Holders(q)' = Holders(q)
      BY <2>1 DEF Holders
    <2> QED BY <2>1, <2>2, <2>3, <2>4, <2>5 DEF OnePlace
  <1>2. CASE ~ InsertRequest(r)
    <2>1. UNCHANGED <<requests, cur, drained, reply>>
      BY <1>2 DEF HandlerStep, RegisterStep, Expire, Lookup, NotFound, RateLimited,
           CheckGlobal, RejectGlobal, CheckTunnel, RejectTunnel, IncrementGauge,
           IncrementTunnel, SendRequest, SendFails, ClientGone, Receive,
           HandlerTimeout, Goto, Return, storeVars, workerVars
    <2>2. \A q \in Requests \ {r} : Registered(q)' = Registered(q)
      BY <1>2 DEF HandlerStep, RegisterStep, Expire, Lookup, NotFound, RateLimited,
           CheckGlobal, RejectGlobal, CheckTunnel, RejectTunnel, IncrementGauge,
           IncrementTunnel, SendRequest, SendFails, ClientGone, Receive,
           HandlerTimeout, Goto, Return, handlerVars, Registered, TypeOK
    <2>3. Registered(r)' = Registered(r)
      <3> USE DEF Registered, TypeOK, Goto, Return, Replies
      <3>1. CASE Expire(r)  BY <3>1 DEF Expire, handlerVars
      <3>2. CASE \E t \in Tunnels : Lookup(r, t) \/ NotFound(r, t)
        BY <3>2 DEF Lookup, NotFound
      <3>3. CASE RegisterStep(r)
        BY <1>2, <3>3 DEF RegisterStep, RateLimited, CheckGlobal, RejectGlobal,
             CheckTunnel, RejectTunnel, IncrementGauge, IncrementTunnel
      <3>4. CASE SendRequest(r) \/ SendFails(r) \/ ClientGone(r) \/ HandlerTimeout(r)
        BY <3>4 DEF SendRequest, SendFails, ClientGone, HandlerTimeout
      <3>5. CASE Receive(r)  BY <3>5 DEF Receive
      <3> QED BY <3>1, <3>2, <3>3, <3>4, <3>5 DEF HandlerStep
    <2> QED BY <2>1, <2>2, <2>3, PlaceFrame
  <1> QED BY <1>1, <1>2

(***************************************************************************)
(* What a step of a session, an admin call or the sweeper does to the      *)
(* requests and the gauge                                                  *)
(***************************************************************************)
Takes(w, r) ==
    /\ r \in requests
    /\ task[w] \notin Holding
    /\ requests' = requests \ {r}
    /\ cur' = [cur EXCEPT ![w] = r]
    /\ task' = [task EXCEPT ![w] = "removed"]
    /\ UNCHANGED <<pending_gauge, reply, drained>>

Answers(w) ==
    /\ task[w] = "freed"
    /\ \E res \in Replies \ {"none"} : reply' = [reply EXCEPT ![cur[w]] = res]
    /\ cur' = [cur EXCEPT ![w] = NoRequest]
    /\ \E to \in TaskPcs \ Holding : task' = [task EXCEPT ![w] = to]
    /\ UNCHANGED <<requests, pending_gauge, drained>>

\* Anything else leaves requests where they are and does not enter or leave
\* the point between a removal and its decrement of the gauge.
Moves(w) ==
    /\ \E to \in TaskPcs \ {"removed"} : task' = [task EXCEPT ![w] = to]
    /\ task[w] # "removed"
    /\ UNCHANGED <<requests, pending_gauge, reply, cur, drained>>

WorkerEffect(w) ==
    /\ UNCHANGED handlerVars
    /\ \/ \E r \in Requests : Takes(w, r) \/ ReplyDrained(w, r)
       \/ DecrementGauge(w) \/ Answers(w) \/ Drain(w) \/ Moves(w)
       \/ UNCHANGED <<requests, pending_gauge, reply, cur, drained, task>>

LEMMA RemoveEffect ==
    ASSUME TypeOK, NEW w \in Workers, RemoveStep(w) \/ Drain(w)
    PROVE  WorkerEffect(w)
  <1>1. CASE DecrementGauge(w)
    BY <1>1 DEF DecrementGauge, Enter, WorkerEffect
  <1>2. CASE DecrementTunnel(w)
    BY <1>2 DEF DecrementTunnel, Enter, WorkerEffect, Moves, TaskPcs
  <1>3. CASE RemoveEntry(w)
    BY <1>3 DEF RemoveEntry, Enter, WorkerEffect, Moves, TaskPcs
  <1>4. CASE Drain(w)
    BY <1>4 DEF Drain, Enter, WorkerEffect
  <1> QED BY <1>1, <1>2, <1>3, <1>4 DEF RemoveStep

LEMMA LoopEffect ==
    ASSUME TypeOK, NEW w \in Workers, NEW r \in Requests,
           TakeNext(w, r) \/ PassOver(w, r) \/ ReplyDrained(w, r)
    PROVE  WorkerEffect(w)
  <1>1. CASE TakeNext(w, r)
    BY <1>1 DEF TakeNext, Take, Enter, WorkerEffect, Takes, Holding
  <1>2. CASE PassOver(w, r)
    BY <1>2 DEF PassOver, WorkerEffect, storeVars
  <1>3. CASE ReplyDrained(w, r)
    BY <1>3 DEF ReplyDrained, WorkerEffect
  <1> QED BY <1>1, <1>2, <1>3

LEMMA TunnelEffect ==
    ASSUME TypeOK, NEW t \in Tunnels, TunnelStep(t)
    PROVE  \E w \in Workers : WorkerEffect(w)
  <1> USE WorkersOf
  <1>1. ASSUME NEW r \in Requests, Fulfill(t, r) PROVE WorkerEffect(Fulfiller(t))
    BY <1>1 DEF Fulfill, Take, Enter, WorkerEffect, Takes, Holding
  <1>2. CASE FulfillStep(t)
    <2>1. CASE Answer(Fulfiller(t), "response", "idle")
      BY <2>1 DEF Answer, Enter, WorkerEffect, Answers, Replies, TaskPcs, Holding,
           storeVars
    <2> QED BY <1>2, <2>1, RemoveEffect DEF FulfillStep
  <1>3. ASSUME NEW w \in Closers(t), BeginDrain(w, t), task[w] # "removed"
        PROVE  WorkerEffect(w)
    BY <1>3 DEF BeginDrain, Enter, WorkerEffect, Moves, TaskPcs, storeVars
  <1>4. CASE SessionUnmap(t) \/ SessionAborts(t)
    BY <1>4 DEF SessionUnmap, SessionAborts, Enter, WorkerEffect, Moves, TaskPcs,
         storeVars
  <1>5. CASE AdminUnmap(t)
    BY <1>5 DEF AdminUnmap, Enter, WorkerEffect, Moves, TaskPcs, storeVars
  <1>8. CASE Displaced(t)
    BY <1>8 DEF Displaced, WorkerEffect, storeVars, workerVars
  <1>6. CASE BeginClose(t) \/ AdminBeginClose(t)
    BY <1>3, <1>6 DEF BeginClose, AdminBeginClose, Closers
  <1>7. CASE SessionCloseStep(t) \/ AdminCloseStep(t)
    <2>1. ASSUME NEW w \in Closers(t),
                 CloseStep(w, t) \/ EndClose(w, "unmapping") \/ EndClose(w, "done")
          PROVE  WorkerEffect(w)
      <3>1. w \in Workers  BY DEF Closers
      <3>2. CASE EndScan(w, t) \/ EndDrain(w)
                   \/ EndClose(w, "unmapping") \/ EndClose(w, "done")
        BY <3>2 DEF EndScan, EndDrain, EndClose, Enter, WorkerEffect, Moves, TaskPcs,
             storeVars
      <3> QED BY <2>1, <3>1, <3>2, LoopEffect, RemoveEffect DEF CloseStep
    <2> QED BY <2>1, <1>4, <1>6, <1>7 DEF SessionCloseStep, AdminCloseStep, Closers
  <1> QED BY <1>1, <1>2, <1>4, <1>5, <1>6, <1>7, <1>8 DEF TunnelStep

LEMMA SweepEffect ==
    ASSUME TypeOK, SweepStep
    PROVE  WorkerEffect(Sweeper)
  <1> USE WorkersOf
  <1>1. CASE BeginSweep \/ EndSweep
    BY <1>1 DEF BeginSweep, EndSweep, Enter, WorkerEffect, Moves, TaskPcs, storeVars
  <1>2. CASE Answer(Sweeper, "504", "loop")
    BY <1>2 DEF Answer, Enter, WorkerEffect, Answers, Replies, TaskPcs, Holding,
         storeVars
  <1> QED BY <1>1, <1>2, LoopEffect, RemoveEffect DEF SweepStep

-----------------------------------------------------------------------------
LEMMA PlaceWorker ==
    ASSUME TypeOK, OnePlace, NEW w \in Workers, WorkerEffect(w)
    PROVE  OnePlace'
  <1> USE NoRequestFresh
  <1>1. \A q \in Requests : Registered(q)' = Registered(q)
    BY DEF WorkerEffect, handlerVars, Registered
  <1>2. ASSUME NEW r \in Requests, Takes(w, r) PROVE OnePlace'
    <2>1. /\ r \in requests /\ requests' = requests \ {r}
          /\ cur[w] = NoRequest /\ cur' = [cur EXCEPT ![w] = r]
          /\ UNCHANGED <<reply, drained>>
      BY <1>2 DEF Takes, TypeOK
    <2>2. Registered(r) /\ Holders(r) = {} /\ reply[r] = "none"
      BY <2>1 DEF OnePlace
    <2>3. \A q \in Requests \ {r} : Holders(q)' = Holders(q)
      BY <2>1 DEF Holders, TypeOK
    <2>4. Holders(r)' = {w}
      BY <2>1, <2>2 DEF Holders, TypeOK
    <2>5. r \notin drained[w]
      BY <2>2 DEF Holders
    <2>6. \A q \in Requests, v \in Workers : ~ (cur'[v] = q /\ q \in drained'[v])
      BY <2>1, <2>5 DEF OnePlace, TypeOK
    <2> QED BY <1>1, <2>1, <2>2, <2>3, <2>4, <2>6 DEF OnePlace
  <1>3. ASSUME NEW r \in Requests, ReplyDrained(w, r) PROVE OnePlace'
    <2>1. /\ r \in drained[w] /\ drained' = [drained EXCEPT ![w] = @ \ {r}]
          /\ reply' = [reply EXCEPT ![r] = "502"]
          /\ UNCHANGED <<requests, cur>>
      BY <1>3 DEF ReplyDrained, storeVars
    <2>2. w \in Holders(r)
      BY <2>1 DEF Holders
    <2>3. /\ Registered(r) /\ r \notin requests /\ cur[w] # r
          /\ \A v \in Holders(r) : v = w
      BY <2>1, <2>2 DEF OnePlace
    <2>4. Holders(r)' = {}
      BY <2>1, <2>3 DEF Holders, TypeOK
    <2>5. \A q \in Requests \ {r} : Holders(q)' = Holders(q)
      BY <2>1 DEF Holders, TypeOK
    <2>6. \A q \in Requests, v \in Workers : ~ (cur'[v] = q /\ q \in drained'[v])
      BY <2>1 DEF OnePlace, TypeOK
    <2> QED BY <1>1, <2>1, <2>3, <2>4, <2>5, <2>6 DEF OnePlace, TypeOK, Replies
  <1>4. CASE Answers(w)
    <2>1. cur[w] \in Requests
      BY <1>4 DEF Answers, TypeOK, Holding
    <2>2. PICK res \in Replies \ {"none"} : reply' = [reply EXCEPT ![cur[w]] = res]
      BY <1>4 DEF Answers
    <2>3. cur' = [cur EXCEPT ![w] = NoRequest] /\ UNCHANGED <<requests, drained>>
      BY <1>4 DEF Answers
    <2>4. w \in Holders(cur[w])
      BY DEF Holders
    <2>5. /\ Registered(cur[w]) /\ cur[w] \notin requests /\ cur[w] \notin drained[w]
          /\ \A v \in Holders(cur[w]) : v = w
      BY <2>1, <2>4 DEF OnePlace
    <2>6. \A v \in Workers \ {w} : cur[v] # cur[w] /\ cur[w] \notin drained[v]
      BY <2>5 DEF Holders
    <2>7. \A q \in Requests \ {cur[w]} : Holders(q)' = Holders(q) /\ reply'[q] = reply[q]
      BY <2>2, <2>3 DEF Holders, TypeOK
    <2>8. \A v \in Workers : cur'[v] # cur[w] /\ cur[w] \notin drained'[v]
      BY <2>1, <2>3, <2>5, <2>6 DEF TypeOK
    <2>9. \A q \in Requests : q = cur[w] => Holders(q)' = {} /\ reply'[q] # "none"
      BY <2>1, <2>2, <2>8 DEF Holders, TypeOK
    <2>10. \A q \in Requests, v \in Workers : ~ (cur'[v] = q /\ q \in drained'[v])
      BY <2>3 DEF OnePlace, TypeOK
    <2> QED BY <1>1, <2>3, <2>5, <2>7, <2>9, <2>10 DEF OnePlace
  <1>5. CASE Drain(w)
    <2>1. cur[w] \in Requests
      BY <1>5 DEF Drain, TypeOK, Holding
    <2>2. /\ drained' = [drained EXCEPT ![w] = @ \cup {cur[w]}]
          /\ cur' = [cur EXCEPT ![w] = NoRequest]
          /\ UNCHANGED <<requests, reply>>
      BY <1>5 DEF Drain, storeVars
    <2>3. \A q \in Requests : Holders(q)' = Holders(q)
      BY <2>1, <2>2 DEF Holders, TypeOK
    <2>4. w \in Holders(cur[w])
      BY DEF Holders
    <2>5. \A v \in Workers : cur[v] = cur[w] => v = w
      BY <2>1, <2>4 DEF OnePlace, Holders
    <2>6. \A q \in Requests, v \in Workers : ~ (cur'[v] = q /\ q \in drained'[v])
      BY <2>1, <2>2, <2>5 DEF OnePlace, TypeOK
    <2> QED BY <1>1, <2>2, <2>3, <2>6 DEF OnePlace
  <1>6. CASE UNCHANGED <<requests, reply, cur, drained>>
    BY <1>1, <1>6, PlaceFrame
  <1> QED BY <1>2, <1>3, <1>4, <1>5, <1>6 DEF WorkerEffect, Moves, DecrementGauge

\* Every registered request has exactly one owner at every moment, so that its
\* waiter gets exactly one answer and never a dropped channel: for any number of
\* handlers, sessions, admin calls and threads.
THEOREM OneOwner == Spec => []OnePlace
  <1>1. Init => OnePlace
    BY NoRequestFresh DEF Init, OnePlace, Holders, Registered
  <1>2. TypeOK /\ OnePlace /\ [Next]_vars => OnePlace'
    <2> SUFFICES ASSUME TypeOK, OnePlace, [Next]_vars PROVE OnePlace'
      OBVIOUS
    <2>1. CASE UNCHANGED vars
      BY <2>1, PlaceFrame DEF vars, storeVars, handlerVars, workerVars, Registered
    <2>2. ASSUME NEW t \in Tunnels, TunnelStep(t) PROVE OnePlace'
      BY <2>2, TunnelEffect, PlaceWorker
    <2>3. CASE SweepStep
      BY <2>3, SweepEffect, PlaceWorker, WorkersOf
    <2> QED BY <2>1, <2>2, <2>3, PlaceHandler DEF Next, Terminated
  <1> QED BY <1>1, <1>2, TypeCorrect, PTL DEF Spec

-----------------------------------------------------------------------------
(***************************************************************************)
(* Finiteness: there are finitely many tasks                               *)
(***************************************************************************)
LEMMA WorkersFinite == IsFiniteSet(Workers)
  <1> DEFINE F == {Fulfiller(t) : t \in Tunnels}
             C == {Closer(t) : t \in Tunnels}
             A == {Admin(t) : t \in Tunnels}
  <1>1. IsFiniteSet(F)
    <2>1. [t \in Tunnels |-> Fulfiller(t)] \in Surjection(Tunnels, F)
      BY DEF Surjection
    <2> QED BY <2>1, TunnelsFinite, FS_Surjection
  <1>2. IsFiniteSet(C)
    <2>1. [t \in Tunnels |-> Closer(t)] \in Surjection(Tunnels, C)
      BY DEF Surjection
    <2> QED BY <2>1, TunnelsFinite, FS_Surjection
  <1>3. IsFiniteSet(A)
    <2>1. [t \in Tunnels |-> Admin(t)] \in Surjection(Tunnels, A)
      BY DEF Surjection
    <2> QED BY <2>1, TunnelsFinite, FS_Surjection
  <1>4. Workers = (F \cup (C \cup A)) \cup {Sweeper}
    BY DEF Workers, AllClosers, Closers
  <1> HIDE DEF F, C, A
  <1>5. IsFiniteSet(F \cup (C \cup A))
    BY <1>1, <1>2, <1>3, FS_Union
  <1> QED BY <1>4, <1>5, FS_AddElement

-----------------------------------------------------------------------------
(***************************************************************************)
(* GlobalOvershoot.  The inductive form counts the handlers that passed    *)
(* the check and have not inserted yet: they hold a thread each.           *)
(***************************************************************************)
Admitted == {r \in Requests : pc[r] \in {"global_ok", "tunnel_ok"}}

ThreadBound == Cardinality(BusyHandlers) <= Threads

Overshoot ==
    /\ ThreadBound
    /\ Cardinality(requests) + Cardinality(Admitted) <= MaxGlobal + Threads - 1

\* The sets that are counted are finite.
LEMMA Counted ==
    ASSUME TypeOK
    PROVE  /\ IsFiniteSet(requests) /\ Cardinality(requests) \in Nat
           /\ IsFiniteSet(Admitted) /\ Cardinality(Admitted) \in Nat
           /\ IsFiniteSet(BusyHandlers) /\ Cardinality(BusyHandlers) \in Nat
           /\ Cardinality(BusyWorkers) \in Nat
           /\ Cardinality(Admitted) <= Cardinality(BusyHandlers)
  <1>1. /\ requests \in SUBSET Requests
        /\ BusyHandlers \in SUBSET Requests
        /\ Admitted \in SUBSET BusyHandlers
        /\ BusyWorkers \in SUBSET Workers
    BY DEF TypeOK, BusyHandlers, BusyWorkers, Admitted, Registering
  <1>2. IsFiniteSet(BusyHandlers) /\ IsFiniteSet(requests) /\ IsFiniteSet(BusyWorkers)
    BY <1>1, RequestsFinite, WorkersFinite, FS_Subset
  <1> QED BY <1>1, <1>2, FS_Subset, FS_CardinalityType

LEMMA OvershootShrinks ==
    ASSUME TypeOK, Overshoot, requests' \subseteq requests,
           Admitted' \subseteq Admitted, BusyHandlers' \subseteq BusyHandlers
    PROVE  Overshoot'
  <1>1. /\ Cardinality(requests') <= Cardinality(requests)
        /\ Cardinality(Admitted') <= Cardinality(Admitted)
        /\ Cardinality(BusyHandlers') <= Cardinality(BusyHandlers)
        /\ Cardinality(requests') \in Nat
        /\ Cardinality(Admitted') \in Nat
        /\ Cardinality(BusyHandlers') \in Nat
    BY Counted, FS_Subset, FS_CardinalityType
  <1> QED BY <1>1, Counted, LimitsNat, ThreadsPos DEF Overshoot, ThreadBound

LEMMA OvershootHandler ==
    ASSUME TypeOK, OnePlace, Overshoot, NEW r \in Requests, HandlerStep(r) \/ Expire(r)
    PROVE  Overshoot'
  <1> USE LimitsNat, ThreadsPos
  <1>0. /\ IsFiniteSet(requests) /\ Cardinality(requests) \in Nat
        /\ IsFiniteSet(Admitted) /\ Cardinality(Admitted) \in Nat
        /\ IsFiniteSet(BusyHandlers) /\ Cardinality(BusyHandlers) \in Nat
        /\ Cardinality(BusyWorkers) \in Nat
    BY Counted
  <1>1. ASSUME NEW t \in Tunnels, Lookup(r, t) PROVE Overshoot'
    <2>1. /\ BusyHandlers' = BusyHandlers \cup {r}
          /\ Admitted' = Admitted
          /\ requests' = requests
      BY <1>1 DEF Lookup, Goto, storeVars, BusyHandlers, Admitted, Registering, TypeOK
    <2>2. Cardinality(BusyHandlers) + Cardinality(BusyWorkers) < Threads
      BY <1>1 DEF Lookup, ThreadFree
    <2>3. \/ Cardinality(BusyHandlers \cup {r}) = Cardinality(BusyHandlers)
          \/ Cardinality(BusyHandlers \cup {r}) = Cardinality(BusyHandlers) + 1
      BY <1>0, FS_AddElement
    <2> QED BY <1>0, <2>1, <2>2, <2>3 DEF Overshoot, ThreadBound
  <1>2. CASE CheckGlobal(r)
    <2>1. /\ BusyHandlers' = BusyHandlers
          /\ Admitted' = Admitted \cup {r}
          /\ requests' = requests
          /\ Admitted \cup {r} \in SUBSET BusyHandlers
      BY <1>2 DEF CheckGlobal, Goto, storeVars, BusyHandlers, Admitted, Registering, TypeOK
    <2>2. /\ Cardinality(Admitted \cup {r}) <= Cardinality(BusyHandlers)
          /\ Cardinality(Admitted \cup {r}) \in Nat
      BY <1>0, <2>1, FS_Subset, FS_CardinalityType
    <2> QED BY <1>0, <1>2, <2>1, <2>2 DEF CheckGlobal, Overshoot, ThreadBound
  <1>3. CASE InsertRequest(r)
    <2>1. /\ BusyHandlers' = BusyHandlers
          /\ r \in Admitted /\ Admitted' = Admitted \ {r}
          /\ requests' = requests \cup {r}
      BY <1>3 DEF InsertRequest, Goto, BusyHandlers, Admitted, Registering, TypeOK
    <2>2. Cardinality(Admitted \ {r}) = Cardinality(Admitted) - 1
      BY <1>0, <2>1, FS_RemoveElement
    <2>3. \/ Cardinality(requests \cup {r}) = Cardinality(requests)
          \/ Cardinality(requests \cup {r}) = Cardinality(requests) + 1
      BY <1>0, FS_AddElement
    <2> QED BY <1>0, <2>1, <2>2, <2>3 DEF Overshoot, ThreadBound
  <1>4. ASSUME requests' = requests,
               \A q \in Requests : /\ pc'[q] \in Registering => pc[q] \in Registering
                                   /\ pc'[q] \in {"global_ok", "tunnel_ok"}
                                        => pc[q] \in {"global_ok", "tunnel_ok"}
        PROVE  Overshoot'
    BY <1>4, OvershootShrinks DEF BusyHandlers, Admitted
  <1>5. CASE Expire(r)
    BY <1>4, <1>5 DEF Expire, storeVars, handlerVars
  <1>6. CASE (\E t \in Tunnels : NotFound(r, t)) \/ RateLimited(r) \/ RejectGlobal(r)
                \/ RejectTunnel(r) \/ SendFails(r) \/ ClientGone(r) \/ Receive(r)
                \/ HandlerTimeout(r)
    <2>1. pc' = [pc EXCEPT ![r] = "done"] /\ requests' = requests
      BY <1>6 DEF NotFound, RateLimited, RejectGlobal, RejectTunnel, SendFails,
           ClientGone, Receive, HandlerTimeout, Return, storeVars
    <2> QED BY <2>1, <1>4 DEF TypeOK, Registering
  <1>7. CASE CheckTunnel(r) \/ IncrementGauge(r) \/ IncrementTunnel(r) \/ SendRequest(r)
    BY <1>4, <1>7 DEF CheckTunnel, IncrementGauge, IncrementTunnel, SendRequest, Goto,
         storeVars, Registering, TypeOK
  <1> QED BY <1>1, <1>2, <1>3, <1>5, <1>6, <1>7 DEF HandlerStep, RegisterStep

LEMMA OvershootWorker ==
    ASSUME TypeOK, Overshoot, NEW w \in Workers, WorkerEffect(w)
    PROVE  Overshoot'
  <1>1. requests' \subseteq requests /\ UNCHANGED pc
    BY DEF WorkerEffect, Takes, ReplyDrained, DecrementGauge, Answers, Drain, Moves,
         storeVars, handlerVars
  <1> QED BY <1>1, OvershootShrinks DEF BusyHandlers, Admitted

\* max_global is exceeded by fewer requests than the runtime has threads,
\* whatever their number and whatever the limit.
THEOREM OvershootBounded == Spec => []GlobalOvershoot
  <1> USE LimitsNat, ThreadsPos
  <1>1. Init => Overshoot
    <2> SUFFICES ASSUME Init PROVE Overshoot
      OBVIOUS
    <2>1. requests = {} /\ Admitted = {} /\ BusyHandlers = {}
      BY DEF Init, Admitted, BusyHandlers, Registering
    <2> QED BY <2>1, FS_EmptySet DEF Overshoot, ThreadBound
  <1>2. TypeOK /\ OnePlace /\ Overshoot /\ [Next]_vars => Overshoot'
    <2> SUFFICES ASSUME TypeOK, OnePlace, Overshoot, [Next]_vars PROVE Overshoot'
      OBVIOUS
    <2>1. CASE UNCHANGED vars
      BY <2>1, OvershootShrinks
      DEF vars, storeVars, handlerVars, BusyHandlers, Admitted
    <2>2. ASSUME NEW t \in Tunnels, TunnelStep(t) PROVE Overshoot'
      BY <2>2, TunnelEffect, OvershootWorker
    <2>3. CASE SweepStep
      BY <2>3, SweepEffect, OvershootWorker, WorkersOf
    <2> QED BY <2>1, <2>2, <2>3, OvershootHandler DEF Next, Terminated
  <1>3. TypeOK /\ Overshoot => GlobalOvershoot
    BY Counted DEF Overshoot, GlobalOvershoot
  <1> QED BY <1>1, <1>2, <1>3, TypeCorrect, OneOwner, PTL DEF Spec

-----------------------------------------------------------------------------
(***************************************************************************)
(* GaugeCovers.  The ledger adds what was inserted and not yet counted,    *)
(* and what was removed and not yet counted down.                          *)
(***************************************************************************)
Uncounted   == {r \in Requests : pc[r] = "inserted"}
Uncredited  == {w \in Workers : task[w] = "removed"}

Ledger ==
    pending_gauge + Cardinality(Uncounted) >= Cardinality(requests) + Cardinality(Uncredited)

LEMMA LedgerCounted ==
    ASSUME TypeOK
    PROVE  /\ IsFiniteSet(requests) /\ Cardinality(requests) \in Nat
           /\ IsFiniteSet(Uncounted) /\ Cardinality(Uncounted) \in Nat
           /\ IsFiniteSet(Uncredited) /\ Cardinality(Uncredited) \in Nat
           /\ pending_gauge \in Nat
  <1>1. /\ requests \in SUBSET Requests
        /\ Uncounted \in SUBSET Requests
        /\ Uncredited \in SUBSET Workers
    BY DEF TypeOK, Uncounted, Uncredited
  <1>2. IsFiniteSet(requests) /\ IsFiniteSet(Uncounted) /\ IsFiniteSet(Uncredited)
    BY <1>1, RequestsFinite, WorkersFinite, FS_Subset
  <1> QED BY <1>2, FS_CardinalityType DEF TypeOK

LEMMA LedgerHandler ==
    ASSUME TypeOK, OnePlace, Ledger, NEW r \in Requests, HandlerStep(r) \/ Expire(r)
    PROVE  Ledger'
  <1>0. /\ IsFiniteSet(requests) /\ Cardinality(requests) \in Nat
        /\ IsFiniteSet(Uncounted) /\ Cardinality(Uncounted) \in Nat
        /\ Cardinality(Uncredited) \in Nat
        /\ pending_gauge \in Nat
    BY LedgerCounted
  <1>1. CASE InsertRequest(r)
    <2>1. /\ requests' = requests \cup {r}
          /\ r \notin Uncounted /\ Uncounted' = Uncounted \cup {r}
          /\ Uncredited' = Uncredited /\ pending_gauge' = pending_gauge
      BY <1>1 DEF InsertRequest, Goto, workerVars, Uncounted, Uncredited, TypeOK
    <2>2. r \notin requests
      BY <1>1 DEF InsertRequest, OnePlace, Registered, TypeOK
    <2>3. /\ Cardinality(requests \cup {r}) = Cardinality(requests) + 1
          /\ Cardinality(Uncounted \cup {r}) = Cardinality(Uncounted) + 1
      BY <1>0, <2>1, <2>2, FS_AddElement
    <2> QED BY <1>0, <2>1, <2>3 DEF Ledger
  <1>2. CASE IncrementGauge(r)
    <2>1. /\ requests' = requests
          /\ r \in Uncounted /\ Uncounted' = Uncounted \ {r}
          /\ Uncredited' = Uncredited /\ pending_gauge' = pending_gauge + 1
      BY <1>2 DEF IncrementGauge, Goto, workerVars, Uncounted, Uncredited, TypeOK
    <2>2. Cardinality(Uncounted \ {r}) = Cardinality(Uncounted) - 1
      BY <1>0, <2>1, FS_RemoveElement
    <2> QED BY <1>0, <2>1, <2>2 DEF Ledger
  <1>3. CASE ~ InsertRequest(r) /\ ~ IncrementGauge(r)
    <2>1. UNCHANGED <<requests, pending_gauge, task>>
      BY <1>3 DEF HandlerStep, RegisterStep, Expire, Lookup, NotFound, RateLimited,
           CheckGlobal, RejectGlobal, CheckTunnel, RejectTunnel,
           IncrementTunnel, SendRequest, SendFails, ClientGone, Receive,
           HandlerTimeout, Goto, Return, storeVars, workerVars
    <2>2. \A q \in Requests : pc'[q] = "inserted" <=> pc[q] = "inserted"
      BY <1>3 DEF HandlerStep, RegisterStep, Expire, Lookup, NotFound, RateLimited,
           CheckGlobal, RejectGlobal, CheckTunnel, RejectTunnel,
           IncrementTunnel, SendRequest, SendFails, ClientGone, Receive,
           HandlerTimeout, Goto, Return, handlerVars, TypeOK
    <2> QED BY <2>1, <2>2 DEF Ledger, Uncounted, Uncredited
  <1> QED BY <1>1, <1>2, <1>3

LEMMA LedgerWorker ==
    ASSUME TypeOK, Ledger, NEW w \in Workers, WorkerEffect(w)
    PROVE  Ledger'
  <1>0. /\ IsFiniteSet(requests) /\ Cardinality(requests) \in Nat
        /\ IsFiniteSet(Uncredited) /\ Cardinality(Uncredited) \in Nat
        /\ Cardinality(Uncounted) \in Nat
        /\ pending_gauge \in Nat
    BY LedgerCounted
  <1>1. Uncounted' = Uncounted
    BY DEF WorkerEffect, handlerVars, Uncounted
  <1>2. ASSUME NEW r \in Requests, Takes(w, r) PROVE Ledger'
    <2>1. /\ r \in requests /\ requests' = requests \ {r}
          /\ w \notin Uncredited /\ Uncredited' = Uncredited \cup {w}
          /\ pending_gauge' = pending_gauge
      BY <1>2 DEF Takes, Uncredited, Holding, TypeOK
    <2>2. /\ Cardinality(requests \ {r}) = Cardinality(requests) - 1
          /\ Cardinality(Uncredited \cup {w}) = Cardinality(Uncredited) + 1
      BY <1>0, <2>1, FS_AddElement, FS_RemoveElement
    <2> QED BY <1>0, <1>1, <2>1, <2>2 DEF Ledger
  <1>3. CASE DecrementGauge(w)
    <2>1. /\ requests' = requests
          /\ w \in Uncredited /\ Uncredited' = Uncredited \ {w}
          /\ pending_gauge' = IF pending_gauge > 0 THEN pending_gauge - 1 ELSE 0
      BY <1>3 DEF DecrementGauge, Enter, Uncredited, TypeOK
    <2>2. Cardinality(Uncredited \ {w}) = Cardinality(Uncredited) - 1
      BY <1>0, <2>1, FS_RemoveElement
    <2> QED BY <1>0, <1>1, <2>1, <2>2 DEF Ledger
  <1>4. ASSUME UNCHANGED <<requests, pending_gauge>>,
               \A v \in Workers : task'[v] = "removed" <=> task[v] = "removed"
        PROVE  Ledger'
    BY <1>1, <1>4 DEF Ledger, Uncredited
  <1>5. CASE Answers(w) \/ Drain(w) \/ Moves(w)
    BY <1>4, <1>5 DEF Answers, Drain, Moves, Enter, storeVars, TaskPcs, Holding, TypeOK
  <1>6. ASSUME NEW r \in Requests, ReplyDrained(w, r) PROVE Ledger'
    BY <1>4, <1>6 DEF ReplyDrained, storeVars
  <1> QED BY <1>2, <1>3, <1>4, <1>5, <1>6 DEF WorkerEffect

\* The gauge never reports fewer pending requests than there are, once handlers
\* that have inserted have counted: drift is only ever upwards.
THEOREM GaugeNeverUnder == Spec => []GaugeCovers
  <1>1. Init => Ledger
    <2> SUFFICES ASSUME Init PROVE Ledger
      OBVIOUS
    <2>1. requests = {} /\ Uncounted = {} /\ Uncredited = {} /\ pending_gauge = 0
      BY DEF Init, Uncounted, Uncredited
    <2> QED BY <2>1, FS_EmptySet DEF Ledger
  <1>2. TypeOK /\ OnePlace /\ Ledger /\ [Next]_vars => Ledger'
    <2> SUFFICES ASSUME TypeOK, OnePlace, Ledger, [Next]_vars PROVE Ledger'
      OBVIOUS
    <2>1. CASE UNCHANGED vars
      BY <2>1 DEF vars, storeVars, handlerVars, workerVars, Ledger, Uncounted, Uncredited
    <2>2. ASSUME NEW t \in Tunnels, TunnelStep(t) PROVE Ledger'
      BY <2>2, TunnelEffect, LedgerWorker
    <2>3. CASE SweepStep
      BY <2>3, SweepEffect, LedgerWorker, WorkersOf
    <2> QED BY <2>1, <2>2, <2>3, LedgerHandler DEF Next, Terminated
  <1>3. TypeOK /\ Ledger => GaugeCovers
    <2> SUFFICES ASSUME TypeOK, Ledger, \A r \in Requests : pc[r] # "inserted"
                 PROVE  pending_gauge >= Cardinality(requests)
      BY DEF GaugeCovers
    <2>1. Uncounted = {}
      BY DEF Uncounted
    <2> QED BY <2>1, LedgerCounted, FS_EmptySet DEF Ledger
  <1> QED BY <1>1, <1>2, <1>3, TypeCorrect, OneOwner, PTL DEF Spec

-----------------------------------------------------------------------------
(***************************************************************************)
(* SettledForGood: answers and outcomes are final                          *)
(***************************************************************************)
OutcomeAtEnd == \A r \in Requests : outcome[r] # "none" => pc[r] = "done"

Settles ==
    \A r \in Requests :
        /\ reply[r] # "none" => reply'[r] = reply[r]
        /\ outcome[r] # "none" => outcome'[r] = outcome[r]
        /\ r \notin requests /\ r \in requests' => ~ Registered(r)

LEMMA SettlesHandler ==
    ASSUME TypeOK, OutcomeAtEnd, NEW r \in Requests, HandlerStep(r) \/ Expire(r)
    PROVE  Settles /\ OutcomeAtEnd'
  <1>1. CASE Expire(r)
    BY <1>1 DEF Expire, storeVars, handlerVars, Settles, OutcomeAtEnd
  <1>2. CASE InsertRequest(r)
    BY <1>2 DEF InsertRequest, Goto, Settles, OutcomeAtEnd, Registered, TypeOK
  <1>3. ASSUME pc[r] # "done", UNCHANGED <<requests, reply>>,
               \E to \in HandlerPcs \ {"done"} :
                  pc' = [pc EXCEPT ![r] = to] /\ UNCHANGED outcome
        PROVE  Settles /\ OutcomeAtEnd'
    BY <1>3 DEF Settles, OutcomeAtEnd, TypeOK
  <1>4. CASE (\E t \in Tunnels : Lookup(r, t)) \/ CheckGlobal(r) \/ CheckTunnel(r)
                \/ IncrementGauge(r) \/ IncrementTunnel(r) \/ SendRequest(r)
    BY <1>3, <1>4 DEF Lookup, CheckGlobal, CheckTunnel, IncrementGauge,
         IncrementTunnel, SendRequest, Goto, storeVars, HandlerPcs
  <1>5. CASE (\E t \in Tunnels : NotFound(r, t)) \/ RateLimited(r) \/ RejectGlobal(r)
                \/ RejectTunnel(r) \/ SendFails(r) \/ ClientGone(r) \/ Receive(r)
                \/ HandlerTimeout(r)
    <2>1. /\ pc[r] # "done" /\ pc' = [pc EXCEPT ![r] = "done"]
          /\ \E res : outcome' = [outcome EXCEPT ![r] = res]
          /\ UNCHANGED <<requests, reply>>
      BY <1>5 DEF NotFound, RateLimited, RejectGlobal, RejectTunnel, SendFails,
           ClientGone, Receive, HandlerTimeout, Return, storeVars
    <2> QED BY <2>1 DEF Settles, OutcomeAtEnd, TypeOK
  <1> QED BY <1>1, <1>2, <1>4, <1>5 DEF HandlerStep, RegisterStep

LEMMA SettlesWorker ==
    ASSUME TypeOK, OnePlace, OutcomeAtEnd, NEW w \in Workers, WorkerEffect(w)
    PROVE  Settles /\ OutcomeAtEnd'
  <1>1. UNCHANGED <<pc, outcome>> /\ requests' \subseteq requests
    BY DEF WorkerEffect, Takes, ReplyDrained, DecrementGauge, Answers, Drain, Moves,
         storeVars, handlerVars
  <1>2. \A r \in Requests : reply[r] # "none" => reply'[r] = reply[r]
    <2>1. CASE Answers(w)
      <3>1. cur[w] \in Requests /\ w \in Holders(cur[w])
        BY <2>1 DEF Answers, TypeOK, Holding, Holders
      <3>2. reply[cur[w]] = "none"
        BY <3>1 DEF OnePlace
      <3> QED BY <2>1, <3>2 DEF Answers, TypeOK
    <2>2. ASSUME NEW q \in Requests, ReplyDrained(w, q)
          PROVE  \A r \in Requests : reply[r] # "none" => reply'[r] = reply[r]
      <3>1. w \in Holders(q)
        BY <2>2 DEF ReplyDrained, Holders
      <3>2. reply[q] = "none"
        BY <3>1 DEF OnePlace
      <3> QED BY <2>2, <3>2 DEF ReplyDrained, TypeOK
    <2>3. CASE UNCHANGED reply
      BY <2>3
    <2> QED BY <2>1, <2>2, <2>3
         DEF WorkerEffect, Takes, DecrementGauge, Drain, Moves
  <1> QED BY <1>1, <1>2 DEF Settles, OutcomeAtEnd

\* No interleaving answers a request twice, changes what its HTTP client was told
\* or brings a request back that had left the store.
THEOREM AnswersAreFinal == Spec => SettledForGood
  <1>1. Init => OutcomeAtEnd
    BY DEF Init, OutcomeAtEnd
  <1>2. TypeOK /\ OnePlace /\ OutcomeAtEnd /\ [Next]_vars => [Settles]_vars /\ OutcomeAtEnd'
    <2> SUFFICES ASSUME TypeOK, OnePlace, OutcomeAtEnd, [Next]_vars
                 PROVE  [Settles]_vars /\ OutcomeAtEnd'
      OBVIOUS
    <2>1. CASE UNCHANGED vars
      BY <2>1 DEF vars, handlerVars, OutcomeAtEnd
    <2>2. ASSUME NEW t \in Tunnels, TunnelStep(t) PROVE Settles /\ OutcomeAtEnd'
      BY <2>2, TunnelEffect, SettlesWorker
    <2>3. CASE SweepStep
      BY <2>3, SweepEffect, SettlesWorker, WorkersOf
    <2> QED BY <2>1, <2>2, <2>3, SettlesHandler DEF Next, Terminated
  <1>3. Spec => [][Settles]_vars
    BY <1>1, <1>2, TypeCorrect, OneOwner, PTL DEF Spec
  <1> QED BY <1>3 DEF SettledForGood, Settles

-----------------------------------------------------------------------------
(***************************************************************************)
(* AnswerJustified.  What a worker has in hand, whether it collected it,   *)
(* removed it or drained it, is of the kind that worker may answer.        *)
(***************************************************************************)
InHand(w, r) == r \in todo[w] \/ cur[w] = r \/ r \in drained[w]

\* A closer that has begun: it never goes back to one of these.
Begun(w) == task[w] \notin {"idle", "unmapped", "aborted"}

Sources ==
    /\ \A r \in Requests : InHand(Sweeper, r) => r \in expired
    /\ \A t \in Tunnels, r \in Requests : InHand(Fulfiller(t), r) => r \in sent
    /\ \A t \in Tunnels, w \in Workers, r \in Requests :
          w \in Closers(t) /\ InHand(w, r) => tunnel[r] = t /\ pc[r] # "idle"
    /\ \A t \in Tunnels, w \in Workers :
          w \in Closers(t) /\ drained[w] # {} => Begun(w)
    /\ \A r \in Requests : reply[r] = "502" => tunnel[r] \in Tunnels

Justified == Sources /\ AnswerJustified

\* The workers are told apart by their kind and their tunnel.
LEMMA WorkersDistinct ==
    ASSUME NEW t \in Tunnels, NEW u \in Tunnels
    PROVE  /\ Sweeper \notin Closers(t) /\ Sweeper # Fulfiller(t)
           /\ Fulfiller(u) \notin Closers(t)
           /\ Fulfiller(t) = Fulfiller(u) => t = u
           /\ \A w : w \in Closers(t) /\ w \in Closers(u) => t = u
  <1>1. Sweeper # Fulfiller(t) /\ Sweeper # Closer(t) /\ Sweeper # Admin(t)
    BY DEF Sweeper, Fulfiller, Closer, Admin
  <1>2. Fulfiller(u) # Closer(t) /\ Fulfiller(u) # Admin(t)
    BY DEF Fulfiller, Closer, Admin
  <1>3. /\ Fulfiller(t) = Fulfiller(u) => t = u
        /\ Closer(t) = Closer(u) => t = u
        /\ Admin(t) = Admin(u) => t = u
        /\ Closer(t) # Admin(u) /\ Admin(t) # Closer(u)
    BY DEF Fulfiller, Closer, Admin
  <1> QED BY <1>1, <1>2, <1>3 DEF Closers

\* A step of a worker that takes nothing new in hand and answers nothing.
Keeps ==
    /\ UNCHANGED <<handlerVars, expired, reply>>
    /\ \A w \in Workers, r \in Requests : InHand(w, r)' => InHand(w, r)
    /\ \A w \in Workers : w \in AllClosers /\ Begun(w) => Begun(w)'
    /\ \A w \in Workers :
          w \in AllClosers /\ drained'[w] # {} => drained[w] # {} \/ Begun(w)'

\* What was answered stays justified while the closers that began stay begun.
LEMMA JustifiedFrame ==
    ASSUME Sources, AnswerJustified, UNCHANGED <<handlerVars, expired, reply>>,
           \A w \in Workers : w \in AllClosers /\ Begun(w) => Begun(w)'
    PROVE  AnswerJustified'
  <1>1. ASSUME NEW r \in Requests, reply[r] = "502"
        PROVE  \E w \in Closers(tunnel[r]) : Begun(w)'
    <2>1. tunnel[r] \in Tunnels
      BY <1>1 DEF Sources
    <2>2. PICK w \in Closers(tunnel[r]) : Begun(w)
      BY <1>1 DEF AnswerJustified, Begun
    <2>3. w \in AllClosers /\ w \in Workers
      BY <2>1, <2>2 DEF AllClosers, Workers
    <2> QED BY <2>2, <2>3
  <1> QED BY <1>1 DEF AnswerJustified, handlerVars, Begun

LEMMA JustifiedKept ==
    ASSUME Justified, Keeps
    PROVE  Justified'
  <1>1. AnswerJustified'
    BY JustifiedFrame DEF Justified, Keeps
  <1>2. \A t \in Tunnels, w \in Workers : w \in Closers(t) => w \in AllClosers
    BY DEF AllClosers
  <1>3. Sources'
    BY <1>2, WorkersOf DEF Justified, Sources, Keeps, handlerVars
  <1> QED BY <1>1, <1>3 DEF Justified

\* Removing, passing over, draining and closing move a request from hand to hand
\* of one worker.
LEMMA KeepsStep ==
    ASSUME TypeOK, NEW w \in Workers,
           \/ RemoveStep(w)
           \/ \E r \in Requests : TakeNext(w, r) \/ PassOver(w, r)
    PROVE  Keeps
  <1> USE NoRequestFresh DEF TypeOK, Keeps, InHand, Begun, Enter, handlerVars
  <1>1. CASE DecrementGauge(w)   BY <1>1 DEF DecrementGauge
  <1>2. CASE DecrementTunnel(w)  BY <1>2 DEF DecrementTunnel
  <1>3. CASE RemoveEntry(w)      BY <1>3 DEF RemoveEntry
  <1>4. ASSUME NEW r \in Requests, TakeNext(w, r) PROVE Keeps
    BY <1>4 DEF TakeNext, Take
  <1>5. ASSUME NEW r \in Requests, PassOver(w, r) PROVE Keeps
    BY <1>5 DEF PassOver
  <1> QED BY <1>1, <1>2, <1>3, <1>4, <1>5 DEF RemoveStep

LEMMA KeepsClose ==
    ASSUME TypeOK, Sources, NEW t \in Tunnels, NEW w \in Closers(t),
           Drain(w) \/ EndDrain(w) \/ EndClose(w, "unmapping") \/ EndClose(w, "done")
    PROVE  Keeps
  <1> USE NoRequestFresh DEF TypeOK, Keeps, InHand, Begun, Enter, handlerVars
  <1>0. w \in Workers
    BY WorkersOf DEF Closers
  <1>1. CASE Drain(w)            BY <1>0, <1>1 DEF Drain
  <1>2. CASE EndDrain(w)         BY <1>0, <1>2 DEF EndDrain
  <1>3. CASE EndClose(w, "unmapping")  BY <1>0, <1>3 DEF EndClose
  <1>4. CASE EndClose(w, "done")       BY <1>0, <1>4 DEF EndClose
  <1> QED BY <1>1, <1>2, <1>3, <1>4

\* A worker collects requests of its own kind.
LEMMA JustifiedCollect ==
    ASSUME TypeOK, OnePlace, Justified, NEW t \in Tunnels, NEW w \in Closers(t),
           BeginDrain(w, t) \/ EndScan(w, t)
    PROVE  Justified'
  <1>0. w \in Workers
    BY WorkersOf DEF Closers
  <1>1. /\ task' = [task EXCEPT ![w] = task'[w]] /\ task'[w] \in {"scanning", "loop"}
        /\ \A v \in Workers \ {w} : todo'[v] = todo[v]
        /\ todo'[w] \subseteq todo[w] \cup (requests \cap Of(t))
        /\ UNCHANGED <<handlerVars, expired, reply, cur, drained>>
    BY <1>0 DEF BeginDrain, EndScan, Enter, TypeOK
  <1>2. AnswerJustified'
    BY <1>0, <1>1, JustifiedFrame DEF Justified, Begun, TypeOK
  <1>3. \A r \in requests \cap Of(t) : tunnel[r] = t /\ pc[r] # "idle"
    BY DEF OnePlace, Registered, Of
  <1>4. \A r \in Requests : InHand(Sweeper, r)' => r \in expired'
    BY <1>1, WorkersDistinct, WorkersOf DEF Justified, Sources, InHand
  <1>5. \A u \in Tunnels, r \in Requests : InHand(Fulfiller(u), r)' => r \in sent'
    BY <1>1, WorkersDistinct, WorkersOf DEF Justified, Sources, InHand, handlerVars
  <1>6. ASSUME NEW u \in Tunnels, NEW v \in Workers, NEW r \in Requests,
               v \in Closers(u), InHand(v, r)'
        PROVE  tunnel'[r] = u /\ pc'[r] # "idle"
    <2>1. CASE InHand(v, r)
      BY <1>1, <1>6, <2>1 DEF Justified, Sources, handlerVars
    <2>2. CASE v = w /\ r \in requests \cap Of(t)
      BY <1>1, <1>3, <1>6, <2>2, WorkersDistinct DEF handlerVars
    <2> QED BY <1>1, <1>6, <2>1, <2>2 DEF InHand
  <1>7. \A u \in Tunnels, v \in Workers : v \in Closers(u) /\ drained'[v] # {} => Begun(v)'
    BY <1>0, <1>1 DEF Justified, Sources, Begun, TypeOK
  <1> QED BY <1>1, <1>2, <1>4, <1>5, <1>6, <1>7 DEF Justified, Sources, handlerVars

\* fulfill() and the sweeper answer what they hold.
LEMMA JustifiedAnswer ==
    ASSUME TypeOK, OnePlace, Justified, NEW w \in Workers, w \notin AllClosers,
           NEW res \in {"response", "504"}, NEW to, Answer(w, res, to),
           res = "response" => cur[w] \in sent,
           res = "504" => cur[w] \in expired
    PROVE  Justified'
  <1>0. cur[w] \in Requests /\ reply[cur[w]] = "none"
    <2>1. cur[w] \in Requests /\ w \in Holders(cur[w])
      BY DEF Answer, TypeOK, Holding, Holders
    <2> QED BY <2>1 DEF OnePlace
  <1>1. /\ reply' = [reply EXCEPT ![cur[w]] = res]
        /\ \A v \in Workers : v # w => task'[v] = task[v] /\ cur'[v] = cur[v]
        /\ cur'[w] = NoRequest
        /\ UNCHANGED <<handlerVars, expired, todo, drained>>
    BY DEF Answer, Enter, TypeOK
  <1>2. \A v \in Workers, r \in Requests : InHand(v, r)' => InHand(v, r)
    BY <1>1, NoRequestFresh DEF InHand
  <1>3. \A t \in Tunnels, v \in Workers : v \in Closers(t) => v # w
    BY DEF AllClosers
  <1>4. Sources'
    BY <1>0, <1>1, <1>2, <1>3, WorkersOf DEF Justified, Sources, Begun, handlerVars, TypeOK
  <1>5. ASSUME NEW r \in Requests, reply'[r] = "502"
        PROVE  \E v \in Closers(tunnel'[r]) : Begun(v)'
    <2>1. reply[r] = "502" /\ tunnel'[r] = tunnel[r] /\ tunnel[r] \in Tunnels
      BY <1>0, <1>1, <1>5 DEF Justified, Sources, handlerVars, TypeOK
    <2>2. PICK v \in Closers(tunnel[r]) : Begun(v)
      BY <2>1 DEF Justified, AnswerJustified, Begun
    <2>3. v \in Workers /\ v # w
      BY <1>3, <2>1, <2>2, WorkersOf DEF Closers
    <2> QED BY <1>1, <2>1, <2>2, <2>3 DEF Begun
  <1>6. \A r \in Requests : outcome[r] \in Replies => outcome[r] \in {"none", reply'[r]}
    BY <1>0, <1>1 DEF Justified, AnswerJustified, TypeOK
  <1>7. \A r \in Requests : /\ reply'[r] = "response" => r \in sent'
                            /\ reply'[r] = "504" => r \in expired'
                            /\ outcome'[r] = "timeout" => r \in expired'
    BY <1>0, <1>1 DEF Justified, AnswerJustified, TypeOK, handlerVars
  <1>8. AnswerJustified'
    BY <1>1, <1>5, <1>6, <1>7 DEF AnswerJustified, Begun, handlerVars
  <1> QED BY <1>4, <1>8 DEF Justified

\* close() answers what it drained.
LEMMA JustifiedReplyDrained ==
    ASSUME TypeOK, OnePlace, Justified, NEW t \in Tunnels, NEW w \in Closers(t),
           NEW r \in Requests, ReplyDrained(w, r)
    PROVE  Justified'
  <1>0. w \in Workers /\ reply[r] = "none" /\ tunnel[r] = t /\ Begun(w)
    <2>1. w \in Workers
      BY WorkersOf DEF Closers
    <2>2. w \in Holders(r) /\ InHand(w, r) /\ Begun(w)
      BY <2>1 DEF ReplyDrained, Holders, InHand, Begun
    <2> QED BY <2>1, <2>2 DEF OnePlace, Justified, Sources
  <1>1. /\ reply' = [reply EXCEPT ![r] = "502"]
        /\ drained' = [drained EXCEPT ![w] = @ \ {r}]
        /\ UNCHANGED <<handlerVars, expired, task, cur, todo>>
    BY DEF ReplyDrained
  <1>2. \A v \in Workers, q \in Requests : InHand(v, q)' => InHand(v, q)
    BY <1>1 DEF InHand, TypeOK
  <1>3. \A v \in Workers : (Begun(v)' <=> Begun(v)) /\ drained'[v] \subseteq drained[v]
    BY <1>1 DEF Begun, TypeOK
  <1>4. Sources'
    BY <1>0, <1>1, <1>2, <1>3, WorkersOf DEF Justified, Sources, handlerVars, TypeOK
  <1>5. \A q \in Requests : outcome[q] \in Replies => outcome[q] \in {"none", reply'[q]}
    BY <1>0, <1>1 DEF Justified, AnswerJustified, TypeOK
  <1>6. \A q \in Requests : reply'[q] = "502" =>
            \E v \in Closers(tunnel'[q]) : task'[v] \notin {"idle", "unmapped", "aborted"}
    BY <1>0, <1>1 DEF Justified, AnswerJustified, Begun, TypeOK, handlerVars
  <1>7. \A q \in Requests : /\ reply'[q] = "response" => q \in sent'
                            /\ reply'[q] = "504" => q \in expired'
                            /\ outcome'[q] = "timeout" => q \in expired'
    BY <1>1 DEF Justified, AnswerJustified, TypeOK, handlerVars
  <1> QED BY <1>1, <1>4, <1>5, <1>6, <1>7 DEF Justified, AnswerJustified, handlerVars

LEMMA JustifiedTunnel ==
    ASSUME TypeOK, OnePlace, Justified, NEW t \in Tunnels, TunnelStep(t)
    PROVE  Justified'
  <1> USE WorkersOf
  <1>0. Closer(t) \in Closers(t) /\ Admin(t) \in Closers(t) /\ Fulfiller(t) \notin AllClosers
    BY WorkersDistinct DEF Closers, AllClosers
  <1>1. ASSUME NEW r \in Requests, Fulfill(t, r) PROVE Justified'
    <2>1. /\ r \in sent /\ \A v \in Workers : v # Fulfiller(t) => /\ cur'[v] = cur[v]
                                                                  /\ task'[v] = task[v]
          /\ cur'[Fulfiller(t)] = r
          /\ UNCHANGED <<handlerVars, expired, reply, todo, drained>>
      BY <1>1 DEF Fulfill, Take, Enter, TypeOK
    <2>2. \A w \in Workers : w \in AllClosers => Begun(w)' = Begun(w) /\ drained'[w] = drained[w]
      BY <1>0, <2>1 DEF Begun
    <2>3. AnswerJustified'
      BY <2>1, <2>2, JustifiedFrame DEF Justified
    <2>4. \A w \in Workers, q \in Requests :
              InHand(w, q)' => InHand(w, q) \/ (w = Fulfiller(t) /\ q = r)
      BY <2>1 DEF InHand
    <2>5. \A u \in Tunnels : Fulfiller(t) \notin Closers(u) /\ Fulfiller(t) # Sweeper
      BY WorkersDistinct
    <2>6. \A u \in Tunnels, w \in Workers : w \in Closers(u) => w \in AllClosers
      BY DEF AllClosers
    <2>7. Sources'
      BY <2>1, <2>2, <2>4, <2>5, <2>6 DEF Justified, Sources, handlerVars
    <2> QED BY <2>3, <2>7 DEF Justified
  <1>2. CASE FulfillStep(t)
    <2>1. CASE Answer(Fulfiller(t), "response", "idle")
      <3>1. cur[Fulfiller(t)] \in sent
        BY <2>1 DEF Answer, Justified, Sources, InHand, TypeOK, Holding
      <3> QED BY <1>0, <2>1, <3>1, JustifiedAnswer
    <2> QED BY <1>2, <2>1, KeepsStep, JustifiedKept DEF FulfillStep
  <1>3. ASSUME NEW w \in Closers(t), CloseStep(w, t) PROVE Justified'
    <2>1. w \in Workers
      BY DEF Closers
    <2>2. CASE EndScan(w, t)
      BY <2>2, JustifiedCollect
    <2>3. ASSUME NEW r \in Requests, TakeNext(w, r) \/ PassOver(w, r) PROVE Justified'
      BY <2>1, <2>3, KeepsStep, JustifiedKept
    <2>4. ASSUME NEW r \in Requests, ReplyDrained(w, r) PROVE Justified'
      BY <2>4, JustifiedReplyDrained
    <2>5. CASE RemoveStep(w)
      BY <2>1, <2>5, KeepsStep, JustifiedKept
    <2>6. CASE Drain(w) \/ EndDrain(w)
      BY <2>6, KeepsClose, JustifiedKept DEF Justified
    <2> QED BY <1>3, <2>2, <2>3, <2>4, <2>5, <2>6 DEF CloseStep
  <1>4. CASE EndClose(Closer(t), "unmapping") \/ EndClose(Admin(t), "done")
    BY <1>0, <1>4, KeepsClose, JustifiedKept DEF Justified
  <1>5. CASE BeginClose(t) \/ AdminBeginClose(t)
    BY <1>0, <1>5, JustifiedCollect DEF BeginClose, AdminBeginClose
  <1>6. CASE SessionUnmap(t)
    BY <1>6, JustifiedKept DEF SessionUnmap, Enter, Keeps, InHand, Begun, TypeOK
  <1>7. CASE SessionAborts(t)
    BY <1>7, JustifiedKept DEF SessionAborts, Enter, Keeps, InHand, Begun, TypeOK
  <1>8. CASE AdminUnmap(t)
    BY <1>8, JustifiedKept DEF AdminUnmap, Enter, Keeps, InHand, Begun, TypeOK
  <1>9. CASE Displaced(t)
    BY <1>9, JustifiedKept DEF Displaced, Keeps, InHand, Begun, workerVars
  <1> QED BY <1>0, <1>1, <1>2, <1>3, <1>4, <1>5, <1>6, <1>7, <1>8, <1>9
       DEF TunnelStep, SessionCloseStep, AdminCloseStep

LEMMA JustifiedSweep ==
    ASSUME TypeOK, OnePlace, Justified, SweepStep
    PROVE  Justified'
  <1> USE WorkersOf
  <1>0. Sweeper \notin AllClosers
    BY WorkersDistinct DEF AllClosers
  <1>1. CASE BeginSweep
    <2>1. /\ \A v \in Workers : v # Sweeper => /\ todo'[v] = todo[v]
                                               /\ task'[v] = task[v]
          /\ todo'[Sweeper] \subseteq expired
          /\ UNCHANGED <<handlerVars, expired, reply, cur, drained>>
      BY <1>1 DEF BeginSweep, Enter, TypeOK
    <2>2. \A w \in Workers : w \in AllClosers => Begun(w)' = Begun(w)
      BY <1>0, <2>1 DEF Begun
    <2>3. AnswerJustified'
      BY <2>1, <2>2, JustifiedFrame DEF Justified
    <2>4. \A w \in Workers, q \in Requests :
              InHand(w, q)' => InHand(w, q) \/ (w = Sweeper /\ q \in expired)
      BY <2>1 DEF InHand
    <2>5. \A u \in Tunnels : Sweeper \notin Closers(u) /\ Fulfiller(u) # Sweeper
      BY WorkersDistinct
    <2>6. \A u \in Tunnels, w \in Workers : w \in Closers(u) => w \in AllClosers
      BY DEF AllClosers
    <2>7. Sources'
      BY <2>1, <2>2, <2>4, <2>5, <2>6 DEF Justified, Sources, handlerVars
    <2> QED BY <2>3, <2>7 DEF Justified
  <1>2. CASE EndSweep
    BY <1>0, <1>2, JustifiedKept DEF EndSweep, Enter, Keeps, InHand, Begun, TypeOK
  <1>3. CASE Answer(Sweeper, "504", "loop")
    <2>1. cur[Sweeper] \in expired
      BY <1>3 DEF Answer, Justified, Sources, InHand, TypeOK, Holding
    <2> QED BY <1>0, <1>3, <2>1, JustifiedAnswer
  <1> QED BY <1>1, <1>2, <1>3, KeepsStep, JustifiedKept DEF SweepStep

\* A handler resolves its tunnel once, and returns what the channel carries.
LEMMA JustifiedHandler ==
    ASSUME TypeOK, OnePlace, Justified, NEW r \in Requests, HandlerStep(r) \/ Expire(r)
    PROVE  Justified'
  <1>1. /\ UNCHANGED <<reply, workerVars>>
        /\ sent \subseteq sent' /\ expired \subseteq expired'
        /\ \A q \in Requests : pc[q] # "idle" => pc'[q] # "idle" /\ tunnel'[q] = tunnel[q]
    BY DEF HandlerStep, RegisterStep, Expire, Lookup, NotFound, RateLimited,
         CheckGlobal, RejectGlobal, CheckTunnel, RejectTunnel, InsertRequest,
         IncrementGauge, IncrementTunnel, SendRequest, SendFails, ClientGone, Receive,
         HandlerTimeout, Goto, Return, handlerVars, TypeOK
  <1>2. \A q \in Requests : outcome'[q] # outcome[q] =>
            \/ outcome'[q] \in {"refused", "abandoned", reply[q]}
            \/ outcome'[q] = "timeout" /\ q \in expired
    BY DEF HandlerStep, RegisterStep, Expire, Lookup, NotFound, RateLimited,
         CheckGlobal, RejectGlobal, CheckTunnel, RejectTunnel, InsertRequest,
         IncrementGauge, IncrementTunnel, SendRequest, SendFails, ClientGone, Receive,
         HandlerTimeout, Goto, Return, handlerVars, TypeOK
  <1>3. \A q \in Requests : reply[q] = "502" => tunnel'[q] = tunnel[q]
    BY <1>1 DEF OnePlace, Registered
  <1>4. Sources'
    BY <1>1, <1>3 DEF Justified, Sources, InHand, Begun, workerVars
  <1>5. \A q \in Requests : /\ reply'[q] = "response" => q \in sent'
                            /\ reply'[q] = "504" => q \in expired'
                            /\ reply'[q] = "502" =>
                                 \E w \in Closers(tunnel'[q]) :
                                     task'[w] \notin {"idle", "unmapped", "aborted"}
    BY <1>1, <1>3 DEF Justified, AnswerJustified, workerVars
  <1>6. \A q \in Requests : /\ outcome'[q] = "timeout" => q \in expired'
                            /\ outcome'[q] \in Replies => outcome'[q] \in {"none", reply'[q]}
    BY <1>1, <1>2 DEF Justified, AnswerJustified, Replies, TypeOK
  <1> QED BY <1>4, <1>5, <1>6 DEF Justified, AnswerJustified

\* No interleaving gives an answer its giver may not give: a response was asked
\* for, a 504 is late, a 502 comes from the closing of the request's own tunnel,
\* and a handler returns what its channel carried.
THEOREM AnswersJustified == Spec => []AnswerJustified
  <1>1. Init => Justified
    BY NoRequestFresh, WorkersOf
    DEF Init, Justified, Sources, AnswerJustified, InHand, Begun, Replies
  <1>2. TypeOK /\ OnePlace /\ Justified /\ [Next]_vars => Justified'
    <2> SUFFICES ASSUME TypeOK, OnePlace, Justified, [Next]_vars PROVE Justified'
      OBVIOUS
    <2>1. CASE UNCHANGED vars
      BY <2>1 DEF vars, handlerVars, workerVars, Justified, Sources, AnswerJustified,
           InHand, Begun
    <2> QED BY <2>1, JustifiedHandler, JustifiedTunnel, JustifiedSweep
         DEF Next, Terminated
  <1>3. Justified => AnswerJustified
    BY DEF Justified
  <1> QED BY <1>1, <1>2, <1>3, TypeCorrect, OneOwner, PTL DEF Spec

=============================================================================
