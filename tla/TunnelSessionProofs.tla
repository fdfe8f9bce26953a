------------------------ MODULE TunnelSessionProofs ------------------------
(***************************************************************************)
(* Proofs about TunnelSession, for any base delay, any limit of attempts,  *)
(* any number of connections and requests and any faults.                  *)
(***************************************************************************)
EXTENDS TunnelSession, FrameQueues

\* The backoff counts the losses in a row: while the client is at work and has a
\* limit, the counter and the history agree and have not passed the limit.
Counting ==
    /\ attempt \in 0 .. AttemptMax /\ losses \in 0 .. LossCap
    /\ MaxAttempts # 0 /\ cpc \notin Final => losses = attempt /\ attempt <= MaxAttempts
    /\ cpc = "failed" => MaxAttempts # 0 /\ losses = MaxAttempts + 1

\* A step that is not a loss: it leaves the counters alone and does not end the
\* client, or it ends it because of the token.
Uncounted ==
    \/ UNCHANGED <<attempt, losses>> /\ (cpc' = cpc \/ (cpc \notin Final /\ cpc' \notin Final))
    \/ cpc' = "stopped" /\ attempt' \in {0, attempt} /\ UNCHANGED losses

\* Every step is a loss of a client at work, or is not counted.
LEMMA LossOrUncounted ==
    ASSUME [Next]_vars
    PROVE  Uncounted \/ \E had \in BOOLEAN : cpc \notin Final /\ AfterLoss(had)
  <1> USE DEF Final, loopVars, clientVars
  <1>1. CASE UNCHANGED vars
    BY <1>1 DEF vars, Uncounted
  <1>2. CASE Cancel \/ StopAtTop \/ SleepEnds \/ StopAsleep
    BY <1>2 DEF Cancel, StopAtTop, SleepEnds, StopAsleep, Uncounted
  <1>3. CASE ConnectFails \/ HandshakeFails
    BY <1>3 DEF ConnectFails, HandshakeFails
  <1>4. CASE Join
    BY <1>4 DEF Join, Uncounted
  <1>5. CASE Acknowledged \/ HandshakeDrops \/ ShutdownSeen \/ LoopFails \/ SpawnProxyTask
    BY <1>5 DEF Acknowledged, HandshakeDrops, ShutdownSeen, LoopFails, SpawnProxyTask, Leave,
         Uncounted
  <1>6. CASE PingStep \/ WriterStep \/ \E r \in Requests : TaskAnswers(r)
    BY <1>6 DEF PingStep, PingStops, PingTick, WriterStep, WriterSends, WriterFails,
         WriterEnds, TaskAnswers, Uncounted
  <1>7. ASSUME NEW c \in Conns, Connect(c) PROVE Uncounted
    BY <1>7 DEF Connect, Uncounted
  <1>8. ASSUME NEW c \in Conns,
               RelayAnswer(c) \/ RelayBegin(c) \/ RelayRead(c) \/ RelayWriter(c)
        PROVE  Uncounted
    BY <1>8 DEF RelayAnswer, Register, NameTaken, Refuse, RelayBegin, Acknowledge,
         RegisteredFails, RelayRead, NoConnect, ReadResponse, ReadEnd, ReadFails, RelayJoin,
         RelayWriter, RelayWriterSends, RelayWriterEnds, Uncounted
  <1>9. ASSUME NEW c \in Conns, Break(c) \/ Forget(c) \/ \E r \in Requests : Forward(c, r)
        PROVE  Uncounted
    BY <1>9 DEF Break, Forget, Forward, Uncounted
  <1> QED
    BY <1>1, <1>2, <1>3, <1>4, <1>5, <1>6, <1>7, <1>8, <1>9 DEF Next, ClientStep, Finished

LEMMA CountingInit == Init => Counting
  BY BackoffConstants DEF Init, Counting, LossCap, Final

LEMMA CountingNext ==
    ASSUME Counting, [Next]_vars
    PROVE  Counting'
  <1>1. CASE Uncounted
    BY <1>1, BackoffConstants DEF Uncounted, Counting, LossCap, Final
  <1>2. ASSUME NEW had \in BOOLEAN, cpc \notin Final, AfterLoss(had)
        PROVE  Counting'
    <2> DEFINE n == IF had THEN 0 ELSE attempt
    <2>1. n \in 0 .. AttemptMax /\ losses' \in 0 .. LossCap
      BY <1>2, BackoffConstants DEF AfterLoss, Counting, OneMoreLoss, Lesser, LossCap
    <2>2. ASSUME MaxAttempts # 0 PROVE n <= MaxAttempts /\ losses' = n + 1
      BY <1>2, <2>2, BackoffConstants DEF AfterLoss, Counting, OneMoreLoss, Lesser, LossCap
    <2>3. CASE shutdown
      BY <1>2, <2>1, <2>3 DEF AfterLoss, Counting, Final
    <2>4. CASE ~ shutdown /\ Exhausted(n)
      BY <1>2, <2>1, <2>2, <2>4, BackoffConstants DEF AfterLoss, Counting, Final, Exhausted
    <2>5. CASE ~ shutdown /\ ~ Exhausted(n)
      BY <1>2, <2>1, <2>2, <2>5, BackoffConstants
         DEF AfterLoss, Counting, Final, Exhausted, Saturating
    <2> QED BY <2>3, <2>4, <2>5
  <1> QED BY <1>1, <1>2, LossOrUncounted

\* reconnect_max_attempts is kept (run_with_token with next_delay): the client fails
\* only after that many retries in a row failed too, sleeps for none beyond them, and
\* never gives up without a limit.
THEOREM LimitKept == Spec => []GivesUpAtLimit
  <1>1. Counting => GivesUpAtLimit
    BY DEF Counting, GivesUpAtLimit, Final
  <1> QED BY <1>1, CountingInit, CountingNext, PTL DEF Spec

-----------------------------------------------------------------------------
(***************************************************************************)
(* Types                                                                   *)
(***************************************************************************)
\* A connection that has not been accepted has nothing queued and no tunnel; a free
\* one has no session at the relay.  So an Error always finds room.
Unaccepted ==
    \A c \in Conns :
        /\ spc[c] \in {"none", "waiting"} => squeue[c] = <<>> /\ owner # c
        /\ link[c] = "free" => spc[c] = "none"

Typed == Counting /\ TypeOK /\ Unaccepted

\* The delay, whatever the configured base, is at most the cap.
LEMMA DelayCapped ==
    ASSUME NEW n \in Nat
    PROVE  DelayAfter(n) \in 0 .. CapDelay
  <1> DEFINE base == IF BaseDelay < MinDelay THEN MinDelay ELSE BaseDelay
             m == Multiplier[Lesser(n, 5) + 1]
  <1>1. base \in Nat
    BY BackoffConstants DEF MinDelay
  <1>2. Lesser(n, 5) + 1 \in 1 .. 6
    BY DEF Lesser
  <1>3. m \in {1, 2, 4, 8, 16, 32}
    BY <1>2 DEF Multiplier
  <1> HIDE DEF base, m
  <1>4. base * m \in Nat
    <2>1. base * 1 \in Nat /\ base * 2 \in Nat /\ base * 4 \in Nat /\ base * 8 \in Nat
      BY <1>1
    <2>2. base * 16 \in Nat /\ base * 32 \in Nat
      BY <1>1
    <2> QED BY <1>3, <2>1, <2>2
  <1>5. \A p \in Nat : Lesser(p, CapDelay) \in 0 .. CapDelay
    BY DEF Lesser, CapDelay
  <1> QED BY <1>4, <1>5 DEF DelayAfter, base, m

LEMMA LossTypes ==
    ASSUME Typed, NEW had \in BOOLEAN, AfterLoss(had)
    PROVE  cpc' \in {"stopped", "failed", "sleeping"} /\ delay' \in 0 .. CapDelay /\ shutdown' = shutdown
  <1> DEFINE n == IF had THEN 0 ELSE attempt
  <1>1. n \in Nat
    BY BackoffConstants DEF Typed, Counting
  <1>2. DelayAfter(n) \in 0 .. CapDelay
    BY <1>1, DelayCapped
  <1> QED BY <1>2 DEF AfterLoss, Typed, TypeOK

\* Closing the connection of the client's session.
LEMMA HangupTypes ==
    ASSUME Typed, Hangup
    PROVE  /\ link' \in [Conns -> {"free", "up", "closed", "broken"}]
           /\ c2s' \in [Conns -> Seq(Frames)]
           /\ \A c \in Conns : link'[c] = "free" => link[c] = "free"
  <1>1. <<>> \in Seq(Frames)
    OBVIOUS
  <1> QED BY <1>1 DEF Hangup, Typed, TypeOK

LEMMA TypedInit == Init => Typed
  <1> SUFFICES ASSUME Init PROVE Typed
    OBVIOUS
  <1>1. <<>> \in Seq(Frames) /\ Len(<<>>) = 0
    OBVIOUS
  <1>2. /\ 0 \in 0 .. AttemptMax /\ 0 \in 0 .. CapDelay /\ 0 \in 0 .. LossCap /\ 0 <= QueueCap
    BY BackoffConstants, SessionConstants DEF LossCap, CapDelay
  <1>3. TypeOK
    BY <1>1, <1>2 DEF Init, TypeOK, ClientPcs, RelayPcs
  <1> QED BY <1>3, CountingInit, SessionConstants DEF Init, Typed, Unaccepted

\* The steps of the client that leave the relay's side alone.
LEMMA TypedClient ==
    ASSUME Typed, Counting',
           \/ Cancel \/ StopAtTop \/ ConnectFails \/ HandshakeFails \/ Acknowledged
           \/ HandshakeDrops \/ Join \/ SleepEnds \/ StopAsleep
    PROVE  Typed'
  <1> USE DEF Typed, loopVars, sessionVars, netVars, relayVars
  <1>0. attempt' \in 0 .. AttemptMax /\ losses' \in 0 .. LossCap
    BY DEF Counting
  <1>1. CASE Cancel \/ StopAtTop \/ SleepEnds \/ StopAsleep
    BY <1>0, <1>1 DEF Cancel, StopAtTop, SleepEnds, StopAsleep, TypeOK, Unaccepted, ClientPcs
  <1>2. CASE ConnectFails
    <2>1. cpc' \in {"stopped", "failed", "sleeping"} /\ delay' \in 0 .. CapDelay /\ shutdown' = shutdown
      BY <1>2, LossTypes DEF ConnectFails
    <2> QED BY <1>0, <1>2, <2>1 DEF ConnectFails, TypeOK, Unaccepted, ClientPcs
  <1>3. CASE HandshakeFails
    <2>1. cpc' \in {"stopped", "failed", "sleeping"} /\ delay' \in 0 .. CapDelay /\ shutdown' = shutdown
      BY <1>3, LossTypes DEF HandshakeFails
    <2>2. Hangup
      BY <1>3 DEF HandshakeFails
    <2> HIDE DEF Typed
    <2>3. /\ link' \in [Conns -> {"free", "up", "closed", "broken"}]
          /\ c2s' \in [Conns -> Seq(Frames)]
          /\ \A c \in Conns : link'[c] = "free" => link[c] = "free"
      BY <2>2, HangupTypes
    <2> QED BY <1>0, <1>3, <2>1, <2>3 DEF Typed, HandshakeFails, TypeOK, Unaccepted, ClientPcs
  <1>4. CASE Join
    <2>1. cpc' \in {"stopped", "failed", "sleeping"} /\ delay' \in 0 .. CapDelay /\ shutdown' = shutdown
      BY <1>4, LossTypes DEF Join, TypeOK
    <2>2. Hangup
      BY <1>4 DEF Join
    <2> HIDE DEF Typed
    <2>3. /\ link' \in [Conns -> {"free", "up", "closed", "broken"}]
          /\ c2s' \in [Conns -> Seq(Frames)]
          /\ \A c \in Conns : link'[c] = "free" => link[c] = "free"
      BY <2>2, HangupTypes
    <2> QED BY <1>0, <1>4, <2>1, <2>3 DEF Typed, Join, TypeOK, Unaccepted, ClientPcs
  <1>5. CASE Acknowledged
    <2>1. cur \in Conns /\ s2c[cur] \in Seq(Frames) /\ s2c[cur] # <<>>
      BY <1>5 DEF Acknowledged, TypeOK
    <2>2. Tail(s2c[cur]) \in Seq(Frames) /\ <<>> \in Seq(Frames) /\ Len(<<>>) = 0
      BY <2>1, TailPositions
    <2>3. s2c' \in [Conns -> Seq(Frames)]
      BY <1>5, <2>2 DEF Acknowledged, TypeOK
    <2> QED BY <1>0, <1>5, <2>2, <2>3, SessionConstants
            DEF Acknowledged, TypeOK, Unaccepted, ClientPcs
  <1>6. CASE HandshakeDrops
    <2>1. cur \in Conns /\ s2c[cur] \in Seq(Frames) /\ s2c[cur] # <<>>
      BY <1>6 DEF HandshakeDrops, TypeOK
    <2>2. Tail(s2c[cur]) \in Seq(Frames)
      BY <2>1, TailPositions
    <2>3. s2c' \in [Conns -> Seq(Frames)]
      BY <1>6, <2>2 DEF HandshakeDrops, TypeOK
    <2> QED BY <1>0, <1>6, <2>3 DEF HandshakeDrops, TypeOK, Unaccepted
  <1> QED BY <1>1, <1>2, <1>3, <1>4, <1>5, <1>6

\* Offering a frame keeps the channel typed and bounded.
LEMMA OfferTypes ==
    ASSUME Typed, NEW f \in Frames, Offer(f)
    PROVE  cqueue' \in Seq(Frames) /\ Len(cqueue') <= QueueCap
  <1>1. cqueue \in Seq(Frames) /\ Len(cqueue) <= QueueCap /\ QueueCap \in Nat
    BY SessionConstants DEF Typed, TypeOK
  <1>2. Append(cqueue, f) \in Seq(Frames) /\ Len(cqueue) \in Nat
        /\ Len(Append(cqueue, f)) = Len(cqueue) + 1
    BY <1>1, AppendPositions
  <1> QED BY <1>1, <1>2 DEF Offer

\* The steps of a session's main loop and of its tasks.
LEMMA TypedSession ==
    ASSUME Typed, Counting',
           \/ ShutdownSeen \/ LoopFails \/ SpawnProxyTask
           \/ \E r \in Requests : TaskAnswers(r)
           \/ PingStep
    PROVE  Typed'
  <1> USE DEF loopVars, sessionVars, netVars, relayVars
  <1>0. attempt' \in 0 .. AttemptMax /\ losses' \in 0 .. LossCap
    BY DEF Counting
  <1>1. CASE ShutdownSeen
    <2>1. Plain("disconnect") \in Frames
      BY DEF Plain, Frames, PlainKinds
    <2>2. cqueue' \in Seq(Frames) /\ Len(cqueue') <= QueueCap
      BY <1>1, <2>1, OfferTypes DEF ShutdownSeen
    <2> QED BY <1>0, <1>1, <2>2 DEF ShutdownSeen, Leave, Typed, TypeOK, Unaccepted, ClientPcs
  <1>2. CASE LoopFails
    <2>1. cur \in Conns /\ s2c[cur] \in Seq(Frames)
      BY <1>2 DEF LoopFails, Typed, TypeOK
    <2>2. s2c[cur] # <<>> => Tail(s2c[cur]) \in Seq(Frames)
      BY <2>1, TailPositions
    <2>3. s2c' \in [Conns -> Seq(Frames)]
      BY <1>2, <2>2 DEF LoopFails, Typed, TypeOK
    <2> QED BY <1>0, <1>2, <2>1, <2>3 DEF LoopFails, Leave, Typed, TypeOK, Unaccepted, ClientPcs
  <1>3. CASE SpawnProxyTask
    <2>1. cur \in Conns /\ s2c[cur] \in Seq(Frames) /\ s2c[cur] # <<>>
          /\ Head(s2c[cur]).kind = "request"
      BY <1>3 DEF SpawnProxyTask, Typed, TypeOK
    <2>2. Tail(s2c[cur]) \in Seq(Frames) /\ Head(s2c[cur]) \in Frames
      BY <2>1, TailPositions
    <2>3. Head(s2c[cur]).req \in Requests
      BY <2>1, <2>2 DEF Frames, PlainKinds
    <2>4. s2c' \in [Conns -> Seq(Frames)]
      BY <1>3, <2>2 DEF SpawnProxyTask, Typed, TypeOK
    <2> QED BY <1>0, <1>3, <2>3, <2>4 DEF SpawnProxyTask, Typed, TypeOK, Unaccepted
  <1>4. ASSUME NEW r \in Requests, TaskAnswers(r) PROVE Typed'
    <2>1. PICK kind \in {"response"} \cup (Faults \cap {"huge", "stray"}) : Offer(Frame(kind, r))
      BY <1>4 DEF TaskAnswers
    <2>2. Frame(kind, r) \in Frames
      BY <1>4, <2>1 DEF Frame, Frames, RequestKinds
    <2>3. cqueue' \in Seq(Frames) /\ Len(cqueue') <= QueueCap
      BY <2>1, <2>2, OfferTypes
    <2> QED BY <1>0, <1>4, <2>3 DEF TaskAnswers, Typed, TypeOK, Unaccepted
  <1>5. CASE PingStops
    BY <1>0, <1>5 DEF PingStops, Typed, TypeOK, Unaccepted
  <1>6. CASE PingTick
    <2>1. Plain("ping") \in Frames
      BY DEF Plain, Frames, PlainKinds
    <2>2. cqueue' \in Seq(Frames) /\ Len(cqueue') <= QueueCap
      BY <1>6, <2>1, OfferTypes DEF PingTick, Offer
    <2> QED BY <1>0, <1>6, <2>2 DEF PingTick, Typed, TypeOK, Unaccepted
  <1> QED BY <1>1, <1>2, <1>3, <1>4, <1>5, <1>6 DEF PingStep

\* The steps of the client's writer.
LEMMA TypedWriter ==
    ASSUME Typed, Counting', WriterStep
    PROVE  Typed'
  <1> USE DEF loopVars, relayVars, netVars
  <1>0. attempt' \in 0 .. AttemptMax /\ losses' \in 0 .. LossCap
    BY DEF Counting
  <1>1. cqueue \in Seq(Frames) /\ Len(cqueue) <= QueueCap /\ c2s \in [Conns -> Seq(Frames)]
    BY DEF Typed, TypeOK
  <1>2. \A c \in Conns, f \in Frames : [c2s EXCEPT ![c] = Append(@, f)] \in [Conns -> Seq(Frames)]
    BY <1>1, AppendPositions
  <1>3. \A c, f : c \notin Conns => [c2s EXCEPT ![c] = Append(@, f)] = c2s
    BY <1>1
  <1>4. CASE WriterSends
    <2>1. Tail(cqueue) \in Seq(Frames) /\ Head(cqueue) \in Frames
          /\ Len(Tail(cqueue)) = Len(cqueue) - 1 /\ Len(cqueue) \in Nat
      BY <1>1, <1>4, TailPositions DEF WriterSends
    <2>2. Len(Tail(cqueue)) <= QueueCap
      BY <1>1, <2>1, SessionConstants
    <2>3. c2s' \in [Conns -> Seq(Frames)]
      BY <1>1, <1>2, <1>3, <1>4, <2>1 DEF WriterSends
    <2> QED BY <1>0, <1>4, <2>1, <2>2, <2>3 DEF WriterSends, Typed, TypeOK, Unaccepted
  <1>5. CASE WriterFails
    <2>1. <<>> \in Seq(Frames) /\ Len(<<>>) <= QueueCap
      BY SessionConstants
    <2> QED BY <1>0, <1>5, <2>1 DEF WriterFails, Typed, TypeOK, Unaccepted
  <1>6. CASE WriterEnds
    <2>1. Plain("close") \in Frames
      BY DEF Plain, Frames, PlainKinds
    <2>2. c2s' \in [Conns -> Seq(Frames)]
      BY <1>1, <1>2, <1>3, <1>6, <2>1 DEF WriterEnds
    <2> QED BY <1>0, <1>6, <2>2 DEF WriterEnds, Typed, TypeOK, Unaccepted
  <1> QED BY <1>4, <1>5, <1>6 DEF WriterStep

\* What the relay reads off a connection, and what it queues for one.
LEMMA ConsumeTypes ==
    ASSUME Typed, NEW c \in Conns, c2s[c] # <<>>, Consume(c)
    PROVE  c2s' \in [Conns -> Seq(Frames)]
  <1>1. c2s[c] \in Seq(Frames)
    BY DEF Typed, TypeOK
  <1>2. Tail(c2s[c]) \in Seq(Frames)
    BY <1>1, TailPositions
  <1> QED BY <1>2 DEF Consume, Typed, TypeOK

LEMMA PostTypes ==
    ASSUME Typed, NEW c \in Conns, NEW f \in Frames, Len(squeue[c]) < QueueCap, Post(c, f)
    PROVE  /\ squeue' \in [Conns -> Seq(Frames)]
           /\ \A d \in Conns : Len(squeue'[d]) <= QueueCap
           /\ \A d \in Conns : d # c => squeue'[d] = squeue[d]
  <1>1. squeue[c] \in Seq(Frames) /\ QueueCap \in Nat
    BY SessionConstants DEF Typed, TypeOK
  <1>2. Append(squeue[c], f) \in Seq(Frames) /\ Len(squeue[c]) \in Nat
        /\ Len(Append(squeue[c], f)) = Len(squeue[c]) + 1
    BY <1>1, AppendPositions
  <1>3. Len(Append(squeue[c], f)) <= QueueCap
    BY <1>1, <1>2
  <1> QED BY <1>2, <1>3 DEF Post, Typed, TypeOK

\* The relay's answer to a Connect.
LEMMA TypedAnswer ==
    ASSUME Typed, Counting', NEW c \in Conns, RelayAnswer(c)
    PROVE  Typed'
  <1> USE DEF loopVars, sessionVars, clientVars
  <1>0. attempt' \in 0 .. AttemptMax /\ losses' \in 0 .. LossCap
    BY DEF Counting
  <1>1. spc[c] = "waiting" /\ squeue[c] = <<>> /\ c2s[c] # <<>> /\ Consume(c) /\ link[c] # "free"
    BY DEF RelayAnswer, Register, NameTaken, Refuse, Incoming, Typed, Unaccepted
  <1>2. c2s' \in [Conns -> Seq(Frames)]
    BY <1>1, ConsumeTypes
  <1>3. Len(squeue[c]) < QueueCap
    BY <1>1, SessionConstants
  <1>4. Plain("error") \in Frames
    BY DEF Plain, Frames, PlainKinds
  <1>5. CASE Register(c)
    BY <1>0, <1>1, <1>2, <1>5 DEF Register, Become, Typed, TypeOK, RelayPcs, Unaccepted
  <1>6. CASE NameTaken(c)
    BY <1>0, <1>1, <1>2, <1>6 DEF NameTaken, Become, Typed, TypeOK, RelayPcs, Unaccepted
  <1>7. CASE Refuse(c)
    <2>1. /\ squeue' \in [Conns -> Seq(Frames)]
          /\ \A d \in Conns : Len(squeue'[d]) <= QueueCap
          /\ \A d \in Conns : d # c => squeue'[d] = squeue[d]
      BY <1>3, <1>4, <1>7, PostTypes DEF Refuse
    <2> QED BY <1>0, <1>1, <1>2, <1>7, <2>1
            DEF Refuse, Become, Typed, TypeOK, RelayPcs, Unaccepted
  <1> QED BY <1>5, <1>6, <1>7 DEF RelayAnswer

\* From the registration to the ack.
LEMMA TypedBegin ==
    ASSUME Typed, Counting', NEW c \in Conns, RelayBegin(c)
    PROVE  Typed'
  <1> USE DEF loopVars, sessionVars, clientVars, netVars
  <1>0. attempt' \in 0 .. AttemptMax /\ losses' \in 0 .. LossCap
    BY DEF Counting
  <1>1. CASE Acknowledge(c)
    <2>1. Plain("ack") \in Frames
      BY DEF Plain, Frames, PlainKinds
    <2>2. /\ squeue' \in [Conns -> Seq(Frames)]
          /\ \A d \in Conns : Len(squeue'[d]) <= QueueCap
          /\ \A d \in Conns : d # c => squeue'[d] = squeue[d]
      BY <1>1, <2>1, PostTypes DEF Acknowledge
    <2> QED BY <1>0, <1>1, <2>2 DEF Acknowledge, Become, Typed, TypeOK, RelayPcs, Unaccepted
  <1>2. CASE RegisteredFails(c)
    BY <1>0, <1>2 DEF RegisteredFails, Become, Typed, TypeOK, RelayPcs, Unaccepted
  <1> QED BY <1>1, <1>2 DEF RelayBegin

\* The relay's read loop.
LEMMA TypedRead ==
    ASSUME Typed, Counting', NEW c \in Conns, RelayRead(c)
    PROVE  Typed'
  <1> USE DEF loopVars, sessionVars, clientVars, netVars, relayVars
  <1>0. attempt' \in 0 .. AttemptMax /\ losses' \in 0 .. LossCap
    BY DEF Counting
  <1>1. CASE NoConnect(c)
    BY <1>0, <1>1 DEF NoConnect, Become, Typed, TypeOK, RelayPcs, Unaccepted
  <1>2. CASE ReadResponse(c)
    <2>1. c2s' \in [Conns -> Seq(Frames)]
      BY <1>2, ConsumeTypes DEF ReadResponse, Incoming
    <2> QED BY <1>0, <1>2, <2>1 DEF ReadResponse, Typed, TypeOK, Unaccepted
  <1>3. CASE ReadEnd(c)
    <2>1. c2s' \in [Conns -> Seq(Frames)]
      BY <1>3, ConsumeTypes DEF ReadEnd, Incoming
    <2> QED BY <1>0, <1>3, <2>1, SessionConstants
            DEF ReadEnd, Become, Typed, TypeOK, RelayPcs, Unaccepted
  <1>4. CASE ReadFails(c)
    <2>1. <<>> \in Seq(Frames)
      OBVIOUS
    <2> QED BY <1>0, <1>4, <2>1 DEF ReadFails, Become, Typed, TypeOK, RelayPcs, Unaccepted
  <1>5. CASE RelayJoin(c)
    BY <1>0, <1>5 DEF RelayJoin, Become, Typed, TypeOK, RelayPcs, Unaccepted
  <1> QED BY <1>1, <1>2, <1>3, <1>4, <1>5 DEF RelayRead

\* The relay's writer.
LEMMA TypedRelayWriter ==
    ASSUME Typed, Counting', NEW c \in Conns, RelayWriter(c)
    PROVE  Typed'
  <1> USE DEF loopVars, sessionVars, clientVars
  <1>0. attempt' \in 0 .. AttemptMax /\ losses' \in 0 .. LossCap
    BY DEF Counting
  <1>1. squeue[c] \in Seq(Frames) /\ s2c[c] \in Seq(Frames) /\ Len(squeue[c]) <= QueueCap
    BY DEF Typed, TypeOK
  <1>2. ASSUME NEW f \in Frames PROVE Append(s2c[c], f) \in Seq(Frames)
    BY <1>1, <1>2, AppendPositions
  <1>3. CASE RelayWriterSends(c)
    <2>1. Tail(squeue[c]) \in Seq(Frames) /\ Head(squeue[c]) \in Frames
          /\ Len(Tail(squeue[c])) = Len(squeue[c]) - 1 /\ Len(squeue[c]) \in Nat
      BY <1>1, <1>3, TailPositions DEF RelayWriterSends
    <2>2. Len(Tail(squeue[c])) <= QueueCap
      BY <1>1, <2>1, SessionConstants
    <2>3. squeue' \in [Conns -> Seq(Frames)] /\ \A d \in Conns : Len(squeue'[d]) <= QueueCap
      BY <1>3, <2>1, <2>2 DEF RelayWriterSends, Typed, TypeOK
    <2>4. s2c' \in [Conns -> Seq(Frames)] /\ swriter' \in [Conns -> BOOLEAN]
      BY <1>2, <1>3, <2>1 DEF RelayWriterSends, Typed, TypeOK
    <2>5. Unaccepted'
      BY <1>3 DEF RelayWriterSends, Typed, TypeOK, Unaccepted
    <2> QED BY <1>0, <1>3, <2>3, <2>4, <2>5 DEF RelayWriterSends, Typed, TypeOK
  <1>4. CASE RelayWriterEnds(c)
    <2>1. Plain("close") \in Frames
      BY DEF Plain, Frames, PlainKinds
    <2>2. s2c' \in [Conns -> Seq(Frames)] /\ swriter' \in [Conns -> BOOLEAN]
      BY <1>2, <1>4, <2>1 DEF RelayWriterEnds, Typed, TypeOK
    <2> QED BY <1>0, <1>4, <2>2 DEF RelayWriterEnds, Typed, TypeOK, Unaccepted
  <1> QED BY <1>3, <1>4 DEF RelayWriter

\* Connections that begin, break and are forgotten, and requests that arrive.
LEMMA TypedSurroundings ==
    ASSUME Typed, Counting', NEW c \in Conns,
           Connect(c) \/ Break(c) \/ Forget(c) \/ \E r \in Requests : Forward(c, r)
    PROVE  Typed'
  <1> USE DEF loopVars, sessionVars, clientVars, netVars, relayVars
  <1>0. attempt' \in 0 .. AttemptMax /\ losses' \in 0 .. LossCap
    BY DEF Counting
  <1>1. <<>> \in Seq(Frames) /\ Len(<<>>) <= QueueCap
    BY SessionConstants
  <1>2. CASE Connect(c)
    <2>1. <<Plain("connect")>> \in Seq(Frames)
      BY DEF Plain, Frames, PlainKinds
    <2>2. spc[c] = "none" /\ squeue[c] = <<>> /\ owner # c
      BY <1>2 DEF Connect, Typed, Unaccepted
    <2>3. TypeOK'
      BY <1>0, <1>2, <2>1 DEF Connect, Typed, TypeOK, RelayPcs, ClientPcs
    <2> QED BY <1>2, <2>2, <2>3 DEF Connect, Typed, TypeOK, Unaccepted
  <1>3. CASE Break(c)
    BY <1>0, <1>1, <1>3 DEF Break, Typed, TypeOK, Unaccepted
  <1>4. CASE Forget(c)
    <2>1. TypeOK'
      BY <1>0, <1>1, <1>4 DEF Forget, Typed, TypeOK, RelayPcs
    <2> QED BY <1>4, <2>1 DEF Forget, Typed, TypeOK, Unaccepted
  <1>5. ASSUME NEW r \in Requests, Forward(c, r) PROVE Typed'
    <2>1. owner = c /\ spc[c] \notin {"none", "waiting"} /\ fresh' \subseteq Requests
      BY <1>5 DEF Forward, Typed, TypeOK, Unaccepted
    <2>2. CASE UNCHANGED squeue
      BY <1>0, <1>5, <2>1, <2>2 DEF Forward, Typed, TypeOK, Unaccepted
    <2>3. CASE ~ UNCHANGED squeue
      <3>1. PICK kind \in {"request"} \cup (Faults \cap {"bad"}) : Post(c, Frame(kind, r))
        BY <1>5, <2>3 DEF Forward
      <3>2. Frame(kind, r) \in Frames
        BY <1>5, <3>1 DEF Frame, Frames, RequestKinds
      <3>3. Len(squeue[c]) < QueueCap
        BY <1>5, <2>3 DEF Forward
      <3>4. /\ squeue' \in [Conns -> Seq(Frames)]
            /\ \A d \in Conns : Len(squeue'[d]) <= QueueCap
            /\ \A d \in Conns : d # c => squeue'[d] = squeue[d]
        BY <3>1, <3>2, <3>3, PostTypes
      <3> QED BY <1>0, <1>5, <2>1, <3>4 DEF Forward, Typed, TypeOK, Unaccepted
    <2> QED BY <2>2, <2>3
  <1> QED BY <1>2, <1>3, <1>4, <1>5

LEMMA TypedNext ==
    ASSUME Typed, [Next]_vars
    PROVE  Typed'
  <1>1. Counting'
    BY CountingNext DEF Typed
  <1>2. CASE UNCHANGED vars
    BY <1>2 DEF vars, loopVars, sessionVars, netVars, relayVars, Typed, TypeOK, Counting, Unaccepted
  <1>3. CASE \/ Cancel \/ ConnectFails \/ ClientStep \/ ShutdownSeen \/ SleepEnds
             \/ PingStep \/ WriterStep \/ \E r \in Requests : TaskAnswers(r)
    BY <1>1, <1>3, TypedClient, TypedSession, TypedWriter DEF ClientStep
  <1>4. ASSUME NEW c \in Conns,
               \/ Connect(c)
               \/ RelayAnswer(c) \/ RelayBegin(c) \/ RelayRead(c) \/ RelayWriter(c)
               \/ \E r \in Requests : Forward(c, r)
               \/ Break(c) \/ Forget(c)
        PROVE  Typed'
    BY <1>1, <1>4, TypedAnswer, TypedBegin, TypedRead, TypedRelayWriter, TypedSurroundings
  <1> QED BY <1>2, <1>3, <1>4 DEF Next, Finished

\* The types are kept, and with them the bound of both channels: the client's tasks
\* wait for room (mpsc::Sender::send), and so do the relay's requests and its ack; an
\* Error is queued before anything else can be.
THEOREM TypeCorrect == Spec => []TypeOK
  <1>1. Typed => TypeOK
    BY DEF Typed
  <1> QED BY <1>1, TypedInit, TypedNext, PTL DEF Spec

-----------------------------------------------------------------------------
(***************************************************************************)
(* The delays                                                              *)
(***************************************************************************)
\* The delay doubles with each count up to the sixth, and has the cap by then.
LEMMA DelayDoubles ==
    ASSUME BaseDelay >= 1000, NEW n \in Nat
    PROVE  /\ DelayAfter(0) = Lesser(BaseDelay, CapDelay)
           /\ DelayAfter(n + 1) = Lesser(2 * DelayAfter(n), CapDelay)
           /\ n >= 5 => DelayAfter(n) = CapDelay
  <1>1. BaseDelay \in Nat /\ ~ (BaseDelay < MinDelay)
    BY BackoffConstants DEF MinDelay
  <1>2. /\ Multiplier[1] = 1 /\ Multiplier[2] = 2 /\ Multiplier[3] = 4
        /\ Multiplier[4] = 8 /\ Multiplier[5] = 16 /\ Multiplier[6] = 32
    BY DEF Multiplier
  <1>3. /\ DelayAfter(0) = Lesser(BaseDelay * 1, CapDelay)
        /\ DelayAfter(1) = Lesser(BaseDelay * 2, CapDelay)
        /\ DelayAfter(2) = Lesser(BaseDelay * 4, CapDelay)
        /\ DelayAfter(3) = Lesser(BaseDelay * 8, CapDelay)
        /\ DelayAfter(4) = Lesser(BaseDelay * 16, CapDelay)
    <2>1. /\ Lesser(0, 5) + 1 = 1 /\ Lesser(1, 5) + 1 = 2 /\ Lesser(2, 5) + 1 = 3
          /\ Lesser(3, 5) + 1 = 4 /\ Lesser(4, 5) + 1 = 5
      BY DEF Lesser
    <2> QED BY <1>1, <1>2, <2>1 DEF DelayAfter
  <1>4. ASSUME NEW k \in Nat, k >= 5 PROVE DelayAfter(k) = CapDelay
    <2>1. Lesser(k, 5) + 1 = 6
      BY <1>4 DEF Lesser
    <2>2. DelayAfter(k) = Lesser(BaseDelay * 32, CapDelay)
      BY <1>1, <1>2, <2>1 DEF DelayAfter
    <2> QED BY <1>1, <2>2 DEF Lesser, CapDelay
  <1>5. CASE n >= 5
    <2>1. DelayAfter(n) = CapDelay /\ DelayAfter(n + 1) = CapDelay
      BY <1>4, <1>5
    <2>2. DelayAfter(0) = Lesser(BaseDelay, CapDelay)
      BY <1>1, <1>3
    <2>3. Lesser(2 * CapDelay, CapDelay) = CapDelay
      BY DEF Lesser, CapDelay
    <2> QED BY <2>1, <2>2, <2>3
  <1>6. CASE n \in {0, 1, 2, 3}
    BY <1>1, <1>3, <1>6 DEF Lesser, CapDelay
  <1>7. CASE n = 4
    <2>1. DelayAfter(5) = CapDelay
      BY <1>4
    <2> QED BY <1>1, <1>3, <1>7, <2>1 DEF Lesser, CapDelay
  <1>8. n >= 5 \/ n \in {0, 1, 2, 3} \/ n = 4
    OBVIOUS
  <1> QED BY <1>5, <1>6, <1>7, <1>8

\* The documented delay is what its recursive definition says: the delays of the
\* backoff are a function that satisfies the equation, so one exists.
Doubling(f) ==
    f = [n \in 1 .. LossCap |->
            IF n = 1 THEN Lesser(BaseDelay, CapDelay) ELSE Lesser(2 * f[n - 1], CapDelay)]

LEMMA DocumentedUnfolds ==
    ASSUME BaseDelay >= 1000
    PROVE  Doubling(DocumentedDelay)
  <1> DEFINE w == [n \in 1 .. LossCap |-> DelayAfter(n - 1)]
  <1>1. LossCap \in Nat
    BY BackoffConstants DEF LossCap
  <1>2. ASSUME NEW n \in 1 .. LossCap
        PROVE  w[n] = IF n = 1 THEN Lesser(BaseDelay, CapDelay) ELSE Lesser(2 * w[n - 1], CapDelay)
    <2>1. CASE n = 1
      <3>1. w[1] = DelayAfter(0)
        BY <1>1, <2>1
      <3> QED BY <2>1, <3>1, DelayDoubles
    <2>2. CASE n # 1
      <3>1. n - 1 \in 1 .. LossCap /\ n - 2 \in Nat /\ (n - 1) - 1 = n - 2 /\ (n - 2) + 1 = n - 1
        BY <1>1, <2>2
      <3>2. w[n] = DelayAfter(n - 1) /\ w[n - 1] = DelayAfter(n - 2)
        BY <3>1
      <3>3. DelayAfter((n - 2) + 1) = Lesser(2 * DelayAfter(n - 2), CapDelay)
        BY <3>1, DelayDoubles
      <3> QED BY <2>2, <3>1, <3>2, <3>3
    <2> QED BY <2>1, <2>2
  <1>3. Doubling(w)
    BY <1>2 DEF Doubling
  <1>4. DocumentedDelay = CHOOSE f : Doubling(f)
    BY Zenon DEF DocumentedDelay, Doubling
  <1> HIDE DEF w
  <1> QED BY <1>3, <1>4, Zenon

\* What the documented delay is for the loss after n others in a row.
LEMMA DocumentedStep ==
    ASSUME BaseDelay >= 1000
    PROVE  /\ DocumentedDelay[1] = DelayAfter(0)
           /\ \A n \in 1 .. LossCap - 1 :
                 DocumentedDelay[n] = DelayAfter(n - 1) => DocumentedDelay[n + 1] = DelayAfter(n)
  <1>1. LossCap \in Nat /\ 1 \in 1 .. LossCap
    BY BackoffConstants DEF LossCap
  <1>2. \A n \in 1 .. LossCap :
            DocumentedDelay[n] = IF n = 1 THEN Lesser(BaseDelay, CapDelay)
                                 ELSE Lesser(2 * DocumentedDelay[n - 1], CapDelay)
    BY DocumentedUnfolds DEF Doubling
  <1>3. DocumentedDelay[1] = DelayAfter(0)
    <2>1. 0 \in Nat
      OBVIOUS
    <2>2. DelayAfter(0) = Lesser(BaseDelay, CapDelay)
      BY <2>1, DelayDoubles
    <2> QED BY <1>1, <1>2, <2>2
  <1>4. ASSUME NEW n \in 1 .. LossCap - 1, DocumentedDelay[n] = DelayAfter(n - 1)
        PROVE  DocumentedDelay[n + 1] = DelayAfter(n)
    <2>1. n + 1 \in 1 .. LossCap /\ n + 1 # 1 /\ (n + 1) - 1 = n /\ n - 1 \in Nat /\ (n - 1) + 1 = n
      BY <1>1, <1>4
    <2>2. DocumentedDelay[n + 1] = Lesser(2 * DocumentedDelay[n], CapDelay)
      BY <1>2, <2>1
    <2>3. DelayAfter(n) = Lesser(2 * DelayAfter(n - 1), CapDelay)
      BY <2>1, DelayDoubles
    <2> QED BY <1>4, <2>2, <2>3
  <1> QED BY <1>3, <1>4

\* The counter of the backoff is the number of losses in a row, as far as the delay
\* depends on it; what is documented for that number is what next_delay returned for
\* the count before it, and a sleeping client sleeps that long.
Delayed ==
    cpc \notin Final =>
        /\ attempt = losses \/ (attempt >= 5 /\ losses >= 5)
        /\ losses >= 1 => DocumentedDelay[losses] = DelayAfter(losses - 1)
        /\ cpc = "sleeping" => losses >= 1 /\ delay = DelayAfter(losses - 1)

\* A step that is not a loss does not begin a sleep.
LEMMA NoLossNoSleep ==
    ASSUME [Next]_vars
    PROVE  \/ \E had \in BOOLEAN : cpc \notin Final /\ AfterLoss(had)
           \/ cpc' \in Final
           \/ UNCHANGED <<attempt, losses, delay>> /\ cpc \notin Final /\ (cpc' = "sleeping" => cpc = "sleeping")
  <1> USE DEF Final, loopVars, clientVars
  <1>1. CASE UNCHANGED vars
    BY <1>1 DEF vars
  <1>2. CASE Cancel \/ StopAtTop \/ SleepEnds \/ StopAsleep
    BY <1>2 DEF Cancel, StopAtTop, SleepEnds, StopAsleep
  <1>3. CASE ConnectFails \/ HandshakeFails
    BY <1>3 DEF ConnectFails, HandshakeFails
  <1>4. CASE Join
    BY <1>4 DEF Join
  <1>5. CASE Acknowledged \/ HandshakeDrops \/ ShutdownSeen \/ LoopFails \/ SpawnProxyTask
    BY <1>5 DEF Acknowledged, HandshakeDrops, ShutdownSeen, LoopFails, SpawnProxyTask, Leave
  <1>6. CASE PingStep \/ WriterStep \/ \E r \in Requests : TaskAnswers(r)
    BY <1>6 DEF PingStep, PingStops, PingTick, WriterStep, WriterSends, WriterFails,
         WriterEnds, TaskAnswers
  <1>7. ASSUME NEW c \in Conns,
               \/ Connect(c) \/ RelayAnswer(c) \/ RelayBegin(c) \/ RelayRead(c) \/ RelayWriter(c)
               \/ Break(c) \/ Forget(c) \/ \E r \in Requests : Forward(c, r)
        PROVE  UNCHANGED <<attempt, losses, delay>> /\ (cpc' = cpc \/ (cpc = "loop" /\ cpc' = "handshake"))
    BY <1>7 DEF Connect, RelayAnswer, Register, NameTaken, Refuse, RelayBegin, Acknowledge,
         RegisteredFails, RelayRead, NoConnect,
         ReadResponse, ReadEnd, ReadFails, RelayJoin, RelayWriter, RelayWriterSends,
         RelayWriterEnds, Break, Forget, Forward
  <1> QED
    BY <1>1, <1>2, <1>3, <1>4, <1>5, <1>6, <1>7 DEF Next, ClientStep, Finished

LEMMA DelayedNext ==
    ASSUME BaseDelay >= 1000, Typed, Delayed, [Next]_vars
    PROVE  Delayed'
  <1>1. CASE cpc' \in Final
    BY <1>1 DEF Delayed
  <1>2. CASE UNCHANGED <<attempt, losses, delay>> /\ cpc \notin Final /\ (cpc' = "sleeping" => cpc = "sleeping")
    BY <1>2 DEF Delayed
  <1>3. ASSUME NEW had \in BOOLEAN, cpc \notin Final, AfterLoss(had), cpc' \notin Final
        PROVE  Delayed'
    <2> DEFINE n == IF had THEN 0 ELSE attempt
    <2>1. attempt \in Nat /\ losses \in 0 .. LossCap /\ LossCap \in Nat \ {0}
          /\ AttemptMax \in Nat /\ AttemptMax >= 5 /\ attempt <= AttemptMax
      BY BackoffConstants, SessionConstants DEF Typed, Counting, LossCap
    <2>2. attempt' = Saturating(n) /\ delay' = DelayAfter(n) /\ losses' = OneMoreLoss(had)
      BY <1>3 DEF AfterLoss, Final
    <2>3. CASE had
      <3>1. attempt' = 1 /\ losses' = 1 /\ delay' = DelayAfter(0) /\ 1 - 1 = 0
        BY <2>1, <2>2, <2>3 DEF Saturating, OneMoreLoss
      <3> QED BY <3>1, DocumentedStep DEF Delayed
    <2>4. CASE ~ had /\ losses < LossCap /\ losses = attempt
      <3>1. losses' = losses + 1 /\ delay' = DelayAfter(losses) /\ (losses + 1) - 1 = losses
        BY <2>1, <2>2, <2>4 DEF OneMoreLoss, Lesser
      <3>2. attempt' = losses' \/ (attempt' >= 5 /\ losses' >= 5)
        BY <2>1, <2>2, <2>4, <3>1 DEF Saturating
      <3>3. DocumentedDelay[losses + 1] = DelayAfter(losses)
        <4>1. CASE losses = 0
          BY <4>1, DocumentedStep
        <4>2. CASE losses # 0
          <5>1. losses \in 1 .. LossCap - 1 /\ losses >= 1
            BY <2>1, <2>4, <4>2
          <5> QED BY <1>3, <5>1, DocumentedStep DEF Delayed
        <4> QED BY <4>1, <4>2
      <3>4. losses + 1 >= 1
        BY <2>1
      <3> QED BY <3>1, <3>2, <3>3, <3>4 DEF Delayed
    <2>5. CASE ~ had /\ losses < LossCap /\ losses # attempt
      <3>1. attempt >= 5 /\ losses >= 5
        BY <1>3, <2>5 DEF Delayed
      <3>2. losses' = losses + 1 /\ delay' = DelayAfter(attempt) /\ (losses + 1) - 1 = losses
            /\ losses \in Nat /\ losses \in 1 .. LossCap - 1
        BY <2>1, <2>2, <2>5, <3>1 DEF OneMoreLoss, Lesser
      <3>3. attempt' >= 5 /\ losses' >= 5 /\ losses >= 1
        BY <2>1, <2>2, <2>5, <3>1, <3>2 DEF Saturating
      <3>4. DelayAfter(attempt) = CapDelay /\ DelayAfter(losses) = CapDelay
        BY <2>1, <3>1, <3>2, DelayDoubles
      <3>5. DocumentedDelay[losses + 1] = DelayAfter(losses)
        BY <1>3, <3>2, <3>3, DocumentedStep DEF Delayed
      <3>6. losses + 1 >= 1
        BY <3>2
      <3> QED BY <3>2, <3>3, <3>4, <3>5, <3>6 DEF Delayed
    <2>6. CASE ~ had /\ ~ (losses < LossCap)
      <3>1. losses = LossCap /\ losses' = losses
        BY <2>1, <2>2, <2>6 DEF OneMoreLoss, Lesser
      <3>2. MaxAttempts = 0
        <4>1. MaxAttempts # 0 => losses <= MaxAttempts /\ LossCap = MaxAttempts + 1
          BY <1>3 DEF Typed, Counting, LossCap
        <4> QED BY <3>1, <4>1, BackoffConstants
      <3>3. losses = 7 /\ attempt >= 5
        BY <1>3, <3>1, <3>2 DEF LossCap, Delayed
      <3>4. attempt' >= 5
        BY <2>1, <2>2, <2>6, <3>3 DEF Saturating
      <3>5. DelayAfter(attempt) = CapDelay /\ DelayAfter(losses - 1) = CapDelay
        <4>1. losses - 1 \in Nat /\ losses - 1 >= 5
          BY <3>3
        <4> QED BY <2>1, <3>3, <4>1, DelayDoubles
      <3>6. delay' = DelayAfter(losses' - 1) /\ losses' >= 5
        BY <2>2, <2>6, <3>1, <3>3, <3>5
      <3>7. losses >= 1 /\ losses' >= 1
        BY <3>1, <3>3
      <3>8. DocumentedDelay[losses'] = DelayAfter(losses' - 1)
        BY <1>3, <3>1, <3>7 DEF Delayed
      <3> QED BY <3>4, <3>6, <3>7, <3>8 DEF Delayed
    <2> QED BY <2>3, <2>4, <2>5, <2>6
  <1> QED BY <1>1, <1>2, <1>3, NoLossNoSleep

\* The delay that next_delay returns is the one the README documents for the number of
\* losses in a row, however many there were: reset() and the counter agree with what
\* run_with_token saw, and the saturating counter shortens no delay.
THEOREM DelaysDocumented == Spec => []SleepsAsDocumented
  <1>1. CASE BaseDelay >= 1000
    <2>1. Init => Delayed
      BY DEF Init, Delayed
    <2>2. Typed /\ Delayed /\ [Next]_vars => Delayed'
      BY <1>1, DelayedNext
    <2>3. Delayed => SleepsAsDocumented
      BY DEF Delayed, SleepsAsDocumented, Final
    <2> QED BY <2>1, <2>2, <2>3, TypedInit, TypedNext, PTL DEF Spec
  <1>2. CASE ~ (BaseDelay >= 1000)
    <2>1. SleepsAsDocumented
      BY <1>2 DEF SleepsAsDocumented
    <2> QED BY <2>1, PTL
  <1> QED BY <1>1, <1>2
=============================================================================
