----------------------------- MODULE HttpRelay -----------------------------
(***************************************************************************)
(* The bodies of HTTP requests on their way through one tunnel.  Handlers  *)
(* of the relay (proxy/mod.rs, streaming.rs, body.rs) collect a body and   *)
(* send it in one frame, or stream it in chunks; the frames of all         *)
(* handlers share one channel; the client (proxy.rs, handle_frame of       *)
(* tunnel.rs) puts streamed bodies together again and hands each body to   *)
(* the local service.                                                      *)
(*                                                                         *)
(* A body is a sequence of pieces <<request, position>>, of one size unit  *)
(* each, and arrives at the relay in HTTP body frames of any length.       *)
(* Channel, writer task and websocket are one FIFO; the writer checks the  *)
(* size of a frame when the frame gets to its head.  Pending requests and  *)
(* answers are in PendingStore, the end of a session in TunnelSession.     *)
(***************************************************************************)
EXTENDS Naturals, Sequences

CONSTANTS
    Requests,
    Sizes,          \* the sizes of the bodies requests come with
    Enabled,        \* streaming.enabled
    Threshold,      \* streaming.threshold_bytes
    ChunkSize,      \* streaming.chunk_size_bytes
    RelayMax,       \* streaming.max_body_bytes
    CollectMax,     \* request_body_limit_bytes
    FrameMax,       \* DEFAULT_MAX_BODY_SIZE
    ClientMax,      \* STREAM_BUFFER_LIMIT
    Cap             \* capacity of the channel (64)

ASSUME RelayConstants ==
    /\ Enabled \in BOOLEAN
    /\ {Threshold, RelayMax, CollectMax, FrameMax, ClientMax} \subseteq Nat
    /\ ChunkSize \in Nat \ {0} /\ Cap \in Nat \ {0}
    /\ Sizes \subseteq Nat

VARIABLES
    size,       \* constant: the size of each request's body
    declared,   \* constant: whether it has a Content-Length
    pc,         \* where its handler stands
    total,      \* how much of the body stream_with_path has read
    sent,       \* how much of that it has sent in chunks
    writer,     \* the relay's writer task: up or dead
    wire,       \* frames on their way to the client
    cloop,      \* the client's main loop: reading or failed
    streams,    \* pending_streams: what has come of each body being streamed
    got         \* the bodies handed to a proxy task for the local service, per request

handlerVars == <<size, declared, pc, total, sent>>
clientVars  == <<cloop, streams, got>>
vars == <<handlerVars, writer, wire, clientVars>>

Piece(r, from, to) == [i \in 1 .. to - from |-> <<r, from + i>>]
Content(r) == Piece(r, 0, size[r])

Init ==
    /\ size \in [Requests -> Sizes] /\ declared \in [Requests -> BOOLEAN]
    /\ pc = [r \in Requests |-> "new"]
    /\ total = [r \in Requests |-> 0] /\ sent = [r \in Requests |-> 0]
    /\ writer = "up" /\ wire = <<>>
    /\ cloop = "reading" /\ streams = <<>>
    /\ got = [r \in Requests |-> <<>>]

-----------------------------------------------------------------------------
(***************************************************************************)
(* The handlers of the relay                                               *)
(***************************************************************************)
Goto(r, to) == pc' = [pc EXCEPT ![r] = to]

\* ActiveTunnel::send waits for room, and fails when the writer is gone.
Send(r, f, to) ==
    \/ /\ writer = "up" /\ Len(wire) < Cap
       /\ wire' = Append(wire, f) /\ Goto(r, to)
    \/ writer = "dead" /\ Goto(r, "failed") /\ UNCHANGED wire

\* Without a Content-Length hyper knows no upper bound of the body's size.
ShouldStream(r) == Enabled /\ declared[r] /\ size[r] >= Threshold

\* The request is registered, or refused by the store, and the way it goes chosen.
Register(r) ==
    /\ pc[r] = "new"
    /\ Goto(r, IF ShouldStream(r) THEN "start" ELSE "collect") \/ Goto(r, "failed")
    /\ UNCHANGED <<size, declared, total, sent, writer, wire, clientVars>>

\* The body fails, or the caller hangs up and the handler is dropped.
BodyFails(r) ==
    /\ pc[r] \in {"start", "stream", "collect", "send"}
    /\ Goto(r, "failed")
    /\ UNCHANGED <<size, declared, total, sent, writer, wire, clientVars>>

\* BodyCollector::collect, by the size announced or by what has come.
Collect(r) ==
    /\ pc[r] = "collect"
    /\ Goto(r, IF size[r] > CollectMax THEN "failed" ELSE "send")
    /\ UNCHANGED <<size, declared, total, sent, writer, wire, clientVars>>

SendRequest(r) ==
    /\ pc[r] = "send"
    /\ Send(r, [kind |-> "request", id |-> r, data |-> Content(r)], "sent")
    /\ UNCHANGED <<size, declared, total, sent, writer, clientVars>>

SendStart(r) ==
    /\ pc[r] = "start"
    /\ Send(r, [kind |-> "start", id |-> r, data |-> <<>>], "stream")
    /\ UNCHANGED <<size, declared, total, sent, writer, clientVars>>

\* Mutant: a body over the limit ends the loop instead of the function.
ReadFrame_Truncates(r) ==
    /\ pc[r] = "stream" /\ sent[r] = total[r] /\ total[r] < size[r]
    /\ \E n \in total[r] + 1 .. size[r] :
          /\ total' = [total EXCEPT ![r] = n]
          /\ IF n > RelayMax
             THEN Send(r, [kind |-> "end", id |-> r, data |-> <<>>], "sent")
             ELSE UNCHANGED <<pc, wire>>
    /\ UNCHANGED <<size, declared, sent, writer, clientVars>>

\* stream_with_path: the next frame of the body, which hyper cuts as it likes, is
\* counted; a body over the limit is given up without an End.
ReadFrame(r) ==
    /\ pc[r] = "stream" /\ sent[r] = total[r]
    /\ \E n \in total[r] + 1 .. size[r] :
          /\ total' = [total EXCEPT ![r] = n]
          /\ IF n > RelayMax THEN Goto(r, "failed") ELSE UNCHANGED pc
    /\ UNCHANGED <<size, declared, sent, writer, wire, clientVars>>

\* data.chunks(chunk_size_bytes): the last chunk of a frame may be shorter.
ChunkEnd(r) == IF sent[r] + ChunkSize < total[r] THEN sent[r] + ChunkSize ELSE total[r]

SendChunk(r) ==
    /\ pc[r] = "stream" /\ sent[r] < total[r]
    /\ Send(r, [kind |-> "chunk", id |-> r, data |-> Piece(r, sent[r], ChunkEnd(r))], "stream")
    /\ sent' = [sent EXCEPT ![r] = ChunkEnd(r)]
    /\ UNCHANGED <<size, declared, total, writer, clientVars>>

\* Mutant: no End after a last chunk that is full.
SendEnd_UnlessFull(r) ==
    /\ pc[r] = "stream" /\ sent[r] = size[r]
    /\ IF total[r] % ChunkSize = 0 THEN Goto(r, "sent") /\ UNCHANGED wire
       ELSE Send(r, [kind |-> "end", id |-> r, data |-> <<>>], "sent")
    /\ UNCHANGED <<size, declared, total, sent, writer, clientVars>>

SendEnd(r) ==
    /\ pc[r] = "stream" /\ sent[r] = size[r]
    /\ Send(r, [kind |-> "end", id |-> r, data |-> <<>>], "sent")
    /\ UNCHANGED <<size, declared, total, sent, writer, clientVars>>

\* Message::validate, called by encode.
Encodes(f) == Len(f.data) <= FrameMax

\* The writer task returns the error of a frame that is too large, and with it
\* the channel is gone.
WriterDies ==
    /\ wire # <<>> /\ ~ Encodes(Head(wire))
    /\ writer' = "dead" /\ wire' = <<>>
    /\ UNCHANGED <<handlerVars, clientVars>>

-----------------------------------------------------------------------------
(***************************************************************************)
(* The client                                                              *)
(***************************************************************************)
Arrives(kind) ==
    /\ cloop = "reading" /\ wire # <<>> /\ Encodes(Head(wire)) /\ Head(wire).kind = kind
    /\ wire' = Tail(wire)

Streaming(r) == r \in DOMAIN streams
WithStream(r, data) == [q \in DOMAIN streams \cup {r} |-> IF q = r THEN data ELSE streams[q]]

\* spawn_proxy_task: a task of its own has the body for the local service.  Whether the
\* service can be reached is the task's matter (it answers with 502 if not).
HandOver(r, body) == got' = [got EXCEPT ![r] = Append(@, body)]

HttpRequest ==
    /\ Arrives("request")
    /\ HandOver(Head(wire).id, Head(wire).data)
    /\ UNCHANGED <<handlerVars, writer, cloop, streams>>

BeginStreaming ==
    /\ Arrives("start")
    /\ streams' = WithStream(Head(wire).id, <<>>)
    /\ UNCHANGED <<handlerVars, writer, cloop, got>>

\* Mutant: the limit is taken as exclusive.
PushChunk_Exclusive ==
    /\ Arrives("chunk")
    /\ LET r == Head(wire).id
       IN  IF Streaming(r) /\ Len(streams[r]) + Len(Head(wire).data) < ClientMax
           THEN streams' = WithStream(r, streams[r] \o Head(wire).data) /\ UNCHANGED cloop
           ELSE cloop' = "failed" /\ UNCHANGED streams
    /\ UNCHANGED <<handlerVars, writer, got>>

\* Mutant: chunks are appended without a look at the limit.
PushChunk_Unlimited ==
    /\ Arrives("chunk")
    /\ LET r == Head(wire).id
       IN  IF Streaming(r)
           THEN streams' = WithStream(r, streams[r] \o Head(wire).data) /\ UNCHANGED cloop
           ELSE cloop' = "failed" /\ UNCHANGED streams
    /\ UNCHANGED <<handlerVars, writer, got>>

\* push_streaming_chunk: an unknown stream, or one over the limit, is an error
\* that ends the main loop, and with it the session of every request.
PushChunk ==
    /\ Arrives("chunk")
    /\ LET r == Head(wire).id
       IN  IF Streaming(r) /\ Len(streams[r]) + Len(Head(wire).data) <= ClientMax
           THEN streams' = WithStream(r, streams[r] \o Head(wire).data) /\ UNCHANGED cloop
           ELSE cloop' = "failed" /\ UNCHANGED streams
    /\ UNCHANGED <<handlerVars, writer, got>>

\* Mutant: the stream is read and not removed.
FinishStreaming_Keeps ==
    /\ Arrives("end")
    /\ IF Streaming(Head(wire).id) THEN HandOver(Head(wire).id, streams[Head(wire).id])
       ELSE UNCHANGED got
    /\ UNCHANGED <<handlerVars, writer, cloop, streams>>

\* finish_streaming_request; an End without a stream is ignored.
FinishStreaming ==
    /\ Arrives("end")
    /\ LET r == Head(wire).id
       IN  IF Streaming(r)
           THEN /\ HandOver(r, streams[r])
                /\ streams' = [q \in DOMAIN streams \ {r} |-> streams[q]]
           ELSE UNCHANGED <<got, streams>>
    /\ UNCHANGED <<handlerVars, writer, cloop>>

-----------------------------------------------------------------------------
Handler(r) == \/ Register(r) \/ Collect(r) \/ SendRequest(r)
              \/ SendStart(r) \/ ReadFrame(r) \/ SendChunk(r) \/ SendEnd(r)
Client == HttpRequest \/ BeginStreaming \/ PushChunk \/ FinishStreaming

Next == WriterDies \/ Client \/ \E r \in Requests : Handler(r) \/ BodyFails(r)

Spec == Init /\ [][Next]_vars

\* The writer and the client's main loop run when they can; nothing is assumed of
\* callers and handlers.
FairSpec == Spec /\ WF_vars(WriterDies) /\ WF_vars(Client)

-----------------------------------------------------------------------------
(***************************************************************************)
(* Properties                                                              *)
(***************************************************************************)
HandlerPcs == {"new", "collect", "send", "start", "stream", "sent", "failed"}

\* The variables keep their types and the channel its capacity; the client never
\* buffers more than its limit for a stream.
TypeOK ==
    /\ size \in [Requests -> Sizes] /\ declared \in [Requests -> BOOLEAN]
    /\ total \in [Requests -> Nat] /\ sent \in [Requests -> Nat]
    /\ pc \in [Requests -> HandlerPcs]
    /\ writer \in {"up", "dead"} /\ cloop \in {"reading", "failed"}
    /\ Len(wire) <= Cap
    /\ \A i \in 1 .. Len(wire) :
           wire[i].kind \in {"request", "start", "chunk", "end"} /\ wire[i].id \in Requests
    /\ DOMAIN streams \subseteq Requests
    /\ \A r \in DOMAIN streams : Len(streams[r]) <= ClientMax
    /\ DOMAIN got = Requests

\* What the relay has made of a request.
Outcome(r) == CASE pc[r] = "sent" -> "accepted" [] pc[r] = "failed" -> "refused" [] OTHER -> "open"

Relayed == INSTANCE BodyRelay WITH
    Contents <- Seq(Requests \X (Nat \ {0})),
    content <- [r \in Requests |-> Content(r)],
    outcome <- [r \in Requests |-> Outcome(r)],
    got <- got

\* The tunnel keeps the promise of BodyRelay: with handlers that interleave their
\* chunks and fail half way, the service gets the body of a request the relay has
\* sent completely, whole and once, and nothing of one that was given up.
BodiesRelayed == Relayed!Spec

\* A stream the client keeps belongs to a handler that is still at it or whose End
\* is on its way; or the handler gave up, and the buffer stays for good.
StreamsAccounted ==
    cloop = "reading" /\ writer = "up" =>
        \A r \in DOMAIN streams :
            \/ pc[r] \in {"stream", "failed"}
            \/ \E i \in 1 .. Len(wire) : wire[i] = [kind |-> "end", id |-> r, data |-> <<>>]

\* A tunnel is broken by a request only in two ways: a body the relay streams and
\* the client finds too large, or a frame over the size that can be encoded, which
\* the relay's own limits let pass.
BreaksWithCause ==
    /\ cloop = "failed" => \E r \in Requests : ShouldStream(r) /\ size[r] > ClientMax
    /\ writer = "dead" => ChunkSize > FrameMax \/ \E r \in Requests :
            ~ ShouldStream(r) /\ size[r] \in FrameMax + 1 .. CollectMax

\* The body of a request that was sent completely arrives at the client's proxy task,
\* unless the tunnel breaks.
SentBodyArrives ==
    \A r \in Requests : pc[r] = "sent" ~> (got[r] # <<>> \/ writer = "dead" \/ cloop = "failed")
=============================================================================
