-------------------------- MODULE HttpRelayProofs --------------------------
(***************************************************************************)
(* Proofs about HttpRelay, for any set of requests, any sizes of bodies,   *)
(* any limits and any capacity of the channel.                             *)
(***************************************************************************)
EXTENDS HttpRelay, FrameQueues

-----------------------------------------------------------------------------
(***************************************************************************)
(* The inductive invariant                                                 *)
(***************************************************************************)
Pieces      == Requests \X (Nat \ {0})
FrameKinds  == {"request", "start", "chunk", "end"}
StreamKinds == {"start", "chunk", "end"}
Frames == [kind : FrameKinds, id : Requests, data : Seq(Pieces)]
Of(kinds, r) == {f \in Frames : f.kind \in kinds /\ f.id = r}

\* What a frame holds, for as long as it is under way.
Good(f) ==
    /\ f.kind \in {"start", "end"} => f.data = <<>>
    /\ f.kind = "chunk" => Len(f.data) <= ChunkSize /\ ShouldStream(f.id)
    /\ f.kind = "request" => /\ f.data = Content(f.id) /\ ~ ShouldStream(f.id)
                             /\ size[f.id] <= CollectMax

Early == {"new", "collect", "send", "start"}
Live  == writer = "up" /\ cloop = "reading"

\* What stays true of a request even in a tunnel that is broken.
Kept(r) ==
    /\ pc[r] \in {"start", "stream"} => ShouldStream(r)
    /\ pc[r] \in {"collect", "send"} => ~ ShouldStream(r)
    /\ pc[r] = "send" => size[r] <= CollectMax
    /\ sent[r] <= total[r] /\ total[r] <= size[r]
    /\ pc[r] \in Early => sent[r] = 0
    /\ got[r] \in {<<>>, <<Content(r)>>}
    /\ got[r] # <<>> => pc[r] = "sent"

\* The chunks of r in q are its body of size s from lo to hi, without a gap, and an
\* End comes only after the whole body: e[i] is how far the first i frames get.
Links(q, r, s, lo, hi, e) ==
    /\ e[0] = lo /\ e[Len(q)] = hi
    /\ \A i \in 1 .. Len(q) :
          /\ q[i] \in Of({"chunk"}, r)
                => e[i - 1] <= e[i] /\ q[i].data = Piece(r, e[i - 1], e[i])
          /\ q[i] \notin Of({"chunk"}, r) => e[i] = e[i - 1]
          /\ q[i] \in Of({"end"}, r) => e[i - 1] = s

Chain(q, r, s, lo, hi) == \E e \in [0 .. Len(q) -> 0 .. s] : Links(q, r, s, lo, hi, e)

Arrived(r) == IF Streaming(r) THEN Len(streams[r]) ELSE 0

\* In which order the frames of a request come.
Ordered(r) ==
    /\ ~ Before(wire, Of(StreamKinds, r), Of({"start"}, r))
    /\ ~ Before(wire, Of({"end"}, r), Of(StreamKinds, r))
    /\ ~ Before(wire, Of({"request"}, r), Of({"request"}, r))

\* What they say of the handler and of the client.
Under(r) ==
    /\ pc[r] \in Early => ~ Streaming(r) /\ ~ Has(wire, Of(FrameKinds, r))
    /\ pc[r] \in {"stream", "failed"} => ~ Has(wire, Of({"end"}, r)) /\ ~ Has(wire, Of({"request"}, r))
    /\ pc[r] = "stream" => Streaming(r) \/ Has(wire, Of({"start"}, r))
    /\ Has(wire, Of({"start"}, r)) => ~ Streaming(r)
    /\ Has(wire, Of({"chunk"}, r)) => Streaming(r) \/ Has(wire, Of({"start"}, r))
    /\ Has(wire, Of({"end"}, r)) => Streaming(r) \/ Has(wire, Of({"start"}, r))
    /\ Has(wire, Of({"end"}, r)) \/ Has(wire, Of({"request"}, r)) => pc[r] = "sent" /\ got[r] = <<>>
    /\ Has(wire, Of({"request"}, r)) => ~ Streaming(r) /\ ~ Has(wire, Of(StreamKinds, r))
    /\ pc[r] = "sent" /\ (Streaming(r) \/ Has(wire, Of({"start"}, r))) => Has(wire, Of({"end"}, r))
    /\ Streaming(r) => streams[r] = Piece(r, 0, Len(streams[r]))

Whole(r) ==
    Streaming(r) \/ Has(wire, Of({"start"}, r)) => Chain(wire, r, size[r], Arrived(r), sent[r])

WireOK ==
    /\ wire \in Seq(Frames) /\ Len(wire) <= Cap
    /\ \A i \in 1 .. Len(wire) : Good(wire[i])
    /\ writer = "dead" => wire = <<>>

Typed ==
    /\ TypeOK /\ WireOK
    /\ \A r \in DOMAIN streams : streams[r] \in Seq(Pieces)

Relaying(r) == Ordered(r) /\ Under(r) /\ Whole(r)

RelayInv == \A r \in Requests : Kept(r) /\ (Live => Relaying(r))

-----------------------------------------------------------------------------
(***************************************************************************)
(* Pieces, and chains of them                                              *)
(***************************************************************************)
LEMMA PieceTypes ==
    ASSUME NEW r \in Requests, NEW a \in Nat, NEW b \in Nat, a <= b
    PROVE  /\ Piece(r, a, b) \in Seq(Pieces) /\ Len(Piece(r, a, b)) = b - a
           /\ Piece(r, a, a) = <<>>
  <1>1. ASSUME NEW i \in 1 .. b - a PROVE <<r, a + i>> \in Pieces
    BY DEF Pieces
  <1>2. b - a \in Nat /\ Piece(r, a, b) \in [1 .. b - a -> Pieces]
    BY <1>1 DEF Piece
  <1>3. Piece(r, a, b) \in Seq(Pieces) /\ Len(Piece(r, a, b)) = b - a
    BY <1>2
  <1>4. Piece(r, a, a) = <<>>
    BY DEF Piece
  <1> QED BY <1>3, <1>4

LEMMA PieceConcat ==
    ASSUME NEW r \in Requests, NEW a \in Nat, NEW b \in Nat, NEW c \in Nat, a <= b, b <= c
    PROVE  Piece(r, a, b) \o Piece(r, b, c) = Piece(r, a, c)
  <1> DEFINE p == Piece(r, a, b)
             q == Piece(r, b, c)
             w == Piece(r, a, c)
  <1>0. a <= c
    OBVIOUS
  <1>1. /\ p \in Seq(Pieces) /\ q \in Seq(Pieces) /\ w \in Seq(Pieces)
        /\ Len(p) = b - a /\ Len(q) = c - b /\ Len(w) = c - a
    BY <1>0, PieceTypes
  <1>2. /\ \A i \in 1 .. b - a : p[i] = <<r, a + i>>
        /\ \A i \in 1 .. c - b : q[i] = <<r, b + i>>
        /\ \A i \in 1 .. c - a : w[i] = <<r, a + i>>
    BY DEF Piece
  <1> HIDE DEF p, q, w
  <1>3. /\ p \o q \in Seq(Pieces) /\ Len(p \o q) = Len(p) + Len(q)
        /\ \A i \in 1 .. Len(p) + Len(q) :
              (p \o q)[i] = IF i <= Len(p) THEN p[i] ELSE q[i - Len(p)]
    BY <1>1, ConcatProperties
  <1>4. Len(p) + Len(q) = c - a
    BY <1>1
  <1>5. ASSUME NEW i \in 1 .. c - a PROVE (p \o q)[i] = w[i]
    <2>1. CASE i <= b - a
      <3>1. i \in 1 .. b - a
        BY <2>1
      <3>2. (p \o q)[i] = p[i]
        BY <1>1, <1>3, <1>4, <2>1
      <3> QED BY <1>2, <3>1, <3>2
    <2>2. CASE ~ (i <= b - a)
      <3>1. i - (b - a) \in 1 .. c - b /\ b + (i - (b - a)) = a + i
        BY <2>2
      <3> QED BY <1>1, <1>2, <1>3, <1>4, <2>2, <3>1
    <2> QED BY <2>1, <2>2
  <1>6. p \o q = w
    BY <1>1, <1>3, <1>4, <1>5, SeqEqual
  <1> QED BY <1>6 DEF p, q, w

LEMMA ChainAppend ==
    ASSUME NEW q \in Seq(Frames), NEW f \in Frames, NEW r, NEW s \in Nat, NEW lo, NEW hi,
           Chain(q, r, s, lo, hi), f \notin Of({"chunk"}, r), f \in Of({"end"}, r) => hi = s
    PROVE  Chain(Append(q, f), r, s, lo, hi)
  <1>0. PICK e \in [0 .. Len(q) -> 0 .. s] : Links(q, r, s, lo, hi, e)
    BY DEF Chain
  <1>1. /\ e[0] = lo /\ e[Len(q)] = hi
        /\ \A i \in 1 .. Len(q) :
              /\ q[i] \in Of({"chunk"}, r)
                    => e[i - 1] <= e[i] /\ q[i].data = Piece(r, e[i - 1], e[i])
              /\ q[i] \notin Of({"chunk"}, r) => e[i] = e[i - 1]
              /\ q[i] \in Of({"end"}, r) => e[i - 1] = s
    BY <1>0 DEF Links
  <1> DEFINE g == [i \in 0 .. Len(q) + 1 |-> IF i = Len(q) + 1 THEN hi ELSE e[i]]
  <1>2. Len(q) \in Nat /\ Len(Append(q, f)) = Len(q) + 1
    BY AppendPositions
  <1>3. /\ g \in [0 .. Len(q) + 1 -> 0 .. s] /\ g[0] = lo /\ g[Len(q) + 1] = hi
        /\ g[Len(q)] = hi
        /\ \A i \in 1 .. Len(q) : g[i] = e[i] /\ g[i - 1] = e[i - 1]
    BY <1>1, <1>2
  <1> HIDE DEF g
  <1>4. ASSUME NEW i \in 1 .. Len(q) + 1
        PROVE  /\ Append(q, f)[i] \in Of({"chunk"}, r)
                     => g[i - 1] <= g[i] /\ Append(q, f)[i].data = Piece(r, g[i - 1], g[i])
               /\ Append(q, f)[i] \notin Of({"chunk"}, r) => g[i] = g[i - 1]
               /\ Append(q, f)[i] \in Of({"end"}, r) => g[i - 1] = s
    <2>1. CASE i = Len(q) + 1
      <3>1. Append(q, f)[i] = f /\ i - 1 = Len(q)
        BY <1>2, <2>1, AppendPositions
      <3> QED BY <1>3, <2>1, <3>1
    <2>2. CASE i \in 1 .. Len(q)
      <3>1. Append(q, f)[i] = q[i]
        BY <2>2, AppendPositions
      <3> QED BY <1>1, <1>3, <2>2, <3>1
    <2> QED BY <1>2, <2>1, <2>2
  <1>5. Links(Append(q, f), r, s, lo, hi, g)
    BY <1>2, <1>3, <1>4 DEF Links
  <1> QED BY <1>2, <1>3, <1>5 DEF Chain

LEMMA ChainAppendChunk ==
    ASSUME NEW q \in Seq(Frames), NEW f \in Frames, NEW r, NEW s \in Nat, NEW lo, NEW hi,
           Chain(q, r, s, lo, hi), NEW to \in 0 .. s, hi <= to,
           f \in Of({"chunk"}, r), f.data = Piece(r, hi, to)
    PROVE  Chain(Append(q, f), r, s, lo, to)
  <1>0. PICK e \in [0 .. Len(q) -> 0 .. s] : Links(q, r, s, lo, hi, e)
    BY DEF Chain
  <1>1. /\ e[0] = lo /\ e[Len(q)] = hi
        /\ \A i \in 1 .. Len(q) :
              /\ q[i] \in Of({"chunk"}, r)
                    => e[i - 1] <= e[i] /\ q[i].data = Piece(r, e[i - 1], e[i])
              /\ q[i] \notin Of({"chunk"}, r) => e[i] = e[i - 1]
              /\ q[i] \in Of({"end"}, r) => e[i - 1] = s
    BY <1>0 DEF Links
  <1> DEFINE g == [i \in 0 .. Len(q) + 1 |-> IF i = Len(q) + 1 THEN to ELSE e[i]]
  <1>2. Len(q) \in Nat /\ Len(Append(q, f)) = Len(q) + 1
    BY AppendPositions
  <1>3. /\ g \in [0 .. Len(q) + 1 -> 0 .. s] /\ g[0] = lo /\ g[Len(q) + 1] = to
        /\ g[Len(q)] = hi
        /\ \A i \in 1 .. Len(q) : g[i] = e[i] /\ g[i - 1] = e[i - 1]
    BY <1>1, <1>2
  <1>5. f \notin Of({"end"}, r)
    BY DEF Of
  <1> HIDE DEF g
  <1>4. ASSUME NEW i \in 1 .. Len(q) + 1
        PROVE  /\ Append(q, f)[i] \in Of({"chunk"}, r)
                     => g[i - 1] <= g[i] /\ Append(q, f)[i].data = Piece(r, g[i - 1], g[i])
               /\ Append(q, f)[i] \notin Of({"chunk"}, r) => g[i] = g[i - 1]
               /\ Append(q, f)[i] \in Of({"end"}, r) => g[i - 1] = s
    <2>1. CASE i = Len(q) + 1
      <3>1. Append(q, f)[i] = f /\ i - 1 = Len(q)
        BY <1>2, <2>1, AppendPositions
      <3> QED BY <1>3, <1>5, <2>1, <3>1
    <2>2. CASE i \in 1 .. Len(q)
      <3>1. Append(q, f)[i] = q[i]
        BY <2>2, AppendPositions
      <3> QED BY <1>1, <1>3, <2>2, <3>1
    <2> QED BY <1>2, <2>1, <2>2
  <1>6. Links(Append(q, f), r, s, lo, to, g)
    BY <1>2, <1>3, <1>4 DEF Links
  <1> QED BY <1>2, <1>3, <1>6 DEF Chain

LEMMA ChainTail ==
    ASSUME NEW q \in Seq(Frames), q # <<>>, NEW r, NEW s \in Nat, NEW lo, NEW hi,
           Chain(q, r, s, lo, hi)
    PROVE  /\ lo \in 0 .. s
           /\ Head(q) \in Of({"end"}, r) => lo = s
           /\ Head(q) \notin Of({"chunk"}, r) => Chain(Tail(q), r, s, lo, hi)
           /\ Head(q) \in Of({"chunk"}, r) =>
                 \E mid \in 0 .. s : /\ lo <= mid /\ Head(q).data = Piece(r, lo, mid)
                                      /\ Chain(Tail(q), r, s, mid, hi)
  <1>0. PICK e \in [0 .. Len(q) -> 0 .. s] : Links(q, r, s, lo, hi, e)
    BY DEF Chain
  <1>1. /\ e[0] = lo /\ e[Len(q)] = hi
        /\ \A i \in 1 .. Len(q) :
              /\ q[i] \in Of({"chunk"}, r)
                    => e[i - 1] <= e[i] /\ q[i].data = Piece(r, e[i - 1], e[i])
              /\ q[i] \notin Of({"chunk"}, r) => e[i] = e[i - 1]
              /\ q[i] \in Of({"end"}, r) => e[i - 1] = s
    BY <1>0 DEF Links
  <1> DEFINE g == [i \in 0 .. Len(q) - 1 |-> e[i + 1]]
  <1>2. /\ Len(q) \in Nat \ {0} /\ Len(Tail(q)) = Len(q) - 1 /\ Head(q) = q[1]
        /\ 1 \in 1 .. Len(q) /\ 1 - 1 = 0
    BY TailPositions
  <1>3. /\ g \in [0 .. Len(q) - 1 -> 0 .. s] /\ g[0] = e[1] /\ g[Len(q) - 1] = hi
        /\ \A i \in 1 .. Len(q) - 1 : g[i] = e[i + 1] /\ g[i - 1] = e[i]
    BY <1>1, <1>2
  <1>4. lo \in 0 .. s /\ e[1] \in 0 .. s /\ (Head(q) \in Of({"end"}, r) => lo = s)
    BY <1>1, <1>2
  <1>5. IF Head(q) \in Of({"chunk"}, r)
        THEN lo <= e[1] /\ Head(q).data = Piece(r, lo, e[1]) ELSE e[1] = lo
    BY <1>1, <1>2
  <1> HIDE DEF g
  <1>6. ASSUME NEW i \in 1 .. Len(q) - 1
        PROVE  /\ Tail(q)[i] \in Of({"chunk"}, r)
                     => g[i - 1] <= g[i] /\ Tail(q)[i].data = Piece(r, g[i - 1], g[i])
               /\ Tail(q)[i] \notin Of({"chunk"}, r) => g[i] = g[i - 1]
               /\ Tail(q)[i] \in Of({"end"}, r) => g[i - 1] = s
    <2>1. Tail(q)[i] = q[i + 1] /\ i + 1 \in 1 .. Len(q) /\ (i + 1) - 1 = i
      BY <1>2, TailPositions
    <2> QED BY <1>1, <1>3, <2>1
  <1>7. Links(Tail(q), r, s, e[1], hi, g)
    BY <1>2, <1>3, <1>6 DEF Links
  <1>8. Chain(Tail(q), r, s, e[1], hi)
    BY <1>2, <1>3, <1>7 DEF Chain
  <1> QED BY <1>4, <1>5, <1>8

LEMMA ChainNone ==
    ASSUME NEW q \in Seq(Frames), NEW r, NEW s \in Nat, NEW n \in 0 .. s,
           ~ Has(q, Of({"chunk"}, r)), ~ Has(q, Of({"end"}, r))
    PROVE  Chain(q, r, s, n, n)
  <1> DEFINE e == [i \in 0 .. Len(q) |-> n]
  <1>1. Len(q) \in Nat
    BY LenProperties
  <1>2. /\ e \in [0 .. Len(q) -> 0 .. s] /\ e[0] = n /\ e[Len(q)] = n
        /\ \A i \in 1 .. Len(q) : e[i] = n /\ e[i - 1] = n
    BY <1>1
  <1> HIDE DEF e
  <1>3. Links(q, r, s, n, n, e)
    BY <1>2 DEF Links, Has
  <1> QED BY <1>2, <1>3 DEF Chain

-----------------------------------------------------------------------------
(***************************************************************************)
(* The steps, and their types                                              *)
(***************************************************************************)
HandlerStep(r) == \/ Register(r) \/ BodyFails(r) \/ Collect(r) \/ SendRequest(r)
                  \/ SendStart(r) \/ ReadFrame(r) \/ SendChunk(r) \/ SendEnd(r)

LEMMA StepCases ==
    ASSUME [Next]_vars
    PROVE  \/ \E r \in Requests : HandlerStep(r)
           \/ HttpRequest \/ BeginStreaming \/ PushChunk \/ FinishStreaming
           \/ WriterDies \/ UNCHANGED vars
  BY DEF Next, Handler, Client, HandlerStep

LEMMA SizesStay ==
    ASSUME [Next]_vars
    PROVE  UNCHANGED <<size, declared>>
  BY StepCases DEF HandlerStep, Register, BodyFails, Collect, SendRequest, SendStart, ReadFrame,
       SendChunk, SendEnd, HttpRequest, BeginStreaming, PushChunk, FinishStreaming, WriterDies,
       handlerVars, vars

LEMMA SendTypes ==
    ASSUME Typed, NEW r \in Requests, NEW f \in Frames, Good(f), NEW to \in HandlerPcs,
           Send(r, f, to), UNCHANGED <<size, declared, writer>>
    PROVE  WireOK' /\ pc' \in [Requests -> HandlerPcs]
  <1>1. pc' \in [Requests -> HandlerPcs]
    BY DEF Send, Goto, Typed, TypeOK, HandlerPcs
  <1>2. CASE writer = "up" /\ Len(wire) < Cap /\ wire' = Append(wire, f)
    <2>1. wire \in Seq(Frames)
      BY DEF Typed, WireOK
    <2>2. wire' \in Seq(Frames) /\ Len(wire') = Len(wire) + 1 /\ Len(wire) \in Nat
      BY <1>2, <2>1, AppendPositions
    <2>3. \A i \in 1 .. Len(wire') : wire'[i] = f \/ (i \in 1 .. Len(wire) /\ wire'[i] = wire[i])
      BY <1>2, <2>1, AppendPositions
    <2>4. \A i \in 1 .. Len(wire') : Good(wire'[i])
      BY <2>3 DEF Typed, WireOK
    <2>5. \A i \in 1 .. Len(wire') : Good(wire[i])'
      BY <2>4 DEF Good, ShouldStream, Content
    <2>6. Len(wire') <= Cap
      BY <1>2, <2>2, RelayConstants
    <2> QED BY <1>1, <1>2, <2>2, <2>5, <2>6 DEF WireOK
  <1>3. CASE writer = "dead" /\ UNCHANGED wire
    BY <1>1, <1>3 DEF Typed, WireOK, Good, ShouldStream, Content
  <1> QED BY <1>1, <1>2, <1>3 DEF Send

\* The frame at the head of the wire is handled.
LEMMA TakeTypes ==
    ASSUME Typed, wire # <<>>, wire' = Tail(wire), UNCHANGED <<size, declared, writer>>
    PROVE  /\ WireOK' /\ Head(wire) \in Frames /\ Good(Head(wire)) /\ writer = "up"
           /\ Head(wire).id \in Requests /\ Head(wire).data \in Seq(Pieces)
           /\ Head(wire) \in Of({Head(wire).kind}, Head(wire).id)
  <1>1. wire \in Seq(Frames) /\ writer = "up"
    BY DEF Typed, TypeOK, WireOK
  <1>2. /\ Tail(wire) \in Seq(Frames) /\ Head(wire) \in Frames /\ Head(wire) = wire[1]
        /\ Len(Tail(wire)) = Len(wire) - 1 /\ Len(wire) \in Nat \ {0} /\ 1 \in 1 .. Len(wire)
        /\ \A i \in 1 .. Len(Tail(wire)) : Tail(wire)[i] = wire[i + 1] /\ i + 1 \in 1 .. Len(wire)
    BY <1>1, TailPositions
  <1>3. \A i \in 1 .. Len(wire') : Good(wire'[i])
    BY <1>2 DEF Typed, WireOK
  <1>4. \A i \in 1 .. Len(wire') : Good(wire[i])'
    BY <1>3 DEF Good, ShouldStream, Content
  <1>5. Good(Head(wire)) /\ Len(wire') <= Cap
    BY <1>2, RelayConstants DEF Typed, WireOK
  <1>6. WireOK'
    BY <1>1, <1>2, <1>4, <1>5 DEF WireOK
  <1> QED BY <1>1, <1>2, <1>5, <1>6 DEF Frames, Of

\* What the relay's handlers send.
LEMMA FramesSent ==
    ASSUME Typed, NEW r \in Requests, Kept(r)
    PROVE  /\ pc[r] = "send" => LET f == [kind |-> "request", id |-> r, data |-> Content(r)]
                                IN  f \in Of({"request"}, r) /\ Good(f)
           /\ pc[r] = "stream" /\ sent[r] < total[r] =>
                 LET f == [kind |-> "chunk", id |-> r, data |-> Piece(r, sent[r], ChunkEnd(r))]
                 IN  /\ f \in Of({"chunk"}, r) /\ Good(f)
                     /\ sent[r] <= ChunkEnd(r) /\ ChunkEnd(r) <= total[r] /\ ChunkEnd(r) \in Nat
           /\ pc[r] = "start" => LET f == [kind |-> "start", id |-> r, data |-> <<>>]
                                 IN  f \in Of({"start"}, r) /\ Good(f)
           /\ LET f == [kind |-> "end", id |-> r, data |-> <<>>]
              IN  f \in Of({"end"}, r) /\ Good(f)
  <1>1. size[r] \in Nat /\ sent[r] \in Nat /\ total[r] \in Nat /\ ChunkSize \in Nat \ {0}
    BY RelayConstants DEF Typed, TypeOK
  <1>2. <<>> \in Seq(Pieces)
    OBVIOUS
  <1>3. ASSUME pc[r] = "send"
        PROVE  LET f == [kind |-> "request", id |-> r, data |-> Content(r)]
               IN  f \in Of({"request"}, r) /\ Good(f)
    <2>0. 0 \in Nat /\ 0 <= size[r]
      BY <1>1
    <2>1. Content(r) \in Seq(Pieces)
      BY <1>1, <2>0, PieceTypes DEF Content
    <2>2. ~ ShouldStream(r) /\ size[r] <= CollectMax
      BY <1>3 DEF Kept
    <2> QED BY <2>1, <2>2 DEF Of, Frames, FrameKinds, Good
  <1>4. ASSUME pc[r] = "stream", sent[r] < total[r]
        PROVE  LET f == [kind |-> "chunk", id |-> r, data |-> Piece(r, sent[r], ChunkEnd(r))]
               IN  /\ f \in Of({"chunk"}, r) /\ Good(f)
                   /\ sent[r] <= ChunkEnd(r) /\ ChunkEnd(r) <= total[r] /\ ChunkEnd(r) \in Nat
    <2>1. /\ sent[r] <= ChunkEnd(r) /\ ChunkEnd(r) <= total[r] /\ ChunkEnd(r) \in Nat
          /\ ChunkEnd(r) - sent[r] <= ChunkSize
      BY <1>1, <1>4 DEF ChunkEnd
    <2>2. /\ Piece(r, sent[r], ChunkEnd(r)) \in Seq(Pieces)
          /\ Len(Piece(r, sent[r], ChunkEnd(r))) <= ChunkSize
      BY <1>1, <2>1, PieceTypes
    <2>3. ShouldStream(r)
      BY <1>4 DEF Kept
    <2> QED BY <2>1, <2>2, <2>3 DEF Of, Frames, FrameKinds, Good
  <1> QED BY <1>2, <1>3, <1>4 DEF Of, Frames, FrameKinds, Good

LEMMA TypedHandler ==
    ASSUME Typed, NEW r \in Requests, Kept(r), HandlerStep(r)
    PROVE  Typed'
  <1>0. ASSUME UNCHANGED <<size, declared, writer, clientVars>>, WireOK',
               pc' \in [Requests -> HandlerPcs], total' \in [Requests -> Nat],
               sent' \in [Requests -> Nat]
        PROVE  Typed'
    <2>1. \A i \in 1 .. Len(wire') : wire'[i] \in Frames
      BY <1>0, ElementOfSeq DEF WireOK
    <2>2. \A i \in 1 .. Len(wire') :
              wire'[i].kind \in {"request", "start", "chunk", "end"} /\ wire'[i].id \in Requests
      BY <2>1 DEF Frames, FrameKinds
    <2> QED BY <1>0, <2>2 DEF Typed, TypeOK, WireOK, clientVars
  <1>1. ASSUME UNCHANGED <<size, declared, writer, wire>> PROVE WireOK'
    BY <1>1 DEF Typed, WireOK, Good, ShouldStream, Content
  <1>2. /\ pc \in [Requests -> HandlerPcs] /\ total \in [Requests -> Nat]
        /\ sent \in [Requests -> Nat] /\ size[r] \in Nat
    BY RelayConstants DEF Typed, TypeOK
  <1>3. CASE Register(r) \/ BodyFails(r) \/ Collect(r)
    BY <1>0, <1>1, <1>2, <1>3 DEF Register, BodyFails, Collect, Goto, HandlerPcs
  <1>4. CASE ReadFrame(r)
    <2>1. total' \in [Requests -> Nat]
      <3>1. PICK n \in total[r] + 1 .. size[r] : total' = [total EXCEPT ![r] = n]
        BY <1>4 DEF ReadFrame
      <3>2. n \in Nat
        BY <1>2
      <3> QED BY <1>2, <3>1, <3>2
    <2> QED BY <1>0, <1>1, <1>2, <1>4, <2>1 DEF ReadFrame, Goto, HandlerPcs
  <1>5. CASE SendRequest(r)
    <2> DEFINE f == [kind |-> "request", id |-> r, data |-> Content(r)]
    <2>1. f \in Of({"request"}, r) /\ Good(f)
      BY <1>5, FramesSent DEF SendRequest
    <2>2. f \in Frames /\ "sent" \in HandlerPcs
      BY <2>1 DEF Of, HandlerPcs
    <2>3. Send(r, f, "sent") /\ UNCHANGED <<size, declared, total, sent, writer, clientVars>>
      BY <1>5 DEF SendRequest
    <2> HIDE DEF f
    <2> QED BY <1>0, <1>2, <2>1, <2>2, <2>3, SendTypes
  <1>6. CASE SendStart(r)
    <2> DEFINE f == [kind |-> "start", id |-> r, data |-> <<>>]
    <2>1. f \in Of({"start"}, r) /\ Good(f)
      BY <1>6, FramesSent DEF SendStart
    <2>2. f \in Frames /\ "stream" \in HandlerPcs
      BY <2>1 DEF Of, HandlerPcs
    <2>3. Send(r, f, "stream") /\ UNCHANGED <<size, declared, total, sent, writer, clientVars>>
      BY <1>6 DEF SendStart
    <2> HIDE DEF f
    <2> QED BY <1>0, <1>2, <2>1, <2>2, <2>3, SendTypes
  <1>7. CASE SendChunk(r)
    <2> DEFINE f == [kind |-> "chunk", id |-> r, data |-> Piece(r, sent[r], ChunkEnd(r))]
    <2>1. f \in Of({"chunk"}, r) /\ Good(f) /\ ChunkEnd(r) \in Nat
      BY <1>7, FramesSent DEF SendChunk
    <2>2. f \in Frames /\ "stream" \in HandlerPcs
      BY <2>1 DEF Of, HandlerPcs
    <2>3. /\ Send(r, f, "stream") /\ UNCHANGED <<size, declared, total, writer, clientVars>>
          /\ sent' \in [Requests -> Nat]
      BY <1>2, <1>7, <2>1 DEF SendChunk
    <2> HIDE DEF f
    <2> QED BY <1>0, <1>2, <2>1, <2>2, <2>3, SendTypes
  <1>8. CASE SendEnd(r)
    <2> DEFINE f == [kind |-> "end", id |-> r, data |-> <<>>]
    <2>1. f \in Of({"end"}, r) /\ Good(f)
      BY FramesSent
    <2>2. f \in Frames /\ "sent" \in HandlerPcs
      BY <2>1 DEF Of, HandlerPcs
    <2>3. Send(r, f, "sent") /\ UNCHANGED <<size, declared, total, sent, writer, clientVars>>
      BY <1>8 DEF SendEnd
    <2> HIDE DEF f
    <2> QED BY <1>0, <1>2, <2>1, <2>2, <2>3, SendTypes
  <1> QED BY <1>3, <1>4, <1>5, <1>6, <1>7, <1>8 DEF HandlerStep

LEMMA TypedClient ==
    ASSUME Typed, HttpRequest \/ BeginStreaming \/ PushChunk \/ FinishStreaming
    PROVE  Typed'
  <1> DEFINE f == Head(wire)
  <1>1. /\ wire # <<>> /\ wire' = Tail(wire) /\ UNCHANGED <<handlerVars, writer>>
    BY DEF HttpRequest, BeginStreaming, PushChunk, FinishStreaming, Arrives
  <1>2. /\ WireOK' /\ f.id \in Requests /\ f.data \in Seq(Pieces)
    BY <1>1, TakeTypes DEF handlerVars
  <1>3. ASSUME cloop' \in {"reading", "failed"}, DOMAIN streams' \subseteq Requests,
               \A r \in DOMAIN streams' : streams'[r] \in Seq(Pieces) /\ Len(streams'[r]) <= ClientMax,
               DOMAIN got' = Requests
        PROVE  Typed'
    <2>1. \A i \in 1 .. Len(wire') : wire'[i] \in Frames
      BY <1>2, ElementOfSeq DEF WireOK
    <2>2. \A i \in 1 .. Len(wire') :
              wire'[i].kind \in {"request", "start", "chunk", "end"} /\ wire'[i].id \in Requests
      BY <2>1 DEF Frames, FrameKinds
    <2> QED BY <1>1, <1>2, <1>3, <2>2 DEF Typed, TypeOK, WireOK, handlerVars
  <1>4. /\ cloop \in {"reading", "failed"} /\ DOMAIN streams \subseteq Requests
        /\ \A r \in DOMAIN streams : streams[r] \in Seq(Pieces) /\ Len(streams[r]) <= ClientMax
        /\ DOMAIN got = Requests
    BY DEF Typed, TypeOK
  <1>5. <<>> \in Seq(Pieces) /\ Len(<<>>) <= ClientMax
    BY RelayConstants
  <1> HIDE DEF f
  <1>6. CASE HttpRequest
    BY <1>3, <1>4, <1>6 DEF HttpRequest, HandOver
  <1>7. CASE BeginStreaming
    BY <1>2, <1>3, <1>4, <1>5, <1>7 DEF BeginStreaming, WithStream, f
  <1>8. CASE PushChunk
    <2>1. CASE Streaming(f.id) /\ Len(streams[f.id]) + Len(f.data) <= ClientMax
      <3>1. streams[f.id] \o f.data \in Seq(Pieces)
            /\ Len(streams[f.id] \o f.data) = Len(streams[f.id]) + Len(f.data)
        BY <1>2, <1>4, <2>1, ConcatProperties DEF Streaming
      <3> DEFINE w == streams[f.id] \o f.data
      <3>2. /\ streams' = [q \in DOMAIN streams \cup {f.id} |-> IF q = f.id THEN w ELSE streams[q]]
            /\ UNCHANGED <<cloop, got>>
        BY <1>8, <2>1 DEF PushChunk, WithStream, f
      <3>3. w \in Seq(Pieces) /\ Len(w) <= ClientMax
        BY <2>1, <3>1
      <3> HIDE DEF w
      <3>4. /\ DOMAIN streams' \subseteq Requests
            /\ \A r \in DOMAIN streams' : streams'[r] \in Seq(Pieces) /\ Len(streams'[r]) <= ClientMax
        BY <1>2, <1>4, <3>2, <3>3
      <3> QED BY <1>3, <1>4, <3>2, <3>4
    <2>2. CASE ~ (Streaming(f.id) /\ Len(streams[f.id]) + Len(f.data) <= ClientMax)
      BY <1>3, <1>4, <1>8, <2>2 DEF PushChunk, f
    <2> QED BY <2>1, <2>2
  <1>9. CASE FinishStreaming
    BY <1>3, <1>4, <1>9 DEF FinishStreaming, HandOver, Streaming
  <1> QED BY <1>6, <1>7, <1>8, <1>9

-----------------------------------------------------------------------------
(***************************************************************************)
(* What a step leaves alone                                                *)
(***************************************************************************)
\* A step that concerns another request.
LEMMA Elsewhere ==
    ASSUME NEW r, Relaying(r), UNCHANGED size, pc'[r] = pc[r], sent'[r] = sent[r],
           got'[r] = got[r], Streaming(r)' <=> Streaming(r), Streaming(r) => streams'[r] = streams[r],
           \A kinds : Has(wire', Of(kinds, r)) <=> Has(wire, Of(kinds, r)),
           \A a, b : Before(wire', Of(a, r), Of(b, r)) => Before(wire, Of(a, r), Of(b, r)),
           \A lo, hi : Chain(wire, r, size[r], lo, hi) => Chain(wire', r, size[r], lo, hi)
    PROVE  Relaying(r)'
  <1>1. Ordered(r)'
    BY DEF Relaying, Ordered
  <1>2. Under(r)'
    BY DEF Relaying, Under
  <1>3. Whole(r)'
    BY DEF Relaying, Whole, Arrived
  <1> QED BY <1>1, <1>2, <1>3 DEF Relaying

LEMMA AppendElsewhere ==
    ASSUME wire \in Seq(Frames), NEW f \in Frames, wire' = Append(wire, f), NEW r, f.id # r,
           size[r] \in Nat, UNCHANGED <<size, streams, got>>, pc'[r] = pc[r], sent'[r] = sent[r],
           Relaying(r)
    PROVE  Relaying(r)'
  <1>1. \A kinds : f \notin Of(kinds, r)
    BY DEF Of
  <1>2. \A kinds : Has(wire', Of(kinds, r)) <=> Has(wire, Of(kinds, r))
    BY <1>1, HasAppend
  <1>3. \A a, b : Before(wire', Of(a, r), Of(b, r)) => Before(wire, Of(a, r), Of(b, r))
    BY <1>1, BeforeAppend
  <1>4. \A lo, hi : Chain(wire, r, size[r], lo, hi) => Chain(wire', r, size[r], lo, hi)
    BY <1>1, ChainAppend
  <1> QED BY <1>2, <1>3, <1>4, Elsewhere DEF Streaming

LEMMA TailElsewhere ==
    ASSUME wire \in Seq(Frames), wire # <<>>, wire' = Tail(wire), NEW r, Head(wire).id # r,
           size[r] \in Nat, UNCHANGED <<size, pc, sent>>, got'[r] = got[r],
           Streaming(r)' <=> Streaming(r), Streaming(r) => streams'[r] = streams[r], Relaying(r)
    PROVE  Relaying(r)'
  <1>1. \A kinds : Head(wire) \notin Of(kinds, r)
    BY DEF Of
  <1>2. \A kinds : Has(wire', Of(kinds, r)) <=> Has(wire, Of(kinds, r))
    BY <1>1, HasTail
  <1>3. \A a, b : Before(wire', Of(a, r), Of(b, r)) => Before(wire, Of(a, r), Of(b, r))
    BY BeforeTail
  <1>4. ASSUME NEW lo, NEW hi, Chain(wire, r, size[r], lo, hi)
        PROVE  Chain(wire', r, size[r], lo, hi)
    BY <1>1, <1>4, ChainTail
  <1> QED BY <1>2, <1>3, <1>4, Elsewhere

\* Sets of kinds, one by one.
LEMMA KindByKind ==
    ASSUME NEW q, NEW r
    PROVE  /\ Has(q, Of(StreamKinds, r)) <=> \/ Has(q, Of({"start"}, r)) \/ Has(q, Of({"chunk"}, r))
                                             \/ Has(q, Of({"end"}, r))
           /\ Has(q, Of(FrameKinds, r)) <=> \/ Has(q, Of({"start"}, r)) \/ Has(q, Of({"chunk"}, r))
                                            \/ Has(q, Of({"end"}, r)) \/ Has(q, Of({"request"}, r))
  BY DEF Has, Of, StreamKinds, FrameKinds

\* The request's own frame of some kind is sent, ...
LEMMA AppendOwn ==
    ASSUME wire \in Seq(Frames), NEW r, NEW kind \in FrameKinds, NEW f \in Of({kind}, r),
           wire' = Append(wire, f)
    PROVE  /\ \A k \in FrameKinds : Has(wire', Of({k}, r)) <=> Has(wire, Of({k}, r)) \/ k = kind
           /\ Before(wire', Of(StreamKinds, r), Of({"start"}, r)) =>
                 \/ Before(wire, Of(StreamKinds, r), Of({"start"}, r))
                 \/ kind = "start" /\ Has(wire, Of(StreamKinds, r))
           /\ Before(wire', Of({"end"}, r), Of(StreamKinds, r)) =>
                 Before(wire, Of({"end"}, r), Of(StreamKinds, r)) \/ Has(wire, Of({"end"}, r))
           /\ Before(wire', Of({"request"}, r), Of({"request"}, r)) =>
                 \/ Before(wire, Of({"request"}, r), Of({"request"}, r))
                 \/ Has(wire, Of({"request"}, r))
  <1>1. f \in Frames /\ \A k \in FrameKinds : f \in Of({k}, r) <=> k = kind
    BY DEF Of
  <1>2. \A k \in FrameKinds : Has(wire', Of({k}, r)) <=> Has(wire, Of({k}, r)) \/ k = kind
    BY <1>1, HasAppend
  <1>3. \A A, B : Before(wire', A, B) => Before(wire, A, B) \/ (Has(wire, A) /\ f \in B)
    BY <1>1, BeforeAppend
  <1>4. "start" \in FrameKinds
    BY DEF FrameKinds
  <1> QED BY <1>1, <1>2, <1>3, <1>4

\* ... or taken.
LEMMA TailOwn ==
    ASSUME wire \in Seq(Frames), wire # <<>>, wire' = Tail(wire), NEW r, NEW kind \in FrameKinds,
           Head(wire) \in Of({kind}, r), Ordered(r)
    PROVE  /\ Ordered(r)'
           /\ Has(wire, Of({kind}, r))
           /\ \A k \in FrameKinds : Has(wire', Of({k}, r)) => Has(wire, Of({k}, r))
           /\ \A k \in FrameKinds \ {kind} : Has(wire, Of({k}, r)) => Has(wire', Of({k}, r))
           /\ kind = "request" => ~ Has(wire', Of({"request"}, r))
           /\ kind # "request" => ~ Has(wire', Of({"start"}, r))
           /\ kind = "end" => ~ Has(wire', Of(StreamKinds, r))
  <1>1. \A k \in FrameKinds : Head(wire) \in Of({k}, r) <=> k = kind
    BY DEF Of
  <1>2. \A A : Has(wire, A) <=> Has(wire', A) \/ Head(wire) \in A
    BY HasTail
  <1>3. \A A, B : Before(wire', A, B) => Before(wire, A, B)
    BY BeforeTail
  <1>4. \A A, B : Head(wire) \in A /\ Has(wire', B) => Before(wire, A, B)
    BY BeforeTail
  <1>5. kind # "request" => Head(wire) \in Of(StreamKinds, r)
    BY DEF Of, StreamKinds, FrameKinds
  <1>6. Ordered(r)'
    BY <1>3 DEF Ordered
  <1>7. /\ kind = "request" => ~ Has(wire', Of({"request"}, r))
        /\ kind # "request" => ~ Has(wire', Of({"start"}, r))
        /\ kind = "end" => ~ Has(wire', Of(StreamKinds, r))
    BY <1>4, <1>5 DEF Ordered
  <1> QED BY <1>1, <1>2, <1>6, <1>7

-----------------------------------------------------------------------------
(***************************************************************************)
(* The handlers keep the invariant                                         *)
(***************************************************************************)
\* What a handler's step does to its own request; others keep what they have.
LEMMA KeptHandler ==
    ASSUME Typed, NEW j \in Requests, HandlerStep(j), NEW r \in Requests, Kept(r)
    PROVE  /\ Kept(r)' /\ UNCHANGED <<size, declared, writer, clientVars>>
           /\ r # j => pc'[r] = pc[r] /\ sent'[r] = sent[r] /\ total'[r] = total[r]
  <1>1. /\ pc \in [Requests -> HandlerPcs] /\ total \in [Requests -> Nat]
        /\ sent \in [Requests -> Nat] /\ size[r] \in Nat
    BY RelayConstants DEF Typed, TypeOK
  <1>2. UNCHANGED <<size, declared, writer, clientVars>>
    BY DEF HandlerStep, Register, BodyFails, Collect, SendRequest, SendStart, ReadFrame, SendChunk,
         SendEnd
  <1>3. ASSUME r # j PROVE pc'[r] = pc[r] /\ sent'[r] = sent[r] /\ total'[r] = total[r]
    BY <1>1, <1>3 DEF HandlerStep, Register, BodyFails, Collect, SendRequest, SendStart, ReadFrame,
         SendChunk, SendEnd, Send, Goto
  <1>4. (ShouldStream(r)' <=> ShouldStream(r)) /\ Content(r)' = Content(r)
    BY <1>2 DEF ShouldStream, Content
  <1>5. ASSUME r = j PROVE Kept(r)'
    <2>1. CASE Register(r)
      BY <1>1, <1>2, <1>4, <2>1 DEF Register, Goto, Kept, Early, clientVars
    <2>2. CASE BodyFails(r)
      BY <1>1, <1>2, <1>4, <2>2 DEF BodyFails, Goto, Kept, Early, clientVars
    <2>3. CASE Collect(r)
      <3>1. CollectMax \in Nat
        BY RelayConstants
      <3> QED BY <1>1, <1>2, <1>4, <2>3, <3>1 DEF Collect, Goto, Kept, Early, clientVars
    <2>4. CASE SendRequest(r)
      BY <1>1, <1>2, <1>4, <2>4 DEF SendRequest, Send, Goto, Kept, Early, clientVars
    <2>5. CASE SendStart(r)
      BY <1>1, <1>2, <1>4, <2>5 DEF SendStart, Send, Goto, Kept, Early, clientVars
    <2>6. CASE ReadFrame(r)
      <3>1. PICK n \in total[r] + 1 .. size[r] :
                /\ total' = [total EXCEPT ![r] = n]
                /\ IF n > RelayMax THEN Goto(r, "failed") ELSE UNCHANGED pc
        BY <2>6 DEF ReadFrame
      <3>2. total'[r] = n /\ total[r] <= n /\ n <= size[r] /\ sent[r] <= n
        BY <1>1, <3>1 DEF Kept
      <3>3. UNCHANGED sent /\ pc[r] = "stream" /\ (pc'[r] = "failed" \/ pc'[r] = pc[r])
        BY <1>1, <2>6, <3>1 DEF ReadFrame, Goto
      <3> QED BY <1>2, <1>4, <3>2, <3>3 DEF Kept, Early, clientVars
    <2>7. CASE SendChunk(r)
      <3>1. sent[r] <= ChunkEnd(r) /\ ChunkEnd(r) <= total[r] /\ ChunkEnd(r) \in Nat
        BY <2>7, FramesSent DEF SendChunk
      <3>2. /\ sent'[r] = ChunkEnd(r) /\ UNCHANGED total /\ pc[r] = "stream"
            /\ (pc'[r] = "failed" \/ pc'[r] = pc[r])
        BY <1>1, <2>7 DEF SendChunk, Send, Goto
      <3> QED BY <1>1, <1>2, <1>4, <3>1, <3>2 DEF Kept, Early, clientVars
    <2>8. CASE SendEnd(r)
      BY <1>1, <1>2, <1>4, <2>8 DEF SendEnd, Send, Goto, Kept, Early, clientVars
    <2> QED BY <1>5, <2>1, <2>2, <2>3, <2>4, <2>5, <2>6, <2>7, <2>8 DEF HandlerStep
  <1>6. ASSUME r # j PROVE Kept(r)'
    BY <1>2, <1>3, <1>4, <1>6 DEF Kept, clientVars
  <1> QED BY <1>2, <1>3, <1>5, <1>6

\* The wire and the streams stay, and the handler is at a later stage.
LEMMA RelayingMoves ==
    ASSUME NEW r, Kept(r), Relaying(r), UNCHANGED <<size, wire, streams, got>>, sent'[r] = sent[r],
           \/ pc[r] = "new" /\ pc'[r] \in {"start", "collect", "failed"}
           \/ pc[r] = "collect" /\ pc'[r] \in {"send", "failed"}
           \/ pc[r] \in {"start", "stream", "collect", "send"} /\ pc'[r] = "failed"
           \/ pc'[r] = pc[r]
    PROVE  Relaying(r)'
  <1>1. Ordered(r)'
    BY DEF Relaying, Ordered
  <1>2. Whole(r)'
    BY DEF Relaying, Whole, Arrived, Streaming
  <1>3. Under(r)'
    BY KindByKind DEF Relaying, Under, Streaming, Early
  <1> QED BY <1>1, <1>2, <1>3 DEF Relaying

LEMMA RelayingHandler ==
    ASSUME Typed, NEW j \in Requests, Kept(j), HandlerStep(j),
           NEW r \in Requests, Kept(r), Live, Relaying(r)
    PROVE  Relaying(r)'
  <1>1. /\ pc \in [Requests -> HandlerPcs] /\ total \in [Requests -> Nat]
        /\ sent \in [Requests -> Nat] /\ size[r] \in Nat /\ wire \in Seq(Frames)
    BY RelayConstants DEF Typed, TypeOK, WireOK
  <1>2. UNCHANGED <<size, streams, got>>
    BY KeptHandler DEF clientVars
  <1>3. CASE Register(j) \/ BodyFails(j) \/ Collect(j) \/ ReadFrame(j)
    <2>1. UNCHANGED <<wire, sent>>
      BY <1>3 DEF Register, BodyFails, Collect, ReadFrame
    <2>2. \/ pc[r] = "new" /\ pc'[r] \in {"start", "collect", "failed"}
          \/ pc[r] = "collect" /\ pc'[r] \in {"send", "failed"}
          \/ pc[r] \in {"start", "stream", "collect", "send"} /\ pc'[r] = "failed"
          \/ pc'[r] = pc[r]
      BY <1>1, <1>3 DEF Register, BodyFails, Collect, ReadFrame, Goto
    <2> QED BY <1>2, <2>1, <2>2, RelayingMoves
  <1>4. ASSUME NEW f, NEW to, Send(j, f, to), f \in Frames, f.id = j, r # j
        PROVE  Relaying(r)'
    <2>1. wire' = Append(wire, f)
      BY <1>4 DEF Send, Live
    <2>2. pc'[r] = pc[r] /\ sent'[r] = sent[r]
      BY <1>4, KeptHandler
    <2> QED BY <1>1, <1>2, <1>4, <2>1, <2>2, AppendElsewhere
  <1>5. ASSUME NEW kind \in FrameKinds, NEW f \in Of({kind}, r), NEW to, Send(r, f, to)
        PROVE  /\ wire' = Append(wire, f) /\ pc'[r] = to
               /\ \A k \in FrameKinds : Has(wire', Of({k}, r)) <=> Has(wire, Of({k}, r)) \/ k = kind
               /\ Ordered(r)' \/ (kind = "start" /\ Has(wire, Of(StreamKinds, r)))
                    \/ Has(wire, Of({"end"}, r)) \/ Has(wire, Of({"request"}, r))
    <2>1. wire' = Append(wire, f) /\ pc'[r] = to
      BY <1>1, <1>5 DEF Send, Live, Goto
    <2> QED BY <1>1, <2>1, AppendOwn DEF Relaying, Ordered
  <1>6. /\ Streaming(r)' <=> Streaming(r)
        /\ Streaming(r) => streams'[r] = streams[r]
        /\ Arrived(r)' = Arrived(r)
    BY <1>2 DEF Streaming, Arrived
  <1>7. /\ \A k \in FrameKinds : k \in {"request", "start", "chunk", "end"}
        /\ {"request", "start", "chunk", "end"} \subseteq FrameKinds
    BY DEF FrameKinds
  <1>8. CASE SendRequest(j)
    <2> DEFINE f == [kind |-> "request", id |-> j, data |-> Content(j)]
    <2>1. Send(j, f, "sent") /\ pc[j] = "send"
      BY <1>8 DEF SendRequest
    <2>2. f \in Frames /\ f.id = j /\ f \in Of({"request"}, j)
      BY <2>1, FramesSent DEF Of
    <2> HIDE DEF f
    <2>3. CASE r = j
      <3>1. /\ pc'[r] = "sent"
            /\ \A k \in FrameKinds : Has(wire', Of({k}, r)) <=> Has(wire, Of({k}, r)) \/ k = "request"
            /\ Ordered(r)' \/ Has(wire, Of({"end"}, r)) \/ Has(wire, Of({"request"}, r))
        BY <1>5, <1>7, <2>1, <2>2, <2>3
      <3>2. /\ ~ Streaming(r) /\ ~ Has(wire, Of({"start"}, r)) /\ ~ Has(wire, Of({"chunk"}, r))
            /\ ~ Has(wire, Of({"end"}, r)) /\ ~ Has(wire, Of({"request"}, r))
        BY <2>1, <2>3, KindByKind DEF Relaying, Under, Early
      <3>3. got'[r] = <<>>
        BY <1>2, <2>1, <2>3 DEF Kept
      <3>4. ~ Has(wire', Of({"start"}, r)) /\ ~ Has(wire', Of({"chunk"}, r)) /\ ~ Has(wire', Of({"end"}, r))
        BY <1>7, <3>1, <3>2
      <3>5. ~ Has(wire', Of(StreamKinds, r))
        BY <3>4, KindByKind
      <3>6. Under(r)'
        BY <1>6, <3>1, <3>2, <3>3, <3>4, <3>5 DEF Under, Early
      <3> QED BY <1>6, <3>1, <3>2, <3>4, <3>6 DEF Relaying, Whole
    <2> QED BY <1>4, <2>1, <2>2, <2>3
  <1>9. CASE SendStart(j)
    <2> DEFINE f == [kind |-> "start", id |-> j, data |-> <<>>]
    <2>1. Send(j, f, "stream") /\ pc[j] = "start" /\ UNCHANGED sent
      BY <1>9 DEF SendStart
    <2>2. f \in Frames /\ f.id = j /\ f \in Of({"start"}, j)
      BY <2>1, FramesSent DEF Of
    <2> HIDE DEF f
    <2>3. CASE r = j
      <3>1. /\ pc'[r] = "stream" /\ wire' = Append(wire, f)
            /\ \A k \in FrameKinds : Has(wire', Of({k}, r)) <=> Has(wire, Of({k}, r)) \/ k = "start"
            /\ \/ Ordered(r)' \/ Has(wire, Of(StreamKinds, r))
               \/ Has(wire, Of({"end"}, r)) \/ Has(wire, Of({"request"}, r))
        BY <1>5, <1>7, <2>1, <2>2, <2>3
      <3>2. /\ ~ Streaming(r) /\ ~ Has(wire, Of({"start"}, r)) /\ ~ Has(wire, Of({"chunk"}, r))
            /\ ~ Has(wire, Of({"end"}, r)) /\ ~ Has(wire, Of({"request"}, r))
            /\ ~ Has(wire, Of(StreamKinds, r))
        BY <2>1, <2>3, KindByKind DEF Relaying, Under, Early
      <3>3. /\ ~ Has(wire', Of({"request"}, r)) /\ ~ Has(wire', Of({"chunk"}, r))
            /\ ~ Has(wire', Of({"end"}, r)) /\ Has(wire', Of({"start"}, r))
        BY <1>7, <3>1, <3>2
      <3>4. Under(r)'
        BY <1>6, <3>1, <3>2, <3>3 DEF Under, Early
      <3>5. sent'[r] = 0 /\ Arrived(r)' = 0 /\ 0 \in 0 .. size[r] /\ wire' \in Seq(Frames)
        BY <1>1, <1>6, <2>1, <2>2, <2>3, <3>1, <3>2, AppendPositions DEF Kept, Early, Arrived
      <3>6. Chain(wire', r, size[r], 0, 0)
        BY <1>1, <3>3, <3>5, ChainNone
      <3>7. Whole(r)'
        BY <1>2, <3>5, <3>6 DEF Whole
      <3> QED BY <3>1, <3>2, <3>4, <3>7 DEF Relaying
    <2> QED BY <1>4, <2>1, <2>2, <2>3
  <1>10. CASE SendChunk(j)
    <2> DEFINE f == [kind |-> "chunk", id |-> j, data |-> Piece(j, sent[j], ChunkEnd(j))]
    <2>1. Send(j, f, "stream") /\ pc[j] = "stream" /\ sent' = [sent EXCEPT ![j] = ChunkEnd(j)]
      BY <1>10 DEF SendChunk
    <2>2. /\ f \in Frames /\ f.id = j /\ f \in Of({"chunk"}, j)
          /\ f.data = Piece(j, sent[j], ChunkEnd(j))
          /\ sent[j] <= ChunkEnd(j) /\ ChunkEnd(j) <= total[j] /\ ChunkEnd(j) \in Nat
      BY <1>10, FramesSent DEF SendChunk, Of
    <2> HIDE DEF f
    <2>3. CASE r = j
      <3>1. /\ pc'[r] = "stream" /\ wire' = Append(wire, f)
            /\ \A k \in FrameKinds : Has(wire', Of({k}, r)) <=> Has(wire, Of({k}, r)) \/ k = "chunk"
            /\ Ordered(r)' \/ Has(wire, Of({"end"}, r)) \/ Has(wire, Of({"request"}, r))
        BY <1>5, <1>7, <2>1, <2>2, <2>3
      <3>2. /\ Streaming(r) \/ Has(wire, Of({"start"}, r))
            /\ Has(wire, Of({"start"}, r)) => ~ Streaming(r)
            /\ ~ Has(wire, Of({"end"}, r)) /\ ~ Has(wire, Of({"request"}, r))
            /\ Streaming(r) => streams[r] = Piece(r, 0, Len(streams[r]))
            /\ Chain(wire, r, size[r], Arrived(r), sent[r])
        BY <2>1, <2>3 DEF Relaying, Under, Whole
      <3>3. /\ ~ Has(wire', Of({"request"}, r)) /\ ~ Has(wire', Of({"end"}, r))
            /\ Has(wire', Of({"start"}, r)) <=> Has(wire, Of({"start"}, r))
        BY <1>7, <3>1, <3>2
      <3>4. Under(r)'
        BY <1>6, <3>1, <3>2, <3>3 DEF Under, Early
      <3>5. sent'[r] = ChunkEnd(r) /\ ChunkEnd(r) \in 0 .. size[r]
        BY <1>1, <2>1, <2>2, <2>3 DEF Kept
      <3>6. Chain(wire', r, size[r], Arrived(r), ChunkEnd(r))
        BY <1>1, <2>2, <2>3, <3>1, <3>2, <3>5, ChainAppendChunk
      <3>7. Whole(r)'
        BY <1>2, <1>6, <3>5, <3>6 DEF Whole
      <3> QED BY <3>1, <3>2, <3>4, <3>7 DEF Relaying
    <2> QED BY <1>4, <2>1, <2>2, <2>3
  <1>11. CASE SendEnd(j)
    <2> DEFINE f == [kind |-> "end", id |-> j, data |-> <<>>]
    <2>1. Send(j, f, "sent") /\ pc[j] = "stream" /\ UNCHANGED sent /\ sent[j] = size[j]
      BY <1>11 DEF SendEnd
    <2>2. f \in Frames /\ f.id = j /\ f \in Of({"end"}, j) /\ f \notin Of({"chunk"}, j)
      BY <2>1, FramesSent DEF Of
    <2> HIDE DEF f
    <2>3. CASE r = j
      <3>1. /\ pc'[r] = "sent" /\ wire' = Append(wire, f)
            /\ \A k \in FrameKinds : Has(wire', Of({k}, r)) <=> Has(wire, Of({k}, r)) \/ k = "end"
            /\ Ordered(r)' \/ Has(wire, Of({"end"}, r)) \/ Has(wire, Of({"request"}, r))
        BY <1>5, <1>7, <2>1, <2>2, <2>3
      <3>2. /\ Streaming(r) \/ Has(wire, Of({"start"}, r))
            /\ Has(wire, Of({"start"}, r)) => ~ Streaming(r)
            /\ ~ Has(wire, Of({"end"}, r)) /\ ~ Has(wire, Of({"request"}, r))
            /\ Streaming(r) => streams[r] = Piece(r, 0, Len(streams[r]))
            /\ Chain(wire, r, size[r], Arrived(r), size[r])
        BY <2>1, <2>3 DEF Relaying, Under, Whole
      <3>3. /\ ~ Has(wire', Of({"request"}, r)) /\ Has(wire', Of({"end"}, r))
            /\ Has(wire', Of({"start"}, r)) <=> Has(wire, Of({"start"}, r))
        BY <1>7, <3>1, <3>2
      <3>4. got'[r] = <<>>
        BY <1>2, <2>1, <2>3 DEF Kept
      <3>5. Under(r)'
        BY <1>6, <3>1, <3>2, <3>3, <3>4 DEF Under, Early
      <3>6. Chain(wire', r, size[r], Arrived(r), size[r])
        BY <1>1, <2>2, <2>3, <3>1, <3>2, ChainAppend
      <3>7. Whole(r)'
        BY <1>2, <1>6, <2>1, <2>3, <3>6 DEF Whole
      <3> QED BY <3>1, <3>2, <3>5, <3>7 DEF Relaying
    <2> QED BY <1>4, <2>1, <2>2, <2>3
  <1> QED BY <1>3, <1>8, <1>9, <1>10, <1>11 DEF HandlerStep

-----------------------------------------------------------------------------
(***************************************************************************)
(* The client keeps the invariant                                          *)
(***************************************************************************)
\* Every frame the client takes comes through a tunnel that works.
LEMMA FrameTaken ==
    ASSUME Typed, RelayInv, NEW kind \in FrameKinds, Arrives(kind), UNCHANGED <<handlerVars, writer>>,
           NEW h, h = Head(wire).id
    PROVE  /\ h \in Requests /\ Kept(h) /\ Relaying(h) /\ Good(Head(wire)) /\ Live
           /\ Head(wire) \in Of({kind}, h) /\ Head(wire).kind = kind
           /\ wire \in Seq(Frames) /\ wire # <<>> /\ wire' = Tail(wire)
           /\ size[h] \in Nat /\ sent[h] \in Nat
           /\ UNCHANGED <<size, declared, pc, total, sent>>
  <1>1. /\ wire # <<>> /\ wire' = Tail(wire) /\ Head(wire).kind = kind /\ cloop = "reading"
        /\ UNCHANGED <<size, declared, pc, total, sent>>
    BY DEF Arrives, handlerVars
  <1>2. /\ h \in Requests /\ Good(Head(wire)) /\ writer = "up" /\ Head(wire) \in Of({kind}, h)
    BY <1>1, TakeTypes
  <1>3. wire \in Seq(Frames) /\ size[h] \in Nat /\ sent[h] \in Nat
    BY <1>2, RelayConstants DEF Typed, TypeOK, WireOK
  <1> QED BY <1>1, <1>2, <1>3 DEF RelayInv, Live

\* The frame is of one request, and nothing changes for the others.
LEMMA OthersKept ==
    ASSUME Typed, RelayInv, NEW kind \in FrameKinds, Arrives(kind), UNCHANGED <<handlerVars, writer>>,
           NEW h, h = Head(wire).id, NEW r \in Requests, r # h, got'[r] = got[r],
           Streaming(r)' <=> Streaming(r), Streaming(r) => streams'[r] = streams[r]
    PROVE  Kept(r)' /\ Relaying(r)'
  <1>1. /\ wire \in Seq(Frames) /\ wire # <<>> /\ wire' = Tail(wire) /\ Live
        /\ UNCHANGED <<size, declared, pc, total, sent>>
    BY FrameTaken
  <1>2. Kept(r) /\ Relaying(r) /\ size[r] \in Nat
    BY <1>1, RelayConstants DEF RelayInv, Typed, TypeOK
  <1>3. Relaying(r)'
    BY <1>1, <1>2, TailElsewhere
  <1> QED BY <1>1, <1>2, <1>3 DEF Kept, ShouldStream, Content

\* What a client's step leaves to show: that the invariant holds for the request of
\* the frame, and what the local service gets.
Delivers(h) == /\ h \in Requests /\ pc[h] = "sent" /\ got[h] = <<>>
               /\ got' = [got EXCEPT ![h] = <<Content(h)>>]

LEMMA KeptHttpRequest ==
    ASSUME Typed, RelayInv, HttpRequest
    PROVE  /\ \A r \in Requests : Kept(r)' /\ Relaying(r)'
           /\ \E h \in Requests : Delivers(h)
  <1>3. PICK h : h = Head(wire).id
    OBVIOUS
  <1>0. /\ Arrives("request") /\ "request" \in FrameKinds /\ UNCHANGED <<handlerVars, writer>>
        /\ UNCHANGED streams /\ got' = [got EXCEPT ![h] = Append(@, Head(wire).data)]
    BY <1>3 DEF HttpRequest, FrameKinds, HandOver
  <1>1. /\ h \in Requests /\ Kept(h) /\ Relaying(h) /\ Good(Head(wire)) /\ Live
        /\ Head(wire) \in Of({"request"}, h) /\ Head(wire).kind = "request"
        /\ wire \in Seq(Frames) /\ wire # <<>> /\ wire' = Tail(wire)
        /\ UNCHANGED <<size, declared, pc, total, sent>>
    BY <1>0, <1>3, FrameTaken
  <1>2. Head(wire).data = Content(h)
    BY <1>1, <1>3 DEF Good
  <1>4. /\ Ordered(h)' /\ Has(wire, Of({"request"}, h)) /\ ~ Has(wire', Of({"request"}, h))
        /\ \A k \in FrameKinds : Has(wire', Of({k}, h)) => Has(wire, Of({k}, h))
    BY <1>0, <1>1, TailOwn DEF Relaying
  <1>5. /\ ~ Streaming(h) /\ pc[h] = "sent" /\ got[h] = <<>>
        /\ ~ Has(wire, Of({"start"}, h)) /\ ~ Has(wire, Of({"chunk"}, h)) /\ ~ Has(wire, Of({"end"}, h))
    BY <1>1, <1>4, KindByKind DEF Relaying, Under
  <1>6. /\ ~ Has(wire', Of({"start"}, h)) /\ ~ Has(wire', Of({"chunk"}, h)) /\ ~ Has(wire', Of({"end"}, h))
    BY <1>4, <1>5 DEF FrameKinds
  <1>7. Append(<<>>, Content(h)) = <<Content(h)>>
    OBVIOUS
  <1>8. Delivers(h) /\ got'[h] = <<Content(h)>>
    BY <1>0, <1>1, <1>2, <1>5, <1>7 DEF Delivers, Typed, TypeOK
  <1>9. Relaying(h)'
    <2>1. ~ Streaming(h)'
      BY <1>0, <1>5 DEF Streaming
    <2>2. Under(h)'
      BY <1>1, <1>4, <1>5, <1>6, <2>1 DEF Under, Early
    <2> QED BY <1>4, <1>6, <2>1, <2>2 DEF Relaying, Whole
  <1>10. Kept(h)'
    BY <1>1, <1>5, <1>8 DEF Kept, ShouldStream, Content, Early
  <1>11. ASSUME NEW r \in Requests, r # h PROVE Kept(r)' /\ Relaying(r)'
    BY <1>0, <1>3, <1>11, OthersKept DEF Streaming
  <1> QED BY <1>1, <1>8, <1>9, <1>10, <1>11

LEMMA KeptBeginStreaming ==
    ASSUME Typed, RelayInv, BeginStreaming
    PROVE  \A r \in Requests : Kept(r)' /\ Relaying(r)'
  <1>2. PICK h : h = Head(wire).id
    OBVIOUS
  <1>0. /\ Arrives("start") /\ "start" \in FrameKinds /\ UNCHANGED <<handlerVars, writer>>
        /\ UNCHANGED got /\ streams' = [q \in DOMAIN streams \cup {h} |-> IF q = h THEN <<>> ELSE streams[q]]
    BY <1>2 DEF BeginStreaming, FrameKinds, WithStream
  <1>1. /\ h \in Requests /\ Kept(h) /\ Relaying(h) /\ Live
        /\ Head(wire) \in Of({"start"}, h) /\ Head(wire).kind = "start"
        /\ wire \in Seq(Frames) /\ wire # <<>> /\ wire' = Tail(wire)
        /\ size[h] \in Nat /\ UNCHANGED <<size, declared, pc, total, sent>>
    BY <1>0, <1>2, FrameTaken
  <1>3. /\ Ordered(h)' /\ Has(wire, Of({"start"}, h)) /\ ~ Has(wire', Of({"start"}, h))
        /\ \A k \in FrameKinds : Has(wire', Of({k}, h)) => Has(wire, Of({k}, h))
        /\ \A k \in FrameKinds \ {"start"} : Has(wire, Of({k}, h)) => Has(wire', Of({k}, h))
    BY <1>0, <1>1, TailOwn DEF Relaying
  <1>4. /\ Has(wire', Of({"chunk"}, h)) <=> Has(wire, Of({"chunk"}, h))
        /\ Has(wire', Of({"end"}, h)) <=> Has(wire, Of({"end"}, h))
        /\ Has(wire', Of({"request"}, h)) <=> Has(wire, Of({"request"}, h))
    BY <1>3 DEF FrameKinds
  <1>5. Streaming(h)' /\ streams'[h] = <<>> /\ Len(<<>>) = 0
    BY <1>0 DEF Streaming
  <1>6. ~ Streaming(h) /\ Arrived(h) = 0 /\ Arrived(h)' = 0
    BY <1>1, <1>3, <1>5 DEF Relaying, Under, Arrived
  <1>7. Piece(h, 0, 0) = <<>>
    BY DEF Piece
  <1>8. Under(h)'
    BY <1>0, <1>1, <1>3, <1>4, <1>5, <1>7, KindByKind DEF Relaying, Under
  <1>9. Head(wire) \notin Of({"chunk"}, h) /\ Chain(wire, h, size[h], 0, sent[h])
    BY <1>1, <1>3, <1>6 DEF Of, Relaying, Whole
  <1>10. Whole(h)'
    BY <1>1, <1>6, <1>9, ChainTail DEF Whole
  <1>11. Kept(h)'
    BY <1>0, <1>1 DEF Kept, ShouldStream, Content
  <1>12. ASSUME NEW r \in Requests, r # h PROVE Kept(r)' /\ Relaying(r)'
    BY <1>0, <1>2, <1>12, OthersKept DEF Streaming
  <1> QED BY <1>3, <1>8, <1>10, <1>11, <1>12 DEF Relaying

\* A chunk finds its stream, and continues it.
LEMMA ChunkContinues ==
    ASSUME Typed, RelayInv, Arrives("chunk"), UNCHANGED <<handlerVars, writer>>,
           NEW h, h = Head(wire).id
    PROVE  /\ Streaming(h) /\ ShouldStream(h) /\ streams[h] = Piece(h, 0, Len(streams[h]))
           /\ Len(streams[h]) \in Nat
           /\ \E mid \in 0 .. size[h] :
                 /\ Len(streams[h]) <= mid /\ Head(wire).data = Piece(h, Len(streams[h]), mid)
                 /\ Chain(wire', h, size[h], mid, sent[h])
  <1>0. "chunk" \in FrameKinds
    BY DEF FrameKinds
  <1>1. /\ h \in Requests /\ Kept(h) /\ Relaying(h) /\ Good(Head(wire))
        /\ Head(wire) \in Of({"chunk"}, h) /\ Head(wire).kind = "chunk"
        /\ wire \in Seq(Frames) /\ wire # <<>> /\ wire' = Tail(wire)
        /\ size[h] \in Nat /\ UNCHANGED <<size, declared, pc, total, sent>>
    BY <1>0, FrameTaken
  <1>2. /\ Has(wire, Of({"chunk"}, h)) /\ ~ Has(wire', Of({"start"}, h))
        /\ Has(wire, Of({"start"}, h)) => Has(wire', Of({"start"}, h))
    BY <1>0, <1>1, TailOwn DEF Relaying, FrameKinds
  <1>3. Streaming(h) /\ streams[h] = Piece(h, 0, Len(streams[h])) /\ ShouldStream(h)
    BY <1>1, <1>2 DEF Relaying, Under, Good
  <1>4. Len(streams[h]) \in Nat
    BY <1>3, LenProperties DEF Typed, Streaming
  <1>5. Chain(wire, h, size[h], Len(streams[h]), sent[h])
    BY <1>1, <1>3 DEF Relaying, Whole, Arrived
  <1> QED BY <1>1, <1>3, <1>4, <1>5, ChainTail

LEMMA KeptPushChunk ==
    ASSUME Typed, RelayInv, PushChunk
    PROVE  \A r \in Requests : Kept(r)' /\ (Live' => Relaying(r)')
  <1>2. PICK h : h = Head(wire).id
    OBVIOUS
  <1> DEFINE d == Head(wire).data
  <1>0. /\ Arrives("chunk") /\ "chunk" \in FrameKinds /\ UNCHANGED <<handlerVars, writer>>
        /\ UNCHANGED got
    BY DEF PushChunk, FrameKinds
  <1>1. /\ h \in Requests /\ Kept(h) /\ Relaying(h) /\ Live
        /\ Head(wire) \in Of({"chunk"}, h) /\ Head(wire).kind = "chunk"
        /\ wire \in Seq(Frames) /\ wire # <<>> /\ wire' = Tail(wire)
        /\ size[h] \in Nat /\ UNCHANGED <<size, declared, pc, total, sent>>
    BY <1>0, <1>2, FrameTaken
  <1>3. \A r \in Requests : Kept(r)'
    BY <1>0, <1>1 DEF RelayInv, Kept, ShouldStream, Content
  <1>4. CASE ~ (Streaming(h) /\ Len(streams[h]) + Len(d) <= ClientMax)
    BY <1>2, <1>3, <1>4 DEF PushChunk, Live
  <1>5. CASE Streaming(h) /\ Len(streams[h]) + Len(d) <= ClientMax
    <2>0. streams' = [q \in DOMAIN streams \cup {h} |-> IF q = h THEN streams[h] \o d ELSE streams[q]]
      BY <1>2, <1>5 DEF PushChunk, WithStream
    <2>1. PICK mid \in 0 .. size[h] :
                 /\ Len(streams[h]) <= mid /\ d = Piece(h, Len(streams[h]), mid)
                 /\ Chain(wire', h, size[h], mid, sent[h])
      BY <1>0, <1>2, ChunkContinues
    <2>2. streams[h] = Piece(h, 0, Len(streams[h])) /\ Len(streams[h]) \in Nat
      BY <1>0, <1>2, ChunkContinues
    <2> DEFINE n == Len(streams[h])
    <2>3. mid \in Nat /\ 0 \in Nat /\ 0 <= n /\ n \in Nat /\ n <= mid /\ 0 <= mid
      BY <1>1, <2>1, <2>2
    <2>4. streams[h] \o d = Piece(h, 0, mid)
      <3>1. Piece(h, 0, n) \o Piece(h, n, mid) = Piece(h, 0, mid)
        BY <1>1, <2>3, PieceConcat
      <3> QED BY <2>1, <2>2, <3>1
    <2>5. Len(Piece(h, 0, mid)) = mid
      BY <1>1, <2>3, PieceTypes
    <2> HIDE DEF d, n
    <2>6. Streaming(h)' /\ streams'[h] = Piece(h, 0, mid) /\ Len(streams'[h]) = mid
      BY <2>0, <2>4, <2>5 DEF Streaming
    <2>7. /\ Ordered(h)' /\ Has(wire, Of({"chunk"}, h)) /\ ~ Has(wire', Of({"start"}, h))
          /\ \A k \in FrameKinds : Has(wire', Of({k}, h)) => Has(wire, Of({k}, h))
          /\ \A k \in FrameKinds \ {"chunk"} : Has(wire, Of({k}, h)) => Has(wire', Of({k}, h))
      BY <1>0, <1>1, TailOwn DEF Relaying
    <2>8. /\ Has(wire', Of({"end"}, h)) <=> Has(wire, Of({"end"}, h))
          /\ Has(wire', Of({"request"}, h)) <=> Has(wire, Of({"request"}, h))
      BY <2>7 DEF FrameKinds
    <2>9. Under(h)'
      BY <1>0, <1>1, <1>5, <2>6, <2>7, <2>8, KindByKind DEF Relaying, Under
    <2>10. Whole(h)'
      BY <1>1, <2>1, <2>6 DEF Whole, Arrived
    <2>11. ASSUME NEW r \in Requests, r # h PROVE Relaying(r)'
      BY <1>0, <1>2, <2>0, <2>11, OthersKept DEF Streaming
    <2> QED BY <1>3, <2>7, <2>9, <2>10, <2>11 DEF Relaying
  <1> QED BY <1>4, <1>5

LEMMA KeptFinishStreaming ==
    ASSUME Typed, RelayInv, FinishStreaming
    PROVE  /\ \A r \in Requests : Kept(r)' /\ Relaying(r)'
           /\ \E h \in Requests : Delivers(h)
  <1>2. PICK h : h = Head(wire).id
    OBVIOUS
  <1>0. /\ Arrives("end") /\ "end" \in FrameKinds /\ UNCHANGED <<handlerVars, writer>>
    BY DEF FinishStreaming, FrameKinds
  <1>1. /\ h \in Requests /\ Kept(h) /\ Relaying(h) /\ Live
        /\ Head(wire) \in Of({"end"}, h) /\ Head(wire).kind = "end"
        /\ wire \in Seq(Frames) /\ wire # <<>> /\ wire' = Tail(wire)
        /\ size[h] \in Nat /\ UNCHANGED <<size, declared, pc, total, sent>>
    BY <1>0, <1>2, FrameTaken
  <1>3. /\ Ordered(h)' /\ Has(wire, Of({"end"}, h)) /\ ~ Has(wire', Of({"start"}, h))
        /\ Has(wire, Of({"start"}, h)) => Has(wire', Of({"start"}, h))
        /\ Has(wire', Of({"request"}, h)) => Has(wire, Of({"request"}, h))
        /\ ~ Has(wire', Of(StreamKinds, h))
    BY <1>0, <1>1, TailOwn DEF Relaying, FrameKinds
  <1>4. /\ Streaming(h) /\ pc[h] = "sent" /\ got[h] = <<>> /\ ~ Has(wire, Of({"request"}, h))
        /\ streams[h] = Piece(h, 0, Len(streams[h]))
    BY <1>1, <1>3 DEF Relaying, Under
  <1>5. /\ got' = [got EXCEPT ![h] = Append(@, streams[h])]
        /\ streams' = [q \in DOMAIN streams \ {h} |-> streams[q]]
    BY <1>2, <1>4 DEF FinishStreaming, HandOver
  <1>6. Chain(wire, h, size[h], Len(streams[h]), sent[h])
    BY <1>1, <1>4 DEF Relaying, Whole, Arrived
  <1>7. Len(streams[h]) = size[h]
    BY <1>1, <1>6, ChainTail
  <1>8. streams[h] = Content(h) /\ Append(<<>>, Content(h)) = <<Content(h)>>
    BY <1>4, <1>7 DEF Content
  <1>9. Delivers(h) /\ got'[h] = <<Content(h)>>
    BY <1>1, <1>4, <1>5, <1>8 DEF Delivers, Typed, TypeOK
  <1>10. /\ ~ Has(wire', Of({"chunk"}, h)) /\ ~ Has(wire', Of({"end"}, h))
    BY <1>3, KindByKind
  <1>11. ~ Streaming(h)'
    BY <1>5 DEF Streaming
  <1>12. Under(h)'
    BY <1>1, <1>3, <1>4, <1>10, <1>11 DEF Under, Early
  <1>13. Relaying(h)'
    BY <1>3, <1>11, <1>12 DEF Relaying, Whole
  <1>14. Kept(h)'
    BY <1>1, <1>4, <1>9 DEF Kept, ShouldStream, Content, Early
  <1>15. ASSUME NEW r \in Requests, r # h PROVE Kept(r)' /\ Relaying(r)'
    <2>1. /\ got'[r] = got[r] /\ (Streaming(r)' <=> Streaming(r))
          /\ Streaming(r) => streams'[r] = streams[r]
      BY <1>5, <1>15 DEF Streaming, Typed, TypeOK
    <2> QED BY <1>0, <1>2, <1>15, <2>1, OthersKept
  <1> QED BY <1>1, <1>9, <1>13, <1>14, <1>15

-----------------------------------------------------------------------------
(***************************************************************************)
(* The invariant                                                           *)
(***************************************************************************)
LEMMA InvInit ==
    ASSUME Init
    PROVE  Typed /\ RelayInv
  <1>1. wire = <<>> /\ Len(wire) = 0 /\ wire \in Seq(Frames) /\ DOMAIN streams = {}
    BY DEF Init
  <1>2. Typed
    BY <1>1, RelayConstants DEF Init, Typed, TypeOK, WireOK, HandlerPcs
  <1>3. ASSUME NEW r \in Requests PROVE Kept(r) /\ Relaying(r)
    <2>1. /\ pc[r] = "new" /\ total[r] = 0 /\ sent[r] = 0 /\ got[r] = <<>> /\ size[r] \in Nat
          /\ ~ Streaming(r)
      BY <1>1, RelayConstants DEF Init, Streaming
    <2>2. (\A A : ~ Has(wire, A)) /\ (\A A, B : ~ Before(wire, A, B))
      BY <1>1, EmptyQueue
    <2>3. Kept(r)
      BY <2>1 DEF Kept
    <2> QED BY <2>1, <2>2, <2>3 DEF Relaying, Ordered, Under, Whole
  <1> QED BY <1>2, <1>3 DEF RelayInv

LEMMA InvNext ==
    ASSUME Typed, RelayInv, [Next]_vars
    PROVE  Typed' /\ RelayInv'
  <1>1. ASSUME NEW j \in Requests, HandlerStep(j) PROVE Typed' /\ RelayInv'
    <2>1. \A r \in Requests : Kept(r)
      BY DEF RelayInv
    <2>2. UNCHANGED <<writer, cloop>>
      BY <1>1, <2>1, KeptHandler DEF clientVars
    <2>3. \A r \in Requests : Kept(r)'
      BY <1>1, <2>1, KeptHandler
    <2>4. \A r \in Requests : Live => Relaying(r)'
      BY <1>1, <2>1, RelayingHandler DEF RelayInv
    <2> QED BY <1>1, <2>1, <2>2, <2>3, <2>4, TypedHandler DEF RelayInv, Live
  <1>2. CASE HttpRequest \/ BeginStreaming \/ PushChunk \/ FinishStreaming
    BY <1>2, TypedClient, KeptHttpRequest, KeptBeginStreaming, KeptPushChunk, KeptFinishStreaming
    DEF RelayInv
  <1>3. CASE WriterDies
    <2>1. /\ writer' = "dead" /\ wire' = <<>> /\ UNCHANGED <<size, declared, pc, total, sent>>
          /\ UNCHANGED <<cloop, streams, got>> /\ Len(<<>>) = 0 /\ <<>> \in Seq(Frames)
      BY <1>3 DEF WriterDies, handlerVars, clientVars
    <2>2. Typed'
      BY <2>1, RelayConstants DEF Typed, TypeOK, WireOK
    <2>3. RelayInv'
      BY <2>1 DEF RelayInv, Kept, Live, ShouldStream, Content
    <2> QED BY <2>2, <2>3
  <1>4. CASE UNCHANGED vars
    <2>1. UNCHANGED <<size, declared, pc, total, sent, writer, wire, cloop, streams, got>>
      BY <1>4 DEF vars, handlerVars, clientVars
    <2>2. Typed'
      BY <2>1 DEF Typed, TypeOK, WireOK, Good, ShouldStream, Content
    <2>3. RelayInv'
      BY <2>1 DEF RelayInv, Kept, Live, Relaying, Ordered, Under, Whole, Arrived, Streaming,
           ShouldStream, Content
    <2> QED BY <2>2, <2>3
  <1> QED BY <1>1, <1>2, <1>3, <1>4, StepCases

LEMMA Always == Spec => [](Typed /\ RelayInv)
  BY InvInit, InvNext, PTL DEF Spec

-----------------------------------------------------------------------------
(***************************************************************************)
(* Theorems                                                                *)
(***************************************************************************)
\* The variables keep their types, the channel its capacity, and push_streaming_chunk
\* never lets a buffer of the client grow over STREAM_BUFFER_LIMIT.
THEOREM TypeCorrect == Spec => []TypeOK
  <1>1. Typed => TypeOK
    BY DEF Typed
  <1> QED BY <1>1, Always, PTL

\* In a tunnel that works, a buffer in pending_streams belongs to a handler that is
\* still streaming, has an End under way, or was left by a handler that gave up.
THEOREM StreamsAreAccounted == Spec => []StreamsAccounted
  <1>1. Typed /\ RelayInv => StreamsAccounted
    <2> SUFFICES ASSUME Typed, RelayInv, Live, NEW r \in DOMAIN streams, pc[r] \notin {"stream", "failed"}
                 PROVE  \E i \in 1 .. Len(wire) : wire[i] = [kind |-> "end", id |-> r, data |-> <<>>]
      BY DEF StreamsAccounted, Live
    <2>1. r \in Requests /\ Streaming(r) /\ pc[r] \in HandlerPcs
      BY DEF Typed, TypeOK, Streaming
    <2>2. Under(r)
      BY <2>1 DEF RelayInv, Relaying
    <2>3. pc[r] = "sent"
      BY <2>1, <2>2 DEF Under, Early, HandlerPcs
    <2>4. PICK i \in 1 .. Len(wire) : wire[i] \in Of({"end"}, r)
      BY <2>1, <2>2, <2>3 DEF Under, Has
    <2>5. wire[i] \in Frames /\ wire[i].kind = "end" /\ wire[i].id = r /\ Good(wire[i])
      BY <2>4 DEF Of, Typed, WireOK
    <2>6. wire[i].data = <<>>
      BY <2>5 DEF Good
    <2>7. wire[i] = [kind |-> "end", id |-> r, data |-> <<>>]
      BY <2>5, <2>6 DEF Frames
    <2> QED BY <2>7
  <1> QED BY <1>1, Always, PTL

\* Only two kinds of requests can break a tunnel: a body that is streamed and larger
\* than STREAM_BUFFER_LIMIT, which push_streaming_chunk refuses, and one whose frames
\* Message::validate refuses although the limits of the relay let them pass.
THEOREM BreaksHaveCause == Spec => []BreaksWithCause
  <1>1. Init => BreaksWithCause
    BY DEF Init, BreaksWithCause
  <1>2. ASSUME Typed, RelayInv, BreaksWithCause, [Next]_vars
        PROVE  BreaksWithCause'
    <2>1. UNCHANGED <<size, declared>>
      BY <1>2, SizesStay
    <2>2. CASE UNCHANGED <<writer, cloop>>
      BY <1>2, <2>1, <2>2 DEF BreaksWithCause, ShouldStream
    <2>3. CASE PushChunk
      <3>1. PICK h : h = Head(wire).id
        OBVIOUS
      <3>2. Arrives("chunk") /\ UNCHANGED <<handlerVars, writer>> /\ "chunk" \in FrameKinds
        BY <2>3 DEF PushChunk, FrameKinds
      <3>3. h \in Requests /\ size[h] \in Nat
        BY <1>2, <3>1, <3>2, FrameTaken
      <3>4. CASE Streaming(h) /\ Len(streams[h]) + Len(Head(wire).data) <= ClientMax
        <4>1. UNCHANGED <<writer, cloop>>
          BY <2>3, <3>1, <3>2, <3>4 DEF PushChunk
        <4> QED BY <2>2, <4>1
      <3>5. CASE ~ (Streaming(h) /\ Len(streams[h]) + Len(Head(wire).data) <= ClientMax)
        <4>1. Streaming(h) /\ ShouldStream(h) /\ Len(streams[h]) \in Nat
          BY <1>2, <3>1, <3>2, ChunkContinues
        <4>2. PICK mid \in 0 .. size[h] :
                  Len(streams[h]) <= mid /\ Head(wire).data = Piece(h, Len(streams[h]), mid)
          BY <1>2, <3>1, <3>2, ChunkContinues
        <4>3. mid \in Nat /\ mid <= size[h]
          BY <3>3
        <4>4. Len(Head(wire).data) = mid - Len(streams[h])
          BY <3>3, <4>1, <4>2, <4>3, PieceTypes
        <4>5. size[h] > ClientMax
          <5>1. ClientMax \in Nat
            BY RelayConstants
          <5>2. Len(streams[h]) + Len(Head(wire).data) = mid
            <6>1. \A k \in Nat : k + (mid - k) = mid
              BY <4>3
            <6> QED BY <4>1, <4>4, <6>1
          <5>3. ~ (mid <= ClientMax)
            BY <3>5, <4>1, <5>2
          <5> QED BY <3>3, <4>3, <5>1, <5>3
        <4> QED BY <1>2, <2>1, <3>2, <3>3, <4>1, <4>5 DEF BreaksWithCause, ShouldStream
      <3> QED BY <3>4, <3>5
    <2>4. CASE WriterDies
      <3> DEFINE f == Head(wire)
      <3>1. wire # <<>> /\ ~ Encodes(f) /\ UNCHANGED cloop
        BY <2>4 DEF WriterDies, clientVars
      <3>2. wire \in Seq(Frames)
        BY <1>2 DEF Typed, WireOK
      <3>3. f \in Frames /\ f = wire[1] /\ 1 \in 1 .. Len(wire)
        BY <3>1, <3>2, TailPositions
      <3>4. /\ Good(f) /\ f.id \in Requests /\ f.data \in Seq(Pieces) /\ f.kind \in FrameKinds
            /\ size[f.id] \in Nat
        BY <1>2, <3>3, RelayConstants DEF Typed, TypeOK, WireOK, Frames
      <3>5. Len(f.data) \in Nat /\ Len(f.data) > FrameMax
        <4>1. FrameMax \in Nat /\ Len(f.data) \in Nat
          BY <3>4, LenProperties, RelayConstants
        <4> QED BY <3>1, <4>1 DEF Encodes
      <3>6. FrameMax \in Nat /\ ChunkSize \in Nat /\ CollectMax \in Nat /\ Len(<<>>) = 0
        BY RelayConstants
      <3>7. CASE f.kind = "chunk"
        <4>1. ChunkSize > FrameMax
          BY <3>4, <3>5, <3>6, <3>7 DEF Good
        <4> QED BY <1>2, <2>1, <3>1, <4>1 DEF BreaksWithCause, ShouldStream
      <3>8. CASE f.kind = "request"
        <4>1. f.data = Content(f.id) /\ ~ ShouldStream(f.id) /\ size[f.id] <= CollectMax
          BY <3>4, <3>8 DEF Good
        <4>3. Len(f.data) = size[f.id]
          <5>1. ASSUME NEW h \in Requests, NEW n \in Nat PROVE Len(Piece(h, 0, n)) = n
            <6>1. 0 \in Nat /\ 0 <= n /\ n - 0 = n
              OBVIOUS
            <6>2. Len(Piece(h, 0, n)) = n - 0
              BY <6>1, PieceTypes
            <6> QED BY <6>1, <6>2
          <5> QED BY <3>4, <4>1, <5>1 DEF Content
        <4>4. size[f.id] \in FrameMax + 1 .. CollectMax
          BY <3>4, <3>5, <3>6, <4>1, <4>3
        <4> QED BY <1>2, <2>1, <3>1, <3>4, <4>1, <4>4 DEF BreaksWithCause, ShouldStream
      <3>9. ~ (f.kind \in {"start", "end"})
        BY <3>4, <3>5, <3>6 DEF Good
      <3> QED BY <3>4, <3>7, <3>8, <3>9 DEF FrameKinds
    <2>5. ASSUME NEW r \in Requests, HandlerStep(r) PROVE UNCHANGED <<writer, cloop>>
      BY <2>5 DEF HandlerStep, Register, BodyFails, Collect, SendRequest, SendStart, ReadFrame,
           SendChunk, SendEnd, clientVars
    <2>6. HttpRequest \/ BeginStreaming \/ FinishStreaming \/ UNCHANGED vars => UNCHANGED <<writer, cloop>>
      BY DEF HttpRequest, BeginStreaming, FinishStreaming, vars, clientVars
    <2> QED BY <1>2, <2>2, <2>3, <2>4, <2>5, <2>6, StepCases
  <1> QED BY <1>1, <1>2, Always, PTL DEF Spec

\* The tunnel implements BodyRelay: every request is settled at most once, and the
\* local service gets the body of an accepted one whole, once, and unmixed with the
\* bodies that other handlers send through the same channel.
THEOREM RelayImplements == Spec => BodiesRelayed
  <1>1. ASSUME Typed, Init PROVE Relayed!Init
    <2>1. ASSUME NEW r \in Requests
          PROVE  Content(r) \in Seq(Requests \X (Nat \ {0})) /\ Outcome(r) = "open"
      <3>1. size[r] \in Sizes /\ pc[r] = "new"
        BY <1>1 DEF Init
      <3>2. size[r] \in Nat
        BY <3>1, RelayConstants
      <3>3. 0 \in Nat /\ 0 <= size[r]
        BY <3>2
      <3> QED BY <3>1, <3>2, <3>3, PieceTypes DEF Content, Pieces, Outcome
    <2> QED BY <1>1, <2>1 DEF Relayed!Init, Init
  <1>2. ASSUME Typed, RelayInv, [Next]_vars PROVE [Relayed!Next]_(Relayed!vars)
    <2> DEFINE outcome == [r \in Requests |-> Outcome(r)]
               content == [r \in Requests |-> Content(r)]
    <2>1. content' = content
      BY <1>2, SizesStay DEF Content
    <2>2. ASSUME UNCHANGED <<pc, got>> PROVE UNCHANGED Relayed!vars
      BY <2>1, <2>2 DEF Relayed!vars, Outcome
    <2>3. ASSUME NEW h \in Requests, Delivers(h), UNCHANGED pc PROVE Relayed!Next
      <3>1. outcome' = outcome /\ outcome[h] = "accepted" /\ got[h] = <<>>
        BY <2>3 DEF Outcome, Delivers
      <3>2. got' = [got EXCEPT ![h] = <<content[h]>>]
        BY <2>3 DEF Delivers
      <3>3. Relayed!Deliver(h)
        BY <2>1, <3>1, <3>2 DEF Relayed!Deliver
      <3> QED BY <3>3 DEF Relayed!Next
    <2>4. ASSUME NEW j \in Requests, HandlerStep(j) PROVE Relayed!Next \/ UNCHANGED Relayed!vars
      <3>1. UNCHANGED got /\ pc \in [Requests -> HandlerPcs]
        BY <1>2, <2>4 DEF HandlerStep, Register, BodyFails, Collect, SendRequest, SendStart,
             ReadFrame, SendChunk, SendEnd, clientVars, Typed, TypeOK
      <3>2. /\ \A r \in Requests : r # j => pc'[r] = pc[r]
            /\ \/ pc'[j] = pc[j] \/ pc[j] \notin {"sent", "failed"}
        BY <2>4, <3>1 DEF HandlerStep, Register, BodyFails, Collect, SendRequest, SendStart,
             ReadFrame, SendChunk, SendEnd, Send, Goto
      <3>3. \A r \in Requests : r # j => outcome'[r] = outcome[r]
        BY <3>2 DEF Outcome
      <3>4. CASE outcome'[j] = outcome[j]
        <4>1. outcome' = outcome
          BY <3>3, <3>4
        <4> QED BY <2>1, <3>1, <4>1 DEF Relayed!vars
      <3>5. CASE outcome'[j] # outcome[j]
        <4>1. outcome[j] = "open" /\ outcome'[j] \in {"accepted", "refused"}
          BY <3>2, <3>5 DEF Outcome
        <4>2. outcome' = [outcome EXCEPT ![j] = outcome'[j]]
          BY <3>3
        <4>3. Relayed!Settle(j, "accepted") \/ Relayed!Settle(j, "refused")
          BY <2>1, <3>1, <4>1, <4>2 DEF Relayed!Settle
        <4> QED BY <4>3 DEF Relayed!Next
      <3> QED BY <3>4, <3>5
    <2>5. CASE HttpRequest \/ FinishStreaming
      <3>1. (\E h \in Requests : Delivers(h)) /\ UNCHANGED pc
        BY <1>2, <2>5, KeptHttpRequest, KeptFinishStreaming DEF HttpRequest, FinishStreaming, handlerVars
      <3> QED BY <2>3, <3>1
    <2>6. BeginStreaming \/ PushChunk \/ WriterDies \/ UNCHANGED vars => UNCHANGED <<pc, got>>
      BY DEF BeginStreaming, PushChunk, WriterDies, vars, handlerVars, clientVars
    <2> QED BY <1>2, <2>2, <2>4, <2>5, <2>6, StepCases
  <1> QED BY <1>1, <1>2, Always, PTL DEF Spec, BodiesRelayed, Relayed!Spec
=============================================================================
