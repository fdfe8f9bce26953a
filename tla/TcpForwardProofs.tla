-------------------------- MODULE TcpForwardProofs --------------------------
(***************************************************************************)
(* Proofs about TcpForward, for any set of connections, any capacity, any  *)
(* amounts of data and any number of threads.                              *)
(***************************************************************************)
EXTENDS TcpForward, SequenceTheorems, FiniteSetTheorems, TLAPS

-----------------------------------------------------------------------------
(***************************************************************************)
(* Queues of frames                                                        *)
(***************************************************************************)
Is(f, kind, k) == f.kind = kind /\ f.id = k

Before(q, a, b, k) ==
    \E i, j \in 1 .. Len(q) : i < j /\ Is(q[i], a, k) /\ Is(q[j], b, k)

\* Nothing is said of k before its connect.
Led(q, k) ==
    \A j \in 1 .. Len(q) : Is(q[j], "data", k) \/ Is(q[j], "close", k)
        => \E i \in 1 .. Len(q) : i < j /\ Is(q[i], "connect", k)

\* The pieces of k in a queue are numbered upwards within lo + 1 .. hi, ...
Flow(q, k, lo, hi) ==
    /\ \A i \in 1 .. Len(q) : Is(q[i], "data", k) => q[i].n \in lo + 1 .. hi
    /\ \A i, j \in 1 .. Len(q) :
          i < j /\ Is(q[i], "data", k) /\ Is(q[j], "data", k) => q[i].n < q[j].n

\* ... and none is missing.
Complete(q, k, lo, hi) ==
    \A m \in lo + 1 .. hi : \E i \in 1 .. Len(q) : Is(q[i], "data", k) /\ q[i].n = m

LEMMA InAppend ==
    ASSUME NEW q \in Seq(Frames), NEW f \in Frames, NEW kind, NEW k
    PROVE  InTransit(Append(q, f), kind, k) <=> InTransit(q, kind, k) \/ Is(f, kind, k)
  <1>1. /\ Len(Append(q, f)) = Len(q) + 1 /\ Append(q, f)[Len(q) + 1] = f
        /\ \A i \in 1 .. Len(q) : Append(q, f)[i] = q[i] /\ i \in 1 .. Len(q) + 1
        /\ Len(q) + 1 \in 1 .. Len(q) + 1
        /\ \A i \in 1 .. Len(q) + 1 : i \in 1 .. Len(q) \/ i = Len(q) + 1
    BY AppendProperties, LenProperties
  <1> QED BY <1>1 DEF InTransit, Is

\* The positions of a queue and of its tail.
LEMMA TailPositions ==
    ASSUME NEW q \in Seq(Frames), q # <<>>
    PROVE  /\ Tail(q) \in Seq(Frames) /\ Head(q) \in Frames /\ Head(q) = q[1]
           /\ Len(Tail(q)) = Len(q) - 1 /\ Len(q) \in Nat \ {0} /\ 1 \in 1 .. Len(q)
           /\ \A i \in 1 .. Len(Tail(q)) : Tail(q)[i] = q[i + 1] /\ i + 1 \in 1 .. Len(q)
           /\ \A i \in 1 .. Len(q) : i = 1 \/ (i - 1 \in 1 .. Len(Tail(q)) /\ q[i] = Tail(q)[i - 1])
  BY HeadTailProperties, LenProperties

LEMMA InTail ==
    ASSUME NEW q \in Seq(Frames), q # <<>>, NEW kind, NEW k
    PROVE  InTransit(q, kind, k) <=> InTransit(Tail(q), kind, k) \/ Is(Head(q), kind, k)
  BY TailPositions DEF InTransit, Is

LEMMA BeforeAppend ==
    ASSUME NEW q \in Seq(Frames), NEW f \in Frames, NEW a, NEW b, NEW k
    PROVE  Before(Append(q, f), a, b, k)
              => Before(q, a, b, k) \/ (InTransit(q, a, k) /\ Is(f, b, k))
  <1>1. /\ Len(Append(q, f)) = Len(q) + 1 /\ Append(q, f)[Len(q) + 1] = f
        /\ \A i \in 1 .. Len(q) : Append(q, f)[i] = q[i]
        /\ Len(q) \in Nat
    BY AppendProperties, LenProperties
  <1> SUFFICES ASSUME NEW i \in 1 .. Len(q) + 1, NEW j \in 1 .. Len(q) + 1, i < j,
                      Is(Append(q, f)[i], a, k), Is(Append(q, f)[j], b, k)
               PROVE  Before(q, a, b, k) \/ (InTransit(q, a, k) /\ Is(f, b, k))
    BY <1>1 DEF Before
  <1>2. i \in 1 .. Len(q) /\ Is(q[i], a, k)
    BY <1>1
  <1>3. CASE j \in 1 .. Len(q)
    BY <1>1, <1>2, <1>3 DEF Before
  <1>4. CASE j = Len(q) + 1
    BY <1>1, <1>2, <1>4 DEF InTransit, Is
  <1> QED BY <1>1, <1>3, <1>4

LEMMA BeforeTail ==
    ASSUME NEW q \in Seq(Frames), q # <<>>, NEW a, NEW b, NEW k
    PROVE  /\ Before(Tail(q), a, b, k) => Before(q, a, b, k)
           /\ Is(Head(q), a, k) /\ InTransit(Tail(q), b, k) => Before(q, a, b, k)
  <1>1. ASSUME NEW i \in 1 .. Len(Tail(q)), NEW j \in 1 .. Len(Tail(q)), i < j,
               Is(Tail(q)[i], a, k), Is(Tail(q)[j], b, k)
        PROVE  Before(q, a, b, k)
    <2>1. /\ i + 1 \in 1 .. Len(q) /\ j + 1 \in 1 .. Len(q) /\ i + 1 < j + 1
          /\ Is(q[i + 1], a, k) /\ Is(q[j + 1], b, k)
      BY <1>1, TailPositions
    <2> QED BY <2>1 DEF Before
  <1>2. ASSUME Is(Head(q), a, k), NEW j \in 1 .. Len(Tail(q)), Is(Tail(q)[j], b, k)
        PROVE  Before(q, a, b, k)
    <2>1. /\ 1 \in 1 .. Len(q) /\ j + 1 \in 1 .. Len(q) /\ 1 < j + 1
          /\ Is(q[1], a, k) /\ Is(q[j + 1], b, k)
      BY <1>2, TailPositions
    <2> QED BY <2>1 DEF Before
  <1> QED BY <1>1, <1>2 DEF Before, InTransit, Is

LEMMA LedAppend ==
    ASSUME NEW q \in Seq(Frames), NEW f \in Frames, NEW k, Led(q, k),
           Is(f, "data", k) \/ Is(f, "close", k) => InTransit(q, "connect", k)
    PROVE  Led(Append(q, f), k)
  <1>1. /\ Len(Append(q, f)) = Len(q) + 1 /\ Append(q, f)[Len(q) + 1] = f
        /\ \A i \in 1 .. Len(q) : Append(q, f)[i] = q[i]
        /\ Len(q) \in Nat
    BY AppendProperties, LenProperties
  <1> SUFFICES ASSUME NEW j \in 1 .. Len(q) + 1,
                      \/ Is(Append(q, f)[j], "data", k) \/ Is(Append(q, f)[j], "close", k)
               PROVE  \E i \in 1 .. Len(q) + 1 : i < j /\ Is(Append(q, f)[i], "connect", k)
    BY <1>1 DEF Led
  <1>2. CASE j \in 1 .. Len(q)
    <2>1. PICK i \in 1 .. Len(q) : i < j /\ Is(q[i], "connect", k)
      BY <1>1, <1>2 DEF Led
    <2>2. i \in 1 .. Len(q) + 1 /\ Is(Append(q, f)[i], "connect", k)
      BY <1>1, <2>1
    <2> QED BY <2>1, <2>2
  <1>3. CASE j = Len(q) + 1
    <2>1. PICK i \in 1 .. Len(q) : Is(q[i], "connect", k)
      BY <1>1, <1>3 DEF InTransit, Is
    <2>2. i \in 1 .. Len(q) + 1 /\ i < j /\ Is(Append(q, f)[i], "connect", k)
      BY <1>1, <1>3, <2>1
    <2> QED BY <2>2
  <1> QED BY <1>1, <1>2, <1>3

LEMMA LedTail ==
    ASSUME NEW q \in Seq(Frames), q # <<>>, NEW k, Led(q, k)
    PROVE  /\ ~ Is(Head(q), "data", k) /\ ~ Is(Head(q), "close", k)
           /\ ~ Is(Head(q), "connect", k) => Led(Tail(q), k)
  <1>1. ~ Is(Head(q), "data", k) /\ ~ Is(Head(q), "close", k)
    BY TailPositions DEF Led
  <1>2. ASSUME ~ Is(Head(q), "connect", k), NEW j \in 1 .. Len(Tail(q)),
               Is(Tail(q)[j], "data", k) \/ Is(Tail(q)[j], "close", k)
        PROVE  \E i \in 1 .. Len(Tail(q)) : i < j /\ Is(Tail(q)[i], "connect", k)
    <2>1. j + 1 \in 1 .. Len(q) /\ (Is(q[j + 1], "data", k) \/ Is(q[j + 1], "close", k))
      BY <1>2, TailPositions
    <2>2. PICK i \in 1 .. Len(q) : i < j + 1 /\ Is(q[i], "connect", k)
      BY <2>1 DEF Led
    <2>3. i # 1
      BY <1>2, <2>2, TailPositions
    <2>4. i - 1 \in 1 .. Len(Tail(q)) /\ i - 1 < j /\ Is(Tail(q)[i - 1], "connect", k)
      BY <2>2, <2>3, TailPositions
    <2> QED BY <2>4
  <1> QED BY <1>1, <1>2 DEF Led

\* A frame of another kind or connection leaves the pieces of k alone.
LEMMA FlowAppend ==
    ASSUME NEW q \in Seq(Frames), NEW f \in Frames, NEW k, NEW lo \in Nat, NEW hi \in Nat,
           ~ Is(f, "data", k)
    PROVE  /\ Flow(q, k, lo, hi) => Flow(Append(q, f), k, lo, hi)
           /\ Complete(q, k, lo, hi) => Complete(Append(q, f), k, lo, hi)
  <1>1. /\ Len(Append(q, f)) = Len(q) + 1 /\ Append(q, f)[Len(q) + 1] = f
        /\ \A i \in 1 .. Len(q) : Append(q, f)[i] = q[i] /\ i \in 1 .. Len(q) + 1
        /\ Len(q) \in Nat
        /\ \A i \in 1 .. Len(q) + 1 : i \in 1 .. Len(q) \/ i = Len(q) + 1
    BY AppendProperties, LenProperties
  <1>2. \A i \in 1 .. Len(Append(q, f)) :
            Is(Append(q, f)[i], "data", k) => i \in 1 .. Len(q) /\ Append(q, f)[i] = q[i]
    BY <1>1
  <1>3. Flow(q, k, lo, hi) => Flow(Append(q, f), k, lo, hi)
    BY <1>2 DEF Flow
  <1>4. Complete(q, k, lo, hi) => Complete(Append(q, f), k, lo, hi)
    BY <1>1 DEF Complete
  <1> QED BY <1>3, <1>4

\* The next piece of k at the end of the queue.
LEMMA FlowAppendData ==
    ASSUME NEW q \in Seq(Frames), NEW k \in Ids, NEW lo \in Nat, NEW hi \in Nat, lo <= hi
    PROVE  /\ Flow(q, k, lo, hi) => Flow(Append(q, Data(k, hi + 1)), k, lo, hi + 1)
           /\ Complete(q, k, lo, hi) => Complete(Append(q, Data(k, hi + 1)), k, lo, hi + 1)
  <1> DEFINE f == Data(k, hi + 1)
  <1>0. f \in Frames /\ Is(f, "data", k) /\ f.n = hi + 1
    BY DEF Data, Frames, Is
  <1> HIDE DEF f
  <1>1. /\ Len(Append(q, f)) = Len(q) + 1 /\ Append(q, f)[Len(q) + 1] = f
        /\ \A i \in 1 .. Len(q) : Append(q, f)[i] = q[i] /\ i \in 1 .. Len(q) + 1
        /\ Len(q) \in Nat /\ Len(q) + 1 \in 1 .. Len(q) + 1
        /\ \A i \in 1 .. Len(q) + 1 : i \in 1 .. Len(q) \/ i = Len(q) + 1
    BY <1>0, AppendProperties, LenProperties
  <1>2. ASSUME Flow(q, k, lo, hi) PROVE Flow(Append(q, f), k, lo, hi + 1)
    <2>1. ASSUME NEW i \in 1 .. Len(q) + 1, Is(Append(q, f)[i], "data", k)
          PROVE  Append(q, f)[i].n \in lo + 1 .. hi + 1
      BY <1>0, <1>1, <1>2, <2>1 DEF Flow
    <2>2. ASSUME NEW i \in 1 .. Len(q) + 1, NEW j \in 1 .. Len(q) + 1, i < j,
                 Is(Append(q, f)[i], "data", k), Is(Append(q, f)[j], "data", k)
          PROVE  Append(q, f)[i].n < Append(q, f)[j].n
      <3>1. i \in 1 .. Len(q) /\ Append(q, f)[i] = q[i] /\ q[i].n \in lo + 1 .. hi
        BY <1>1, <1>2, <2>2 DEF Flow
      <3>2. CASE j = Len(q) + 1
        BY <1>0, <1>1, <3>1, <3>2
      <3>3. CASE j \in 1 .. Len(q)
        BY <1>1, <1>2, <2>2, <3>1, <3>3 DEF Flow
      <3> QED BY <1>1, <3>2, <3>3
    <2> QED BY <1>1, <2>1, <2>2 DEF Flow
  <1>3. ASSUME Complete(q, k, lo, hi) PROVE Complete(Append(q, f), k, lo, hi + 1)
    <2> SUFFICES ASSUME NEW m \in lo + 1 .. hi + 1
                 PROVE  \E i \in 1 .. Len(q) + 1 : Is(Append(q, f)[i], "data", k) /\ Append(q, f)[i].n = m
      BY <1>1 DEF Complete
    <2>1. CASE m = hi + 1
      BY <1>0, <1>1, <2>1
    <2>2. CASE m \in lo + 1 .. hi
      BY <1>1, <1>3, <2>2 DEF Complete
    <2> QED BY <2>1, <2>2
  <1> QED BY <1>2, <1>3 DEF f

\* A frame leaves at the head of the queue.
LEMMA FlowTail ==
    ASSUME NEW q \in Seq(Frames), q # <<>>, NEW k, NEW lo \in Nat, NEW hi \in Nat
    PROVE  /\ Flow(q, k, lo, hi) => Flow(Tail(q), k, lo, hi)
           /\ Complete(q, k, lo, hi) /\ ~ Is(Head(q), "data", k) => Complete(Tail(q), k, lo, hi)
  <1>1. ASSUME Flow(q, k, lo, hi) PROVE Flow(Tail(q), k, lo, hi)
    <2>1. \A i \in 1 .. Len(Tail(q)) : Is(Tail(q)[i], "data", k) => Tail(q)[i].n \in lo + 1 .. hi
      BY <1>1, TailPositions DEF Flow
    <2>2. ASSUME NEW i \in 1 .. Len(Tail(q)), NEW j \in 1 .. Len(Tail(q)), i < j,
                 Is(Tail(q)[i], "data", k), Is(Tail(q)[j], "data", k)
          PROVE  Tail(q)[i].n < Tail(q)[j].n
      <3>1. /\ i + 1 \in 1 .. Len(q) /\ j + 1 \in 1 .. Len(q) /\ i + 1 < j + 1
            /\ Tail(q)[i] = q[i + 1] /\ Tail(q)[j] = q[j + 1]
        BY <2>2, TailPositions
      <3> QED BY <1>1, <2>2, <3>1 DEF Flow
    <2> QED BY <2>1, <2>2 DEF Flow
  <1>2. ASSUME Complete(q, k, lo, hi), ~ Is(Head(q), "data", k), NEW m \in lo + 1 .. hi
        PROVE  \E i \in 1 .. Len(Tail(q)) : Is(Tail(q)[i], "data", k) /\ Tail(q)[i].n = m
    <2>1. PICK i \in 1 .. Len(q) : Is(q[i], "data", k) /\ q[i].n = m
      BY <1>2 DEF Complete
    <2> QED BY <1>2, <2>1, TailPositions
  <1> QED BY <1>1, <1>2 DEF Complete

\* When nothing is missing, the piece at the head of the queue is the next one.
LEMMA FlowTailData ==
    ASSUME NEW q \in Seq(Frames), q # <<>>, NEW k, NEW lo \in Nat, NEW hi \in Nat,
           Is(Head(q), "data", k), Flow(q, k, lo, hi), Complete(q, k, lo, hi)
    PROVE  /\ Head(q).n = lo + 1 /\ lo + 1 <= hi
           /\ Flow(Tail(q), k, lo + 1, hi)
           /\ Complete(Tail(q), k, lo + 1, hi)
  <1>1. Head(q) = q[1] /\ 1 \in 1 .. Len(q) /\ q[1].n \in lo + 1 .. hi
    BY TailPositions DEF Flow
  <1>2. PICK i \in 1 .. Len(q) : Is(q[i], "data", k) /\ q[i].n = lo + 1
    BY <1>1 DEF Complete
  <1>3. i = 1
    BY <1>1, <1>2 DEF Flow
  <1>4. Head(q).n = lo + 1 /\ lo + 1 <= hi
    BY <1>1, <1>2, <1>3
  <1>5. Flow(Tail(q), k, lo, hi)
    BY FlowTail
  <1>6. ASSUME NEW j \in 1 .. Len(Tail(q)), Is(Tail(q)[j], "data", k)
        PROVE  Tail(q)[j].n \in lo + 2 .. hi
    <2>1. j + 1 \in 1 .. Len(q) /\ 1 < j + 1 /\ Tail(q)[j] = q[j + 1]
      BY TailPositions
    <2>2. q[1].n < q[j + 1].n /\ q[j + 1].n \in lo + 1 .. hi
      BY <1>1, <1>6, <2>1 DEF Flow
    <2> QED BY <1>1, <1>4, <2>1, <2>2
  <1>7. Flow(Tail(q), k, lo + 1, hi)
    BY <1>5, <1>6 DEF Flow
  <1>8. ASSUME NEW m \in lo + 2 .. hi
        PROVE  \E j \in 1 .. Len(Tail(q)) : Is(Tail(q)[j], "data", k) /\ Tail(q)[j].n = m
    <2>1. PICK j \in 1 .. Len(q) : Is(q[j], "data", k) /\ q[j].n = m
      BY <1>8 DEF Complete
    <2>2. j # 1
      BY <1>1, <1>4, <1>8, <2>1
    <2> QED BY <2>1, <2>2, TailPositions
  <1>9. Complete(Tail(q), k, lo + 1, hi)
    <2>1. (lo + 1) + 1 = lo + 2
      OBVIOUS
    <2> QED BY <1>8, <2>1 DEF Complete
  <1> QED BY <1>4, <1>7, <1>9

LEMMA FlowEmpty ==
    ASSUME NEW k, NEW lo \in Nat, NEW hi \in Nat
    PROVE  /\ Flow(<<>>, k, lo, hi) /\ Led(<<>>, k)
           /\ \A a, b : ~ Before(<<>>, a, b, k)
           /\ \A a : ~ InTransit(<<>>, a, k)
           /\ hi <= lo => Complete(<<>>, k, lo, hi)
  <1>1. Len(<<>>) = 0 /\ 1 .. 0 = {}
    OBVIOUS
  <1> QED BY <1>1 DEF Flow, Led, Before, InTransit, Complete

-----------------------------------------------------------------------------
(***************************************************************************)
(* The inductive invariant                                                 *)
(***************************************************************************)
\* How far the relay got with what it was sent for k.
Pos(k) == IF swriting = k THEN Len(toCaller[k]) + 1 ELSE Len(toCaller[k])

Broken == wire = "down" => down = <<>> /\ up = <<>>

DownFlow(k) ==
    /\ toService[k] = FirstOf(Len(toService[k])) /\ Len(toService[k]) <= sread[k]
    /\ Flow(down, k, Len(toService[k]), sread[k])
    /\ wire = "up" /\ cloop = "reading" => Complete(down, k, Len(toService[k]), sread[k])

UpFlow(k) ==
    /\ toCaller[k] = FirstOf(Len(toCaller[k])) /\ Pos(k) <= cread[k]
    /\ Flow(up, k, Pos(k), cread[k])
    /\ wire = "up" /\ sloop = "reading" => Complete(up, k, Pos(k), cread[k])
    /\ swriting = k => swrote = Len(toCaller[k]) + 1

Flows == Broken /\ \A k \in Ids : DownFlow(k) /\ UpFlow(k)

\* What the frames on the way to the client say of the relay and of the client.
DownFrames(k) ==
    /\ InTransit(down, "connect", k) => ctask[k] = "none" /\ sreader[k] # "none"
    /\ ~ Before(down, "connect", "connect", k)
    /\ InTransit(down, "data", k) => sreader[k] # "none"
    /\ InTransit(down, "close", k) => sreader[k] \notin {"none", "run"}
    /\ ~ Before(down, "close", "data", k)
    /\ ctask[k] = "none" => Led(down, k)
    /\ ctask[k] # "none" => sreader[k] # "none"
    /\ wire = "up" /\ sreader[k] # "none" /\ ctask[k] = "none" => InTransit(down, "connect", k)
    /\ k \in cconns => ctask[k] \in {"acking", "done"}
    /\ ctask[k] \in {"acking", "done"} /\ k \notin cconns
          => sreader[k] \notin {"none", "run"} /\ ~ InTransit(down, "data", k)

\* And what those on the way back say.
UpFrames(k) ==
    /\ creader[k] # "none" => ctask[k] \in {"inserting", "acking", "done"}
    /\ InTransit(up, "data", k) => creader[k] # "none"
    /\ InTransit(up, "close", k) => creader[k] = "done"
    /\ InTransit(up, "nack", k) => ctask[k] = "refused"
    /\ ~ Before(up, "close", "data", k)

\* The client has nothing more to say of k.
Finished(k) ==
    /\ creader[k] # "run" /\ ctask[k] \notin {"none", "connecting"}
    /\ ~ InTransit(up, "data", k)

\* Why a connection is missing from the relay's map.
Missing(k) ==
    /\ sreader[k] = "closing" => caller[k] = "closed"
    /\ wire = "up" /\ sloop = "reading" /\ sreader[k] # "none" /\ accepting # k
          => k \in sconns \/ caller[k] = "closed" \/ Finished(k)

\* Why a connection is left behind.
Left(k) ==
    /\ wire = "up" /\ k \in sconns /\ sreader[k] = "done" => k \in overtaken
    /\ wire = "up" /\ sreader[k] \in {"closing", "done"} =>
          \/ InTransit(down, "close", k)
          \/ k \notin cconns /\ ctask[k] \notin {"none", "connecting", "inserting"}
          \/ k \in missed \/ cloop # "reading"
    /\ listening /\ sreader[k] = "aborted" => creader[k] = "done" \/ ctask[k] = "refused"

Protocol(k) == DownFrames(k) /\ UpFrames(k) /\ Missing(k) /\ Left(k)

-----------------------------------------------------------------------------
(***************************************************************************)
(* The steps, and their types                                              *)
(***************************************************************************)
RelayStep(k) ==
    \/ Accept(k) \/ Announce(k) \/ Insert(k)
    \/ ReaderReads(k) \/ ReaderEnds(k) \/ ReaderRemoves(k)

\* A task blocks or goes on, and that is all.
Blocks(t) ==
    /\ sblocked' = sblocked \ {t} \/ (ThreadFree /\ sblocked' = sblocked \cup {t})
    /\ UNCHANGED <<wire, down, up, callerVars, acceptVars, readerVars, sconns, loopVars,
                   clientVars, overtaken>>

BlockStep == \E t \in Blockers : Blocks(t)

SessionStep == HandleClientData \/ FinishWrite \/ HandleClientClose \/ HandleClientAck
                 \/ Disconnected \/ Clear \/ LinkError

LoopStep == SpawnConnect \/ HandleData \/ HandleClose \/ ReadError \/ Shutdown

LocalStep(k) == LocalConnects(k) \/ LocalInsert(k) \/ ReportConnect(k) \/ LocalReads(k)
                  \/ LocalEnds(k)

LEMMA BlockCases ==
    /\ \A k \in Ids : ThreadFree /\ (InsertBlocks(k) \/ ReaderBlocks(k)) => BlockStep
    /\ \A o \in Others : (ThreadFree /\ OtherBlocks(o)) \/ OtherGoesOn(o) => BlockStep
    /\ ThreadFree /\ AcceptFailBlocks => BlockStep
  <1>1. ASSUME NEW k \in Ids, ThreadFree, InsertBlocks(k) \/ ReaderBlocks(k)
        PROVE  BlockStep
    <2>1. <<"accept", k>> \in Blockers /\ <<"reader", k>> \in Blockers
      BY DEF Blockers
    <2>2. Blocks(<<"accept", k>>) \/ Blocks(<<"reader", k>>)
      BY <1>1 DEF Blocks, InsertBlocks, ReaderBlocks
    <2> QED BY <2>1, <2>2 DEF BlockStep
  <1>2. ASSUME NEW o \in Others, (ThreadFree /\ OtherBlocks(o)) \/ OtherGoesOn(o)
        PROVE  BlockStep
    <2>1. <<"other", o>> \in Blockers
      BY DEF Blockers
    <2>2. Blocks(<<"other", o>>)
      BY <1>2 DEF Blocks, OtherBlocks, OtherGoesOn
    <2> QED BY <2>1, <2>2 DEF BlockStep
  <1>3. ASSUME ThreadFree, AcceptFailBlocks PROVE BlockStep
    <2>1. Stopping \in Blockers
      BY DEF Blockers
    <2>2. Blocks(Stopping)
      BY <1>3 DEF Blocks, AcceptFailBlocks
    <2> QED BY <2>1, <2>2 DEF BlockStep
  <1> QED BY <1>1, <1>2, <1>3

LEMMA StepCases ==
    ASSUME [Next]_vars
    PROVE  \/ \E k \in Ids : RelayStep(k) \/ LocalStep(k) \/ CallerCloses(k) \/ CallerStalls(k)
           \/ BlockStep \/ SessionStep \/ LoopStep \/ StopListening \/ WireBreaks
           \/ UNCHANGED vars
  BY BlockCases
  DEF Next, Relay, Client, Callers, AcceptTask, AcceptCancelled, AcceptFails,
       SessionTask, ReaderCloses, Unblocks, MainLoop, ConnectTask, RelayStep, SessionStep,
       LoopStep, LocalStep

LEMMA FrameTypes ==
    /\ \A k \in Ids, kind \in FrameKinds : Frame(kind, k) \in Frames
    /\ \A k \in Ids, n \in Nat : Data(k, n) \in Frames
    /\ Bye \in Frames
    /\ \A f \in Frames : /\ f.kind \in FrameKinds \cup {"data", "bye"}
                         /\ f.kind # "bye" => f.id \in Ids
                         /\ f.kind = "data" => f.n \in Nat
  BY DEF Frame, Data, Bye, Frames, FrameKinds

LEMMA HeadTypes ==
    ASSUME NEW q \in Seq(Frames), q # <<>>, Len(q) <= Cap
    PROVE  /\ Tail(q) \in Seq(Frames) /\ Len(Tail(q)) <= Cap
           /\ Head(q).kind # "bye" => Head(q).id \in Ids
           /\ Head(q).kind = "data" => Head(q).n \in Nat
  BY TailPositions, FrameTypes, ForwardConstants

LEMMA AppendTypes ==
    ASSUME NEW q \in Seq(Frames), NEW f \in Frames, Len(q) < Cap
    PROVE  Append(q, f) \in Seq(Frames) /\ Len(Append(q, f)) <= Cap
  BY AppendProperties, LenProperties, ForwardConstants

Typed == TypeOK /\ IsFiniteSet(sblocked)

\* A blocked task is one more only while a thread is free.
LEMMA BlockedBound ==
    ASSUME TypeOK, IsFiniteSet(sblocked), NEW t
    PROVE  /\ IsFiniteSet(sblocked \ {t}) /\ Cardinality(sblocked \ {t}) <= Threads
           /\ IsFiniteSet(sblocked \cup {t})
           /\ ThreadFree => Cardinality(sblocked \cup {t}) <= Threads
  <1> USE ForwardConstants
  <1>1. Cardinality(sblocked) \in Nat /\ Cardinality(sblocked) <= Threads
    BY FS_CardinalityType DEF TypeOK
  <1>2. /\ IsFiniteSet(sblocked \ {t})
        /\ \/ Cardinality(sblocked \ {t}) = Cardinality(sblocked)
           \/ Cardinality(sblocked \ {t}) = Cardinality(sblocked) - 1
    BY FS_RemoveElement
  <1>3. /\ IsFiniteSet(sblocked \cup {t})
        /\ \/ Cardinality(sblocked \cup {t}) = Cardinality(sblocked)
           \/ Cardinality(sblocked \cup {t}) = Cardinality(sblocked) + 1
    BY FS_AddElement
  <1>4. ThreadFree => Cardinality(sblocked) < Threads
    BY <1>1 DEF ThreadFree
  <1> QED BY <1>1, <1>2, <1>3, <1>4

\* What a send makes of the queue.
LEMMA SentTypes ==
    ASSUME TypeOK
    PROVE  /\ \A f \in Frames : SendDown(f) \/ LostDown =>
                 down' \in Seq(Frames) /\ Len(down') <= Cap
           /\ \A f \in Frames : SendUp(f) \/ LostUp => up' \in Seq(Frames) /\ Len(up') <= Cap
  <1>1. ASSUME NEW f \in Frames, SendDown(f) \/ LostDown
        PROVE  down' \in Seq(Frames) /\ Len(down') <= Cap
    <2>1. CASE SendDown(f)  BY <2>1, AppendTypes DEF SendDown, TypeOK
    <2>2. CASE LostDown     BY <2>2 DEF LostDown, TypeOK
    <2> QED BY <1>1, <2>1, <2>2
  <1>2. ASSUME NEW f \in Frames, SendUp(f) \/ LostUp
        PROVE  up' \in Seq(Frames) /\ Len(up') <= Cap
    <2>1. CASE SendUp(f)  BY <2>1, AppendTypes DEF SendUp, TypeOK
    <2>2. CASE LostUp     BY <2>2 DEF LostUp, TypeOK
    <2> QED BY <1>2, <2>1, <2>2
  <1> QED BY <1>1, <1>2

LEMMA TypedRelay ==
    ASSUME Typed, NEW k \in Ids, RelayStep(k)
    PROVE  Typed'
  <1>0. sread[k] < UpMax => sread[k] + 1 \in 0 .. UpMax /\ sread[k] + 1 \in Nat
    <2>1. sread[k] \in 0 .. UpMax
      BY DEF Typed, TypeOK
    <2> QED BY <2>1, ForwardConstants
  <1> USE DEF Typed, TypeOK, ReaderPcs, callerVars, acceptVars, readerVars, loopVars, clientVars
  <1>1. CASE Accept(k)      BY <1>1 DEF Accept
  <1>2. CASE Announce(k)
    <2>1. down' \in Seq(Frames) /\ Len(down') <= Cap
      BY <1>2, SentTypes, FrameTypes DEF Announce, FrameKinds
    <2> QED BY <1>2, <2>1 DEF Announce
  <1>3. CASE Insert(k)      BY <1>3, BlockedBound DEF Insert
  <1>4. CASE ReaderReads(k)
    <2>1. sread[k] + 1 \in 0 .. UpMax /\ sread[k] + 1 \in Nat
      BY <1>0, <1>4 DEF ReaderReads
    <2>2. down' \in Seq(Frames) /\ Len(down') <= Cap
      BY <1>4, <2>1, SentTypes, FrameTypes DEF ReaderReads
    <2> QED BY <1>4, <2>1, <2>2 DEF ReaderReads
  <1>5. CASE ReaderEnds(k)
    <2>1. down' \in Seq(Frames) /\ Len(down') <= Cap
      BY <1>5, SentTypes, FrameTypes DEF ReaderEnds, FrameKinds
    <2> QED BY <1>5, <2>1 DEF ReaderEnds
  <1>6. CASE ReaderRemoves(k) BY <1>6, BlockedBound DEF ReaderRemoves
  <1> QED BY <1>1, <1>2, <1>3, <1>4, <1>5, <1>6 DEF RelayStep

LEMMA TypedLocal ==
    ASSUME Typed, NEW k \in Ids, LocalStep(k) \/ CallerCloses(k) \/ CallerStalls(k)
    PROVE  Typed'
  <1>0. cread[k] < DownMax => cread[k] + 1 \in 0 .. DownMax /\ cread[k] + 1 \in Nat
    <2>1. cread[k] \in 0 .. DownMax
      BY DEF Typed, TypeOK
    <2> QED BY <2>1, ForwardConstants
  <1> USE DEF Typed, TypeOK, ReaderPcs, TaskPcs, callerVars, acceptVars, readerVars,
              loopVars, clientVars, relayVars
  <1>1. CASE LocalConnects(k)  BY <1>1 DEF LocalConnects
  <1>2. CASE LocalInsert(k)    BY <1>2 DEF LocalInsert
  <1>3. CASE ReportConnect(k)
    <2>1. up' \in Seq(Frames) /\ Len(up') <= Cap
      BY <1>3, SentTypes, FrameTypes DEF ReportConnect, FrameKinds
    <2> QED BY <1>3, <2>1 DEF ReportConnect
  <1>4. CASE LocalReads(k)
    <2>1. cread[k] + 1 \in 0 .. DownMax /\ cread[k] + 1 \in Nat
      BY <1>0, <1>4 DEF LocalReads
    <2>2. up' \in Seq(Frames) /\ Len(up') <= Cap
      BY <1>4, <2>1, SentTypes, FrameTypes DEF LocalReads
    <2> QED BY <1>4, <2>1, <2>2 DEF LocalReads
  <1>5. CASE LocalEnds(k)
    <2>1. up' \in Seq(Frames) /\ Len(up') <= Cap
      BY <1>5, SentTypes, FrameTypes DEF LocalEnds, FrameKinds
    <2> QED BY <1>5, <2>1 DEF LocalEnds
  <1>6. CASE CallerCloses(k)   BY <1>6 DEF CallerCloses
  <1>7. CASE CallerStalls(k)   BY <1>7 DEF CallerStalls
  <1> QED BY <1>1, <1>2, <1>3, <1>4, <1>5, <1>6, <1>7 DEF LocalStep

LEMMA PieceTypes ==
    ASSUME NEW to \in [Ids -> Seq(Nat)], NEW k \in Ids, NEW n \in Nat
    PROVE  [to EXCEPT ![k] = Append(@, n)] \in [Ids -> Seq(Nat)]
  <1>1. Append(to[k], n) \in Seq(Nat)
    BY AppendProperties
  <1> QED BY <1>1

\* The piece of data at the head of what comes up.
LEMMA HeadInFlow ==
    ASSUME Typed, Flows, up # <<>>, Head(up).kind = "data"
    PROVE  Head(up).id \in Ids /\ Head(up).n \in 0 .. DownMax
  <1>1. /\ up \in Seq(Frames) /\ Head(up).id \in Ids /\ Head(up).n \in Nat
    BY HeadTypes DEF Typed, TypeOK
  <1>2. Head(up) = up[1] /\ 1 \in 1 .. Len(up)
    BY <1>1, TailPositions
  <1>3. up[1].n \in Pos(up[1].id) + 1 .. cread[up[1].id]
    BY <1>1, <1>2 DEF Flows, UpFlow, Flow, Is
  <1>4. cread[up[1].id] \in 0 .. DownMax
    BY <1>1, <1>2 DEF Typed, TypeOK
  <1>5. up[1].n <= cread[up[1].id]
    BY <1>3
  <1> QED BY <1>1, <1>2, <1>4, <1>5, ForwardConstants

LEMMA TypedSession ==
    ASSUME Typed, Flows, SessionStep
    PROVE  Typed'
  <1>0. ASSUME up # <<>>
        PROVE  /\ Tail(up) \in Seq(Frames) /\ Len(Tail(up)) <= Cap
               /\ Head(up).kind # "bye" => Head(up).id \in Ids
    BY <1>0, HeadTypes DEF Typed, TypeOK
  <1> USE DEF Typed, TypeOK, ReaderPcs, callerVars, acceptVars, readerVars, loopVars,
              clientVars, relayRest, Arrives, CanRead, Drop
  <1>1. CASE HandleClientData
    BY <1>0, <1>1, HeadInFlow DEF HandleClientData
  <1>2. CASE FinishWrite
    <2>1. swriting \in Ids /\ swrote \in Nat /\ 0 \in 0 .. DownMax
      BY <1>2, ForwardConstants DEF FinishWrite
    <2>2. toCaller' \in [Ids -> Seq(Nat)]
      <3>1. [toCaller EXCEPT ![swriting] = Append(@, swrote)] \in [Ids -> Seq(Nat)]
        BY <2>1, PieceTypes
      <3> QED BY <1>2, <3>1 DEF FinishWrite
    <2> QED BY <1>2, <2>1, <2>2 DEF FinishWrite
  <1>3. CASE HandleClientClose  BY <1>0, <1>3 DEF HandleClientClose
  <1>4. CASE HandleClientAck
    <2>1. up # <<>> /\ Head(up).id \in Ids /\ up' = Tail(up)
      BY <1>0, <1>4 DEF HandleClientAck
    <2>2. sconns' \subseteq Ids /\ sreader' \in [Ids -> ReaderPcs]
      BY <1>4, <2>1 DEF HandleClientAck
    <2> QED BY <1>0, <1>4, <2>1, <2>2 DEF HandleClientAck
  <1>5. CASE Disconnected       BY <1>0, <1>5 DEF Disconnected
  <1>6. CASE Clear              BY <1>6 DEF Clear
  <1>7. CASE LinkError          BY <1>7 DEF LinkError
  <1> QED BY <1>1, <1>2, <1>3, <1>4, <1>5, <1>6, <1>7 DEF SessionStep

LEMMA TypedLoop ==
    ASSUME Typed, LoopStep \/ StopListening \/ WireBreaks \/ BlockStep \/ UNCHANGED vars
    PROVE  Typed'
  <1>0. ASSUME down # <<>>
        PROVE  /\ Tail(down) \in Seq(Frames) /\ Len(Tail(down)) <= Cap
               /\ Head(down).kind # "bye" => Head(down).id \in Ids
               /\ Head(down).kind = "data" => Head(down).n \in Nat
    BY <1>0, HeadTypes DEF Typed, TypeOK
  <1> USE DEF Typed, TypeOK, ReaderPcs, TaskPcs, callerVars, acceptVars, readerVars, loopVars,
              clientVars, relayVars, Delivered
  <1>1. CASE SpawnConnect   BY <1>0, <1>1 DEF SpawnConnect
  <1>2. CASE HandleData
    <2>1. Head(down).id \in Ids /\ Head(down).n \in Nat
      BY <1>0, <1>2 DEF HandleData
    <2>2. toService' \in [Ids -> Seq(Nat)]
      <3>1. [toService EXCEPT ![Head(down).id] = Append(@, Head(down).n)] \in [Ids -> Seq(Nat)]
        BY <2>1, PieceTypes
      <3> QED BY <1>2, <3>1 DEF HandleData
    <2> QED BY <1>0, <1>2, <2>2 DEF HandleData
  <1>3. CASE HandleClose    BY <1>0, <1>3 DEF HandleClose
  <1>4. CASE ReadError      BY <1>4 DEF ReadError
  <1>5. CASE Shutdown
    <2>1. up' \in Seq(Frames) /\ Len(up') <= Cap
      BY <1>5, SentTypes, FrameTypes DEF Shutdown
    <2> QED BY <1>5, <2>1 DEF Shutdown
  <1>6. CASE StopListening  BY <1>6, BlockedBound DEF StopListening
  <1>7. CASE WireBreaks
    <2>1. <<>> \in Seq(Frames) /\ Len(<<>>) <= Cap
      BY ForwardConstants
    <2> QED BY <1>7, <2>1 DEF WireBreaks
  <1>8. CASE UNCHANGED vars BY <1>8 DEF vars
  <1>9. CASE BlockStep
    <2>1. PICK t \in Blockers : Blocks(t)
      BY <1>9 DEF BlockStep
    <2>2. IsFiniteSet(sblocked') /\ Cardinality(sblocked') <= Threads
      BY <2>1, BlockedBound DEF Blocks
    <2>3. sblocked' \subseteq Blockers
      BY <2>1 DEF Blocks
    <2> QED BY <2>1, <2>2, <2>3 DEF Blocks
  <1> QED BY <1>1, <1>2, <1>3, <1>4, <1>5, <1>6, <1>7, <1>8, <1>9 DEF LoopStep

LEMMA TypedNext ==
    ASSUME Typed, Flows, [Next]_vars
    PROVE  Typed'
  BY StepCases, TypedRelay, TypedLocal, TypedSession, TypedLoop

-----------------------------------------------------------------------------
(***************************************************************************)
(* Both directions carry the pieces of a connection in order               *)
(***************************************************************************)
LEMMA FirstOfAppend ==
    ASSUME NEW s \in Seq(Nat), s = FirstOf(Len(s))
    PROVE  /\ Append(s, Len(s) + 1) = FirstOf(Len(Append(s, Len(s) + 1)))
           /\ Len(Append(s, Len(s) + 1)) = Len(s) + 1
  <1> DEFINE n == Len(s)
             a == Append(s, n + 1)
  <1>1. /\ n \in Nat /\ a \in Seq(Nat) /\ Len(a) = n + 1
        /\ \A i \in 1 .. n : a[i] = s[i] /\ s[i] = i
        /\ a[n + 1] = n + 1
    <2>1. n \in Nat
      BY LenProperties
    <2>2. \A i \in 1 .. n : s[i] = i
      BY DEF FirstOf
    <2> QED BY <2>1, <2>2, AppendProperties
  <1>2. \A i \in 1 .. n + 1 : a[i] = i
    BY <1>1
  <1>3. FirstOf(n + 1) \in Seq(Nat) /\ Len(FirstOf(n + 1)) = n + 1
    BY <1>1 DEF FirstOf
  <1>4. \A i \in 1 .. n + 1 : FirstOf(n + 1)[i] = i
    BY DEF FirstOf
  <1> HIDE DEF a, n
  <1>5. a = FirstOf(n + 1)
    BY <1>1, <1>2, <1>3, <1>4, SeqEqual
  <1> QED BY <1>1, <1>5 DEF a, n

LEMMA Lengths ==
    ASSUME Typed, NEW k \in Ids
    PROVE  /\ Len(toService[k]) \in Nat /\ Len(toCaller[k]) \in Nat /\ Pos(k) \in Nat
           /\ sread[k] \in Nat /\ cread[k] \in Nat
           /\ toService[k] \in Seq(Nat) /\ toCaller[k] \in Seq(Nat)
  <1>1. toService[k] \in Seq(Nat) /\ toCaller[k] \in Seq(Nat) /\ sread[k] \in Nat /\ cread[k] \in Nat
    BY DEF Typed, TypeOK
  <1> QED BY <1>1, LenProperties DEF Pos

\* What the steps that touch the way down do to it; the others leave it alone.
DownIdle ==
    /\ UNCHANGED <<down, toService, sread, wire>>
    /\ cloop' = "reading" => cloop = "reading"

LEMMA DownSteps ==
    ASSUME [Next]_vars
    PROVE  \/ \E k \in Ids : Announce(k) \/ ReaderEnds(k) \/ ReaderReads(k)
           \/ SpawnConnect \/ HandleClose \/ HandleData \/ WireBreaks \/ DownIdle
  <1> USE DEF DownIdle, callerVars, acceptVars, readerVars, loopVars, clientVars, relayVars,
              relayRest
  <1>1. ASSUME NEW k \in Ids, CallerCloses(k) \/ CallerStalls(k) PROVE DownIdle
    BY <1>1 DEF CallerCloses, CallerStalls
  <1>2. ASSUME NEW k \in Ids, LocalStep(k) PROVE DownIdle
    BY <1>2 DEF LocalStep, LocalConnects, LocalInsert, ReportConnect, LocalReads, LocalEnds
  <1>3. ASSUME NEW k \in Ids, Accept(k) \/ Insert(k) \/ ReaderRemoves(k)
        PROVE  DownIdle
    BY <1>3 DEF Accept, Insert, ReaderRemoves
  <1>4. CASE SessionStep
    BY <1>4 DEF SessionStep, HandleClientData, FinishWrite, HandleClientClose,
         HandleClientAck, Disconnected, Clear, LinkError
  <1>5. CASE ReadError \/ Shutdown \/ StopListening \/ BlockStep
    BY <1>5 DEF ReadError, Shutdown, StopListening, BlockStep, Blocks
  <1>6. CASE UNCHANGED vars
    BY <1>6 DEF vars
  <1> HIDE DEF DownIdle, callerVars, acceptVars, readerVars, loopVars, clientVars,
               relayVars, relayRest
  <1> QED BY <1>1, <1>2, <1>3, <1>4, <1>5, <1>6, StepCases DEF RelayStep, LoopStep

UpIdle ==
    /\ UNCHANGED <<up, toCaller, cread, wire, swriting, swrote>>
    /\ sloop' = "reading" => sloop = "reading"

LEMMA UpSteps ==
    ASSUME [Next]_vars
    PROVE  \/ \E k \in Ids : ReportConnect(k) \/ LocalEnds(k) \/ LocalReads(k)
           \/ Shutdown \/ HandleClientClose \/ HandleClientAck \/ Disconnected
           \/ HandleClientData \/ FinishWrite \/ WireBreaks \/ UpIdle
  <1> USE DEF UpIdle, callerVars, acceptVars, readerVars, loopVars, clientVars, relayVars,
              relayRest
  <1>1. ASSUME NEW k \in Ids, CallerCloses(k) \/ CallerStalls(k) PROVE UpIdle
    BY <1>1 DEF CallerCloses, CallerStalls
  <1>2. ASSUME NEW k \in Ids, LocalConnects(k) \/ LocalInsert(k) PROVE UpIdle
    BY <1>2 DEF LocalConnects, LocalInsert
  <1>3. ASSUME NEW k \in Ids, RelayStep(k) PROVE UpIdle
    BY <1>3 DEF RelayStep, Accept, Announce, Insert, ReaderReads, ReaderEnds, ReaderRemoves
  <1>4. CASE Clear \/ LinkError
    BY <1>4 DEF Clear, LinkError
  <1>5. CASE SpawnConnect \/ HandleData \/ HandleClose \/ ReadError \/ StopListening
               \/ BlockStep
    BY <1>5 DEF SpawnConnect, HandleData, HandleClose, ReadError, StopListening, BlockStep,
         Blocks
  <1>6. CASE UNCHANGED vars
    BY <1>6 DEF vars
  <1> HIDE DEF UpIdle, callerVars, acceptVars, readerVars, loopVars, clientVars,
               relayVars, relayRest
  <1> QED BY <1>1, <1>2, <1>3, <1>4, <1>5, <1>6, StepCases DEF SessionStep, LoopStep, LocalStep

LEMMA BrokenNext ==
    ASSUME Typed, Broken, [Next]_vars
    PROVE  Broken'
  <1>1. \/ wire' = wire /\ (wire = "down" => down' \in {<<>>, down} /\ up' \in {<<>>, up})
        \/ wire' = "down" /\ down' = <<>> /\ up' = <<>>
    <2> USE DEF callerVars, acceptVars, readerVars, loopVars, clientVars, relayVars, relayRest,
                SendDown, LostDown, SendUp, LostUp
    <2>1. CASE UpIdle /\ DownIdle
      BY <2>1 DEF UpIdle, DownIdle
    <2>2. ASSUME NEW k \in Ids, Announce(k) \/ ReaderEnds(k) \/ ReaderReads(k)
          PROVE  wire' = wire /\ (wire = "down" => down' = down /\ up' = up)
      BY <2>2 DEF Announce, ReaderEnds, ReaderReads
    <2>3. ASSUME NEW k \in Ids, ReportConnect(k) \/ LocalEnds(k) \/ LocalReads(k)
          PROVE  wire' = wire /\ (wire = "down" => down' = down /\ up' = up)
      BY <2>3 DEF ReportConnect, LocalEnds, LocalReads, Broken
    <2>4. CASE SpawnConnect \/ HandleData \/ HandleClose
      BY <2>4 DEF SpawnConnect, HandleData, HandleClose, Delivered, Broken
    <2>5. CASE HandleClientClose \/ HandleClientAck \/ HandleClientData \/ Disconnected
      BY <2>5 DEF HandleClientClose, HandleClientAck, HandleClientData, Disconnected, Arrives,
           Broken
    <2>6. CASE Shutdown
      BY <2>6 DEF Shutdown
    <2>7. CASE FinishWrite
      BY <2>7 DEF FinishWrite
    <2>8. CASE WireBreaks
      BY <2>8 DEF WireBreaks
    <2> HIDE DEF callerVars, acceptVars, readerVars, loopVars, clientVars, relayVars, relayRest,
                SendDown, LostDown, SendUp, LostUp
    <2> QED BY <2>1, <2>2, <2>3, <2>4, <2>5, <2>6, <2>7, <2>8, DownSteps, UpSteps
  <1>2. CASE wire' = wire /\ (wire = "down" => down' \in {<<>>, down} /\ up' \in {<<>>, up})
    BY <1>2 DEF Broken
  <1> QED BY <1>1, <1>2 DEF Broken

LEMMA DownFlowNext ==
    ASSUME Typed, Flows, [Next]_vars, NEW k \in Ids
    PROVE  DownFlow(k)'
  <1> DEFINE lo == Len(toService[k])
             hi == sread[k]
  <1>0. /\ lo \in Nat /\ hi \in Nat /\ lo <= hi
        /\ down \in Seq(Frames) /\ toService[k] \in Seq(Nat)
        /\ toService[k] = FirstOf(lo)
        /\ Flow(down, k, lo, hi)
        /\ wire = "up" /\ cloop = "reading" => Complete(down, k, lo, hi)
    BY Lengths DEF Flows, DownFlow, Typed, TypeOK
  <1>1. ASSUME UNCHANGED <<toService, sread>>, Flow(down', k, lo, hi),
               wire' = "up" /\ cloop' = "reading" => Complete(down', k, lo, hi)
        PROVE  DownFlow(k)'
    BY <1>0, <1>1 DEF DownFlow
  <1> HIDE DEF lo, hi
  <1>2. CASE DownIdle
    BY <1>0, <1>1, <1>2 DEF DownIdle
  <1>3. ASSUME NEW f \in Frames, ~ Is(f, "data", k), SendDown(f) \/ LostDown,
               UNCHANGED <<toService, sread, wire, cloop>>
        PROVE  DownFlow(k)'
    <2>1. CASE SendDown(f)
      BY <1>0, <1>1, <1>3, <2>1, FlowAppend DEF SendDown
    <2>2. CASE LostDown
      BY <1>0, <1>1, <1>3, <2>2 DEF LostDown
    <2> QED BY <1>3, <2>1, <2>2
  <1>4. ASSUME NEW j \in Ids, Announce(j) \/ ReaderEnds(j) PROVE DownFlow(k)'
    <2>1. /\ SendDown(Frame("connect", j)) \/ SendDown(Frame("close", j)) \/ LostDown
          /\ UNCHANGED <<toService, sread, wire, cloop>>
      BY <1>4 DEF Announce, ReaderEnds, clientVars
    <2>2. /\ Frame("connect", j) \in Frames /\ ~ Is(Frame("connect", j), "data", k)
          /\ Frame("close", j) \in Frames /\ ~ Is(Frame("close", j), "data", k)
      BY FrameTypes DEF FrameKinds, Frame, Is
    <2> QED BY <1>3, <2>1, <2>2
  <1>5. ASSUME NEW j \in Ids, ReaderReads(j) PROVE DownFlow(k)'
    <2>1. /\ UNCHANGED <<toService, wire, cloop>>
          /\ \/ SendDown(Data(j, sread[j] + 1)) /\ sread' = [sread EXCEPT ![j] = @ + 1]
             \/ LostDown /\ UNCHANGED sread
      BY <1>5 DEF ReaderReads, clientVars
    <2>2. Data(j, sread[j] + 1) \in Frames
      BY FrameTypes, Lengths
    <2>3. CASE LostDown /\ UNCHANGED sread
      BY <1>0, <1>1, <2>1, <2>3 DEF LostDown
    <2>4. CASE SendDown(Data(j, sread[j] + 1)) /\ sread' = [sread EXCEPT ![j] = @ + 1] /\ j # k
      <3>1. ~ Is(Data(j, sread[j] + 1), "data", k)
        BY <2>4 DEF Data, Is
      <3>2. sread'[k] = sread[k] /\ down' = Append(down, Data(j, sread[j] + 1))
        BY <2>4 DEF Typed, TypeOK, SendDown
      <3>3. Flow(down', k, lo, hi) /\ (wire = "up" /\ cloop = "reading" => Complete(down', k, lo, hi))
        BY <1>0, <2>2, <3>1, <3>2, FlowAppend
      <3> QED BY <1>0, <2>1, <3>2, <3>3 DEF DownFlow, lo, hi
    <2>5. CASE SendDown(Data(j, sread[j] + 1)) /\ sread' = [sread EXCEPT ![j] = @ + 1] /\ j = k
      <3>1. sread'[k] = hi + 1 /\ down' = Append(down, Data(k, hi + 1))
        BY <2>5 DEF Typed, TypeOK, SendDown, hi
      <3>2. /\ Flow(down', k, lo, hi + 1)
            /\ wire = "up" /\ cloop = "reading" => Complete(down', k, lo, hi + 1)
        BY <1>0, <3>1, FlowAppendData
      <3>3. lo <= hi + 1
        BY <1>0
      <3> QED BY <1>0, <2>1, <3>1, <3>2, <3>3 DEF DownFlow, lo
    <2> QED BY <2>1, <2>3, <2>4, <2>5
  <1>6. CASE SpawnConnect \/ HandleClose
    <2>1. /\ UNCHANGED <<toService, sread, wire, cloop>>
          /\ down # <<>> /\ down' = Tail(down) /\ ~ Is(Head(down), "data", k)
      BY <1>6 DEF SpawnConnect, HandleClose, Delivered, Is, relayVars, readerVars
    <2> QED BY <1>0, <1>1, <2>1, FlowTail
  <1>7. CASE HandleData
    <2>1. /\ cloop = "reading" /\ down # <<>> /\ down' = Tail(down) /\ UNCHANGED <<sread, wire>>
          /\ \/ /\ toService' = [toService EXCEPT ![Head(down).id] = Append(@, Head(down).n)]
                /\ UNCHANGED cloop
             \/ cloop' = "failed" /\ UNCHANGED toService
          /\ Head(down).kind = "data"
      BY <1>7 DEF HandleData, Delivered, relayVars, readerVars
    <2>2. wire = "up"
      BY <2>1 DEF Flows, Broken, Typed, TypeOK
    <2>3. CASE cloop' = "failed" /\ UNCHANGED toService
      BY <1>0, <1>1, <2>1, <2>3, FlowTail
    <2>4. CASE Head(down).id # k /\ UNCHANGED cloop
      <3>1. ~ Is(Head(down), "data", k)
        BY <2>4 DEF Is
      <3>2. Flow(down', k, lo, hi) /\ Complete(down', k, lo, hi)
        BY <1>0, <2>1, <2>2, <3>1, FlowTail
      <3>3. toService'[k] = toService[k]
        BY <2>1, <2>4 DEF Typed, TypeOK
      <3> QED BY <1>0, <2>1, <3>2, <3>3 DEF DownFlow, lo, hi
    <2>5. CASE Head(down).id = k /\ toService' = [toService EXCEPT ![Head(down).id] = Append(@, Head(down).n)]
      <3>1. Is(Head(down), "data", k)
        BY <2>1, <2>5 DEF Is
      <3>2. /\ Head(down).n = lo + 1 /\ lo + 1 <= hi
            /\ Flow(down', k, lo + 1, hi) /\ Complete(down', k, lo + 1, hi)
        BY <1>0, <2>1, <2>2, <3>1, FlowTailData
      <3>3. toService'[k] = Append(toService[k], lo + 1)
        BY <2>5, <3>2 DEF Typed, TypeOK
      <3>4. toService'[k] = FirstOf(Len(toService'[k])) /\ Len(toService'[k]) = lo + 1
        BY <1>0, <3>3, FirstOfAppend DEF lo
      <3> QED BY <2>1, <3>2, <3>4 DEF DownFlow, hi
    <2> QED BY <2>1, <2>3, <2>4, <2>5
  <1>8. CASE WireBreaks
    <2>1. UNCHANGED <<toService, sread>> /\ wire' = "down" /\ down' = <<>>
      BY <1>8 DEF WireBreaks, clientVars, readerVars
    <2> QED BY <1>0, <1>1, <2>1, FlowEmpty
  <1> QED BY <1>2, <1>4, <1>5, <1>6, <1>7, <1>8, DownSteps

LEMMA UpFlowNext ==
    ASSUME Typed, Flows, [Next]_vars, NEW k \in Ids
    PROVE  UpFlow(k)'
  <1> DEFINE len == Len(toCaller[k])
             lo  == Pos(k)
             hi  == cread[k]
  <1>0. /\ len \in Nat /\ lo \in Nat /\ hi \in Nat /\ lo <= hi
        /\ lo = IF swriting = k THEN len + 1 ELSE len
        /\ up \in Seq(Frames) /\ toCaller[k] \in Seq(Nat) /\ toCaller[k] = FirstOf(len)
        /\ Flow(up, k, lo, hi)
        /\ wire = "up" /\ sloop = "reading" => Complete(up, k, lo, hi)
        /\ swriting = k => swrote = len + 1
    BY Lengths DEF Flows, UpFlow, Typed, TypeOK, Pos
  <1>1. ASSUME UNCHANGED <<toCaller, cread, swriting, swrote>>, Flow(up', k, lo, hi),
               wire' = "up" /\ sloop' = "reading" => Complete(up', k, lo, hi)
        PROVE  UpFlow(k)'
    BY <1>0, <1>1 DEF UpFlow, Pos
  <1> HIDE DEF len, lo, hi
  <1>2. CASE UpIdle
    BY <1>0, <1>1, <1>2 DEF UpIdle
  <1>3. ASSUME NEW f \in Frames, ~ Is(f, "data", k), SendUp(f) \/ UNCHANGED up,
               UNCHANGED <<toCaller, cread, swriting, swrote, wire, sloop>>
        PROVE  UpFlow(k)'
    <2>1. CASE SendUp(f)
      BY <1>0, <1>1, <1>3, <2>1, FlowAppend DEF SendUp
    <2>2. CASE UNCHANGED up
      BY <1>0, <1>1, <1>3, <2>2
    <2> QED BY <1>3, <2>1, <2>2
  <1>4. ASSUME NEW j \in Ids, ReportConnect(j) \/ LocalEnds(j) PROVE UpFlow(k)'
    <2>1. /\ \/ SendUp(Frame("ack", j)) \/ SendUp(Frame("nack", j)) \/ SendUp(Frame("close", j))
             \/ UNCHANGED up
          /\ UNCHANGED <<toCaller, cread, swriting, swrote, wire, sloop>>
      BY <1>4 DEF ReportConnect, LocalEnds, LostUp, relayVars, callerVars, loopVars
    <2>2. /\ Frame("ack", j) \in Frames /\ ~ Is(Frame("ack", j), "data", k)
          /\ Frame("nack", j) \in Frames /\ ~ Is(Frame("nack", j), "data", k)
          /\ Frame("close", j) \in Frames /\ ~ Is(Frame("close", j), "data", k)
      BY FrameTypes DEF FrameKinds, Frame, Is
    <2> QED BY <1>3, <2>1, <2>2
  <1>5. CASE Shutdown
    <2>1. SendUp(Bye) /\ UNCHANGED <<toCaller, cread, swriting, swrote, wire, sloop>>
      BY <1>5 DEF Shutdown, relayVars, callerVars, loopVars
    <2>2. Bye \in Frames /\ ~ Is(Bye, "data", k)
      BY FrameTypes DEF Bye, Is
    <2> QED BY <1>3, <2>1, <2>2
  <1>6. ASSUME NEW j \in Ids, LocalReads(j) PROVE UpFlow(k)'
    <2>1. /\ UNCHANGED <<toCaller, swriting, swrote, wire, sloop>>
          /\ \/ SendUp(Data(j, cread[j] + 1)) /\ cread' = [cread EXCEPT ![j] = @ + 1]
             \/ LostUp /\ UNCHANGED cread
      BY <1>6 DEF LocalReads, relayVars, callerVars, loopVars
    <2>2. Data(j, cread[j] + 1) \in Frames
      BY FrameTypes, Lengths
    <2>3. CASE LostUp /\ UNCHANGED cread
      BY <1>0, <1>1, <2>1, <2>3 DEF LostUp
    <2>4. CASE SendUp(Data(j, cread[j] + 1)) /\ cread' = [cread EXCEPT ![j] = @ + 1] /\ j # k
      <3>1. ~ Is(Data(j, cread[j] + 1), "data", k)
        BY <2>4 DEF Data, Is
      <3>2. cread'[k] = cread[k] /\ up' = Append(up, Data(j, cread[j] + 1))
        BY <2>4 DEF Typed, TypeOK, SendUp
      <3>3. Flow(up', k, lo, hi) /\ (wire = "up" /\ sloop = "reading" => Complete(up', k, lo, hi))
        BY <1>0, <2>2, <3>1, <3>2, FlowAppend
      <3> QED BY <1>0, <2>1, <3>2, <3>3 DEF UpFlow, Pos, len, lo, hi
    <2>5. CASE SendUp(Data(j, cread[j] + 1)) /\ cread' = [cread EXCEPT ![j] = @ + 1] /\ j = k
      <3>1. cread'[k] = hi + 1 /\ up' = Append(up, Data(k, hi + 1))
        BY <2>5 DEF Typed, TypeOK, SendUp, hi
      <3>2. /\ Flow(up', k, lo, hi + 1)
            /\ wire = "up" /\ sloop = "reading" => Complete(up', k, lo, hi + 1)
        BY <1>0, <3>1, FlowAppendData
      <3>3. lo <= hi + 1
        BY <1>0
      <3> QED BY <1>0, <2>1, <3>1, <3>2, <3>3 DEF UpFlow, Pos, len, lo
    <2> QED BY <2>1, <2>3, <2>4, <2>5
  <1>7. CASE HandleClientClose \/ HandleClientAck \/ Disconnected
    <2>1. /\ UNCHANGED <<toCaller, cread, swriting, swrote, wire>>
          /\ sloop = "reading" /\ up # <<>> /\ up' = Tail(up) /\ ~ Is(Head(up), "data", k)
      BY <1>7 DEF HandleClientClose, HandleClientAck, Disconnected, Arrives, CanRead, Is,
           relayRest, callerVars, loopVars, clientVars
    <2> QED BY <1>0, <1>1, <2>1, FlowTail
  <1>8. CASE HandleClientData
    <2>1. /\ sloop = "reading" /\ up # <<>> /\ up' = Tail(up)
          /\ UNCHANGED <<toCaller, cread, wire>> /\ swriting = NoId
          /\ \/ swriting' = Head(up).id /\ swrote' = Head(up).n /\ UNCHANGED sloop
             \/ sloop' = "aborted" /\ UNCHANGED <<swriting, swrote>>
          /\ Head(up).kind = "data"
      BY <1>8 DEF HandleClientData, Arrives, CanRead, relayRest, callerVars, clientVars
    <2>2. wire = "up" /\ swriting # k /\ lo = len
      BY <1>0, <2>1, ForwardConstants DEF Flows, Broken, Typed, TypeOK
    <2>3. CASE sloop' = "aborted" /\ UNCHANGED <<swriting, swrote>>
      BY <1>0, <1>1, <2>1, <2>3, FlowTail
    <2>4. CASE Head(up).id # k /\ swriting' = Head(up).id
      <3>1. ~ Is(Head(up), "data", k)
        BY <2>4 DEF Is
      <3>2. Flow(up', k, len, hi) /\ Complete(up', k, len, hi)
        BY <1>0, <2>1, <2>2, <3>1, FlowTail
      <3>3. Pos(k)' = len /\ swriting' # k
        BY <2>1, <2>4 DEF Pos, len
      <3>4. UpFlow(k)' <=> /\ toCaller[k] = FirstOf(len) /\ len <= hi /\ Flow(up', k, len, hi)
                           /\ wire = "up" /\ sloop' = "reading" => Complete(up', k, len, hi)
        BY <2>1, <3>3 DEF UpFlow, len, hi
      <3> QED BY <1>0, <2>2, <3>2, <3>4
    <2>5. CASE Head(up).id = k /\ swriting' = Head(up).id /\ swrote' = Head(up).n
      <3>1. Is(Head(up), "data", k)
        BY <2>1, <2>5 DEF Is
      <3>2. /\ Head(up).n = len + 1 /\ len + 1 <= hi
            /\ Flow(up', k, len + 1, hi) /\ Complete(up', k, len + 1, hi)
        BY <1>0, <2>1, <2>2, <3>1, FlowTailData
      <3>3. Pos(k)' = len + 1
        BY <2>1, <2>5 DEF Pos, len
      <3> QED BY <1>0, <2>1, <2>5, <3>2, <3>3 DEF UpFlow, len, hi
    <2> QED BY <2>1, <2>3, <2>4, <2>5
  <1>9. CASE FinishWrite
    <2>1. /\ swriting # NoId /\ swriting' = NoId /\ NoId # k /\ swriting \in Ids
          /\ UNCHANGED <<up, cread, wire>>
          /\ \/ /\ toCaller' = [toCaller EXCEPT ![swriting] = Append(@, swrote)]
                /\ UNCHANGED sloop
             \/ sloop' = "aborted" /\ UNCHANGED toCaller
      BY <1>9, ForwardConstants DEF FinishWrite, clientVars, Typed, TypeOK
    <2>2. CASE sloop' = "aborted" /\ UNCHANGED toCaller
      <3>1. Pos(k)' = len
        BY <2>1, <2>2 DEF Pos, len
      <3>2. Flow(up, k, len, hi) /\ len <= hi
        BY <1>0 DEF Flow
      <3> QED BY <1>0, <2>1, <2>2, <3>1, <3>2 DEF UpFlow, len, hi
    <2>3. CASE swriting # k
      <3>1. toCaller'[k] = toCaller[k] /\ Pos(k)' = len /\ lo = len
        BY <1>0, <2>1, <2>3 DEF Pos, len, Typed, TypeOK
      <3>2. sloop' = "reading" => sloop = "reading"
        BY <2>1
      <3> QED BY <1>0, <2>1, <3>1, <3>2 DEF UpFlow, len, hi
    <2>4. CASE swriting = k /\ toCaller' = [toCaller EXCEPT ![swriting] = Append(@, swrote)]
                 /\ UNCHANGED sloop
      <3>1. toCaller'[k] = Append(toCaller[k], len + 1)
        BY <1>0, <2>4 DEF Typed, TypeOK
      <3>2. toCaller'[k] = FirstOf(Len(toCaller'[k])) /\ Len(toCaller'[k]) = len + 1
        BY <1>0, <3>1, FirstOfAppend DEF len
      <3>3. Pos(k)' = len + 1 /\ lo = len + 1
        BY <1>0, <2>1, <2>4, <3>2 DEF Pos
      <3> QED BY <1>0, <2>1, <2>4, <3>2, <3>3 DEF UpFlow, hi
    <2> QED BY <2>1, <2>2, <2>3, <2>4
  <1>10. CASE WireBreaks
    <2>1. UNCHANGED <<toCaller, cread, swriting, swrote>> /\ wire' = "down" /\ up' = <<>>
      BY <1>10 DEF WireBreaks, callerVars, clientVars, loopVars
    <2> QED BY <1>0, <1>1, <2>1, FlowEmpty
  <1> QED BY <1>2, <1>4, <1>5, <1>6, <1>7, <1>8, <1>9, <1>10, UpSteps

LEMMA FlowsInit == Init => Typed /\ Flows
  <1> SUFFICES ASSUME Init PROVE Typed /\ Flows
    OBVIOUS
  <1>1. Typed
    <2>1. /\ IsFiniteSet(sblocked) /\ Cardinality(sblocked) = 0 /\ sblocked \subseteq Blockers
          /\ 0 <= Threads
      BY ForwardConstants, FS_EmptySet DEF Init
    <2>2. /\ down \in Seq(Frames) /\ up \in Seq(Frames) /\ Len(down) <= Cap /\ Len(up) <= Cap
          /\ toCaller \in [Ids -> Seq(Nat)] /\ toService \in [Ids -> Seq(Nat)]
          /\ sread \in [Ids -> 0 .. UpMax] /\ cread \in [Ids -> 0 .. DownMax]
          /\ swrote \in 0 .. DownMax
      BY ForwardConstants DEF Init
    <2> QED BY <2>1, <2>2 DEF Init, Typed, TypeOK, ReaderPcs, TaskPcs
  <1>2. ASSUME NEW k \in Ids PROVE DownFlow(k) /\ UpFlow(k)
    <2>1. /\ toService[k] = <<>> /\ toCaller[k] = <<>> /\ sread[k] = 0 /\ cread[k] = 0
          /\ down = <<>> /\ up = <<>> /\ swriting # k
      BY ForwardConstants DEF Init
    <2>2. <<>> = FirstOf(0) /\ Len(<<>>) = 0
      BY DEF FirstOf
    <2>3. Pos(k) = 0
      BY <2>1, <2>2 DEF Pos
    <2>4. Flow(<<>>, k, 0, 0) /\ Complete(<<>>, k, 0, 0)
      BY FlowEmpty
    <2>5. DownFlow(k)
      BY <2>1, <2>2, <2>4 DEF DownFlow
    <2>6. UpFlow(k)
      BY <2>1, <2>2, <2>3, <2>4 DEF UpFlow
    <2> QED BY <2>5, <2>6
  <1> QED BY <1>1, <1>2 DEF Flows, Broken, Init

LEMMA FlowsAlways == Spec => [](Typed /\ Flows)
  <1>1. Typed /\ Flows /\ [Next]_vars => (Typed /\ Flows)'
    BY TypedNext, BrokenNext, DownFlowNext, UpFlowNext DEF Flows
  <1> QED BY <1>1, FlowsInit, PTL DEF Spec

\* Every reachable state is well typed: no direction holds more than its capacity
\* and no more tasks are blocked than the relay has threads.
THEOREM TypeCorrect == Spec => []TypeOK
  <1>1. Typed => TypeOK
    BY DEF Typed
  <1> QED BY <1>1, FlowsAlways, PTL

\* Each connection delivers a prefix of what was sent on it, in order and whole,
\* in both directions, whatever breaks: for any number of connections, any amount
\* of data and any capacity.
THEOREM BytesInOrder == Spec => []PrefixDelivered
  <1>1. Typed /\ Flows => PrefixDelivered
    <2> SUFFICES ASSUME Typed, Flows, NEW k \in Ids
                 PROVE  /\ toService[k] = FirstOf(Len(toService[k]))
                        /\ Len(toService[k]) <= sread[k]
                        /\ toCaller[k] = FirstOf(Len(toCaller[k]))
                        /\ Len(toCaller[k]) <= cread[k]
      BY DEF PrefixDelivered
    <2>1. Len(toCaller[k]) <= Pos(k)
      BY Lengths DEF Pos
    <2> QED BY <2>1, Lengths DEF Flows, DownFlow, UpFlow
  <1> QED BY <1>1, FlowsAlways, PTL

-----------------------------------------------------------------------------
(***************************************************************************)
(* What is sent and taken, seen by one connection                          *)
(***************************************************************************)
LEMMA IsFrame ==
    ASSUME NEW j, NEW k, NEW kind \in {"connect", "close", "ack", "nack", "data"}
    PROVE  /\ \A a : Is(Frame(a, j), kind, k) <=> a = kind /\ j = k
           /\ \A n : Is(Data(j, n), kind, k) <=> kind = "data" /\ j = k
           /\ ~ Is(Bye, kind, k)
  BY DEF Is, Frame, Data, Bye

Kinds == {"connect", "close", "ack", "nack", "data"}

\* f is appended to the queue q.
Sent(q, r, f, k) ==
    /\ \A kind \in Kinds : InTransit(r, kind, k) <=> InTransit(q, kind, k) \/ Is(f, kind, k)
    /\ \A a, b \in Kinds :
          Before(r, a, b, k) => Before(q, a, b, k) \/ (InTransit(q, a, k) /\ Is(f, b, k))
    /\ (Is(f, "data", k) \/ Is(f, "close", k) => InTransit(q, "connect", k)) /\ Led(q, k)
          => Led(r, k)

\* The head of the queue q is taken.
Taken(q, r, k) ==
    /\ \A kind \in Kinds : InTransit(q, kind, k) <=> InTransit(r, kind, k) \/ Is(Head(q), kind, k)
    /\ \A a, b \in Kinds : /\ Before(r, a, b, k) => Before(q, a, b, k)
                           /\ Is(Head(q), a, k) /\ InTransit(r, b, k) => Before(q, a, b, k)
    /\ Led(q, k) => /\ ~ Is(Head(q), "data", k) /\ ~ Is(Head(q), "close", k)
                    /\ ~ Is(Head(q), "connect", k) => Led(r, k)

LEMMA SentFacts ==
    ASSUME NEW q \in Seq(Frames), NEW f \in Frames, NEW k
    PROVE  Sent(q, Append(q, f), f, k)
  BY InAppend, BeforeAppend, LedAppend DEF Sent

LEMMA TakenFacts ==
    ASSUME NEW q \in Seq(Frames), q # <<>>, NEW k
    PROVE  Taken(q, Tail(q), k)
  BY InTail, BeforeTail, LedTail DEF Taken

\* The same for each frame that goes down.
LEMMA SentConnect ==
    ASSUME NEW q, NEW r, NEW j, NEW k, Sent(q, r, Frame("connect", j), k)
    PROVE  /\ InTransit(r, "connect", k) <=> InTransit(q, "connect", k) \/ j = k
           /\ InTransit(r, "data", k) <=> InTransit(q, "data", k)
           /\ InTransit(r, "close", k) <=> InTransit(q, "close", k)
           /\ Before(r, "connect", "connect", k)
                => Before(q, "connect", "connect", k) \/ (InTransit(q, "connect", k) /\ j = k)
           /\ Before(r, "close", "data", k) => Before(q, "close", "data", k)
           /\ Led(q, k) => Led(r, k)
  BY IsFrame DEF Sent, Kinds

LEMMA SentData ==
    ASSUME NEW q, NEW r, NEW j, NEW n, NEW k, Sent(q, r, Data(j, n), k)
    PROVE  /\ InTransit(r, "connect", k) <=> InTransit(q, "connect", k)
           /\ InTransit(r, "data", k) <=> InTransit(q, "data", k) \/ j = k
           /\ InTransit(r, "close", k) <=> InTransit(q, "close", k)
           /\ InTransit(r, "nack", k) <=> InTransit(q, "nack", k)
           /\ Before(r, "connect", "connect", k) => Before(q, "connect", "connect", k)
           /\ Before(r, "close", "data", k)
                => Before(q, "close", "data", k) \/ (InTransit(q, "close", k) /\ j = k)
           /\ Led(q, k) /\ (j = k => InTransit(q, "connect", k)) => Led(r, k)
  BY IsFrame DEF Sent, Kinds

LEMMA SentClose ==
    ASSUME NEW q, NEW r, NEW j, NEW k, Sent(q, r, Frame("close", j), k)
    PROVE  /\ InTransit(r, "connect", k) <=> InTransit(q, "connect", k)
           /\ InTransit(r, "data", k) <=> InTransit(q, "data", k)
           /\ InTransit(r, "close", k) <=> InTransit(q, "close", k) \/ j = k
           /\ InTransit(r, "nack", k) <=> InTransit(q, "nack", k)
           /\ Before(r, "connect", "connect", k) => Before(q, "connect", "connect", k)
           /\ Before(r, "close", "data", k) => Before(q, "close", "data", k)
           /\ Led(q, k) /\ (j = k => InTransit(q, "connect", k)) => Led(r, k)
  BY IsFrame DEF Sent, Kinds

LEMMA SentDown ==
    ASSUME Typed, NEW f \in Frames, SendDown(f), NEW k
    PROVE  Sent(down, down', f, k)
  BY SentFacts DEF SendDown, Typed, TypeOK

LEMMA SentUp ==
    ASSUME Typed, NEW f \in Frames, SendUp(f), NEW k
    PROVE  Sent(up, up', f, k)
  BY SentFacts DEF SendUp, Typed, TypeOK

LEMMA TakenDown ==
    ASSUME Typed, down # <<>>, down' = Tail(down), NEW k
    PROVE  Taken(down, down', k)
  BY TakenFacts DEF Typed, TypeOK

LEMMA TakenUp ==
    ASSUME Typed, up # <<>>, up' = Tail(up), NEW k
    PROVE  Taken(up, up', k)
  BY TakenFacts DEF Typed, TypeOK

\* What a step of the relay's read loop can know of the frame it takes.
LEMMA TakenUpFacts ==
    ASSUME Typed, up # <<>>, up' = Tail(up), NEW k
    PROVE  /\ InTransit(up', "data", k) => InTransit(up, "data", k)
           /\ InTransit(up', "close", k) => InTransit(up, "close", k)
           /\ InTransit(up', "nack", k) => InTransit(up, "nack", k)
           /\ Before(up', "close", "data", k) => Before(up, "close", "data", k)
           /\ Head(up).kind = "close" /\ Head(up).id = k
                => InTransit(up, "close", k)
                   /\ (InTransit(up', "data", k) => Before(up, "close", "data", k))
           /\ Head(up).kind = "nack" /\ Head(up).id = k => InTransit(up, "nack", k)
  BY TakenUp DEF Taken, Kinds, Is

LEMMA TakenDownFacts ==
    ASSUME Typed, down # <<>>, down' = Tail(down), NEW k
    PROVE  /\ InTransit(down', "connect", k) => InTransit(down, "connect", k)
           /\ InTransit(down', "data", k) => InTransit(down, "data", k)
           /\ InTransit(down', "close", k) => InTransit(down, "close", k)
           /\ Before(down', "connect", "connect", k) => Before(down, "connect", "connect", k)
           /\ Before(down', "close", "data", k) => Before(down, "close", "data", k)
           /\ Head(down).kind # "connect" \/ Head(down).id # k =>
                 /\ InTransit(down, "connect", k) => InTransit(down', "connect", k)
                 /\ Led(down, k) => Led(down', k)
           /\ Head(down).kind # "close" \/ Head(down).id # k
                => (InTransit(down, "close", k) => InTransit(down', "close", k))
           /\ Head(down).kind = "connect" /\ Head(down).id = k
                => InTransit(down, "connect", k)
                   /\ (InTransit(down', "connect", k) => Before(down, "connect", "connect", k))
           /\ Head(down).kind = "data" /\ Head(down).id = k
                => InTransit(down, "data", k) /\ ~ Led(down, k)
           /\ Head(down).kind = "close" /\ Head(down).id = k
                => /\ InTransit(down, "close", k) /\ ~ Led(down, k)
                   /\ InTransit(down', "data", k) => Before(down, "close", "data", k)
  BY TakenDown DEF Taken, Kinds, Is

-----------------------------------------------------------------------------
(***************************************************************************)
(* The relay's steps keep the protocol                                     *)
(***************************************************************************)
protocolVars == <<wire, down, up, caller, listening, accepting, sreader, sconns, sloop,
                  cloop, ctask, creader, cconns, missed, overtaken>>

LEMMA ProtocolFrame ==
    ASSUME NEW k, Protocol(k), UNCHANGED protocolVars
    PROVE  Protocol(k)'
  BY DEF protocolVars, Protocol, DownFrames, UpFrames, Missing, Left, Finished

LEMMA ProtocolRelay ==
    ASSUME Typed, NEW j \in Ids, RelayStep(j) \/ CallerCloses(j) \/ CallerStalls(j),
           NEW k \in Ids, Protocol(k)
    PROVE  Protocol(k)'
  <1> USE DEF Protocol, DownFrames, UpFrames, Missing, Left, Finished
  <1>1. CASE CallerCloses(j)
    BY <1>1 DEF CallerCloses, Typed, TypeOK, acceptVars, readerVars, loopVars, clientVars
  <1>2. CASE CallerStalls(j)
    BY <1>2, ProtocolFrame DEF CallerStalls, protocolVars, acceptVars, readerVars, loopVars,
         clientVars
  <1>3. CASE Accept(j)
    BY <1>3, ForwardConstants
    DEF Accept, callerVars, readerVars, loopVars, clientVars
  <1>4. CASE Insert(j)
    BY <1>4 DEF Insert, callerVars, readerVars, loopVars, clientVars
  <1>5. CASE Announce(j)
    <2>1. CASE LostDown /\ sreader' = [sreader EXCEPT ![j] = "done"]
      BY <1>5, <2>1 DEF Announce, LostDown, Typed, TypeOK, callerVars, loopVars, clientVars
    <2>2. CASE SendDown(Frame("connect", j)) /\ sreader' = [sreader EXCEPT ![j] = "run"]
                 /\ UNCHANGED accepting
      <3>1. Frame("connect", j) \in Frames
        BY FrameTypes DEF FrameKinds
      <3>2. Sent(down, down', Frame("connect", j), k)
        BY <2>2, <3>1, SentDown
      <3>3. /\ InTransit(down', "connect", k) <=> InTransit(down, "connect", k) \/ j = k
            /\ InTransit(down', "data", k) <=> InTransit(down, "data", k)
            /\ InTransit(down', "close", k) <=> InTransit(down, "close", k)
            /\ Before(down', "connect", "connect", k)
                 => Before(down, "connect", "connect", k) \/ (InTransit(down, "connect", k) /\ j = k)
            /\ Before(down', "close", "data", k) => Before(down, "close", "data", k)
            /\ Led(down, k) => Led(down', k)
        BY <3>2, SentConnect
      <3> QED BY <1>5, <2>2, <3>3
           DEF Announce, Typed, TypeOK, callerVars, loopVars, clientVars
    <2> QED BY <1>5, <2>1, <2>2 DEF Announce
  <1>6. CASE ReaderReads(j)
    <2>1. CASE LostDown /\ sreader' = [sreader EXCEPT ![j] = "done"]
      BY <1>6, <2>1 DEF ReaderReads, LostDown, Typed, TypeOK, callerVars, acceptVars, loopVars,
           clientVars
    <2>2. CASE SendDown(Data(j, sread[j] + 1)) /\ UNCHANGED sreader
      <3>1. Data(j, sread[j] + 1) \in Frames
        BY FrameTypes, Lengths
      <3>2. Sent(down, down', Data(j, sread[j] + 1), k)
        BY <2>2, <3>1, SentDown
      <3>3. /\ InTransit(down', "connect", k) <=> InTransit(down, "connect", k)
            /\ InTransit(down', "data", k) <=> InTransit(down, "data", k) \/ j = k
            /\ InTransit(down', "close", k) <=> InTransit(down, "close", k)
            /\ Before(down', "connect", "connect", k) => Before(down, "connect", "connect", k)
            /\ Before(down', "close", "data", k)
                 => Before(down, "close", "data", k) \/ (InTransit(down, "close", k) /\ j = k)
            /\ Led(down, k) /\ (j = k => InTransit(down, "connect", k)) => Led(down', k)
        BY <3>2, SentData
      <3>4. wire = "up"
        BY <2>2 DEF SendDown
      <3> QED BY <1>6, <2>2, <3>3, <3>4 DEF ReaderReads, callerVars, acceptVars, loopVars, clientVars
    <2> QED BY <1>6, <2>1, <2>2 DEF ReaderReads
  <1>7. CASE ReaderEnds(j)
    <2>0. /\ sreader[j] = "run" /\ sreader' = [sreader EXCEPT ![j] = "closing"]
          /\ caller[j] = "closed"
          /\ UNCHANGED <<wire, up, caller, listening, accepting, sconns, sloop, cloop, ctask,
                         creader, cconns, missed, overtaken>>
      BY <1>7 DEF ReaderEnds, callerVars, acceptVars, loopVars, clientVars
    <2>1. CASE LostDown
      BY <2>0, <2>1 DEF LostDown, Typed, TypeOK
    <2>2. CASE SendDown(Frame("close", j))
      <3>1. Frame("close", j) \in Frames
        BY FrameTypes DEF FrameKinds
      <3>2. Sent(down, down', Frame("close", j), k)
        BY <2>2, <3>1, SentDown
      <3>3. /\ InTransit(down', "connect", k) <=> InTransit(down, "connect", k)
            /\ InTransit(down', "data", k) <=> InTransit(down, "data", k)
            /\ InTransit(down', "close", k) <=> InTransit(down, "close", k) \/ j = k
            /\ Before(down', "connect", "connect", k) => Before(down, "connect", "connect", k)
            /\ Before(down', "close", "data", k) => Before(down, "close", "data", k)
            /\ Led(down, k) /\ (j = k => InTransit(down, "connect", k)) => Led(down', k)
        BY <3>2, SentClose
      <3>4. wire = "up"
        BY <2>2 DEF SendDown
      <3> QED BY <2>0, <3>3, <3>4 DEF Typed, TypeOK
    <2> QED BY <1>7, <2>1, <2>2 DEF ReaderEnds
  <1>8. CASE ReaderRemoves(j)
    <2>1. /\ sreader[j] = "closing" /\ sconns' = sconns \ {j}
          /\ sreader'[j] = "done" /\ (k # j => sreader'[k] = sreader[k])
          /\ UNCHANGED <<wire, down, up, caller, listening, accepting, sloop, cloop, ctask,
                         creader, cconns, missed, overtaken>>
      BY <1>8 DEF ReaderRemoves, Typed, TypeOK, callerVars, acceptVars, loopVars, clientVars
    <2>2. CASE k = j
      BY <2>1, <2>2
    <2>3. CASE k # j
      BY <2>1, <2>3
    <2> QED BY <2>2, <2>3
  <1> QED BY <1>1, <1>2, <1>3, <1>4, <1>5, <1>6, <1>7, <1>8 DEF RelayStep

LEMMA ProtocolSession ==
    ASSUME Typed, SessionStep \/ StopListening \/ WireBreaks, NEW k \in Ids, Protocol(k)
    PROVE  Protocol(k)'
  <1>0. ASSUME up # <<>>, up' = Tail(up)
        PROVE  /\ InTransit(up', "data", k) => InTransit(up, "data", k)
               /\ InTransit(up', "close", k) => InTransit(up, "close", k)
               /\ InTransit(up', "nack", k) => InTransit(up, "nack", k)
               /\ Before(up', "close", "data", k) => Before(up, "close", "data", k)
               /\ Head(up).kind = "close" /\ Head(up).id = k
                    => InTransit(up, "close", k)
                       /\ (InTransit(up', "data", k) => Before(up, "close", "data", k))
               /\ Head(up).kind = "nack" /\ Head(up).id = k => InTransit(up, "nack", k)
    BY <1>0, TakenUpFacts
  <1>01. up # <<>> /\ Head(up).kind # "bye" => Head(up).id \in Ids
    BY HeadTypes DEF Typed, TypeOK
  <1>02. sreader \in [Ids -> ReaderPcs] /\ creader \in [Ids -> ReaderPcs]
    BY DEF Typed, TypeOK
  <1>03. /\ Led(<<>>, k) /\ \A a : ~ InTransit(<<>>, a, k)
         /\ \A a, b : ~ Before(<<>>, a, b, k)
    BY FlowEmpty
  <1> USE DEF Protocol, DownFrames, UpFrames, Missing, Left, Finished
  <1>1. CASE HandleClientData
    <2>1. /\ up # <<>> /\ up' = Tail(up) /\ (sloop' = sloop \/ sloop' = "aborted")
          /\ UNCHANGED <<wire, down, caller, listening, accepting, sreader, sconns, cloop, ctask,
                         creader, cconns, missed, overtaken>>
      BY <1>1 DEF HandleClientData, Arrives, relayRest, callerVars, acceptVars, clientVars
    <2> QED BY <1>0, <2>1
  <1>2. CASE FinishWrite
    <2>1. /\ (sloop' = sloop \/ sloop' = "aborted")
          /\ UNCHANGED <<wire, down, up, caller, listening, accepting, sreader, sconns, cloop,
                         ctask, creader, cconns, missed, overtaken>>
      BY <1>2 DEF FinishWrite, acceptVars, readerVars, clientVars
    <2> QED BY <2>1
  <1>3. CASE (HandleClientClose \/ HandleClientAck) /\ Drop(Head(up).id) /\ Head(up).kind # "ack"
    <2>1. /\ up # <<>> /\ up' = Tail(up) /\ Head(up).kind \in {"close", "nack"}
          /\ UNCHANGED <<wire, down, caller, listening, accepting, sloop, cloop, ctask,
                         creader, cconns, missed, overtaken>>
      BY <1>3 DEF HandleClientClose, HandleClientAck, Arrives, relayRest, callerVars, acceptVars,
           clientVars, loopVars
    <2>2. CASE Head(up).id = k
      <3>1. /\ sconns' = sconns \ {k}
            /\ sreader'[k] = IF k \in sconns /\ sreader[k] = "run" THEN "aborted" ELSE sreader[k]
        BY <1>02, <1>3, <2>2 DEF Drop
      <3>2. Finished(k)'
        BY <1>0, <2>1, <2>2
      <3>3. creader[k] = "done" \/ ctask[k] = "refused"
        BY <1>0, <2>1, <2>2
      <3> QED BY <1>0, <2>1, <3>1, <3>2, <3>3
    <2>3. CASE Head(up).id # k
      <3>1. (k \in sconns' <=> k \in sconns) /\ sreader'[k] = sreader[k]
        BY <1>01, <1>02, <1>3, <2>1, <2>3 DEF Drop
      <3> QED BY <1>0, <2>1, <3>1
    <2> QED BY <2>2, <2>3
  <1>4. CASE HandleClientAck /\ UNCHANGED <<sconns, sreader>>
    <2>1. /\ up # <<>> /\ up' = Tail(up)
          /\ UNCHANGED <<wire, down, caller, listening, accepting, sreader, sconns, sloop, cloop,
                         ctask, creader, cconns, missed, overtaken>>
      BY <1>4 DEF HandleClientAck, Arrives, relayRest, callerVars, acceptVars, clientVars, loopVars
    <2> QED BY <1>0, <2>1
  <1>5. CASE Disconnected
    <2>1. /\ up # <<>> /\ up' = Tail(up) /\ sloop' = "cancelled"
          /\ UNCHANGED <<wire, down, caller, listening, accepting, sreader, sconns, cloop, ctask,
                         creader, cconns, missed, overtaken>>
      BY <1>5 DEF Disconnected, Arrives, relayRest, callerVars, acceptVars, clientVars
    <2> QED BY <1>0, <2>1
  <1>6. CASE Clear \/ LinkError
    <2>1. /\ sloop' \in {"ended", "aborted"} /\ (k \in sconns' => k \in sconns)
          /\ UNCHANGED <<wire, down, up, caller, listening, accepting, sreader, cloop, ctask,
                         creader, cconns, missed, overtaken>>
      BY <1>6 DEF Clear, LinkError, relayRest, callerVars, acceptVars, clientVars
    <2> QED BY <2>1
  <1>7. CASE StopListening
    <2>1. /\ ~ listening'
          /\ sreader'[k] = IF k \in sconns /\ sreader[k] = "run" THEN "aborted" ELSE sreader[k]
          /\ UNCHANGED <<wire, down, up, caller, accepting, sconns, sloop, cloop, ctask,
                         creader, cconns, missed, overtaken>>
      BY <1>7 DEF StopListening, callerVars, loopVars, clientVars
    <2> QED BY <2>1
  <1>8. CASE WireBreaks
    <2>1. /\ wire' = "down" /\ down' = <<>> /\ up' = <<>>
          /\ UNCHANGED <<caller, listening, accepting, sreader, sconns, sloop, cloop, ctask,
                         creader, cconns, missed, overtaken>>
      BY <1>8 DEF WireBreaks, callerVars, acceptVars, readerVars, loopVars, clientVars
    <2> QED BY <1>03, <2>1
  <1> QED BY <1>1, <1>2, <1>3, <1>4, <1>5, <1>6, <1>7, <1>8
       DEF SessionStep, HandleClientAck, HandleClientClose, Arrives

-----------------------------------------------------------------------------
(***************************************************************************)
(* The client's steps keep the protocol                                    *)
(***************************************************************************)
LEMMA SentOther ==
    ASSUME NEW q, NEW r, NEW f, NEW k, Sent(q, r, f, k),
           f = Bye \/ \E j : f \in {Frame("ack", j), Frame("nack", j)}
    PROVE  /\ InTransit(r, "data", k) <=> InTransit(q, "data", k)
           /\ InTransit(r, "close", k) <=> InTransit(q, "close", k)
           /\ InTransit(r, "nack", k) <=> InTransit(q, "nack", k) \/ f = Frame("nack", k)
           /\ Before(r, "close", "data", k) => Before(q, "close", "data", k)
  <1>1. /\ ~ Is(f, "data", k) /\ ~ Is(f, "close", k)
        /\ Is(f, "nack", k) <=> f = Frame("nack", k)
    BY DEF Is, Frame, Bye
  <1> QED BY <1>1 DEF Sent, Kinds

LEMMA ProtocolLoop ==
    ASSUME Typed, LoopStep, NEW k \in Ids, Protocol(k)
    PROVE  Protocol(k)'
  <1>0. ASSUME down # <<>>, down' = Tail(down)
        PROVE  /\ InTransit(down', "connect", k) => InTransit(down, "connect", k)
               /\ InTransit(down', "data", k) => InTransit(down, "data", k)
               /\ InTransit(down', "close", k) => InTransit(down, "close", k)
               /\ Before(down', "connect", "connect", k) => Before(down, "connect", "connect", k)
               /\ Before(down', "close", "data", k) => Before(down, "close", "data", k)
               /\ Head(down).kind # "connect" \/ Head(down).id # k =>
                     /\ InTransit(down, "connect", k) => InTransit(down', "connect", k)
                     /\ Led(down, k) => Led(down', k)
               /\ Head(down).kind # "close" \/ Head(down).id # k
                    => (InTransit(down, "close", k) => InTransit(down', "close", k))
               /\ Head(down).kind = "connect" /\ Head(down).id = k
                    => InTransit(down, "connect", k)
                       /\ (InTransit(down', "connect", k) => Before(down, "connect", "connect", k))
               /\ Head(down).kind = "data" /\ Head(down).id = k
                    => InTransit(down, "data", k) /\ ~ Led(down, k)
               /\ Head(down).kind = "close" /\ Head(down).id = k
                    => /\ InTransit(down, "close", k) /\ ~ Led(down, k)
                       /\ InTransit(down', "data", k) => Before(down, "close", "data", k)
    BY <1>0, TakenDownFacts
  <1>01. down # <<>> /\ Head(down).kind # "bye" => Head(down).id \in Ids
    BY HeadTypes DEF Typed, TypeOK
  <1>02. /\ creader \in [Ids -> ReaderPcs] /\ ctask \in [Ids -> TaskPcs]
    BY DEF Typed, TypeOK
  <1>03. ctask[k] \in {"none", "connecting", "inserting", "acking", "refusing", "done", "refused"}
    BY <1>02 DEF TaskPcs
  <1>04. ASSUME SendUp(Bye)
         PROVE  /\ InTransit(up', "data", k) <=> InTransit(up, "data", k)
                /\ InTransit(up', "close", k) <=> InTransit(up, "close", k)
                /\ InTransit(up', "nack", k) => InTransit(up, "nack", k)
                /\ Before(up', "close", "data", k) => Before(up, "close", "data", k)
    <2>1. Sent(up, up', Bye, k)
      BY <1>04, SentUp, FrameTypes
    <2>2. Bye # Frame("nack", k)
      BY DEF Bye, Frame
    <2> QED BY <2>1, <2>2, SentOther
  <1> USE DEF Protocol, DownFrames, UpFrames, Missing, Left, Finished
  <1>1. CASE SpawnConnect
    <2>1. /\ down # <<>> /\ down' = Tail(down) /\ Head(down).kind = "connect"
          /\ UNCHANGED <<wire, up, caller, listening, accepting, sreader, sconns, sloop, cloop,
                         creader, cconns, missed, overtaken>>
      BY <1>1 DEF SpawnConnect, Delivered, relayVars, callerVars, acceptVars, readerVars, loopVars
    <2>2. CASE Head(down).id = k
      <3>1. ctask'[k] = "connecting" /\ ctask[k] = "none"
        BY <1>0, <1>02, <1>1, <2>1, <2>2 DEF SpawnConnect
      <3>2. ~ InTransit(down', "connect", k)
        BY <1>0, <2>1, <2>2
      <3> QED BY <1>0, <2>1, <2>2, <3>1, <3>2
    <2>3. CASE Head(down).id # k
      <3>1. ctask'[k] = ctask[k]
        BY <1>01, <1>02, <1>1, <2>1, <2>3 DEF SpawnConnect
      <3> QED BY <1>0, <2>1, <2>3, <3>1
    <2> QED BY <2>2, <2>3
  <1>2. CASE HandleData
    <2>1. /\ down # <<>> /\ down' = Tail(down) /\ Head(down).kind = "data"
          /\ (cloop' = cloop \/ cloop' = "failed")
          /\ UNCHANGED <<wire, up, caller, listening, accepting, sreader, sconns, sloop, ctask,
                         creader, cconns, missed, overtaken>>
      BY <1>2 DEF HandleData, Delivered, relayVars, callerVars, acceptVars, readerVars, loopVars
    <2> QED BY <1>0, <2>1
  <1>3. CASE HandleClose
    <2>1. /\ down # <<>> /\ down' = Tail(down) /\ Head(down).kind = "close"
          /\ UNCHANGED <<wire, up, caller, listening, accepting, sreader, sconns, sloop, cloop,
                         ctask, overtaken>>
      BY <1>3 DEF HandleClose, Delivered, relayVars, callerVars, acceptVars, readerVars, loopVars
    <2>2. CASE Head(down).id = k
      <3>1. /\ k \notin cconns'
            /\ creader'[k] = IF k \in cconns /\ creader[k] = "run" THEN "aborted" ELSE creader[k]
            /\ missed \subseteq missed'
            /\ ctask[k] \in {"connecting", "inserting"} => k \in missed'
        BY <1>02, <1>3, <2>2 DEF HandleClose
      <3>2. /\ ctask[k] # "none" /\ ~ InTransit(down', "data", k)
            /\ sreader[k] \notin {"none", "run"}
        BY <1>0, <2>1, <2>2
      <3> QED BY <1>0, <1>03, <2>1, <2>2, <3>1, <3>2
    <2>3. CASE Head(down).id # k
      <3>1. /\ (k \in cconns' <=> k \in cconns) /\ creader'[k] = creader[k]
            /\ (k \in missed' <=> k \in missed)
        BY <1>01, <1>02, <1>3, <2>1, <2>3 DEF HandleClose
      <3> QED BY <1>0, <2>1, <2>3, <3>1
    <2> QED BY <2>2, <2>3
  <1>4. CASE ReadError
    <2>1. /\ cloop' = "failed"
          /\ UNCHANGED <<wire, down, up, caller, listening, accepting, sreader, sconns, sloop,
                         ctask, creader, cconns, missed, overtaken>>
      BY <1>4 DEF ReadError, relayVars, callerVars, acceptVars, readerVars, loopVars
    <2> QED BY <2>1
  <1>5. CASE Shutdown
    <2>1. /\ cloop' = "left" /\ SendUp(Bye)
          /\ UNCHANGED <<wire, down, caller, listening, accepting, sreader, sconns, sloop,
                         ctask, creader, cconns, missed, overtaken>>
      BY <1>5 DEF Shutdown, relayVars, callerVars, acceptVars, readerVars, loopVars
    <2> QED BY <1>04, <2>1
  <1> QED BY <1>1, <1>2, <1>3, <1>4, <1>5 DEF LoopStep

LEMMA ProtocolLocal ==
    ASSUME Typed, NEW j \in Ids, LocalStep(j), NEW k \in Ids, Protocol(k)
    PROVE  Protocol(k)'
  <1>1. /\ creader \in [Ids -> ReaderPcs] /\ ctask \in [Ids -> TaskPcs]
    BY DEF Typed, TypeOK
  <1>2. ASSUME NEW kind \in {"ack", "nack"}, SendUp(Frame(kind, j)) \/ LostUp
        PROVE  /\ InTransit(up', "data", k) => InTransit(up, "data", k)
               /\ InTransit(up', "close", k) => InTransit(up, "close", k)
               /\ InTransit(up', "nack", k)
                    => InTransit(up, "nack", k) \/ (kind = "nack" /\ j = k)
               /\ Before(up', "close", "data", k) => Before(up, "close", "data", k)
    <2>1. CASE LostUp
      BY <2>1 DEF LostUp
    <2>2. CASE SendUp(Frame(kind, j))
      <3>1. Sent(up, up', Frame(kind, j), k)
        BY <2>2, SentUp, FrameTypes DEF FrameKinds
      <3>2. Frame(kind, j) = Frame("nack", k) => kind = "nack" /\ j = k
        BY DEF Frame
      <3> QED BY <3>1, <3>2, SentOther
    <2> QED BY <1>2, <2>1, <2>2
  <1>3. ASSUME SendUp(Data(j, cread[j] + 1))
        PROVE  /\ InTransit(up', "data", k) <=> InTransit(up, "data", k) \/ j = k
               /\ InTransit(up', "close", k) <=> InTransit(up, "close", k)
               /\ InTransit(up', "nack", k) <=> InTransit(up, "nack", k)
               /\ Before(up', "close", "data", k)
                    => Before(up, "close", "data", k) \/ (InTransit(up, "close", k) /\ j = k)
    <2>1. Sent(up, up', Data(j, cread[j] + 1), k)
      BY <1>3, SentUp, FrameTypes, Lengths
    <2> QED BY <2>1, SentData
  <1>4. ASSUME SendUp(Frame("close", j)) \/ LostUp \/ UNCHANGED up
        PROVE  /\ InTransit(up', "data", k) <=> InTransit(up, "data", k)
               /\ InTransit(up', "close", k) => InTransit(up, "close", k) \/ j = k
               /\ InTransit(up', "nack", k) <=> InTransit(up, "nack", k)
               /\ Before(up', "close", "data", k) => Before(up, "close", "data", k)
    <2>1. CASE LostUp \/ UNCHANGED up
      BY <2>1 DEF LostUp
    <2>2. CASE SendUp(Frame("close", j))
      <3>1. Sent(up, up', Frame("close", j), k)
        BY <2>2, SentUp, FrameTypes DEF FrameKinds
      <3> QED BY <3>1, SentClose
    <2> QED BY <1>4, <2>1, <2>2
  <1> USE DEF Protocol, DownFrames, UpFrames, Missing, Left, Finished
  <1>5. CASE LocalConnects(j)
    <2>1. /\ ctask[j] = "connecting"
          /\ UNCHANGED <<wire, down, up, caller, listening, accepting, sreader, sconns, sloop, cloop,
                         cconns, missed, overtaken>>
      BY <1>5 DEF LocalConnects, relayVars, callerVars, acceptVars, readerVars, loopVars
    <2>2. CASE k = j
      <3>1. \/ ctask'[k] = "inserting" /\ creader'[k] = "run"
            \/ ctask'[k] = "refusing" /\ creader'[k] = creader[k]
        BY <1>1, <1>5, <2>2 DEF LocalConnects
      <3> QED BY <2>1, <2>2, <3>1
    <2>3. CASE k # j
      <3>1. ctask'[k] = ctask[k] /\ creader'[k] = creader[k]
        BY <1>1, <1>5, <2>3 DEF LocalConnects
      <3> QED BY <2>1, <3>1
    <2> QED BY <2>2, <2>3
  <1>6. CASE LocalInsert(j)
    <2>1. /\ ctask[j] = "inserting"
          /\ UNCHANGED <<wire, down, up, caller, listening, accepting, sreader, sconns, sloop, cloop,
                         creader, missed, overtaken>>
      BY <1>6 DEF LocalInsert, relayVars, callerVars, acceptVars, readerVars, loopVars
    <2>2. CASE k = j
      <3>1. ctask'[k] = "acking" /\ k \in cconns'
        BY <1>1, <1>6, <2>2 DEF LocalInsert
      <3> QED BY <2>1, <2>2, <3>1
    <2>3. CASE k # j
      <3>1. ctask'[k] = ctask[k] /\ (k \in cconns' <=> k \in cconns)
        BY <1>1, <1>6, <2>3 DEF LocalInsert
      <3> QED BY <2>1, <3>1
    <2> QED BY <2>2, <2>3
  <1>7. CASE ReportConnect(j)
    <2>1. UNCHANGED <<wire, down, caller, listening, accepting, sreader, sconns, sloop, cloop,
                      creader, cconns, missed, overtaken>>
      BY <1>7 DEF ReportConnect, relayVars, callerVars, acceptVars, readerVars, loopVars
    <2>2. PICK kind \in {"ack", "nack"} :
              /\ SendUp(Frame(kind, j)) \/ LostUp
              /\ ctask[j] = IF kind = "ack" THEN "acking" ELSE "refusing"
              /\ ctask' = [ctask EXCEPT ![j] = IF kind = "ack" THEN "done" ELSE "refused"]
      BY <1>7 DEF ReportConnect
    <2>3. CASE k = j
      <3>1. ctask'[k] = IF kind = "ack" THEN "done" ELSE "refused"
        BY <1>1, <2>2, <2>3
      <3> QED BY <1>2, <2>1, <2>2, <2>3, <3>1
    <2>4. CASE k # j
      <3>1. ctask'[k] = ctask[k]
        BY <1>1, <2>2, <2>4
      <3> QED BY <1>2, <2>1, <2>2, <2>4, <3>1
    <2> QED BY <2>3, <2>4
  <1>8. CASE LocalReads(j)
    <2>1. /\ creader[j] = "run"
          /\ UNCHANGED <<wire, down, caller, listening, accepting, sreader, sconns, sloop, cloop,
                         ctask, cconns, missed, overtaken>>
      BY <1>8 DEF LocalReads, relayVars, callerVars, acceptVars, readerVars, loopVars
    <2>2. CASE SendUp(Data(j, cread[j] + 1)) /\ UNCHANGED creader
      BY <1>3, <2>1, <2>2
    <2>3. CASE LostUp /\ creader' = [creader EXCEPT ![j] = "done"]
      BY <1>1, <2>1, <2>3 DEF LostUp
    <2> QED BY <1>8, <2>2, <2>3 DEF LocalReads
  <1>9. CASE LocalEnds(j)
    <2>1. /\ creader[j] = "run" /\ creader' = [creader EXCEPT ![j] = "done"]
          /\ SendUp(Frame("close", j)) \/ LostUp \/ UNCHANGED up
          /\ UNCHANGED <<wire, down, caller, listening, accepting, sreader, sconns, sloop, cloop,
                         ctask, cconns, missed, overtaken>>
      BY <1>9 DEF LocalEnds, relayVars, callerVars, acceptVars, readerVars, loopVars
    <2> QED BY <1>1, <1>4, <2>1
  <1> QED BY <1>5, <1>6, <1>7, <1>8, <1>9 DEF LocalStep

-----------------------------------------------------------------------------
(***************************************************************************)
(* What follows from the protocol                                          *)
(***************************************************************************)
ForwardInv == Typed /\ Flows /\ \A k \in Ids : Protocol(k)

LEMMA ProtocolInit ==
    ASSUME Init, NEW k \in Ids
    PROVE  Protocol(k)
  <1>1. /\ sreader[k] = "none" /\ ctask[k] = "none" /\ creader[k] = "none"
        /\ k \notin sconns /\ k \notin cconns /\ down = <<>> /\ up = <<>>
    BY DEF Init
  <1>2. /\ Led(<<>>, k) /\ \A a : ~ InTransit(<<>>, a, k)
        /\ \A a, b : ~ Before(<<>>, a, b, k)
    BY FlowEmpty
  <1> QED BY <1>1, <1>2 DEF Protocol, DownFrames, UpFrames, Missing, Left

LEMMA ProtocolNext ==
    ASSUME ForwardInv, [Next]_vars, NEW k \in Ids
    PROVE  Protocol(k)'
  <1>1. Typed /\ Protocol(k)
    BY DEF ForwardInv
  <1>2. CASE UNCHANGED vars \/ BlockStep
    <2>1. UNCHANGED protocolVars
      BY <1>2 DEF vars, BlockStep, Blocks, protocolVars, callerVars, acceptVars, readerVars, loopVars, clientVars
    <2> QED BY <1>1, <2>1, ProtocolFrame
  <1> QED BY <1>1, <1>2, StepCases, ProtocolRelay, ProtocolSession, ProtocolLoop, ProtocolLocal

LEMMA ForwardInvAlways == Spec => []ForwardInv
  <1>1. Init => ForwardInv
    BY FlowsInit, ProtocolInit DEF ForwardInv
  <1>2. ForwardInv /\ [Next]_vars => ForwardInv'
    BY TypedNext, BrokenNext, DownFlowNext, UpFlowNext, ProtocolNext DEF ForwardInv, Flows
  <1> QED BY <1>1, <1>2, PTL DEF Spec

\* While the session lives, a local connection outlives the relay's only if the
\* service ended it or the close came before the client's insert, and the relay
\* keeps the entry of a finished reader only if the reader was faster than the
\* insert: the two unordered inserts are the only leaks there are.
THEOREM LeaksHaveCause == Spec => []LeaksExplained
  <1>1. ForwardInv => LeaksExplained
    BY DEF ForwardInv, Protocol, DownFrames, Left, LeaksExplained
  <1> QED BY <1>1, ForwardInvAlways, PTL

\* The steps that can end the two loops with an error.
LEMMA FailingSteps ==
    ASSUME [Next]_vars
    PROVE  /\ cloop' = "failed" /\ cloop # "failed" => HandleData \/ ReadError
           /\ sloop' = "aborted" /\ sloop # "aborted"
                 => HandleClientData \/ FinishWrite \/ LinkError
  <1> USE DEF callerVars, acceptVars, readerVars, loopVars, clientVars, relayVars, relayRest
  <1>1. CASE \E k \in Ids : RelayStep(k) \/ LocalStep(k) \/ CallerCloses(k) \/ CallerStalls(k)
    <2>1. UNCHANGED <<cloop, sloop>>
      BY <1>1 DEF RelayStep, LocalStep, CallerCloses, CallerStalls, Accept, Announce, Insert,
           ReaderReads, ReaderEnds, ReaderRemoves, LocalConnects, LocalInsert, ReportConnect,
           LocalReads, LocalEnds
    <2> QED BY <2>1
  <1>2. CASE SessionStep
    BY <1>2 DEF SessionStep, HandleClientData, FinishWrite, HandleClientClose, HandleClientAck,
         Disconnected, Clear, LinkError
  <1>3. CASE LoopStep
    BY <1>3 DEF LoopStep, SpawnConnect, HandleData, HandleClose, ReadError, Shutdown
  <1>4. CASE StopListening \/ WireBreaks \/ BlockStep \/ UNCHANGED vars
    BY <1>4 DEF StopListening, WireBreaks, BlockStep, Blocks, vars
  <1> QED BY <1>1, <1>2, <1>3, <1>4, StepCases

\* On a live websocket, handle_data fails the client's main loop only for a
\* connection whose local connect is under way or was refused, or which the
\* service has closed.
THEOREM ClientFailureCaused == Spec => ClientFailsWithCause
  <1> DEFINE k == Head(down).id
             Cause == ctask[k] \in {"connecting", "inserting", "refusing", "refused"}
                        \/ creader[k] = "done"
  <1>1. ASSUME ForwardInv, [Next]_vars, cloop' = "failed", cloop # "failed", wire = "up"
        PROVE  Cause
    <2>1. HandleData
      BY <1>1, FailingSteps DEF ReadError
    <2>2. /\ down # <<>> /\ down' = Tail(down) /\ Head(down).kind = "data"
          /\ k \notin cconns \/ creader[k] = "done"
      BY <1>1, <2>1 DEF HandleData, Delivered
    <2>3. k \in Ids /\ Typed /\ Protocol(k)
      BY <1>1, <2>2, HeadTypes DEF ForwardInv, Typed, TypeOK
    <2>4. InTransit(down, "data", k) /\ ~ Led(down, k)
      BY <2>2, <2>3, TakenDownFacts
    <2>5. k \notin cconns => ctask[k] \notin {"none", "acking", "done"}
      BY <2>3, <2>4 DEF Protocol, DownFrames
    <2>6. ctask[k] \in TaskPcs
      BY <2>3 DEF Typed, TypeOK
    <2> QED BY <2>2, <2>5, <2>6 DEF TaskPcs
  <1>2. ForwardInv /\ [Next]_vars
            => [cloop' = "failed" /\ cloop # "failed" /\ wire = "up" => Cause]_vars
    BY <1>1
  <1>3. Spec => [][cloop' = "failed" /\ cloop # "failed" /\ wire = "up" => Cause]_vars
    BY <1>2, ForwardInvAlways, PTL DEF Spec
  <1> QED BY <1>3 DEF ClientFailsWithCause

\* On a live websocket, handle_client_data aborts a session only over data for a
\* connection that is just being inserted, or whose caller has closed.
THEOREM RelayAbortCaused == Spec => RelayAbortsWithCause
  <1> DEFINE k == IF swriting # NoId THEN swriting ELSE Head(up).id
             Cause == accepting = k \/ caller[k] = "closed"
  <1>1. ASSUME ForwardInv, [Next]_vars, sloop' = "aborted", sloop # "aborted", wire = "up"
        PROVE  Cause
    <2>1. CASE FinishWrite
      BY <1>1, <2>1 DEF FinishWrite
    <2>2. CASE HandleClientData
      <3>1. /\ up # <<>> /\ up' = Tail(up) /\ Head(up).kind = "data" /\ k = Head(up).id
            /\ sloop = "reading" /\ k \notin sconns
        BY <1>1, <2>2 DEF HandleClientData, Arrives, CanRead
      <3>2. k \in Ids /\ Typed /\ Protocol(k)
        BY <1>1, <3>1, HeadTypes DEF ForwardInv, Typed, TypeOK
      <3> HIDE DEF k
      <3>3. InTransit(up, "data", k)
        BY <3>1, <3>2, TakenUp DEF Taken, Kinds, Is
      <3> QED BY <1>1, <3>1, <3>2, <3>3
           DEF Protocol, DownFrames, UpFrames, Missing, Finished
    <2> QED BY <1>1, <2>1, <2>2, FailingSteps DEF LinkError
  <1>2. ForwardInv /\ [Next]_vars
            => [sloop' = "aborted" /\ sloop # "aborted" /\ wire = "up" => Cause]_vars
    BY <1>1
  <1>3. Spec => [][sloop' = "aborted" /\ sloop # "aborted" /\ wire = "up" => Cause]_vars
    BY <1>2, ForwardInvAlways, PTL DEF Spec
  <1> QED BY <1>3 DEF RelayAbortsWithCause

=============================================================================
