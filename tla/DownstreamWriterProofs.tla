----------------------- MODULE DownstreamWriterProofs -----------------------
(***************************************************************************)
(* What the downstream process guarantees between the socket and the Kafka *)
(* producer, for every number of datagrams, sockets and workers and every  *)
(* size of its channels and batches.                                       *)
(***************************************************************************)
EXTENDS DownstreamWriter, SequenceTheorems, TLAPS

-----------------------------------------------------------------------------
(* Sequences as the sets of what they hold.                                *)

LEMMA SetOfEmpty == ToSet(<<>>) = {} /\ IsInjective(<<>>)
  BY DEF ToSet, IsInjective

LEMMA SetOfAppend ==
    ASSUME NEW S, NEW s \in Seq(S), NEW e \in S
    PROVE  /\ ToSet(Append(s, e)) = ToSet(s) \cup {e}
           /\ IsInjective(s) /\ e \notin ToSet(s) => IsInjective(Append(s, e))
  <1> DEFINE t == Append(s, e)
  <1>1. /\ Len(s) \in Nat /\ DOMAIN s = 1 .. Len(s)
        /\ DOMAIN t = 1 .. Len(s) + 1
        /\ \A i \in 1 .. Len(s) : t[i] = s[i]
        /\ t[Len(s) + 1] = e
    BY AppendProperties, LenProperties
  <1>2. DOMAIN t = DOMAIN s \cup {Len(s) + 1} /\ Len(s) + 1 \notin DOMAIN s
    BY <1>1
  <1> HIDE DEF t
  <1>3. ToSet(t) = ToSet(s) \cup {e}
    BY <1>1, <1>2 DEF ToSet
  <1>4. ASSUME IsInjective(s), e \notin ToSet(s)
        PROVE  IsInjective(t)
    BY <1>1, <1>2, <1>4 DEF ToSet, IsInjective
  <1>. QED
    BY <1>3, <1>4 DEF t

LEMMA SetOfTail ==
    ASSUME NEW S, NEW s \in Seq(S), s # <<>>
    PROVE  /\ Head(s) \in S
           /\ ToSet(s) = {Head(s)} \cup ToSet(Tail(s))
           /\ IsInjective(s) => Head(s) \notin ToSet(Tail(s)) /\ IsInjective(Tail(s))
  <1> DEFINE t == Tail(s)
  <1>1. /\ Len(s) \in Nat \ {0} /\ DOMAIN s = 1 .. Len(s)
        /\ t \in Seq(S) /\ Len(t) = Len(s) - 1
        /\ \A i \in 1 .. Len(t) : t[i] = s[i + 1]
        /\ Head(s) = s[1] /\ Head(s) \in S
    BY HeadTailProperties, LenProperties, EmptySeq
  <1>2. DOMAIN t = 1 .. Len(s) - 1
    BY <1>1, LenProperties
  <1> HIDE DEF t
  <1>3. /\ \A i \in DOMAIN t : i + 1 \in DOMAIN s /\ i + 1 # 1 /\ t[i] = s[i + 1]
        /\ \A i \in DOMAIN s : i = 1 \/ \E k \in DOMAIN t : t[k] = s[i]
        /\ \A i, j \in DOMAIN t : i + 1 = j + 1 => i = j
        /\ 1 \in DOMAIN s
    <2>1. \A i \in DOMAIN s : i = 1 \/ (i - 1 \in DOMAIN t /\ t[i - 1] = s[i])
      BY <1>1, <1>2
    <2>. QED
      BY <1>1, <1>2, <2>1
  <1>4. ToSet(s) = {Head(s)} \cup ToSet(t)
    <2>1. \A x \in ToSet(s) : x \in {Head(s)} \cup ToSet(t)
      BY <1>1, <1>3 DEF ToSet
    <2>2. \A x \in ToSet(t) : x \in ToSet(s)
      BY <1>3 DEF ToSet
    <2>3. Head(s) \in ToSet(s)
      BY <1>1, <1>3 DEF ToSet
    <2>. QED
      BY <2>1, <2>2, <2>3
  <1>5. ASSUME IsInjective(s)
        PROVE  Head(s) \notin ToSet(t) /\ IsInjective(t)
    <2>1. \A i, j \in DOMAIN s : s[i] = s[j] => i = j
      BY <1>5 DEF IsInjective
    <2>2. Head(s) \notin ToSet(t)
      BY <1>1, <1>3, <2>1 DEF ToSet
    <2>3. \A i, j \in DOMAIN t : t[i] = t[j] => i = j
      BY <1>3, <2>1
    <2>. QED
      BY <2>2, <2>3 DEF IsInjective
  <1>. QED
    BY <1>1, <1>4, <1>5 DEF t

\* A sequence cut in two.
LEMMA SetsOfParts ==
    ASSUME NEW S, NEW s \in Seq(S), NEW n \in 0 .. Len(s)
    PROVE  LET a == SubSeq(s, 1, n)
               b == SubSeq(s, n + 1, Len(s))
           IN  /\ a \in Seq(S) /\ Len(a) = n
               /\ b \in Seq(S)
               /\ a \o b = s
               /\ ToSet(s) = ToSet(a) \cup ToSet(b)
               /\ IsInjective(s) =>
                    IsInjective(a) /\ IsInjective(b) /\ ToSet(a) \cap ToSet(b) = {}
  <1> DEFINE a == SubSeq(s, 1, n)
             b == SubSeq(s, n + 1, Len(s))
  <1>0. Len(s) \in Nat /\ n \in Nat /\ n <= Len(s) /\ DOMAIN s = 1 .. Len(s)
    BY LenProperties
  <1>1. /\ a \in Seq(S) /\ Len(a) = n /\ \A i \in 1 .. n : a[i] = s[i]
        /\ b \in Seq(S) /\ Len(b) = Len(s) - n /\ \A i \in 1 .. Len(s) - n : b[i] = s[n + i]
    <2>1. a \in Seq(S) /\ Len(a) = n
      BY <1>0
    <2>2. b \in Seq(S) /\ Len(b) = Len(s) - n
      OBVIOUS
    <2>3. \A i \in 1 .. n : a[i] = s[i]
      BY <1>0
    <2>4. \A i \in 1 .. Len(s) - n : b[i] = s[n + i]
      BY <1>0
    <2>. QED
      BY <2>1, <2>2, <2>3, <2>4
  <1>2. a \o b = s
    <2>1. 1 \in 1 .. Len(s) + 1 /\ n \in 1 - 1 .. Len(s) /\ Len(s) \in n .. Len(s)
      BY <1>0
    <2>2. a \o b = SubSeq(s, 1, Len(s))
      BY <2>1, ConcatAdjacentSubSeq
    <2>. QED
      BY <2>2, SubSeqFull
  <1>3. DOMAIN a = 1 .. n /\ DOMAIN b = 1 .. Len(s) - n
    BY <1>1, LenProperties
  <1> HIDE DEF a, b
  <1>4. /\ \A i \in DOMAIN a : i \in DOMAIN s /\ a[i] = s[i]
        /\ \A i \in DOMAIN b : n + i \in DOMAIN s /\ b[i] = s[n + i]
        /\ \A i \in DOMAIN s : i \in DOMAIN a \/ (i - n \in DOMAIN b /\ b[i - n] = s[i])
        /\ \A i \in DOMAIN a, j \in DOMAIN b : i # n + j
        /\ \A i, j \in DOMAIN b : n + i = n + j => i = j
    BY <1>0, <1>1, <1>3
  <1>5. ToSet(s) = ToSet(a) \cup ToSet(b)
    BY <1>4 DEF ToSet
  <1>6. ASSUME IsInjective(s)
        PROVE  IsInjective(a) /\ IsInjective(b) /\ ToSet(a) \cap ToSet(b) = {}
    BY <1>4, <1>6 DEF IsInjective, ToSet
  <1>. QED
    BY <1>1, <1>2, <1>5, <1>6 DEF a, b

-----------------------------------------------------------------------------
(* Types.                                                                  *)

\* Taking a batch cuts the cache in two.
LEMMA BatchTaken ==
    ASSUME cache \in Seq(Msgs), NEW to, TakeBatch(to)
    PROVE  /\ to \in Seq(Msgs) /\ Len(to) <= BatchSize
           /\ cache' \in Seq(Msgs)
           /\ cache = to \o cache'
           /\ ToSet(cache) = ToSet(to) \cup ToSet(cache')
           /\ IsInjective(cache) =>
                IsInjective(to) /\ IsInjective(cache') /\ ToSet(to) \cap ToSet(cache') = {}
           /\ cache = <<>> => to = <<>> /\ cache' = <<>>
  <1> DEFINE n == IF Len(cache) <= BatchSize THEN Len(cache) ELSE BatchSize
  <1>1. n \in 0 .. Len(cache) /\ n <= BatchSize
    BY SizesAssumption
  <1>2. to = SubSeq(cache, 1, n)
    BY DEF TakeBatch, Taken
  <1> HIDE DEF n
  <1>3. Len(to) = n
    BY <1>1, <1>2, SetsOfParts
  <1>4. cache' = SubSeq(cache, n + 1, Len(cache))
    BY <1>2, <1>3 DEF TakeBatch, Taken, n
  <1>5. cache = <<>> => to = <<>> /\ cache' = <<>>
    BY <1>1, <1>2, <1>4
  <1>. QED
    BY <1>1, <1>2, <1>3, <1>4, <1>5, SetsOfParts

LEMMA TypeInit == Init => TypeOK
  <1>1. /\ <<>> \in Seq(Msgs) /\ <<>> \in Seq(Datagrams)
        /\ Len(<<>>) <= ChannelBufferSize /\ Len(<<>>) <= BatchSize /\ Len(<<>>) <= InputSize
    BY SizesAssumption, EmptySeq
  <1>. QED
    BY <1>1 DEF Init, TypeOK, MainStages

\* A queue of at most n elements from which one is taken, or that has room.
LEMMA QueueTail ==
    ASSUME NEW S, NEW s \in Seq(S), NEW n \in Nat, s # <<>>, Len(s) <= n
    PROVE  Head(s) \in S /\ Tail(s) \in Seq(S) /\ Len(Tail(s)) <= n
  BY HeadTailProperties, LenProperties

LEMMA QueueAppend ==
    ASSUME NEW S, NEW s \in Seq(S), NEW n \in Nat, NEW e \in S, Len(s) < n
    PROVE  Append(s, e) \in Seq(S) /\ Len(Append(s, e)) <= n
  BY AppendProperties, LenProperties

LEMMA TypeNext == TypeOK /\ [Next]_vars => TypeOK'
  <1> SUFFICES ASSUME TypeOK, [Next]_vars PROVE TypeOK'
    OBVIOUS
  <1> USE DEF TypeOK, receiver, kafkaSide
  <1>1. CASE Tick
    BY <1>1, BatchTaken DEF Tick
  <1>2. CASE LastTick
    BY <1>2, BatchTaken DEF LastTick
  <1>3. CASE TickerSends
    <2>1. Head(batch) \in Msgs /\ Tail(batch) \in Seq(Msgs) /\ Len(Tail(batch)) <= BatchSize
      BY <1>3, QueueTail, SizesAssumption DEF TickerSends
    <2>2. /\ Append(input, Head(batch)) \in Seq(Msgs)
          /\ Len(Append(input, Head(batch))) <= InputSize
          /\ Append(produced, Head(batch)) \in Seq(Msgs)
      BY <1>3, <2>1, QueueAppend, AppendProperties, SizesAssumption DEF TickerSends, HandOver
    <2>. QED
      BY <1>3, <2>1, <2>2 DEF TickerSends, HandOver
  <1>4. CASE TickerReturns
    BY <1>4 DEF TickerReturns
  <1>5. CASE ProducerResult
    <2>1. Tail(input) \in Seq(Msgs) /\ Len(Tail(input)) <= InputSize
      BY <1>5, QueueTail, SizesAssumption DEF ProducerResult
    <2>. QED
      BY <1>5, <2>1 DEF ProducerResult
  <1>6. CASE Connect
    BY <1>6 DEF Connect, SetProducer, MainStages
  <1>7. ASSUME NEW e \in StartupErrors, ConnectFails(e) PROVE TypeOK'
    BY <1>7 DEF ConnectFails, MainStages
  <1>8. CASE Retry
    BY <1>8 DEF Retry, MainStages
  <1>9. CASE CancelStartup
    BY <1>9 DEF CancelStartup, MainStages
  <1>10. CASE RunDownstream
    BY <1>10 DEF RunDownstream, sendMessage, WriteToKafka, Msgs, Status
  <1>11. ASSUME NEW s \in Sockets, SocketPuts(s) PROVE TypeOK'
    <2>1. /\ Append(packetChan, socket[s]) \in Seq(Datagrams)
          /\ Len(Append(packetChan, socket[s])) <= ChannelBufferSize
      BY <1>11, QueueAppend, SizesAssumption DEF SocketPuts
    <2>. QED
      BY <1>11, <2>1 DEF SocketPuts
  <1>12. ASSUME NEW s \in Sockets, SocketStops(s) PROVE TypeOK'
    BY <1>12 DEF SocketStops
  <1>13. ASSUME NEW w \in Workers, WorkerTakes(w) PROVE TypeOK'
    <2>1. /\ Head(packetChan) \in Datagrams /\ Tail(packetChan) \in Seq(Datagrams)
          /\ Len(Tail(packetChan)) <= ChannelBufferSize
      BY <1>13, QueueTail, SizesAssumption DEF WorkerTakes
    <2>. QED
      BY <1>13, <2>1 DEF WorkerTakes
  <1>14. ASSUME NEW w \in Workers, handleUdpMessage(w) PROVE TypeOK'
    BY <1>14 DEF handleUdpMessage, WriteToKafka, Msgs
  <1>15. ASSUME NEW w \in Workers, WorkerStops(w) PROVE TypeOK'
    BY <1>15 DEF WorkerStops
  <1>16. CASE ForwardStop
    BY <1>16 DEF ForwardStop
  <1>17. CASE RunReturns
    BY <1>17 DEF RunReturns
  <1>18. CASE Sigterm
    BY <1>18 DEF Sigterm, sendMessage, WriteToKafka, Msgs, Status, ToSet, MainStages
  <1>19. CASE FlushCache
    BY <1>19, BatchTaken DEF FlushCache, MainStages
  <1>20. CASE FlushSends
    <2>1. /\ Head(flushed) \in Msgs /\ Tail(flushed) \in Seq(Msgs)
          /\ Len(Tail(flushed)) <= BatchSize
      BY <1>20, QueueTail, SizesAssumption DEF FlushSends
    <2>2. /\ Append(input, Head(flushed)) \in Seq(Msgs)
          /\ Len(Append(input, Head(flushed))) <= InputSize
          /\ Append(produced, Head(flushed)) \in Seq(Msgs)
      BY <1>20, <2>1, QueueAppend, AppendProperties, SizesAssumption DEF FlushSends, HandOver
    <2>. QED
      BY <1>20, <2>1, <2>2 DEF FlushSends, HandOver
  <1>21. CASE FlushReturns
    BY <1>21 DEF FlushReturns, MainStages
  <1>22. CASE CloseDoneChan
    BY <1>22 DEF CloseDoneChan, MainStages
  <1>23. CASE StopBackgroundThread
    BY <1>23 DEF StopBackgroundThread, MainStages, ToSet
  <1>24. CASE CloseProducer
    BY <1>24 DEF CloseProducer, MainStages
  <1>25. CASE Signal
    BY <1>25 DEF Signal
  <1>26. ASSUME NEW s \in Sockets, NEW d \in Datagrams, SocketReads(s, d) PROVE TypeOK'
    BY <1>26 DEF SocketReads
  <1>27. CASE UNCHANGED vars
    BY <1>27 DEF vars
  <1>. QED
    BY <1>1, <1>2, <1>3, <1>4, <1>5, <1>6, <1>7, <1>8, <1>9, <1>10, <1>11, <1>12, <1>13,
       <1>14, <1>15, <1>16, <1>17, <1>18, <1>19, <1>20, <1>21, <1>22, <1>23, <1>24, <1>25,
       <1>26, <1>27
    DEF Next, Process, Terminated

\* The channels, the batches and the cache keep to their types and capacities.
THEOREM WriterTypeCorrect == Spec => []TypeOK
  BY TypeInit, TypeNext, PTL DEF Spec

-----------------------------------------------------------------------------
(* Stages: what the threads of the process know of one another.            *)

\* Nothing is written before the producer is there; a batch is in the hands of
\* whoever sends it; workers run while Listen does; once Main closes the
\* producer nobody writes any more.
StageInv ==
    /\ main \in {"connect", "pause"} =>
         run = "none" /\ cache = <<>> /\ written = <<>> /\ produced = <<>> /\ ticker = "off"
    /\ ticker \in {"off", "wait"} => batch = <<>>
    /\ main # "flushing" => flushed = <<>>
    /\ run # "listen" => \A w \in Workers : worker[w] = Gone
    /\ run \in {"none", "begin"} => Starting \notin ToSet(written)
    /\ main \in {"connect", "pause", "running"} => Terminating \notin ToSet(written)
    /\ main \in {"stopping", "closing", "exit"} => run = "done"
    /\ main \in {"closing", "exit"} => ticker = "off" /\ cache = <<>>

(* Homes: where a message is.                                              *)

\* A message that was written is in exactly one place, and there once.
HomeInv ==
    /\ ToSet(written) = ToSet(produced) \cup ToSet(batch) \cup ToSet(flushed)
                          \cup ToSet(cache) \cup lost
    /\ IsInjective(produced) /\ IsInjective(batch)
    /\ IsInjective(flushed) /\ IsInjective(cache)
    /\ ToSet(produced) \cap (ToSet(batch) \cup ToSet(flushed) \cup ToSet(cache) \cup lost) = {}
    /\ ToSet(batch) \cap (ToSet(flushed) \cup ToSet(cache) \cup lost) = {}
    /\ ToSet(flushed) \cap (ToSet(cache) \cup lost) = {}
    /\ ToSet(cache) \cap lost = {}

\* A datagram that was not written yet is in at most one place.
ReceiverInv ==
    /\ net \cap ToSet(packetChan) = {} /\ net \cap ToSet(written) = {}
    /\ IsInjective(packetChan) /\ ToSet(packetChan) \cap ToSet(written) = {}
    /\ \A s \in Sockets : socket[s] \notin net \cup ToSet(packetChan) \cup ToSet(written)
    /\ \A w \in Workers : worker[w] \notin net \cup ToSet(packetChan) \cup ToSet(written)
    /\ \A s \in Sockets, w \in Workers : socket[s] \in Datagrams => socket[s] # worker[w]
    /\ \A s, r \in Sockets : socket[s] \in Datagrams /\ socket[s] = socket[r] => s = r
    /\ \A v, w \in Workers : worker[w] \in Datagrams /\ worker[w] = worker[v] => w = v

\* What was written before SIGTERM is not in the cache when FlushCache returns,
\* nor later.
EarlyInv ==
    /\ early \subseteq ToSet(written)
    /\ main \in {"draining", "stopping"} => early \cap ToSet(cache) = {}

Inv == StageInv /\ HomeInv /\ ReceiverInv /\ EarlyInv

LEMMA InvInit == Init => Inv
  <1> SUFFICES ASSUME Init PROVE Inv
    OBVIOUS
  <1> USE SetOfEmpty DEF Init
  <1>1. StageInv
    BY DEF StageInv
  <1>2. HomeInv
    BY DEF HomeInv
  <1>3. ReceiverInv
    BY MarksAssumption DEF ReceiverInv, Msgs
  <1>4. EarlyInv
    BY DEF EarlyInv
  <1>. QED
    BY <1>1, <1>2, <1>3, <1>4 DEF Inv

\* The message a worker, or the process itself, writes was not written before.
LEMMA WriteFresh ==
    ASSUME cache \in Seq(Msgs), written \in Seq(Msgs), HomeInv,
           NEW m \in Msgs, m \notin ToSet(written), WriteToKafka(m),
           UNCHANGED <<batch, flushed, produced, lost>>
    PROVE  HomeInv' /\ ToSet(written') = ToSet(written) \cup {m}
                    /\ ToSet(cache') = ToSet(cache) \cup {m}
  <1>1. /\ ToSet(written') = ToSet(written) \cup {m}
        /\ ToSet(cache') = ToSet(cache) \cup {m}
        /\ IsInjective(cache) /\ m \notin ToSet(cache) => IsInjective(cache')
    BY SetOfAppend DEF WriteToKafka
  <1>. QED
    BY <1>1 DEF HomeInv

\* A batch is taken by the background thread or by FlushCache, which had none.
LEMMA TakeKeepsHomes ==
    ASSUME cache \in Seq(Msgs), HomeInv,
           UNCHANGED <<produced, lost, written>>,
           \/ batch = <<>> /\ TakeBatch(batch') /\ UNCHANGED flushed
           \/ flushed = <<>> /\ TakeBatch(flushed') /\ UNCHANGED batch
    PROVE  HomeInv'
  <1>1. CASE batch = <<>> /\ TakeBatch(batch') /\ UNCHANGED flushed
    <2>1. /\ ToSet(cache) = ToSet(batch') \cup ToSet(cache')
          /\ IsInjective(cache) => IsInjective(batch') /\ IsInjective(cache')
                                     /\ ToSet(batch') \cap ToSet(cache') = {}
      BY <1>1, BatchTaken
    <2>. QED
      BY <1>1, <2>1, SetOfEmpty DEF HomeInv
  <1>2. CASE flushed = <<>> /\ TakeBatch(flushed') /\ UNCHANGED batch
    <2>1. /\ ToSet(cache) = ToSet(flushed') \cup ToSet(cache')
          /\ IsInjective(cache) => IsInjective(flushed') /\ IsInjective(cache')
                                     /\ ToSet(flushed') \cap ToSet(cache') = {}
      BY <1>2, BatchTaken
    <2>. QED
      BY <1>2, <2>1, SetOfEmpty DEF HomeInv
  <1>. QED
    BY <1>1, <1>2

LEMMA StageNext == TypeOK /\ Inv /\ [Next]_vars => StageInv'
  <1> SUFFICES ASSUME TypeOK, StageInv, [Next]_vars PROVE StageInv'
    BY DEF Inv
  <1> USE DEF StageInv, receiver, kafkaSide
  <1>a. ASSUME NEW m \in Msgs, WriteToKafka(m) PROVE ToSet(written') = ToSet(written) \cup {m}
    BY <1>a, SetOfAppend DEF TypeOK, WriteToKafka
  <1>1. CASE Tick
    BY <1>1 DEF Tick
  <1>2. CASE LastTick
    BY <1>2 DEF LastTick
  <1>3. CASE TickerSends
    BY <1>3 DEF TickerSends, HandOver, TypeOK
  <1>4. CASE TickerReturns
    BY <1>4 DEF TickerReturns
  <1>5. CASE ProducerResult
    BY <1>5 DEF ProducerResult
  <1>6. CASE Connect
    BY <1>6 DEF Connect, SetProducer
  <1>7. ASSUME NEW e \in StartupErrors, ConnectFails(e) PROVE StageInv'
    BY <1>7 DEF ConnectFails
  <1>8. CASE Retry
    BY <1>8 DEF Retry
  <1>9. CASE CancelStartup
    BY <1>9 DEF CancelStartup
  <1>10. CASE RunDownstream
    <2>1. ToSet(written') = ToSet(written) \cup {Starting}
      BY <1>10, <1>a DEF RunDownstream, sendMessage, Msgs, Status
    <2>. QED
      BY <1>10, <2>1 DEF RunDownstream, Starting, Terminating
  <1>11. ASSUME NEW s \in Sockets, SocketPuts(s) PROVE StageInv'
    BY <1>11 DEF SocketPuts
  <1>12. ASSUME NEW s \in Sockets, SocketStops(s) PROVE StageInv'
    BY <1>12 DEF SocketStops
  <1>13. ASSUME NEW w \in Workers, WorkerTakes(w) PROVE StageInv'
    BY <1>13 DEF WorkerTakes, TypeOK, None, Gone
  <1>14. ASSUME NEW w \in Workers, handleUdpMessage(w) PROVE StageInv'
    <2>1. ToSet(written') = ToSet(written) \cup {worker[w]}
      BY <1>14, <1>a DEF handleUdpMessage, Msgs
    <2>2. worker[w] \notin {Gone, Starting, Terminating}
      BY <1>14, StatusAssumption, MarksAssumption DEF handleUdpMessage, Msgs, Status
    <2>. QED
      BY <1>14, <2>1, <2>2 DEF handleUdpMessage
  <1>15. ASSUME NEW w \in Workers, WorkerStops(w) PROVE StageInv'
    BY <1>15 DEF WorkerStops, TypeOK
  <1>16. CASE ForwardStop
    BY <1>16 DEF ForwardStop
  <1>17. CASE RunReturns
    BY <1>17 DEF RunReturns
  <1>18. CASE Sigterm
    <2>1. ToSet(written') = ToSet(written) \cup {Terminating}
      BY <1>18, <1>a DEF Sigterm, sendMessage, Msgs, Status
    <2>. QED
      BY <1>18, <2>1 DEF Sigterm, Starting, Terminating
  <1>19. CASE FlushCache
    <2>1. cache = <<>> => flushed' = <<>>
      BY <1>19, BatchTaken DEF FlushCache, TypeOK
    <2>. QED
      BY <1>19, <2>1 DEF FlushCache
  <1>20. CASE FlushSends
    BY <1>20 DEF FlushSends, HandOver
  <1>21. CASE FlushReturns
    BY <1>21 DEF FlushReturns
  <1>22. CASE CloseDoneChan
    BY <1>22 DEF CloseDoneChan
  <1>23. CASE StopBackgroundThread
    BY <1>23 DEF StopBackgroundThread
  <1>24. CASE CloseProducer
    BY <1>24 DEF CloseProducer
  <1>25. CASE Signal
    BY <1>25 DEF Signal
  <1>26. ASSUME NEW s \in Sockets, NEW d \in Datagrams, SocketReads(s, d) PROVE StageInv'
    BY <1>26 DEF SocketReads
  <1>27. CASE UNCHANGED vars
    BY <1>27 DEF vars
  <1>. QED
    BY <1>1, <1>2, <1>3, <1>4, <1>5, <1>6, <1>7, <1>8, <1>9, <1>10, <1>11, <1>12, <1>13,
       <1>14, <1>15, <1>16, <1>17, <1>18, <1>19, <1>20, <1>21, <1>22, <1>23, <1>24, <1>25,
       <1>26, <1>27
    DEF Next, Process, Terminated

LEMMA HomeNext == TypeOK /\ Inv /\ [Next]_vars => HomeInv'
  <1> SUFFICES ASSUME TypeOK, StageInv, HomeInv, ReceiverInv, [Next]_vars PROVE HomeInv'
    BY DEF Inv
  <1> USE DEF receiver, kafkaSide
  <1>a. ASSUME UNCHANGED <<produced, batch, flushed, cache, lost, written>> PROVE HomeInv'
    BY <1>a DEF HomeInv
  <1>1. CASE Tick \/ LastTick
    BY <1>1, TakeKeepsHomes DEF Tick, LastTick, TypeOK, StageInv
  <1>2. CASE TickerSends
    <2>1. /\ ToSet(batch) = {Head(batch)} \cup ToSet(batch')
          /\ IsInjective(batch) => Head(batch) \notin ToSet(batch') /\ IsInjective(batch')
          /\ Head(batch) \in Msgs
      BY <1>2, SetOfTail DEF TickerSends, TypeOK
    <2>2. /\ ToSet(produced') = ToSet(produced) \cup {Head(batch)}
          /\ IsInjective(produced) /\ Head(batch) \notin ToSet(produced) => IsInjective(produced')
      BY <1>2, <2>1, SetOfAppend DEF TickerSends, HandOver, TypeOK
    <2>. QED
      BY <1>2, <2>1, <2>2 DEF TickerSends, HomeInv
  <1>3. CASE TickerReturns \/ ProducerResult \/ Retry \/ CancelStartup \/ ForwardStop
             \/ RunReturns \/ FlushReturns \/ CloseDoneChan \/ CloseProducer \/ Signal
    BY <1>3, <1>a DEF TickerReturns, ProducerResult, Retry, CancelStartup, ForwardStop,
       RunReturns, FlushReturns, CloseDoneChan, CloseProducer, Signal
  <1>4. CASE Connect
    <2>1. cache' = cache
      BY <1>4 DEF Connect, SetProducer, StageInv
    <2>. QED
      BY <1>4, <1>a, <2>1 DEF Connect
  <1>5. ASSUME NEW e \in StartupErrors, ConnectFails(e) PROVE HomeInv'
    BY <1>5, <1>a DEF ConnectFails
  <1>6. CASE RunDownstream
    BY <1>6, WriteFresh DEF RunDownstream, sendMessage, TypeOK, StageInv, Msgs, Status
  <1>7. ASSUME NEW s \in Sockets, SocketPuts(s) \/ SocketStops(s) PROVE HomeInv'
    BY <1>7, <1>a DEF SocketPuts, SocketStops
  <1>8. ASSUME NEW w \in Workers, WorkerTakes(w) \/ WorkerStops(w) PROVE HomeInv'
    BY <1>8, <1>a DEF WorkerTakes, WorkerStops
  <1>9. ASSUME NEW w \in Workers, handleUdpMessage(w) PROVE HomeInv'
    BY <1>9, WriteFresh DEF handleUdpMessage, TypeOK, ReceiverInv, Msgs
  <1>10. CASE Sigterm
    BY <1>10, WriteFresh DEF Sigterm, sendMessage, TypeOK, StageInv, Msgs, Status
  <1>11. CASE FlushCache
    BY <1>11, TakeKeepsHomes DEF FlushCache, TypeOK, StageInv
  <1>12. CASE FlushSends
    <2>1. /\ ToSet(flushed) = {Head(flushed)} \cup ToSet(flushed')
          /\ IsInjective(flushed) => Head(flushed) \notin ToSet(flushed') /\ IsInjective(flushed')
          /\ Head(flushed) \in Msgs
      BY <1>12, SetOfTail DEF FlushSends, TypeOK
    <2>2. /\ ToSet(produced') = ToSet(produced) \cup {Head(flushed)}
          /\ IsInjective(produced) /\ Head(flushed) \notin ToSet(produced)
               => IsInjective(produced')
      BY <1>12, <2>1, SetOfAppend DEF FlushSends, HandOver, TypeOK
    <2>. QED
      BY <1>12, <2>1, <2>2 DEF FlushSends, HomeInv
  <1>13. CASE StopBackgroundThread
    BY <1>13, SetOfEmpty DEF StopBackgroundThread, HomeInv
  <1>14. ASSUME NEW s \in Sockets, NEW d \in Datagrams, SocketReads(s, d) PROVE HomeInv'
    BY <1>14, <1>a DEF SocketReads
  <1>15. CASE UNCHANGED vars
    BY <1>15, <1>a DEF vars
  <1>. QED
    BY <1>1, <1>2, <1>3, <1>4, <1>5, <1>6, <1>7, <1>8, <1>9, <1>10, <1>11, <1>12, <1>13,
       <1>14, <1>15
    DEF Next, Process, Terminated

LEMMA ReceiverNext == TypeOK /\ Inv /\ [Next]_vars => ReceiverInv'
  <1> SUFFICES ASSUME TypeOK, StageInv, HomeInv, ReceiverInv, [Next]_vars PROVE ReceiverInv'
    BY DEF Inv
  <1> USE DEF receiver, kafkaSide
  <1>a. ASSUME UNCHANGED <<net, socket, packetChan, worker, written>> PROVE ReceiverInv'
    BY <1>a DEF ReceiverInv
  <1>b. /\ None \notin Datagrams /\ Gone \notin Datagrams
        /\ Starting \notin Datagrams /\ Terminating \notin Datagrams
        /\ None \notin ToSet(written) /\ Gone \notin ToSet(written)
        /\ None \notin ToSet(packetChan) /\ Gone \notin ToSet(packetChan)
        /\ net \subseteq Datagrams /\ ToSet(packetChan) \subseteq Datagrams
        /\ Starting \notin {None, Gone} /\ Terminating \notin {None, Gone}
    BY MarksAssumption, StatusAssumption DEF TypeOK, Msgs, Status, ToSet
  <1>c. ASSUME NEW m \in Msgs, WriteToKafka(m) PROVE ToSet(written') = ToSet(written) \cup {m}
    BY <1>c, SetOfAppend DEF TypeOK, WriteToKafka
  <1>d. /\ socket \in [Sockets -> Datagrams \cup {None, Gone}]
        /\ worker \in [Workers -> Datagrams \cup {None, Gone}]
    BY DEF TypeOK
  <1>1. CASE Tick \/ LastTick \/ TickerSends \/ TickerReturns \/ ProducerResult \/ Connect
             \/ Retry \/ CancelStartup \/ ForwardStop \/ RunReturns \/ FlushCache \/ FlushSends
             \/ FlushReturns \/ CloseDoneChan \/ StopBackgroundThread \/ CloseProducer \/ Signal
    BY <1>1, <1>a DEF Tick, LastTick, TickerSends, TickerReturns, ProducerResult, Connect,
       Retry, CancelStartup, ForwardStop, RunReturns, FlushCache, FlushSends,
       FlushReturns, CloseDoneChan, StopBackgroundThread, CloseProducer, Signal
  <1>2. ASSUME NEW e \in StartupErrors, ConnectFails(e) PROVE ReceiverInv'
    BY <1>2, <1>a DEF ConnectFails
  <1>3. CASE RunDownstream
    <2>1. ToSet(written') = ToSet(written) \cup {Starting}
      BY <1>3, <1>c DEF RunDownstream, sendMessage, Msgs, Status
    <2>. QED
      BY <1>3, <2>1, <1>b DEF RunDownstream, ReceiverInv
  <1>4. ASSUME NEW s \in Sockets, SocketPuts(s) PROVE ReceiverInv'
    <2>1. /\ ToSet(packetChan') = ToSet(packetChan) \cup {socket[s]}
          /\ IsInjective(packetChan) /\ socket[s] \notin ToSet(packetChan)
               => IsInjective(packetChan')
      BY <1>4, SetOfAppend DEF SocketPuts, TypeOK
    <2>2. /\ socket' = [socket EXCEPT ![s] = socket'[s]] /\ socket'[s] \in {None, Gone}
          /\ socket[s] \in Datagrams
          /\ UNCHANGED <<net, worker, written>>
      BY <1>4, <1>d DEF SocketPuts
    <2>. QED
      BY <2>1, <2>2, <1>b, <1>d DEF ReceiverInv
  <1>5. ASSUME NEW s \in Sockets, SocketStops(s) PROVE ReceiverInv'
    BY <1>5, <1>b, <1>d DEF SocketStops, ReceiverInv
  <1>6. ASSUME NEW w \in Workers, WorkerTakes(w) PROVE ReceiverInv'
    <2>1. /\ ToSet(packetChan) = {Head(packetChan)} \cup ToSet(packetChan')
          /\ IsInjective(packetChan) =>
               Head(packetChan) \notin ToSet(packetChan') /\ IsInjective(packetChan')
      BY <1>6, SetOfTail DEF WorkerTakes, TypeOK
    <2>. QED
      BY <1>6, <2>1, <1>b, <1>d DEF WorkerTakes, ReceiverInv
  <1>7. ASSUME NEW w \in Workers, handleUdpMessage(w) PROVE ReceiverInv'
    <2>1. ToSet(written') = ToSet(written) \cup {worker[w]}
      BY <1>7, <1>c DEF handleUdpMessage, Msgs
    <2>. QED
      BY <1>7, <2>1, <1>b, <1>d DEF handleUdpMessage, ReceiverInv
  <1>8. ASSUME NEW w \in Workers, WorkerStops(w) PROVE ReceiverInv'
    BY <1>8, <1>b, <1>d DEF WorkerStops, ReceiverInv
  <1>9. CASE Sigterm
    <2>1. ToSet(written') = ToSet(written) \cup {Terminating}
      BY <1>9, <1>c DEF Sigterm, sendMessage, Msgs, Status
    <2>. QED
      BY <1>9, <2>1, <1>b, <1>d DEF Sigterm, ReceiverInv
  <1>10. ASSUME NEW s \in Sockets, NEW d \in Datagrams, SocketReads(s, d) PROVE ReceiverInv'
    BY <1>10, <1>b, <1>d DEF SocketReads, ReceiverInv
  <1>11. CASE UNCHANGED vars
    BY <1>11, <1>a DEF vars
  <1>. QED
    BY <1>1, <1>2, <1>3, <1>4, <1>5, <1>6, <1>7, <1>8, <1>9, <1>10, <1>11
    DEF Next, Process, Terminated

LEMMA EarlyNext == TypeOK /\ Inv /\ [Next]_vars => EarlyInv'
  <1> SUFFICES ASSUME TypeOK, StageInv, HomeInv, ReceiverInv, EarlyInv, [Next]_vars
               PROVE  EarlyInv'
    BY DEF Inv
  <1> USE DEF receiver, kafkaSide
  <1>a. ASSUME UNCHANGED <<main, early, cache, written>> PROVE EarlyInv'
    BY <1>a DEF EarlyInv
  <1>b. ASSUME NEW to, TakeBatch(to) PROVE ToSet(cache') \subseteq ToSet(cache)
    BY <1>b, BatchTaken DEF TypeOK
  <1>c. ASSUME NEW m \in Msgs, WriteToKafka(m)
        PROVE  /\ ToSet(written') = ToSet(written) \cup {m}
               /\ ToSet(cache') = ToSet(cache) \cup {m}
    BY <1>c, SetOfAppend DEF TypeOK, WriteToKafka
  <1>1. CASE Tick \/ LastTick
    BY <1>1, <1>b DEF Tick, LastTick, EarlyInv
  <1>2. CASE TickerSends \/ TickerReturns \/ ProducerResult \/ ForwardStop \/ RunReturns
             \/ FlushSends \/ Signal
    BY <1>2, <1>a DEF TickerSends, TickerReturns, ProducerResult, ForwardStop, RunReturns,
       FlushSends, Signal
  <1>3. CASE Connect
    BY <1>3, SetOfEmpty DEF Connect, SetProducer, EarlyInv
  <1>4. ASSUME NEW e \in StartupErrors, ConnectFails(e) PROVE EarlyInv'
    BY <1>4 DEF ConnectFails, EarlyInv
  <1>5. CASE Retry \/ CancelStartup \/ FlushReturns \/ CloseProducer \/ CloseDoneChan
    BY <1>5 DEF Retry, CancelStartup, FlushReturns, CloseProducer, CloseDoneChan, EarlyInv
  <1>6. CASE RunDownstream
    <2>1. Starting \notin ToSet(written)
      BY <1>6 DEF RunDownstream, StageInv
    <2>2. /\ ToSet(written') = ToSet(written) \cup {Starting}
          /\ ToSet(cache') = ToSet(cache) \cup {Starting}
      BY <1>6, <1>c DEF RunDownstream, sendMessage, Msgs, Status
    <2>. QED
      BY <1>6, <2>1, <2>2 DEF RunDownstream, EarlyInv
  <1>7. ASSUME NEW s \in Sockets, SocketPuts(s) \/ SocketStops(s) PROVE EarlyInv'
    BY <1>7, <1>a DEF SocketPuts, SocketStops
  <1>8. ASSUME NEW w \in Workers, WorkerTakes(w) \/ WorkerStops(w) PROVE EarlyInv'
    BY <1>8, <1>a DEF WorkerTakes, WorkerStops
  <1>9. ASSUME NEW w \in Workers, handleUdpMessage(w) PROVE EarlyInv'
    <2>1. worker[w] \notin ToSet(written)
      BY <1>9 DEF ReceiverInv
    <2>2. /\ ToSet(written') = ToSet(written) \cup {worker[w]}
          /\ ToSet(cache') = ToSet(cache) \cup {worker[w]}
      BY <1>9, <1>c DEF handleUdpMessage, Msgs
    <2>. QED
      BY <1>9, <2>1, <2>2 DEF handleUdpMessage, EarlyInv
  <1>10. CASE Sigterm
    BY <1>10 DEF Sigterm, EarlyInv
  <1>11. CASE FlushCache
    <2>1. cache = <<>> => cache' = <<>>
      BY <1>11, BatchTaken DEF FlushCache, TypeOK
    <2>. QED
      BY <1>11, <2>1, SetOfEmpty DEF FlushCache, EarlyInv
  <1>12. CASE StopBackgroundThread
    BY <1>12 DEF StopBackgroundThread, EarlyInv
  <1>13. ASSUME NEW s \in Sockets, NEW d \in Datagrams, SocketReads(s, d) PROVE EarlyInv'
    BY <1>13, <1>a DEF SocketReads
  <1>14. CASE UNCHANGED vars
    BY <1>14, <1>a DEF vars
  <1>. QED
    BY <1>1, <1>2, <1>3, <1>4, <1>5, <1>6, <1>7, <1>8, <1>9, <1>10, <1>11, <1>12, <1>13, <1>14
    DEF Next, Process, Terminated

\* Every message that was written is in exactly one of the cache, the batch of
\* the background thread, the batch of FlushCache, the producer and what
\* StopBackgroundThread discards; what was written before SIGTERM is never
\* discarded.
THEOREM WriterInvariant == Spec => [](TypeOK /\ Inv)
  <1>1. Init => TypeOK /\ Inv
    BY TypeInit, InvInit
  <1>2. TypeOK /\ Inv /\ [Next]_vars => TypeOK' /\ Inv'
    BY TypeNext, StageNext, HomeNext, ReceiverNext, EarlyNext DEF Inv
  <1>. QED
    BY <1>1, <1>2, PTL DEF Spec

-----------------------------------------------------------------------------
(* The order in which messages reach the producer.                         *)

\* OrderKept, from the start of the process.
OrderInv ==
    main \in {"connect", "pause", "running"} => written = produced \o batch \o cache

LEMMA OrderInit == Init => OrderInv
  BY ConcatEmptySeq, EmptySeq DEF Init, OrderInv

\* One from the head of the second sequence to the end of the first.
LEMMA HeadOfSecond ==
    ASSUME NEW S, NEW a \in Seq(S), NEW b \in Seq(S), b # <<>>
    PROVE  Append(a, Head(b)) \o Tail(b) = a \o b
  <1>1. Head(b) \in S /\ Tail(b) \in Seq(S) /\ b = <<Head(b)>> \o Tail(b)
    BY HeadTailProperties, ConcatProperties
  <1>2. Append(a, Head(b)) = a \o <<Head(b)>> /\ <<Head(b)>> \in Seq(S)
    BY <1>1, AppendIsConcat
  <1>3. (a \o <<Head(b)>>) \o Tail(b) = a \o (<<Head(b)>> \o Tail(b))
    BY <1>1, <1>2, ConcatAssociative
  <1>. QED
    BY <1>1, <1>2, <1>3

LEMMA OrderNext == TypeOK /\ StageInv /\ OrderInv /\ [Next]_vars => OrderInv'
  <1> SUFFICES ASSUME TypeOK, StageInv, OrderInv, [Next]_vars,
                      main' \in {"connect", "pause", "running"}
               PROVE  written' = produced' \o batch' \o cache'
    BY DEF OrderInv
  <1> DEFINE Goal == written' = produced' \o batch' \o cache'
  <1> USE DEF receiver, kafkaSide
  <1>a. /\ produced \in Seq(Msgs) /\ batch \in Seq(Msgs) /\ cache \in Seq(Msgs)
        /\ flushed \in Seq(Msgs)
    BY DEF TypeOK
  <1>b. ASSUME UNCHANGED <<written, produced, batch, cache>>,
               main \in {"connect", "pause", "running"}
        PROVE  Goal
    BY <1>b DEF OrderInv
  <1>c. ASSUME NEW m \in Msgs, WriteToKafka(m), UNCHANGED <<produced, batch>>,
               main \in {"connect", "pause", "running"}
        PROVE  Goal
    <2>1. written = produced \o batch \o cache
      BY <1>c DEF OrderInv
    <2> DEFINE sent == produced \o batch
    <2>2. sent \in Seq(Msgs)
      BY <1>a, ConcatProperties
    <2> HIDE DEF sent
    <2>3. sent \o cache \in Seq(Msgs) /\ <<m>> \in Seq(Msgs)
      BY <1>a, <2>2, ConcatProperties
    <2>4. Append(sent \o cache, m) = (sent \o cache) \o <<m>>
      BY <2>3, AppendIsConcat
    <2>5. Append(cache, m) = cache \o <<m>>
      BY <1>a, AppendIsConcat
    <2>6. (sent \o cache) \o <<m>> = sent \o (cache \o <<m>>)
      BY <1>a, <2>2, <2>3, ConcatAssociative
    <2>7. written' = sent \o cache'
      BY <1>c, <2>1, <2>4, <2>5, <2>6 DEF WriteToKafka, sent
    <2>. QED
      BY <1>c, <2>7 DEF sent
  <1>1. CASE Tick \/ LastTick
    <2>1. /\ batch' \in Seq(Msgs) /\ cache' \in Seq(Msgs) /\ cache = batch' \o cache'
      BY <1>1, <1>a, BatchTaken DEF Tick, LastTick
    <2>2. batch = <<>> /\ produced \o batch = produced
      BY <1>1, <1>a, ConcatEmptySeq DEF Tick, LastTick, StageInv
    <2>3. (produced \o batch') \o cache' = produced \o (batch' \o cache')
      BY <1>a, <2>1, ConcatAssociative
    <2>. QED
      BY <1>1, <2>1, <2>2, <2>3 DEF Tick, LastTick, OrderInv
  <1>2. CASE TickerSends
    <2>1. Append(produced, Head(batch)) \o Tail(batch) = produced \o batch
      BY <1>2, <1>a, HeadOfSecond DEF TickerSends
    <2>. QED
      BY <1>2, <2>1 DEF TickerSends, HandOver, OrderInv
  <1>3. CASE TickerReturns \/ ProducerResult \/ ForwardStop \/ RunReturns \/ Signal \/ Retry
    BY <1>3, <1>b DEF TickerReturns, ProducerResult, ForwardStop, RunReturns, Signal, Retry
  <1>4. CASE Connect
    BY <1>4, <1>b DEF Connect, SetProducer, StageInv
  <1>5. ASSUME NEW e \in StartupErrors, ConnectFails(e) PROVE Goal
    BY <1>5, <1>b DEF ConnectFails
  <1>6. CASE RunDownstream
    BY <1>6, <1>c DEF RunDownstream, sendMessage, Msgs, Status
  <1>7. ASSUME NEW s \in Sockets, SocketPuts(s) \/ SocketStops(s) PROVE Goal
    BY <1>7, <1>b DEF SocketPuts, SocketStops
  <1>8. ASSUME NEW w \in Workers, WorkerTakes(w) \/ WorkerStops(w) PROVE Goal
    BY <1>8, <1>b DEF WorkerTakes, WorkerStops
  <1>9. ASSUME NEW w \in Workers, handleUdpMessage(w) PROVE Goal
    BY <1>9, <1>c DEF handleUdpMessage, Msgs
  <1>10. CASE CancelStartup \/ Sigterm \/ FlushCache \/ FlushReturns \/ CloseDoneChan
              \/ StopBackgroundThread \/ CloseProducer
    BY <1>10 DEF CancelStartup, Sigterm, FlushCache, FlushReturns, CloseDoneChan,
       StopBackgroundThread, CloseProducer
  <1>11. CASE FlushSends
    BY <1>11 DEF FlushSends, StageInv
  <1>12. ASSUME NEW s \in Sockets, NEW d \in Datagrams, SocketReads(s, d) PROVE Goal
    BY <1>12, <1>b DEF SocketReads
  <1>13. CASE UNCHANGED vars
    BY <1>13, <1>b DEF vars
  <1> HIDE DEF Goal
  <1>14. Goal
    BY <1>1, <1>2, <1>3, <1>4, <1>5, <1>6, <1>7, <1>8, <1>9, <1>10, <1>11, <1>12, <1>13
    DEF Next, Process, Terminated, Goal
  <1>. QED
    BY <1>14 DEF Goal

\* Until SIGTERM is taken up the producer gets the messages in the order in
\* which WriteToKafka stored them: sendBatch neither reorders, repeats nor
\* skips any, whatever the sizes of the cache and of a batch.
THEOREM WriterKeepsOrder == Spec => []OrderKept
  <1>1. OrderInv => OrderKept
    BY DEF OrderInv, OrderKept
  <1>2. TypeOK /\ Inv => StageInv
    BY DEF Inv
  <1>. QED
    BY OrderInit, OrderNext, WriterInvariant, <1>1, <1>2, PTL DEF Spec

-----------------------------------------------------------------------------
(* The writer implements Outbox.                                           *)

Held == ToSet(cache) \cup ToSet(batch) \cup ToSet(flushed)

\* The state of Outbox.
Place == [m \in Msgs |-> Where(m)]

\* Where the homes of a message put it.
PlaceInv ==
    \A m \in Msgs :
        /\ m \in ToSet(produced) => Place[m] = "handed"
        /\ m \in Held => Place[m] = "held"
        /\ m \in lost => Place[m] = "lost"
        /\ m \notin ToSet(written) => Place[m] = "outside"

LEMMA HomesArePlaces == HomeInv => PlaceInv
  <1> SUFFICES ASSUME HomeInv, NEW m \in Msgs
               PROVE  /\ m \in ToSet(produced) => Place[m] = "handed"
                      /\ m \in Held => Place[m] = "held"
                      /\ m \in lost => Place[m] = "lost"
                      /\ m \notin ToSet(written) => Place[m] = "outside"
    BY DEF PlaceInv
  <1>1. ~Repeated(m)
    BY DEF HomeInv, IsInjective, Repeated
  <1>2. Place[m] = IF m \in ToSet(produced) THEN "handed"
                   ELSE IF m \in Held THEN "held"
                   ELSE IF m \in lost THEN "lost" ELSE "outside"
    BY <1>1 DEF Place, Where, Held
  <1>. QED
    BY <1>2 DEF HomeInv, Held

LEMMA HomesArePlacesNext == HomeInv' => PlaceInv'
  BY HomesArePlaces, PTL

\* A message that is written goes from outside to held.
LEMMA WriteAccepts ==
    ASSUME TypeOK, HomeInv, HomeInv',
           NEW m \in Msgs, m \notin ToSet(written), WriteToKafka(m),
           UNCHANGED <<batch, flushed, produced, lost>>
    PROVE  Place[m] = "outside" /\ Place' = [Place EXCEPT ![m] = "held"]
  <1>1. PlaceInv /\ PlaceInv'
    BY HomesArePlaces, HomesArePlacesNext
  <1>2. /\ ToSet(written') = ToSet(written) \cup {m}
        /\ ToSet(cache') = ToSet(cache) \cup {m}
    BY SetOfAppend DEF WriteToKafka, TypeOK
  <1>3. Place[m] = "outside" /\ Place'[m] = "held"
    BY <1>1, <1>2 DEF PlaceInv, Held
  <1>4. ASSUME NEW k \in Msgs, k # m PROVE Place'[k] = Place[k]
    <2>1. \/ k \in ToSet(produced) \/ k \in Held \/ k \in lost \/ k \notin ToSet(written)
      BY DEF HomeInv, Held
    <2>. QED
      BY <1>1, <1>2, <1>4, <2>1 DEF PlaceInv, Held
  <1>. QED
    BY <1>3, <1>4 DEF Place

\* A message that is put into the producer's input goes from held to handed.
LEMMA HandOverHands ==
    ASSUME TypeOK, HomeInv, HomeInv',
           NEW m \in Msgs, m \in Held, HandOver(m), Held = Held' \cup {m},
           UNCHANGED <<lost, written>>
    PROVE  Place[m] = "held" /\ Place' = [Place EXCEPT ![m] = "handed"]
  <1>1. PlaceInv /\ PlaceInv'
    BY HomesArePlaces, HomesArePlacesNext
  <1>2. ToSet(produced') = ToSet(produced) \cup {m}
    BY SetOfAppend DEF HandOver, TypeOK
  <1>3. Place[m] = "held" /\ Place'[m] = "handed"
    BY <1>1, <1>2 DEF PlaceInv
  <1>4. ASSUME NEW k \in Msgs, k # m PROVE Place'[k] = Place[k]
    <2>1. \/ k \in ToSet(produced) \/ k \in Held \/ k \in lost \/ k \notin ToSet(written)
      BY DEF HomeInv, Held
    <2>. QED
      BY <1>1, <1>2, <1>4, <2>1 DEF PlaceInv
  <1>. QED
    BY <1>3, <1>4 DEF Place

\* A message that moves between the cache and a batch stays held.
LEMMA PlaceKept ==
    ASSUME UNCHANGED <<produced, lost>>, Held' = Held
    PROVE  Place' = Place
  <1>1. ASSUME NEW m \in Msgs PROVE Where(m)' = Where(m)
    BY DEF Where, Repeated, Held
  <1>. QED
    BY <1>1 DEF Place

LEMMA InitRefines == Init => Promise!Init
  <1> SUFFICES ASSUME Init PROVE Promise!Init
    OBVIOUS
  <1>1. ASSUME NEW m \in Msgs PROVE Where(m) = "outside"
    BY SetOfEmpty DEF Init, Where, Repeated
  <1>. QED
    BY <1>1 DEF Init, Promise!Init

Closing == main \in {"flush", "flushing", "draining", "stopping", "closing", "exit"}

\* A step of the writer that moves one message, and one that moves none.
PromiseAccepts(m) ==
    /\ main # "exit" /\ main' # "exit" /\ Closing' = Closing /\ early' = early
    /\ Place[m] = "outside" /\ Place' = [Place EXCEPT ![m] = "held"]

PromiseHands(m) ==
    /\ main # "exit" /\ main' # "exit" /\ Closing' = Closing /\ early' = early
    /\ Place[m] = "held" /\ Place' = [Place EXCEPT ![m] = "handed"]

PromiseStutters ==
    (main = "exit") = (main' = "exit") /\ Closing' = Closing /\ early' = early /\ Place' = Place

LEMMA AcceptRefines ==
    ASSUME NEW m \in Msgs, PromiseAccepts(m) PROVE Promise!Accept(m)
  BY DEF PromiseAccepts, Promise!Accept, Promise!Move, Place, Closing

LEMMA HandRefines ==
    ASSUME NEW m \in Msgs, PromiseHands(m) PROVE Promise!Hand(m)
  BY DEF PromiseHands, Promise!Hand, Promise!Move, Place, Closing

LEMMA StutterRefines ==
    ASSUME PromiseStutters PROVE UNCHANGED Promise!vars
  BY DEF PromiseStutters, Promise!vars, Place, Closing

LEMMA StepRefines ==
    TypeOK /\ Inv /\ TypeOK' /\ Inv' /\ [Next]_vars => [Promise!Next]_(Promise!vars)
  <1> SUFFICES ASSUME TypeOK, Inv, Inv', [Next]_vars
               PROVE  Promise!Next \/ UNCHANGED Promise!vars
    OBVIOUS
  <1> DEFINE Goal == Promise!Next \/ UNCHANGED Promise!vars
  <1> USE DEF receiver, kafkaSide
  <1>a. /\ StageInv /\ HomeInv /\ ReceiverInv /\ EarlyInv /\ HomeInv'
        /\ PlaceInv /\ PlaceInv'
    BY HomesArePlaces, HomesArePlacesNext DEF Inv
  <1>b. ASSUME NEW m \in Msgs, PromiseAccepts(m) \/ PromiseHands(m) PROVE Goal
    BY <1>b, AcceptRefines, HandRefines DEF Promise!Next
  <1>c. ASSUME PromiseStutters PROVE Goal
    BY <1>c, StutterRefines
  <1>d. ASSUME UNCHANGED <<produced, batch, flushed, cache, lost, early, main>> PROVE Goal
    <2>1. Place' = Place
      BY <1>d, PlaceKept DEF Held
    <2>. QED
      BY <1>c, <1>d, <2>1 DEF PromiseStutters, Closing
  <1>1. CASE ~Ended /\ (Tick \/ LastTick)
    <2>1. ToSet(cache) = ToSet(batch') \cup ToSet(cache')
      BY <1>1, BatchTaken DEF Tick, LastTick, TypeOK
    <2>2. batch = <<>>
      BY <1>1, <1>a DEF Tick, LastTick, StageInv
    <2>3. Held' = Held
      BY <1>1, <2>1, <2>2, SetOfEmpty DEF Tick, LastTick, Held
    <2>. QED
      BY <1>1, <1>c, <2>3, PlaceKept DEF Tick, LastTick, PromiseStutters, Closing
  <1>2. CASE ~Ended /\ TickerSends
    <2>1. Head(batch) \in Msgs /\ ToSet(batch) = {Head(batch)} \cup ToSet(batch')
      BY <1>2, SetOfTail DEF TickerSends, TypeOK
    <2>2. Head(batch) \in Held /\ Held = Held' \cup {Head(batch)}
      BY <1>2, <2>1 DEF TickerSends, Held
    <2>3. /\ Place[Head(batch)] = "held"
          /\ Place' = [Place EXCEPT ![Head(batch)] = "handed"]
      BY <1>2, <1>a, <2>1, <2>2, HandOverHands DEF TickerSends
    <2>4. PromiseHands(Head(batch))
      BY <1>2, <2>3 DEF TickerSends, PromiseHands, Closing, Ended
    <2>. QED
      BY <1>b, <2>1, <2>4
  <1>3. CASE TickerReturns \/ ProducerResult \/ ForwardStop \/ RunReturns \/ Signal
    BY <1>3, <1>d DEF TickerReturns, ProducerResult, ForwardStop, RunReturns, Signal
  <1>4. CASE Connect \/ Retry \/ CancelStartup
    <2>1. UNCHANGED <<produced, batch, flushed, cache, lost, early>>
      BY <1>4, <1>a DEF Connect, SetProducer, Retry, CancelStartup, StageInv
    <2>2. Place' = Place
      BY <2>1, PlaceKept DEF Held
    <2>. QED
      BY <1>4, <1>c, <2>1, <2>2 DEF Connect, Retry, CancelStartup, PromiseStutters, Closing
  <1>5. ASSUME NEW e \in StartupErrors, ConnectFails(e) PROVE Goal
    <2>1. Place' = Place
      BY <1>5, PlaceKept DEF ConnectFails, Held
    <2>. QED
      BY <1>5, <1>c, <2>1 DEF ConnectFails, PromiseStutters, Closing
  <1>6. CASE ~Ended /\ RunDownstream
    <2>1. Starting \in Msgs /\ Starting \notin ToSet(written)
      BY <1>6, <1>a DEF RunDownstream, StageInv, Msgs, Status
    <2>2. Place[Starting] = "outside" /\ Place' = [Place EXCEPT ![Starting] = "held"]
      BY <1>6, <1>a, <2>1, WriteAccepts DEF RunDownstream, sendMessage
    <2>3. PromiseAccepts(Starting)
      BY <1>6, <2>2 DEF RunDownstream, PromiseAccepts, Closing, Ended
    <2>. QED
      BY <1>b, <2>1, <2>3
  <1>7. ASSUME NEW s \in Sockets, SocketPuts(s) \/ SocketStops(s) PROVE Goal
    BY <1>7, <1>d DEF SocketPuts, SocketStops
  <1>8. ASSUME NEW w \in Workers, WorkerTakes(w) \/ WorkerStops(w) PROVE Goal
    BY <1>8, <1>d DEF WorkerTakes, WorkerStops
  <1>9. ASSUME ~Ended, NEW w \in Workers, handleUdpMessage(w) PROVE Goal
    <2>1. worker[w] \in Msgs /\ worker[w] \notin ToSet(written)
      BY <1>9, <1>a DEF handleUdpMessage, ReceiverInv, Msgs
    <2>2. /\ Place[worker[w]] = "outside"
          /\ Place' = [Place EXCEPT ![worker[w]] = "held"]
      BY <1>9, <1>a, <2>1, WriteAccepts DEF handleUdpMessage
    <2>3. PromiseAccepts(worker[w])
      BY <1>9, <2>2 DEF handleUdpMessage, PromiseAccepts, Closing, Ended
    <2>. QED
      BY <1>b, <2>1, <2>3
  <1>10. CASE Sigterm
    <2>1. Terminating \in Msgs /\ Terminating \notin ToSet(written)
      BY <1>10, <1>a DEF Sigterm, StageInv, Msgs, Status
    <2>2. Place[Terminating] = "outside" /\ Place' = [Place EXCEPT ![Terminating] = "held"]
      BY <1>10, <1>a, <2>1, WriteAccepts DEF Sigterm, sendMessage
    <2>3. ToSet(written') = {m \in Msgs : Place'[m] # "outside"}
      <3>1. ASSUME NEW m \in Msgs PROVE m \in ToSet(written') <=> Place'[m] # "outside"
        <4>1. m \in ToSet(written')
                => m \in ToSet(produced') \/ m \in Held' \/ m \in lost'
          BY <1>a DEF HomeInv, Held
        <4>. QED
          BY <1>a, <4>1 DEF PlaceInv
      <3>2. ToSet(written') \subseteq Msgs
        BY <1>10, SetOfAppend, <2>1 DEF Sigterm, sendMessage, WriteToKafka, TypeOK, ToSet
      <3>. QED
        BY <3>1, <3>2
    <2>4. Promise!Close(Terminating)
      BY <1>10, <2>1, <2>2, <2>3 DEF Sigterm, Promise!Close, Promise!Move, Place
    <2>. QED
      BY <2>1, <2>4 DEF Promise!Next
  <1>11. CASE FlushCache
    <2>1. ToSet(cache) = ToSet(flushed') \cup ToSet(cache')
      BY <1>11, BatchTaken DEF FlushCache, TypeOK
    <2>2. flushed = <<>>
      BY <1>11, <1>a DEF FlushCache, StageInv
    <2>3. Held' = Held
      BY <1>11, <2>1, <2>2, SetOfEmpty DEF FlushCache, Held
    <2>. QED
      BY <1>11, <1>c, <2>3, PlaceKept DEF FlushCache, PromiseStutters, Closing
  <1>12. CASE ~Ended /\ FlushSends
    <2>1. Head(flushed) \in Msgs /\ ToSet(flushed) = {Head(flushed)} \cup ToSet(flushed')
      BY <1>12, SetOfTail DEF FlushSends, TypeOK
    <2>2. Head(flushed) \in Held /\ Held = Held' \cup {Head(flushed)}
      BY <1>12, <2>1 DEF FlushSends, Held
    <2>3. /\ Place[Head(flushed)] = "held"
          /\ Place' = [Place EXCEPT ![Head(flushed)] = "handed"]
      BY <1>12, <1>a, <2>1, <2>2, HandOverHands DEF FlushSends
    <2>4. PromiseHands(Head(flushed))
      BY <1>12, <2>3 DEF FlushSends, PromiseHands, Closing, Ended
    <2>. QED
      BY <1>b, <2>1, <2>4
  <1>13. CASE FlushReturns \/ CloseDoneChan
    <2>1. Place' = Place
      BY <1>13, PlaceKept DEF FlushReturns, CloseDoneChan, Held
    <2>. QED
      BY <1>13, <1>c, <2>1 DEF FlushReturns, CloseDoneChan, PromiseStutters, Closing
  <1>14. CASE StopBackgroundThread
    <2>1. ToSet(cache) \subseteq {m \in Msgs : Place[m] = "held"} \ early
      BY <1>14, <1>a DEF StopBackgroundThread, EarlyInv, PlaceInv, Held, TypeOK, ToSet
    <2>2. ASSUME NEW m \in Msgs
          PROVE  Place'[m] = IF m \in ToSet(cache) THEN "lost" ELSE Place[m]
      <3>1. \/ m \in ToSet(produced) \/ m \in Held \/ m \in lost \/ m \notin ToSet(written)
        BY <1>a DEF HomeInv, Held
      <3>. QED
        BY <1>14, <1>a, <3>1, SetOfEmpty DEF StopBackgroundThread, PlaceInv, Held, HomeInv
    <2>3. Place' = [m \in Msgs |-> IF m \in ToSet(cache) THEN "lost" ELSE Place[m]]
      BY <2>2 DEF Place
    <2>4. Promise!Lose(ToSet(cache))
      BY <1>14, <2>1, <2>3 DEF StopBackgroundThread, Promise!Lose, Promise!In, Place
    <2>. QED
      BY <2>1, <2>4 DEF Promise!Next
  <1>15. CASE CloseProducer
    <2>1. Held = {}
      BY <1>15, <1>a, SetOfEmpty DEF CloseProducer, StageInv, Held
    <2>2. ASSUME NEW m \in Msgs PROVE Place[m] # "held"
      <3>1. m \in ToSet(produced) \/ m \in lost \/ m \notin ToSet(written)
        BY <1>a, <2>1 DEF HomeInv, Held
      <3>. QED
        BY <1>a, <3>1 DEF PlaceInv
    <2>3. Place' = Place
      BY <1>15, PlaceKept DEF CloseProducer, Held
    <2>4. Promise!End
      BY <1>15, <2>2, <2>3 DEF CloseProducer, Promise!End, Promise!In, Place
    <2>. QED
      BY <2>4 DEF Promise!Next
  <1>16. ASSUME NEW s \in Sockets, NEW d \in Datagrams, SocketReads(s, d) PROVE Goal
    BY <1>16, <1>d DEF SocketReads
  <1>17. CASE UNCHANGED vars
    BY <1>17, <1>d DEF vars
  <1> HIDE DEF Goal
  <1>18. Goal
    BY <1>1, <1>2, <1>3, <1>4, <1>5, <1>6, <1>7, <1>8, <1>9, <1>10, <1>11, <1>12, <1>13,
       <1>14, <1>15, <1>16, <1>17
    DEF Next, Process, Terminated, Goal
  <1>. QED
    BY <1>18 DEF Goal

\* The downstream process implements Outbox: no message goes to the producer
\* twice, none that was written before SIGTERM is discarded, and the process
\* ends holding none (WriteToKafka, sendBatch, FlushCache, StopBackgroundThread
\* and the SIGTERM branch of Main), for any number of datagrams and workers and
\* any size of the channels and batches.
THEOREM WriterImplementsOutbox == Spec => ImplementsOutbox
  BY InitRefines, StepRefines, WriterInvariant, PTL DEF Spec, ImplementsOutbox, Promise!Spec

=============================================================================
