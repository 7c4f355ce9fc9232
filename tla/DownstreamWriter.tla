-------------------------- MODULE DownstreamWriter --------------------------
(***************************************************************************)
(* The downstream process over UDP, from the socket to the Kafka producer: *)
(* start-up with retries, socket readers and workers around packetChan     *)
(* (udp/receiver.go), the batching cache in front of the producer          *)
(* (kafka/putkafka.go), and the shutdown of Main and RunDownstream         *)
(* (downstream.go).  What one datagram means is the business of Reassembly *)
(* and KeyExchange: here every datagram is a complete message.             *)
(***************************************************************************)
EXTENDS Naturals, Sequences, SequencesExt

CONSTANTS
    Datagrams,          \* the messages upstream sends
    Sockets,            \* the sockets opened with SO_REUSEPORT (numReceivers)
    Workers,            \* the goroutines that handle packets (numReceivers)
    ChannelBufferSize,  \* capacity of packetChan
    BatchSize,          \* messages taken from the cache at a time
    InputSize           \* capacity of the producer's input channel

ASSUME SizesAssumption ==
    /\ ChannelBufferSize \in Nat \ {0}
    /\ BatchSize \in Nat \ {0}
    /\ InputSize \in Nat \ {0}

\* Status messages of the process itself, sent down the same way.
Starting == "starting"
Terminating == "terminating"
Status == {Starting, Terminating}
Msgs == Datagrams \cup Status

ASSUME StatusAssumption == Datagrams \cap Status = {}

None == "none"
Gone == "gone"

ASSUME MarksAssumption == Msgs \cap {None, Gone} = {}

VARIABLES
    main,       \* where Main is
    run,        \* where RunDownstream is
    signal,     \* SIGTERM has been delivered
    realStop,   \* the copy of stopChan the receiver looks at is closed
    net,        \* the datagrams that have not arrived yet
    socket,     \* the packet each socket reader holds, None, or Gone
    packetChan, \* packets between the readers and the workers
    worker,     \* the packet each worker handles, None, or Gone
    cache,      \* MessageCache.entries
    ticker,     \* the background thread: "off", "wait", "send" or "last"
    batch,      \* what the background thread still has to hand over
    flushed,    \* what Main, in FlushCache, still has to hand over
    input,      \* the producer's input channel
    written,    \* history: every message put into the cache, in order
    produced,   \* history: every message put into input, in order
    lost,       \* history: the messages StopBackgroundThread discarded
    early       \* history: the messages written when SIGTERM was taken up

vars == <<main, run, signal, realStop, net, socket, packetChan, worker, cache,
          ticker, batch, flushed, input, written, produced, lost, early>>

receiver == <<realStop, net, socket, packetChan, worker>>

MainStages == {"connect", "pause", "running", "flush", "flushing", "draining",
               "stopping", "closing", "exit", "canceled", "fatal"}

\* stopChan is closed.
Stopped == main \in {"draining", "stopping", "closing", "exit"}

\* The types of the variables, and the capacities of the channels and batches
\* (packetChan, sendBatch, producer.Input()).
TypeOK ==
    /\ main \in MainStages
    /\ run \in {"none", "begin", "listen", "done"}
    /\ signal \in BOOLEAN
    /\ realStop \in BOOLEAN
    /\ net \subseteq Datagrams
    /\ socket \in [Sockets -> Datagrams \cup {None, Gone}]
    /\ packetChan \in Seq(Datagrams)
    /\ worker \in [Workers -> Datagrams \cup {None, Gone}]
    /\ cache \in Seq(Msgs)
    /\ ticker \in {"off", "wait", "send", "last"}
    /\ batch \in Seq(Msgs)
    /\ flushed \in Seq(Msgs)
    /\ input \in Seq(Msgs)
    /\ written \in Seq(Msgs)
    /\ produced \in Seq(Msgs)
    /\ lost \subseteq Msgs
    /\ early \subseteq Msgs
    /\ Len(packetChan) <= ChannelBufferSize
    /\ Len(batch) <= BatchSize
    /\ Len(flushed) <= BatchSize
    /\ Len(input) <= InputSize

Init ==
    /\ main = "connect"
    /\ run = "none"
    /\ signal = FALSE
    /\ realStop = FALSE
    /\ net = Datagrams
    /\ socket = [s \in Sockets |-> Gone]
    /\ packetChan = <<>>
    /\ worker = [w \in Workers |-> Gone]
    /\ cache = <<>>
    /\ ticker = "off"
    /\ batch = <<>>
    /\ flushed = <<>>
    /\ input = <<>>
    /\ written = <<>>
    /\ produced = <<>>
    /\ lost = {}
    /\ early = {}

-----------------------------------------------------------------------------
(* The batching cache: kafka/putkafka.go.                                  *)

WriteToKafka(m) ==
    /\ cache' = Append(cache, m)
    /\ written' = Append(written, m)

\* A status message of the process, when a topic is configured for them.
sendMessage(m) == WriteToKafka(m)

\* The first half of sendBatch: at most BatchSize entries leave the cache
\* under its lock.
Taken == SubSeq(cache, 1, IF Len(cache) <= BatchSize THEN Len(cache) ELSE BatchSize)

\* Mutant: the entries that are sent stay in the cache.
MutantTakeBatch(to) == to = Taken /\ cache' = cache

TakeBatch(to) ==
    /\ to = Taken
    /\ cache' = SubSeq(cache, Len(Taken) + 1, Len(cache))

\* The second half: one entry is put into the producer's input, which blocks
\* while that is full.
HandOver(m) ==
    /\ Len(input) < InputSize
    /\ input' = Append(input, m)
    /\ produced' = Append(produced, m)

\* A tick of the background thread finds entries in the cache.
Tick ==
    /\ ticker = "wait"
    /\ cache # <<>>
    /\ TakeBatch(batch')
    /\ ticker' = "send"
    /\ UNCHANGED <<main, run, signal, receiver, flushed, input, written, produced, lost, early>>

\* doneChan is closed: a last batch, whatever the cache holds.
LastTick ==
    /\ main = "stopping"
    /\ ticker = "wait"
    /\ TakeBatch(batch')
    /\ ticker' = "last"
    /\ UNCHANGED <<main, run, signal, receiver, flushed, input, written, produced, lost, early>>

TickerSends ==
    /\ batch # <<>>
    /\ HandOver(Head(batch))
    /\ batch' = Tail(batch)
    /\ UNCHANGED <<main, run, signal, receiver, cache, ticker, flushed, written, lost, early>>

TickerReturns ==
    /\ batch = <<>>
    /\ ticker \in {"send", "last"}
    /\ ticker' = IF ticker = "send" THEN "wait" ELSE "off"
    /\ UNCHANGED <<main, run, signal, receiver, cache, batch, flushed, input, written, produced, lost, early>>

\* The producer takes a message and reports success or failure to
\* monitorKafkaProducer, which logs it; a message that failed is not sent again.
ProducerResult ==
    /\ input # <<>>
    /\ input' = Tail(input)
    /\ UNCHANGED <<main, run, signal, receiver, cache, ticker, batch, flushed, written, produced, lost, early>>

-----------------------------------------------------------------------------
(* Start-up: newKafkaProducerWithRetry and the beginning of RunDownstream. *)

\* The kinds of errors an attempt ends with, and those worth another attempt.
StartupErrors == {"configuration", "certificate", "authorization", "network", "broker"}

RetryableStartupError(e) == e \in {"network", "broker"}

\* SetProducer empties the cache and starts the background thread.
SetProducer ==
    /\ cache' = <<>>
    /\ ticker' = "wait"

\* The producer is created.  A signal that is already pending need not be seen
\* by the attempt.
Connect ==
    /\ main = "connect"
    /\ main' = "running"
    /\ run' = "begin"
    /\ SetProducer
    /\ UNCHANGED <<signal, receiver, batch, flushed, input, written, produced, lost, early>>

\* The attempt fails: a transient error is retried after an interval, any
\* other ends the process, and either gives way to a pending signal.
ConnectFails(e) ==
    /\ main = "connect"
    /\ main' = CASE signal -> "canceled"
                 [] ~signal /\ RetryableStartupError(e) -> "pause"
                 [] OTHER -> "fatal"
    /\ UNCHANGED <<run, signal, receiver, cache, ticker, batch, flushed, input, written, produced, lost, early>>

Retry ==
    /\ main = "pause"
    /\ main' = "connect"
    /\ UNCHANGED <<run, signal, receiver, cache, ticker, batch, flushed, input, written, produced, lost, early>>

\* Mutant: an attempt in flight is waited for.
MutantCancelStartup ==
    /\ main = "pause"
    /\ signal
    /\ main' = "canceled"
    /\ UNCHANGED <<run, signal, receiver, cache, ticker, batch, flushed, input, written, produced, lost, early>>

\* The signal cancels the attempt in flight, or the wait for the next one.
CancelStartup ==
    /\ main \in {"connect", "pause"}
    /\ signal
    /\ main' = "canceled"
    /\ UNCHANGED <<run, signal, receiver, cache, ticker, batch, flushed, input, written, produced, lost, early>>

\* RunDownstream reports that it starts, and Listen starts readers and workers.
RunDownstream ==
    /\ run = "begin"
    /\ run' = "listen"
    /\ sendMessage(Starting)
    /\ socket' = [s \in Sockets |-> None]
    /\ worker' = [w \in Workers |-> None]
    /\ UNCHANGED <<main, signal, realStop, net, packetChan, ticker, batch, flushed, input, produced, lost, early>>

-----------------------------------------------------------------------------
(* The UDP receiver: udp/receiver.go.                                      *)

kafkaSide == <<cache, ticker, batch, flushed, input, written, produced, lost, early>>

SocketReads(s, d) ==
    /\ socket[s] = None
    /\ d \in net
    /\ net' = net \ {d}
    /\ socket' = [socket EXCEPT ![s] = d]
    /\ UNCHANGED <<main, run, signal, realStop, packetChan, worker, kafkaSide>>

\* The packet goes to the workers; the reader ends at its next look at the
\* stop channel.
SocketPuts(s) ==
    /\ socket[s] \in Datagrams
    /\ Len(packetChan) < ChannelBufferSize
    /\ packetChan' = Append(packetChan, socket[s])
    /\ socket' = [socket EXCEPT ![s] = IF realStop THEN Gone ELSE None]
    /\ UNCHANGED <<main, run, signal, realStop, net, worker, kafkaSide>>

\* The reader sees the stop channel, idle or with a packet it then drops.
SocketStops(s) ==
    /\ realStop
    /\ socket[s] # Gone
    /\ socket' = [socket EXCEPT ![s] = Gone]
    /\ UNCHANGED <<main, run, signal, realStop, net, packetChan, worker, kafkaSide>>

\* A worker may still take a packet when the stop channel is closed: select
\* chooses freely between the two.
WorkerTakes(w) ==
    /\ worker[w] = None
    /\ packetChan # <<>>
    /\ worker' = [worker EXCEPT ![w] = Head(packetChan)]
    /\ packetChan' = Tail(packetChan)
    /\ UNCHANGED <<main, run, signal, realStop, net, socket, kafkaSide>>

\* handleUdpMessage, for a complete message: it is written to the cache.
handleUdpMessage(w) ==
    /\ worker[w] \in Datagrams
    /\ WriteToKafka(worker[w])
    /\ worker' = [worker EXCEPT ![w] = None]
    /\ UNCHANGED <<main, run, signal, realStop, net, socket, packetChan, ticker, batch, flushed, input, produced, lost, early>>

WorkerStops(w) ==
    /\ realStop
    /\ worker[w] = None
    /\ worker' = [worker EXCEPT ![w] = Gone]
    /\ UNCHANGED <<main, run, signal, realStop, net, socket, packetChan, kafkaSide>>

\* UDPAdapter.Listen copies stopChan to the channel the receiver uses.
ForwardStop ==
    /\ Stopped
    /\ run = "listen"
    /\ ~realStop
    /\ realStop' = TRUE
    /\ UNCHANGED <<main, run, signal, net, socket, packetChan, worker, kafkaSide>>

\* Listen returns when every reader and worker has, and RunDownstream with it.
RunReturns ==
    /\ run = "listen"
    /\ realStop
    /\ \A s \in Sockets : socket[s] = Gone
    /\ \A w \in Workers : worker[w] = Gone
    /\ run' = "done"
    /\ UNCHANGED <<main, signal, receiver, kafkaSide>>

-----------------------------------------------------------------------------
(* Shutdown: the SIGTERM branch of Main.                                   *)

Signal ==
    /\ ~signal
    /\ signal' = TRUE
    /\ UNCHANGED <<main, run, receiver, kafkaSide>>

Sigterm ==
    /\ main = "running"
    /\ signal
    /\ main' = "flush"
    /\ sendMessage(Terminating)
    /\ early' = ToSet(written')
    /\ UNCHANGED <<run, signal, receiver, ticker, batch, flushed, input, produced, lost>>

\* Mutant: what is in the cache is left to the background thread.
MutantFlushCache ==
    /\ main = "flush"
    /\ main' = "draining"
    /\ UNCHANGED <<run, signal, receiver, kafkaSide>>

\* FlushCache sends batches until it finds the cache empty; then stopChan is
\* closed.
FlushCache ==
    /\ main = "flush"
    /\ main' = IF cache = <<>> THEN "draining" ELSE "flushing"
    /\ TakeBatch(flushed')
    /\ UNCHANGED <<run, signal, receiver, ticker, batch, input, written, produced, lost, early>>

FlushSends ==
    /\ flushed # <<>>
    /\ HandOver(Head(flushed))
    /\ flushed' = Tail(flushed)
    /\ UNCHANGED <<main, run, signal, receiver, cache, ticker, batch, written, lost, early>>

FlushReturns ==
    /\ main = "flushing"
    /\ flushed = <<>>
    /\ main' = "flush"
    /\ UNCHANGED <<run, signal, receiver, kafkaSide>>

\* RunDownstream has returned: close(doneChan), and wait for the thread.
CloseDoneChan ==
    /\ main = "draining"
    /\ run = "done"
    /\ main' = "stopping"
    /\ UNCHANGED <<run, signal, receiver, kafkaSide>>

\* The rest of StopBackgroundThread: what the last batch left is discarded.
StopBackgroundThread ==
    /\ main = "stopping"
    /\ ticker = "off"
    /\ main' = "closing"
    /\ lost' = lost \cup ToSet(cache)
    /\ cache' = <<>>
    /\ UNCHANGED <<run, signal, receiver, ticker, batch, flushed, input, written, produced, early>>

\* The producer's Close returns when it is done with everything handed to it.
CloseProducer ==
    /\ main = "closing"
    /\ input = <<>>
    /\ main' = "exit"
    /\ UNCHANGED <<run, signal, receiver, kafkaSide>>

Ended == main \in {"exit", "canceled", "fatal"}

Terminated == Ended /\ UNCHANGED vars

-----------------------------------------------------------------------------

\* What the process does of its own accord, once it can.
Process ==
    \/ Tick \/ LastTick \/ TickerSends \/ TickerReturns \/ ProducerResult
    \/ Connect \/ (\E e \in StartupErrors : ConnectFails(e)) \/ Retry \/ CancelStartup
    \/ RunDownstream
    \/ \E s \in Sockets : SocketPuts(s) \/ SocketStops(s)
    \/ \E w \in Workers : WorkerTakes(w) \/ handleUdpMessage(w) \/ WorkerStops(w)
    \/ ForwardStop \/ RunReturns
    \/ Sigterm \/ FlushCache \/ FlushSends \/ FlushReturns
    \/ CloseDoneChan \/ StopBackgroundThread \/ CloseProducer

Next ==
    \/ ~Ended /\ (Process \/ Signal \/ \E s \in Sockets, d \in Datagrams : SocketReads(s, d))
    \/ Terminated

\* Goroutines run and the producer answers: sarama gives up on a message after
\* its own timeouts and retries.  Datagrams and signals come or do not.
Fairness ==
    /\ WF_vars(Tick) /\ WF_vars(LastTick) /\ WF_vars(TickerSends) /\ WF_vars(TickerReturns)
    /\ WF_vars(ProducerResult)
    /\ WF_vars(Retry) /\ WF_vars(CancelStartup) /\ WF_vars(RunDownstream)
    /\ \A s \in Sockets : WF_vars(SocketStops(s))
    /\ \A w \in Workers : WF_vars(handleUdpMessage(w)) /\ WF_vars(WorkerStops(w))
    /\ WF_vars(ForwardStop) /\ WF_vars(RunReturns)
    /\ WF_vars(Sigterm) /\ WF_vars(FlushCache) /\ WF_vars(FlushSends) /\ WF_vars(FlushReturns)
    /\ WF_vars(CloseDoneChan) /\ WF_vars(StopBackgroundThread) /\ WF_vars(CloseProducer)

Spec == Init /\ [][Next]_vars /\ Fairness

-----------------------------------------------------------------------------
(* Properties.                                                             *)

\* Until the process is told to end, the messages reach the producer in the
\* order in which the workers wrote them, none twice and none left out: batches
\* of the background thread never overtake one another (sendBatch).  FlushCache
\* of Main, a second sender beside the thread, gives this order up.
OrderKept ==
    main = "running" => written = produced \o batch \o cache

\* A second copy has been handed over, a state Outbox knows nothing of.
Repeated(m) ==
    \E i, j \in DOMAIN produced : i # j /\ produced[i] = m /\ produced[j] = m

Where(m) ==
    IF Repeated(m) THEN "repeated"
    ELSE IF m \in ToSet(produced) THEN "handed"
    ELSE IF m \in ToSet(cache) \cup ToSet(batch) \cup ToSet(flushed) THEN "held"
    ELSE IF m \in lost THEN "lost" ELSE "outside"

Promise == INSTANCE Outbox WITH
    state <- [m \in Msgs |-> Where(m)],
    owed <- early,
    closing <- main \in {"flush", "flushing", "draining", "stopping", "closing", "exit"},
    over <- main = "exit"

\* The writer implements Outbox: a message goes to the producer at most once, a
\* message written before SIGTERM is never discarded, and the process ends
\* holding nothing (the SIGTERM branch of Main, FlushCache, StopBackgroundThread).
ImplementsOutbox == Promise!Spec

\* After SIGTERM the process ends, whether it is connecting, waiting to retry,
\* relaying, or blocked on a full producer input (Main, connectToKafka).
SigtermEndsDownstream == signal ~> Ended

=============================================================================
