------------------------------ MODULE ResendJob ------------------------------
(***************************************************************************)
(* The resend job: it reads a bundle of missing offsets (or the one range of *)
(* the command line), keeps the partitions of its own cluster, and starts    *)
(* one reader per partition, which takes the upstream topic from the first   *)
(* offset that is asked for to the end and sends what the bundle selects.    *)
(* The readers share a rate limiter.  The topic is written, cleaned and      *)
(* marked meanwhile, and SIGTERM may come at any time.                       *)
(*                                                                         *)
(* A bundle names downstream partitions: partitionStartValue higher than the *)
(* upstream ones.  A payload that the input filter denies is sent empty under *)
(* its id, so payloads do not matter here.                                   *)
(***************************************************************************)
EXTENDS Integers, Sequences, FiniteSets, FiniteSetsExt, Bags

CONSTANTS Partitions,      \* of the upstream topic
          Configs,         \* [start, stop, plain, type, results], see JobInit
          Logs,            \* contents of the upstream topic at the start
          NrOffsets,       \* its newest offset at the start
          MaxReaders,      \* bound: entries of a bundle
          MaxOffset,       \* bound: records and markers in a partition
          MaxChanges       \* bound: offsets written or expired while the job runs

Readers == 1 .. MaxReaders
Types == {"first", "all", "manual", "time-range"}
Records == [offset : 0 .. MaxOffset - 1, inTime : BOOLEAN]

\* Bundles as create writes them and the command line gives them: an entry per
\* partition, whose gaps begin in ascending order; for "manual" and "time-range"
\* there is one entry, with the range of the command line.
BundleFormed(c) ==
    /\ \A i, j \in DOMAIN c.results : c.results[i].partition = c.results[j].partition => i = j
    /\ \A i \in DOMAIN c.results :
          LET gaps == c.results[i].gaps IN
          /\ c.results[i].partition \in Int
          /\ gaps \in Seq(Seq(Int))
          /\ \A j \in DOMAIN gaps :
                Len(gaps[j]) \in {1, 2} /\ gaps[j][1] \in Nat /\ gaps[1][1] <= gaps[j][1]
          /\ c.type \in {"manual", "time-range"} =>
                i = 1 /\ Len(gaps) = 1 /\ Len(gaps[1]) = 2

\* A record per offset.
LogFormed(l) ==
    \A p \in Partitions : \A q, r \in l[p] :
       r.offset < NrOffsets /\ (q.offset = r.offset => q = r)

JobConfigured ==
    /\ Partitions \subseteq Nat
    /\ {NrOffsets, MaxOffset, MaxReaders, MaxChanges} \subseteq Nat
    /\ NrOffsets <= MaxOffset
    /\ Logs \subseteq [Partitions -> SUBSET Records]
    /\ \A l \in Logs : LogFormed(l)
    /\ \A c \in Configs : /\ {c.start, c.stop} \subseteq Nat
                           /\ c.type \in Types
                           /\ DOMAIN c.results \subseteq Readers
                           /\ BundleFormed(c)

ASSUME ResendAssumption == JobConfigured

VARIABLES
    log,        \* upstream topic: per partition the records that are still there
    oldest,     \* per partition
    newest,     \* per partition: the offset of the next record
    config,     \* configuration and bundle of this job
    pc,         \* of the job: "start", "run", "done", "failed"
    cancelled,  \* the context
    results,    \* jsonFilter.Results, with LastOffset
    reader,     \* per result of the bundle: [stage, start, position, final, armed]
    limiter,    \* the reader that holds limiterMu, or 0
    sent,       \* messages handed to the network: [partition, offset, source]
    lost,       \* messages that could not be sent (history)
    cut         \* readers that did not reach the end of their partition (history)

resendVars == <<log, oldest, newest, config, pc, cancelled, results, reader, limiter, sent,
          lost, cut>>

topicVars == <<log, oldest, newest>>
jobVars == <<config, pc, cancelled, results>>
wireVars == <<sent, lost>>

IdleReader == [stage |-> "none", start |-> 0, position |-> 0, final |-> -1, armed |-> FALSE]
-----------------------------------------------------------------------------
\* Partitions.

\* Mutant: the upper end of the range belongs to it.
MutantInConfiguredRange(p, c) ==
    IF p = -1 THEN c.stop = 0
    ELSE p >= c.start /\ (c.stop = 0 \/ p <= c.start + c.stop)

InConfiguredRange(p, c) ==
    IF p = -1 THEN c.stop = 0
    ELSE p >= c.start /\ (c.stop = 0 \/ p < c.start + c.stop)

ToUpstream(p, c) == IF p = -1 THEN -1 ELSE p - c.start
ToDownstream(p, c) == IF p = -1 THEN -1 ELSE p + c.start

\* Gaps are <<from, to>> or <<offset>>.
FirstGap(r) == r.gaps # <<>> /\ r.gaps[1] # <<>>

HasUsableGaps(type, r) ==
    CASE type \in {"first", "manual"} -> FirstGap(r)
      [] type = "all" -> \E i \in DOMAIN r.gaps : r.gaps[i] # <<>>
      [] type = "time-range" -> TRUE

\* filterJsonFilterByPartitionRange: the results that are kept, by their place in
\* the bundle; without an upper bound, all.
Selected(c) ==
    {i \in DOMAIN c.results :
       \/ c.stop = 0
       \/ InConfiguredRange(c.results[i].partition, c) /\ HasUsableGaps(c.type, c.results[i])}

StartOffset(type, r) ==
    IF type \in {"first", "all", "manual"} /\ FirstGap(r) THEN r.gaps[1][1] ELSE 0

\* Mutant: the end of a range does not belong to it.
MutantInGap(g, o) == IF Len(g) > 1 THEN g[1] <= o /\ o < g[2] ELSE Len(g) = 1 /\ o = g[1]

InGap(g, o) == IF Len(g) > 1 THEN g[1] <= o /\ o <= g[2] ELSE Len(g) = 1 /\ o = g[1]

\* The first of the results at the places I.
FirstOf(rs, I) == rs[CHOOSE i \in I : \A j \in I : i <= j]

\* filter: is offset o of downstream partition p to be sent?  Bundles of another
\* type, which nothing writes, are left out.
Filter(type, rs, p, o) ==
    LET match == {i \in DOMAIN rs : rs[i].partition = p}
        one == FirstOf(rs, DOMAIN rs)
    IN
    CASE type = "first" ->
           LET r == FirstOf(rs, match)
           IN match # {} /\ FirstGap(r) /\ o >= r.gaps[1][1]
      [] type = "all" ->
           \E i \in match : \E j \in DOMAIN rs[i].gaps : InGap(rs[i].gaps[j], o)
      [] type = "manual" ->
           /\ DOMAIN rs # {} /\ FirstGap(one)
           /\ one.partition = p
           /\ one.gaps[1][1] <= o
           /\ o <= one.gaps[1][2] \/ one.gaps[1][2] = -1
      [] type = "time-range" -> DOMAIN rs # {} /\ one.partition \in {p, -1}
-----------------------------------------------------------------------------
\* The upstream topic, while the job runs; what happens to it later does not matter.

Change(old, new) ==
    /\ pc \in {"start", "run"}
    /\ MapThenSumSet(LAMBDA p : old[p] + new[p] - NrOffsets, Partitions) <= MaxChanges
    /\ oldest' = old
    /\ newest' = new

\* A record, or a transaction marker that takes an offset.  Its timestamp may lie
\* before the end of the configured interval, which is the start of the job if it
\* is not configured, or after it.
Produce(p) ==
    /\ newest[p] < MaxOffset
    /\ Change(oldest, [newest EXCEPT ![p] = @ + 1])
    /\ \/ \E t \in BOOLEAN :
             log' = [log EXCEPT ![p] = @ \cup {[offset |-> newest[p], inTime |-> t]}]
       \/ UNCHANGED log
    /\ UNCHANGED <<jobVars, reader, limiter, wireVars, cut>>

\* Retention deletes the oldest records.
Expire(p) ==
    /\ \E o \in oldest[p] + 1 .. newest[p] :
          /\ Change([oldest EXCEPT ![p] = o], newest)
          /\ log' = [log EXCEPT ![p] = {r \in @ : r.offset >= o}]
    /\ UNCHANGED <<jobVars, reader, limiter, wireVars, cut>>
-----------------------------------------------------------------------------
\* The job.

\* Every selected partition has to exist upstream: -1 ends the process, a
\* negative one or one that cannot be looked up is fatal.
Mapped(I) == \A i \in I : ToUpstream(config.results[i].partition, config) \in Partitions

\* runResend up to the start of the readers.  LastOffset is the newest offset.
StartReaders ==
    LET kept == Selected(config)
        rs == config.results
    IN /\ pc = "start"
       /\ Mapped(kept)
       /\ pc' = "run"
       /\ results' = [i \in kept |-> [partition |-> rs[i].partition, gaps |-> rs[i].gaps,
                                      lastOffset |-> newest[ToUpstream(rs[i].partition, config)]]]
       /\ reader' = [i \in Readers |->
                       IF i \in kept THEN [IdleReader EXCEPT !.stage = "lookup"] ELSE IdleReader]
       /\ UNCHANGED <<topicVars, config, cancelled, limiter, wireVars, cut>>

\* A partition that does not map, or a lookup that fails: Fatalf.
StartFails ==
    /\ pc = "start"
    /\ Selected(config) # {}
    /\ pc' = "failed"
    /\ UNCHANGED <<topicVars, config, cancelled, results, reader, limiter, wireVars, cut>>

Sigterm ==
    /\ pc \in {"start", "run"}
    /\ ~cancelled
    /\ cancelled' = TRUE
    /\ UNCHANGED <<topicVars, config, pc, results, reader, limiter, wireVars, cut>>

\* wg.Wait returns and done is closed.
Finish ==
    /\ pc = "run"
    /\ \A i \in Readers : reader[i].stage \in {"none", "done"}
    /\ pc' = "done"
    /\ UNCHANGED <<topicVars, config, cancelled, results, reader, limiter, wireVars, cut>>
-----------------------------------------------------------------------------
\* A reader: ReadToEndPartition, with kafkaHandler as its callback.

Upstream(i) == ToUpstream(results[i].partition, config)

Leave(i, early) ==
    /\ reader' = [reader EXCEPT ![i].stage = "done", ![i].armed = FALSE]
    /\ cut' = IF early THEN cut \cup {i} ELSE cut

Unread(i) == {r \in log[Upstream(i)] : r.offset >= reader[i].position}

\* The connection and the two lookups.  A lookup that fails gives -1 and its error
\* is not looked at; a connection that fails ends the reader in the same way.  What
\* lies before the first offset that is asked for is not read.
Lookup(i) ==
    LET from == StartOffset(config.type, results[i]) IN
    /\ reader[i].stage = "lookup"
    /\ ~cancelled
    /\ \E n \in {newest[Upstream(i)], -1} : \E o \in {oldest[Upstream(i)], -1} :
          LET start == IF from < o THEN o ELSE from IN
          IF start >= n
          THEN Leave(i, n = -1)
          ELSE /\ reader' = [reader EXCEPT ![i] =
                               [stage |-> "consume", start |-> start, position |-> start,
                                final |-> n - 1, armed |-> FALSE]]
               /\ UNCHANGED cut
    /\ UNCHANGED <<topicVars, jobVars, limiter, wireVars>>

\* ConsumePartition.  The offset may have expired since it was looked up.  An
\* error is returned and not looked at.
Consume(i) ==
    /\ reader[i].stage = "consume"
    /\ \/ /\ reader[i].position >= oldest[Upstream(i)]
          /\ reader' = [reader EXCEPT ![i].stage = "read"]
          /\ UNCHANGED cut
       \/ Leave(i, TRUE)
    /\ UNCHANGED <<topicVars, jobVars, limiter, wireVars>>

\* The callback has returned, for the record before position; its result is not
\* looked at.
Return(i, r) ==
    IF r.position - 1 >= r.final
    THEN reader' = [reader EXCEPT ![i] = [r EXCEPT !.stage = "done", !.armed = FALSE]]
    ELSE reader' = [reader EXCEPT ![i] = [r EXCEPT !.stage = "read"]]

\* Mutant: a message does not start the timer.
MutantRestartTimer(r) == r

RestartTimer(r) == [r EXCEPT !.armed = TRUE]

\* A message starts the stall timer again.  One that lies outside the interval of
\* time or that the filter does not select is not sent.  A topic name with an
\* underscore makes an id of four parts, which no filter selects.
Deliver(i) ==
    /\ reader[i].stage = "read"
    /\ \E r \in Unread(i) :
          LET next == [RestartTimer(reader[i]) EXCEPT !.position = r.offset + 1] IN
          /\ \A q \in Unread(i) : r.offset <= q.offset
          /\ IF /\ r.inTime
                /\ config.plain
                /\ Filter(config.type, results, ToDownstream(Upstream(i), config), r.offset)
             THEN reader' = [reader EXCEPT ![i] = [next EXCEPT !.stage = "limit"]]
             ELSE Return(i, next)
    /\ UNCHANGED <<topicVars, jobVars, limiter, wireVars, cut>>

\* The limiter: no wait is due, or the reader waits and keeps the lock.
PassLimiter(i) ==
    /\ reader[i].stage = "limit"
    /\ limiter = 0
    /\ reader' = [reader EXCEPT ![i].stage = "send"]
    /\ UNCHANGED <<topicVars, jobVars, limiter, wireVars, cut>>

BeginWait(i) ==
    /\ reader[i].stage = "limit"
    /\ limiter = 0
    /\ limiter' = i
    /\ reader' = [reader EXCEPT ![i].stage = "wait"]
    /\ UNCHANGED <<topicVars, jobVars, wireVars, cut>>

EndWait(i) ==
    /\ reader[i].stage = "wait"
    /\ limiter' = 0
    /\ reader' = [reader EXCEPT ![i].stage = "send"]
    /\ UNCHANGED <<topicVars, jobVars, wireVars, cut>>

Unlock == limiter' = 0

\* ctx.Done while waiting: the message is not sent.
CancelWait(i) ==
    /\ reader[i].stage = "wait"
    /\ cancelled
    /\ Unlock
    /\ Return(i, reader[i])
    /\ cut' = cut \cup {i}
    /\ UNCHANGED <<topicVars, jobVars, wireVars>>

\* SendMessages, under the id that upstream used.  An error is logged, and the
\* reader goes on.
Send(i) ==
    LET message == [partition |-> ToDownstream(Upstream(i), config),
                    offset |-> reader[i].position - 1,
                    source |-> Upstream(i)]
    IN /\ reader[i].stage = "send"
       /\ Return(i, reader[i])
       /\ \/ sent' = sent (+) SetToBag({message}) /\ UNCHANGED lost
          \/ lost' = lost \cup {message} /\ UNCHANGED sent
       /\ UNCHANGED <<topicVars, jobVars, limiter, cut>>

\* Nothing for stallTimeout: nothing is left, the broker is slow, or the callback
\* took that long and the select prefers the timer to the next message.
Stall(i) ==
    /\ reader[i].stage = "read"
    /\ reader[i].armed
    /\ Leave(i, Unread(i) # {})
    /\ UNCHANGED <<topicVars, jobVars, limiter, wireVars>>

\* The next offset has expired: sarama closes the channel.
Closed(i) ==
    /\ reader[i].stage = "read"
    /\ reader[i].position < oldest[Upstream(i)]
    /\ Leave(i, TRUE)
    /\ UNCHANGED <<topicVars, jobVars, limiter, wireVars>>

\* ctx.Done before the lookups or between two messages.
Cancel(i) ==
    /\ reader[i].stage \in {"lookup", "read"}
    /\ cancelled
    /\ Leave(i, TRUE)
    /\ UNCHANGED <<topicVars, jobVars, limiter, wireVars>>
-----------------------------------------------------------------------------
\* The configuration: start and stop are partitionStartValue and -StopValue, plain
\* says that the topic's name has no underscore, type and results are the bundle's.
JobInit ==
    /\ log \in Logs
    /\ oldest = [p \in Partitions |-> 0]
    /\ newest = [p \in Partitions |-> NrOffsets]
    /\ config \in Configs
    /\ pc = "start"
    /\ cancelled = FALSE
    /\ results = <<>>
    /\ reader = [i \in Readers |-> IdleReader]
    /\ limiter = 0
    /\ sent = EmptyBag
    /\ lost = {}
    /\ cut = {}

Read(i) ==
    \/ Lookup(i) \/ Consume(i) \/ Deliver(i) \/ PassLimiter(i) \/ BeginWait(i) \/ EndWait(i)
    \/ CancelWait(i) \/ Send(i) \/ Stall(i) \/ Closed(i) \/ Cancel(i)

JobNext ==
    \/ \E p \in Partitions : Produce(p) \/ Expire(p)
    \/ StartReaders \/ StartFails \/ Sigterm \/ Finish
    \/ \E i \in Readers : Read(i)

JobSpec == JobInit /\ [][JobNext]_resendVars

Work == StartReaders \/ StartFails \/ Finish \/ \E i \in Readers : Read(i)

\* Some goroutine of the job takes a step as long as one can: the broker answers
\* and delivers, a timer fires, and a lock that is free is taken.
FairSpec == JobSpec /\ WF_resendVars(Work)
-----------------------------------------------------------------------------
\* The types of the variables; the limiter is held by the reader that waits.
JobTypeOK ==
    /\ log \in [Partitions -> SUBSET Records]
    /\ \A p \in Partitions : /\ oldest[p] \in 0 .. newest[p]
                             /\ newest[p] \in 0 .. MaxOffset
                             /\ \A r \in log[p] : r.offset \in oldest[p] .. newest[p] - 1
    /\ config \in Configs
    /\ pc \in {"start", "run", "done", "failed"}
    /\ cancelled \in BOOLEAN
    /\ DOMAIN results \subseteq Readers
    /\ \A i \in DOMAIN results : Upstream(i) \in Partitions
    /\ \A i \in Readers :
          /\ reader[i].stage \in {"none", "lookup", "consume", "read", "limit", "wait",
                                  "send", "done"}
          /\ (reader[i].stage = "none") = (i \notin DOMAIN results)
          /\ reader[i].stage \in {"limit", "wait", "send"} =>
                reader[i].position \in 1 .. newest[Upstream(i)]
          /\ reader[i].armed => reader[i].stage \in {"read", "limit", "wait", "send"}
          /\ (reader[i].stage = "wait") = (limiter = i)
    /\ limiter \in {0} \cup Readers
    /\ IsABag(sent)
    /\ cut \subseteq Readers

\* What the operator asked for, of the partitions of this cluster: the ranges of
\* the bundle, or everything from the first of them.
Requested(p, o) ==
    \E i \in DOMAIN config.results :
        LET r == config.results[i]
            low(g) == g[1]
            high(g) == g[Len(g)]
            gaps == {r.gaps[j] : j \in DOMAIN r.gaps} \ {<<>>}
        IN /\ r.partition = p
           /\ config.stop = 0 \/ p \in config.start .. config.start + config.stop - 1
           /\ CASE config.type = "all" -> \E g \in gaps : low(g) <= o /\ o <= high(g)
                [] config.type = "first" -> \E g \in gaps : low(g) <= o
                [] config.type = "manual" ->
                     \E g \in gaps : low(g) <= o /\ (high(g) = -1 \/ o <= high(g))
                [] config.type = "time-range" -> TRUE

\* Only what was asked for is sent, each message once, and under its id goes the
\* record that upstream sent under it: that of the partition with the shift taken
\* off.  A bundle for several clusters reaches records of this one only
\* (filterJsonFilterByPartitionRange, filter, the mapping of partitions, the
\* limits of ReadToEndPartition).
OnlyRequestedSent ==
    \A m \in BagToSet(sent) :
        /\ Requested(m.partition, m.offset)
        /\ m.partition = m.source + config.start
        /\ sent[m] = 1

\* A job that ends has sent every record that was asked for, was there when it
\* began and is still there, although it starts at the first gap, ends on an
\* offset that was looked up before, and shares the limiter (getStartOffsetForResult,
\* ReadToEndPartition, kafkaHandler).  Not so if the network refused the message or
\* the reader was cut short.
AllRequestedSent ==
    pc = "done" /\ config.plain =>
        \A i \in DOMAIN results \ cut : \A r \in log[Upstream(i)] :
            LET m == [partition |-> results[i].partition, offset |-> r.offset,
                      source |-> Upstream(i)]
            IN r.inTime /\ r.offset < results[i].lastOffset
               /\ Requested(m.partition, r.offset) => m \in BagToSet(sent) \cup lost

\* Only markers are left where the reader begins.
NothingToRead(i) ==
    reader[i].stage = "read" /\ reader[i].position = reader[i].start /\ Unread(i) = {}

\* The job terminates, whatever is written or expires meanwhile (the stall timer
\* and expectedFinalOffset of ReadToEndPartition, wg.Wait), unless a reader never
\* finds anything but markers; SIGTERM ends it also then, and while readers wait
\* for the limiter (cancelRun, ctx.Done in ReadToEndPartition and kafkaHandler).
JobEnds ==
    []<>(\/ pc \in {"done", "failed"}
         \/ ~cancelled /\ \E i \in Readers : NothingToRead(i))
=============================================================================
