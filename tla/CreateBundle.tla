---------------------------- MODULE CreateBundle ----------------------------
(***************************************************************************)
(* create: one pass over the gap topic (ReadToEnd) that keeps the latest    *)
(* record of each key and writes the missing offsets to a resend bundle,    *)
(* while the deduplicator goes on writing to the topic and Kafka compacts   *)
(* it.                                                                      *)
(*                                                                         *)
(* The gap topic is compacted.  A key is a window and a format: "binary",   *)
(* or "legacy" for what dedup 0.1.10 and earlier wrote; the two keys of a   *)
(* window may be in different partitions.  A value is the set of missing    *)
(* positions relative to the window, or a tombstone.  The deduplicator      *)
(* writes in transactions, so each partition also holds markers, which take *)
(* an offset and are never delivered.  The windows are those of one source  *)
(* partition, and are named by their first offset, windowMin.               *)
(***************************************************************************)
EXTENDS Integers, Sequences, FiniteSets, SequencesExt

CONSTANTS Windows,         \* windowMin of the windows
          GapWindowSize,
          Values,          \* sets of missing positions that are written
          NrPartitions,    \* of the gap topic
          Place,           \* [Keys -> Partitions]
          Limits,          \* of the configuration: "all", "first"
          MaxOffset        \* bound: records and markers in a partition

Kinds == {"binary", "legacy"}
Keys == Kinds \X Windows
Partitions == 1 .. NrPartitions

ASSUME CreateAssumption ==
    /\ Windows \subseteq Nat /\ IsFiniteSet(Windows)
    /\ GapWindowSize \in Nat \ {0}
    /\ Values \subseteq SUBSET (0 .. GapWindowSize - 1)
    /\ NrPartitions \in Nat \ {0}
    /\ Place \in [Keys -> Partitions]
    /\ Limits \subseteq {"all", "first"}
    /\ MaxOffset \in Nat

\* What is known of a window: nothing, that it was deleted, or its gaps.
Entry(tag, gaps) == [tag |-> tag, gaps |-> gaps]
None == Entry("none", {})
Deleted == Entry("tombstone", {})
Gaps(s) == Entry("gaps", s)
Entries == {None, Deleted} \cup {Gaps(s) : s \in Values}

VARIABLES
    log,        \* per partition: the records that are still there, [offset, key, entry]
    next,       \* per partition: the newest offset (that of the next record)
    tracked,    \* restoredLegacyGapKeys of the deduplicator
    pc,         \* of create: "idle", "open", "read", "write", "done", "failed"
    partition,  \* that create reads, or opens next
    position,   \* offset of the next record that its consumer fetches
    final,      \* expectedFinalOffset
    armed,      \* the stall timer runs
    state,      \* gapState: per key the latest entry
    bundle,     \* written: [gaps, windowMax, limit]
    cut,        \* a partition was skipped or left before its end (history)
    held,       \* per window: what the topic said of it since create began (history)
    reported    \* per window: what create makes of it (history)

createVars == <<log, next, tracked, pc, partition, position, final, armed, state, bundle,
                cut, held, reported>>

topicVars == <<log, next, tracked>>
readVars == <<partition, position, final, armed, state>>
resultVars == <<bundle, reported>>

NoBundle == [gaps |-> <<>>, windowMax |-> -1, limit |-> "all"]
-----------------------------------------------------------------------------
\* The gap topic.

Latest(l, k) ==
    LET records == {r \in l[Place[k]] : r.key = k} IN
    IF records = {} THEN None
    ELSE (CHOOSE r \in records : \A q \in records : q.offset <= r.offset).entry

\* windows(): a binary record or tombstone takes precedence over a legacy one.
Live(binary, legacy) ==
    LET e == IF binary # None THEN binary ELSE legacy IN
    IF e.tag = "gaps" THEN e ELSE None

\* What the topic says of a window: the last record of its current key, or else
\* that of its legacy key.
OnTopic(l, w) ==
    LET binary == Latest(l, <<"binary", w>>)
        legacy == Latest(l, <<"legacy", w>>)
    IN IF binary.tag = "gaps" \/ (binary = None /\ legacy.tag = "gaps")
       THEN IF binary = None THEN legacy ELSE binary
       ELSE None

\* Every write to the topic while create reads it is recorded in held; what comes
\* later does not matter to this run of create.
Write(l, n) ==
    /\ pc \in {"idle", "open", "read"}
    /\ \A p \in Partitions : n[p] <= MaxOffset
    /\ log' = l
    /\ next' = n
    /\ held' = [w \in Windows |->
                  IF pc = "idle" THEN {} ELSE held[w] \cup {OnTopic(l, w)}]
    /\ UNCHANGED <<pc, readVars, resultVars, cut>>

Put(l, n, k, e) ==
    [l EXCEPT ![Place[k]] = @ \cup {[offset |-> n[Place[k]], key |-> k, entry |-> e]}]
Taken(n, k) == [n EXCEPT ![Place[k]] = @ + 1]

\* The gaps of an active window are written under its current key.
Emit(w, s) ==
    LET k == <<"binary", w>> IN
    /\ Write(Put(log, next, k, Gaps(s)), Taken(next, k))
    /\ UNCHANGED tracked

\* A window leaves the detection range: tombstoneKeysForPurgedWindow.
Purge(w) ==
    LET b == <<"binary", w>>
        g == <<"legacy", w>>
        l == Put(log, next, b, Deleted)
        n == Taken(next, b)
    IN /\ IF g \in tracked
          THEN Write(Put(l, n, g, Deleted), Taken(n, g))
          ELSE Write(l, n)
       /\ tracked' = tracked \ {g}

\* The end of a transaction: a marker takes an offset.
WriteMarker(p) ==
    /\ \E r \in log[p] : r.offset = next[p] - 1
    /\ Write(log, [next EXCEPT ![p] = @ + 1])
    /\ UNCHANGED tracked

\* Compaction removes a record that a later one of its key supersedes.  The
\* active segment is not cleaned: what was written since create opened the
\* partition supersedes nothing yet.
Compact(p) ==
    \E r \in log[p] :
        /\ \E q \in log[p] : /\ q.key = r.key
                             /\ q.offset > r.offset
                             /\ pc = "read" /\ p = partition => q.offset <= final
        /\ Write([log EXCEPT ![p] = @ \ {r}], next)
        /\ UNCHANGED tracked

\* A tombstone is removed, unless it is the last record: longer after it was
\* written than create runs.
ExpireTombstone(p) ==
    /\ pc = "idle"
    /\ \E r \in log[p] :
          /\ r.entry = Deleted
          /\ r.offset < next[p] - 1
          /\ Write([log EXCEPT ![p] = @ \ {r}], next)
          /\ UNCHANGED tracked
-----------------------------------------------------------------------------
\* create: ReadToEnd.

StartCreate ==
    /\ pc = "idle"
    /\ pc' = "open"
    /\ partition' = 1
    /\ held' = [w \in Windows |-> {OnTopic(log, w)}]
    /\ UNCHANGED <<topicVars, position, final, armed, state, resultVars, cut>>

\* Control continues with the next partition, or leaves ReadToEnd.
NextPartition ==
    /\ partition' = partition + 1
    /\ pc' = IF partition < NrPartitions THEN "open" ELSE "write"
    /\ position' = 0 /\ final' = -1 /\ armed' = FALSE

ExpectedFinalOffset == next[partition] - 1

\* A partition is read up to the newest offset of the moment; an empty one is
\* skipped.  The stall timer is stopped until the first message arrives.
OpenPartition ==
    /\ pc = "open"
    /\ IF next[partition] = 0
       THEN NextPartition
       ELSE /\ pc' = "read"
            /\ position' = 0
            /\ final' = ExpectedFinalOffset
            /\ UNCHANGED <<partition, armed>>
    /\ UNCHANGED <<topicVars, state, resultVars, cut, held>>

\* GetOffset fails and returns -1; its error is overwritten, and the partition
\* looks empty.
LookupFailure ==
    /\ pc = "open"
    /\ NextPartition
    /\ cut' = TRUE
    /\ UNCHANGED <<topicVars, state, resultVars, held>>

\* ConsumePartition fails, and Main ends with Fatalf: no bundle.
ReadFails ==
    /\ pc = "open"
    /\ pc' = "failed"
    /\ UNCHANGED <<topicVars, readVars, resultVars, cut, held>>

\* Mutant: a tombstone deletes the entry of its key.
MutantApply(s, r) ==
    [s EXCEPT ![r.key] = IF r.entry = Deleted THEN None ELSE r.entry]

\* apply: the latest record of each key, a tombstone included.
Apply(s, r) == [s EXCEPT ![r.key] = r.entry]

Unread == {r \in log[partition] : r.offset >= position}

\* Mutant: a message does not start the timer again.
MutantAfterMessage(offset) ==
    IF offset >= final
    THEN NextPartition
    ELSE position' = offset + 1 /\ UNCHANGED <<pc, partition, final, armed>>

\* The stall timer starts again; the last expected offset, or one after it, ends
\* the partition.
AfterMessage(offset) ==
    IF offset >= final
    THEN NextPartition
    ELSE position' = offset + 1 /\ armed' = TRUE /\ UNCHANGED <<pc, partition, final>>

DeliverRecord ==
    /\ pc = "read"
    /\ \E r \in Unread :
          /\ \A q \in Unread : r.offset <= q.offset
          /\ state' = Apply(state, r)
          /\ AfterMessage(r.offset)
    /\ UNCHANGED <<topicVars, resultVars, cut, held>>

\* Nothing for stallTimeout, because nothing is left or because the broker is slow:
\* the partition is assumed to be done.
Stall ==
    /\ pc = "read"
    /\ armed
    /\ NextPartition
    /\ cut' = (cut \/ Unread # {})
    /\ UNCHANGED <<topicVars, state, resultVars, held>>

\* SIGTERM cancels the context; ReadToEnd sees it and returns its error, and Main
\* goes on to write what was read so far.
Terminate ==
    /\ pc \in {"open", "read"}
    /\ pc' = "write"
    /\ position' = 0 /\ final' = -1 /\ armed' = FALSE
    /\ cut' = TRUE
    /\ UNCHANGED <<topicVars, partition, state, resultVars, held>>
-----------------------------------------------------------------------------
\* create: the bundle.

\* Mutant: the range that is open at the end is forgotten.
MutantBitmapToRanges(s) ==
    LET extend(ranges, v) ==
            IF ranges # <<>> /\ Last(ranges)[2] + 1 = v
            THEN [ranges EXCEPT ![Len(ranges)][2] = v]
            ELSE Append(ranges, <<v, v>>)
        all == FoldLeft(extend, <<>>, SetToSortSeq(s, <))
    IN IF all = <<>> THEN all ELSE Front(all)

\* bitmapToRanges: ascending ranges of consecutive positions.
BitmapToRanges(s) ==
    LET extend(ranges, v) ==
            IF ranges # <<>> /\ Last(ranges)[2] + 1 = v
            THEN [ranges EXCEPT ![Len(ranges)][2] = v]
            ELSE Append(ranges, <<v, v>>)
    IN FoldLeft(extend, <<>>, SetToSortSeq(s, <))

LiveWindows(s) ==
    {w \in Windows : Live(s[<<"binary", w>>], s[<<"legacy", w>>]) # None}

Shifted(ranges, w) == [i \in DOMAIN ranges |-> <<ranges[i][1] + w, ranges[i][2] + w>>]

WindowMax(sorted) == Last(sorted) + GapWindowSize - 1

\* writeResults, for the one source partition: the windows in order, their
\* relative gaps made absolute, in "first" mode no more than the first gap.
Results(s, limit) ==
    LET sorted == SetToSortSeq(LiveWindows(s), <)
        absolute(w) ==
            Shifted(BitmapToRanges(Live(s[<<"binary", w>>], s[<<"legacy", w>>]).gaps), w)
        all == FlattenSeq([i \in DOMAIN sorted |-> absolute(sorted[i])])
    IN IF sorted = <<>> THEN NoBundle
       ELSE [gaps |-> IF limit = "first" /\ all # <<>> THEN <<Head(all)>> ELSE all,
             windowMax |-> WindowMax(sorted), limit |-> limit]

WriteResults ==
    /\ pc = "write"
    /\ \E limit \in Limits : bundle' = Results(state, limit)
    /\ reported' = [w \in Windows |-> Live(state[<<"binary", w>>], state[<<"legacy", w>>])]
    /\ pc' = "done"
    /\ UNCHANGED <<topicVars, readVars, cut, held>>
-----------------------------------------------------------------------------
\* The place of w in the order of ws, from 0.
Rank(ws, w) == Cardinality({v \in ws : v < w})

\* Before the upgrade a window has a legacy record or none; the deduplicator
\* that restored the windows tracks the legacy keys of all of them.
CreateInit ==
    /\ \E legacy \in [Windows -> {None} \cup {Gaps(s) : s \in Values}] :
          LET of(p) == {w \in Windows : legacy[w] # None /\ Place[<<"legacy", w>>] = p} IN
          /\ log = [p \in Partitions |->
                      {[offset |-> Rank(of(p), w), key |-> <<"legacy", w>>,
                        entry |-> legacy[w]] : w \in of(p)}]
          /\ next = [p \in Partitions |-> Cardinality(of(p))]
    /\ tracked = {"legacy"} \X Windows
    /\ pc = "idle" /\ partition = 0 /\ position = 0 /\ final = -1
    /\ armed = FALSE
    /\ state = [k \in Keys |-> None]
    /\ bundle = NoBundle
    /\ cut = FALSE
    /\ held = [w \in Windows |-> {}]
    /\ reported = [w \in Windows |-> None]

ReadStep == StartCreate \/ OpenPartition \/ DeliverRecord \/ Stall

CreateNext ==
    \/ \E w \in Windows : \E s \in Values : Emit(w, s)
    \/ \E w \in Windows : Purge(w)
    \/ \E p \in Partitions : WriteMarker(p) \/ Compact(p) \/ ExpireTombstone(p)
    \/ StartCreate \/ OpenPartition \/ LookupFailure \/ ReadFails \/ DeliverRecord \/ Stall
    \/ Terminate \/ WriteResults

CreateSpec == CreateInit /\ [][CreateNext]_createVars

\* create runs on: a fetched message is delivered, a timer that runs expires, and
\* what was read is written (the only step from "write").
CreateFairness == WF_createVars(ReadStep) /\ WF_pc(pc = "write" /\ pc' = "done")

FairCreateSpec == CreateSpec /\ CreateFairness
-----------------------------------------------------------------------------
Ranges == {r \in Int \X Int : r[1] <= r[2]}

\* The types of the variables; create reads a partition that exists, and an
\* entry of its state is one that some record has.
CreateTypeOK ==
    /\ \A p \in Partitions : /\ next[p] \in 0 .. MaxOffset
                             /\ \A r \in log[p] : /\ r.offset \in 0 .. next[p] - 1
                                                  /\ r.key \in Keys
                                                  /\ r.entry \in Entries \ {None}
                                                  /\ Place[r.key] = p
    /\ tracked \subseteq Keys
    /\ pc \in {"idle", "open", "read", "write", "done", "failed"}
    /\ pc \in {"open", "read"} => partition \in Partitions
    /\ pc = "read" => final \in 0 .. next[partition] - 1
    /\ position \in 0 .. MaxOffset
    /\ armed => pc = "read"
    /\ state \in [Keys -> Entries]
    /\ \A i \in DOMAIN bundle.gaps : bundle.gaps[i] \in Ranges
    /\ cut \in BOOLEAN
    /\ held \in [Windows -> SUBSET Entries]
    /\ reported \in [Windows -> Entries]

OffsetsIn(ranges) == UNION {ranges[i][1] .. ranges[i][2] : i \in DOMAIN ranges}

\* What create finds out about each window is what the gap topic said of it at
\* some time of the run, although the two keys of the window are read at
\* different times, superseded records may be compacted away meanwhile, and the
\* deduplicator may purge the window between the two reads
\* (gapState.apply, gapState.windows, ReadToEndPartition).  Not so after a SIGTERM
\* or when a partition was not read to its end.
BundleFresh ==
    pc = "done" /\ ~cut =>
        \A w \in Windows : reported[w] \in held[w]

\* The bundle names exactly the missing offsets of the windows that were found,
\* in ascending order and each once; in "first" mode it names a run of them that
\* begins with the smallest (writeResults, bitmapToRanges).
BundleExact ==
    LET missing == UNION {{w + i : i \in reported[w].gaps} : w \in Windows}
        gaps == bundle.gaps
    IN pc = "done" =>
        /\ \A i \in DOMAIN gaps : gaps[i][1] <= gaps[i][2]
        /\ \A i \in 1 .. Len(gaps) - 1 : gaps[i][2] < gaps[i + 1][1]
        /\ bundle.limit = "all" => OffsetsIn(gaps) = missing
        /\ bundle.limit = "first" =>
              /\ OffsetsIn(gaps) \subseteq missing
              /\ (gaps = <<>>) = (missing = {})
              /\ \A i \in DOMAIN gaps : \A o \in missing : gaps[i][1] <= o
        /\ \A o \in missing : o <= bundle.windowMax

\* The partition has no record that could be delivered, only markers.
NothingToRead == pc = "read" /\ position = 0 /\ Unread = {}

\* create terminates once it has begun, whatever is in the topic and whatever
\* the deduplicator writes meanwhile (ReadToEndPartition's stall timer and
\* expectedFinalOffset), unless all records of a partition have been cleaned up.
CreateFinishes ==
    [](pc = "open" => <>(pc \in {"done", "failed"} \/ []NothingToRead))
=============================================================================
