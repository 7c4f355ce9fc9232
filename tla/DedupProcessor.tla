--------------------------- MODULE DedupProcessor ---------------------------
(***************************************************************************)
(* One partition of the deduplicator: DedupAndGapProcessor of              *)
(* PartitionDedupApp.java driving a GapDetector, inside the Kafka Streams   *)
(* exactly-once transaction it runs in.                                     *)
(*                                                                         *)
(* The processor reads the raw (transfer) topic, forwards every offset it   *)
(* has not seen to the clean topic, and keeps the compacted gap topic up to *)
(* date: one record per tracked window, a tombstone when a window is        *)
(* purged.  The detector lives in memory; it reaches the state store only   *)
(* when the persist punctuation runs, and the store, both output topics and *)
(* the input position become durable together, when Streams commits.        *)
(*                                                                         *)
(* A window is named by its first offset.  The bitmaps of the windows are   *)
(* kept as one set, `marked', of absolute offsets: windows are aligned and  *)
(* pairwise disjoint, so a window's bitmap is the part of `marked' inside   *)
(* it.  The detector's lastReceived only tells return code 0 from -1, and   *)
(* process() forwards in both cases, so it is left out.                     *)
(***************************************************************************)
EXTENDS Naturals, Sequences, FiniteSets

CONSTANTS WindowSize,   \* WINDOW_SIZE: offsets per window
          MaxWindows,   \* MAX_WINDOWS: windows kept before the oldest is purged
          Records,      \* what downstream may write: [off, empty]
          MaxRaw,       \* bound: records written to the raw topic
          MaxRestarts   \* bound: crashes, rebalances and thread replacements

ASSUME DedupAssumption ==
    /\ WindowSize \in Nat \ {0}
    /\ MaxWindows \in Nat \ {0}
    /\ Records \subseteq [off : Nat, empty : BOOLEAN]
    /\ MaxRaw \in Nat
    /\ MaxRestarts \in Nat

VARIABLES raw,        \* the raw topic, in the order the records were written
          pos,        \* records of raw consumed by the running task
          det,        \* the GapDetector in memory
          cleared,    \* windows whose lastEmittedNonEmpty is false (transient)
          restored,   \* restoredLegacyGapKeys, by window
          store,      \* the detector in the state store
          clean,      \* copies of each offset written to the clean topic
          gapTopic,   \* live gap records: window -> missing relative positions
          legacy,     \* windows with a live record under the legacy key
          committed,  \* what the last committed transaction made durable
          amnesia,    \* a restart forgot windows that a commit already covered
          restarts

vars == <<raw, pos, det, cleared, restored, store, clean, gapTopic, legacy,
          committed, amnesia, restarts>>

Offsets == {r.off : r \in Records}
-----------------------------------------------------------------------------
\* The GapDetector.

EmptyDetector ==
    [windows |-> <<>>, marked |-> {}, minReceived |-> 0, maxWindows |-> MaxWindows]

WindowStart(n) == n - (n % WindowSize)

contains(w, n) == w <= n /\ n <= w + WindowSize - 1

Tracked(d) == {d.windows[i] : i \in DOMAIN d.windows}

findWindow(d, n) == {w \in Tracked(d) : contains(w, n)}

BelowRange(d, n) == d.windows # <<>> /\ n < Head(d.windows)

\* Mutant: the first offset of the tail counts as a gap.
MutantFindGaps(d, w) ==
    {g \in 0 .. WindowSize - 1 :
        /\ w + g \notin d.marked
        /\ w + g >= d.minReceived
        /\ \E v \in d.marked : contains(w, v) /\ w + g <= v + 1}

\* The offsets of window w missing before one that was received; the tail of
\* the window, after its highest received offset, never is.
findGapsFiltered(d, w) ==
    {g \in 0 .. WindowSize - 1 :
        /\ w + g \notin d.marked
        /\ w + g >= d.minReceived
        /\ \E v \in d.marked : contains(w, v) /\ w + g < v}

removeFirst(d) ==
    [d EXCEPT !.windows = Tail(@),
              !.marked  = {o \in @ : ~contains(Head(d.windows), o)}]

IsFullDetector(d) == Len(d.windows) >= d.maxWindows

\* Mutant: the newest window makes room instead of the first.
MutantPurgeNewest(d) ==
    IF ~IsFullDetector(d) THEN d ELSE
        [d EXCEPT !.windows = SubSeq(@, 1, Len(@) - 1),
                  !.marked  = {o \in @ : ~contains(d.windows[Len(d.windows)], o)}]

PurgeIfFull(d) == IF IsFullDetector(d) THEN removeFirst(d) ELSE d

\* Mutant: minReceived follows every new offset, not only lower ones.
MutantMarkReceived(d, n) ==
    [d EXCEPT !.marked = @ \cup {n},
              !.minReceived = IF n \notin d.marked THEN n ELSE @]

markReceived(d, n) ==
    [d EXCEPT !.marked = @ \cup {n},
              !.minReceived = IF n \notin d.marked /\ n < @ THEN n ELSE @]

AddWindow(d, n) ==
    markReceived([d EXCEPT !.windows = Append(@, WindowStart(n))], n)
-----------------------------------------------------------------------------
\* The processor's outputs.

Deliver(r) ==
    clean' = IF r.empty THEN clean ELSE [clean EXCEPT ![r.off] = @ + 1]

\* Mutant: the record of a purged window is not deleted.
MutantNoTombstone(purged) ==
    /\ legacy' = legacy \ (purged \cap restored)
    /\ restored' = restored \ purged
    /\ cleared' = cleared \ purged
    /\ UNCHANGED gapTopic

\* Mutant: only the current key is deleted.
MutantNoLegacyTombstone(purged) ==
    /\ gapTopic' = [w \in DOMAIN gapTopic \ purged |-> gapTopic[w]]
    /\ restored' = restored \ purged
    /\ cleared' = cleared \ purged
    /\ UNCHANGED legacy

\* onPurge: one tombstone under the window's key and, once, one under the
\* legacy key of a window restored from the store.
Tombstone(purged) ==
    /\ gapTopic' = [w \in DOMAIN gapTopic \ purged |-> gapTopic[w]]
    /\ legacy' = legacy \ (purged \cap restored)
    /\ restored' = restored \ purged
    /\ cleared' = cleared \ purged

NoTombstone == UNCHANGED <<gapTopic, legacy, restored, cleared>>

Consume == pos < Len(raw) /\ pos' = pos + 1

Incoming == raw[pos + 1]

ProcessFrame == UNCHANGED <<raw, store, committed, amnesia, restarts>>

\* check() returned 1: the bit was set already, nothing is forwarded.
ProcessDuplicate ==
    /\ Consume
    /\ findWindow(det, Incoming.off) # {}
    /\ Incoming.off \in det.marked
    /\ UNCHANGED <<det, clean>> /\ NoTombstone /\ ProcessFrame

\* check() returned 0 or -1 for an offset of a tracked window.
ProcessInWindow ==
    /\ Consume
    /\ findWindow(det, Incoming.off) # {}
    /\ Incoming.off \notin det.marked
    /\ det' = markReceived(det, Incoming.off)
    /\ Deliver(Incoming) /\ NoTombstone /\ ProcessFrame

\* check() returned -2: forwarded, nothing is marked.
ProcessBelowRange ==
    /\ Consume
    /\ findWindow(det, Incoming.off) = {}
    /\ BelowRange(det, Incoming.off)
    /\ UNCHANGED det
    /\ Deliver(Incoming) /\ NoTombstone /\ ProcessFrame

\* check() appended a window, after purging the first one if it was full.
ProcessNewWindow ==
    /\ Consume
    /\ findWindow(det, Incoming.off) = {}
    /\ ~BelowRange(det, Incoming.off)
    /\ det' = AddWindow(PurgeIfFull(det), Incoming.off)
    /\ Tombstone(Tracked(det) \ Tracked(PurgeIfFull(det)))
    /\ Deliver(Incoming) /\ ProcessFrame

\* Allocating the new window failed: maxWindows shrinks to the windows that are
\* left and check() is tried again, which purges one more window or finds the
\* offset below the range.  With no window left the retry throws, and the task
\* is replaced: that is Restart.
OutOfMemoryDetector ==
    LET d == PurgeIfFull(det) IN [d EXCEPT !.maxWindows = Len(d.windows)]

ProcessOutOfMemory ==
    /\ Consume
    /\ findWindow(det, Incoming.off) = {}
    /\ ~BelowRange(det, Incoming.off)
    /\ OutOfMemoryDetector.windows # <<>>
    /\ det' = IF BelowRange(OutOfMemoryDetector, Incoming.off)
              THEN OutOfMemoryDetector
              ELSE AddWindow(removeFirst(OutOfMemoryDetector), Incoming.off)
    /\ Tombstone(Tracked(det) \ Tracked(det'))
    /\ Deliver(Incoming) /\ ProcessFrame
-----------------------------------------------------------------------------
\* Punctuations, the commit and the restart.

\* emitGapsForPartition: a window is written while it has gaps, and once more
\* after they are gone.
EmitGaps ==
    LET gaps(w) == findGapsFiltered(det, w)
        written == {w \in Tracked(det) : gaps(w) # {} \/ w \notin cleared}
    IN  /\ written # {}
        /\ gapTopic' = [w \in DOMAIN gapTopic \cup written |->
                            IF w \in written THEN gaps(w) ELSE gapTopic[w]]
        /\ cleared' = {w \in Tracked(det) : gaps(w) = {}}
        /\ UNCHANGED <<raw, pos, det, restored, store, clean, legacy,
                       committed, amnesia, restarts>>

Persist ==
    /\ store # det
    /\ store' = det
    /\ UNCHANGED <<raw, pos, det, cleared, restored, clean, gapTopic, legacy,
                   committed, amnesia, restarts>>

\* What a commit makes durable.  The field det is not written anywhere: it
\* remembers the detector at the commit, for comparison with the store.
Snapshot == [pos |-> pos, store |-> store, det |-> det, clean |-> clean,
             gapTopic |-> gapTopic, legacy |-> legacy]

Commit ==
    /\ committed # Snapshot
    /\ committed' = Snapshot
    /\ UNCHANGED <<raw, pos, det, cleared, restored, store, clean, gapTopic,
                   legacy, amnesia, restarts>>

\* Mutant: the processor keeps its detector across the restart.
MutantRestart ==
    /\ restarts < MaxRestarts
    /\ restarts' = restarts + 1
    /\ pos' = committed.pos
    /\ store' = committed.store
    /\ clean' = committed.clean
    /\ gapTopic' = committed.gapTopic
    /\ legacy' = committed.legacy
    /\ cleared' = {}
    /\ restored' = Tracked(committed.store)
    /\ amnesia' = (amnesia \/ committed.store # committed.det)
    /\ UNCHANGED <<raw, det, committed>>

\* The open transaction is aborted and init() loads the detector again, with
\* its transient flags at their defaults.  close() does not persist, so a
\* rebalance or a clean stop is a Commit followed by this step.
Restart ==
    /\ restarts < MaxRestarts
    /\ restarts' = restarts + 1
    /\ pos' = committed.pos
    /\ det' = committed.store
    /\ store' = committed.store
    /\ clean' = committed.clean
    /\ gapTopic' = committed.gapTopic
    /\ legacy' = committed.legacy
    /\ cleared' = {}
    /\ restored' = Tracked(committed.store)
    /\ amnesia' = (amnesia \/ committed.store # committed.det)
    /\ UNCHANGED <<raw, committed>>

\* Downstream writes one more record to the raw topic.
Produce ==
    /\ Len(raw) < MaxRaw
    /\ \E r \in Records : raw' = Append(raw, r)
    /\ UNCHANGED <<pos, det, cleared, restored, store, clean, gapTopic, legacy,
                   committed, amnesia, restarts>>
-----------------------------------------------------------------------------
\* A fresh deployment, or an upgrade from dedup 0.1.10 that had consumed one
\* record and written a legacy gap record for its window.
InitFresh ==
    /\ raw = <<>>
    /\ store = EmptyDetector
    /\ clean = [o \in Offsets |-> 0]
    /\ legacy = {}

InitUpgraded ==
    \E r \in Records :
        /\ raw = <<r>>
        /\ store = AddWindow(EmptyDetector, r.off)
        /\ clean = [o \in Offsets |-> IF o = r.off /\ ~r.empty THEN 1 ELSE 0]
        /\ legacy = {WindowStart(r.off)}

Init ==
    /\ InitFresh \/ InitUpgraded
    /\ pos = Len(raw)
    /\ det = store
    /\ cleared = {}
    /\ restored = Tracked(store)
    /\ gapTopic = [w \in {} |-> {}]
    /\ committed = Snapshot
    /\ amnesia = FALSE
    /\ restarts = 0

Process ==
    \/ ProcessDuplicate
    \/ ProcessInWindow
    \/ ProcessBelowRange
    \/ ProcessNewWindow
    \/ ProcessOutOfMemory

Next ==
    \/ Produce
    \/ Process
    \/ EmitGaps
    \/ Persist
    \/ Commit
    \/ Restart

Spec == Init /\ [][Next]_vars
-----------------------------------------------------------------------------
\* Properties.

DetectorType ==
    [windows : Seq(Nat), marked : SUBSET Offsets, minReceived : {0},
     maxWindows : 1 .. MaxWindows]

DetectorOK(d) == d \in DetectorType /\ Len(d.windows) <= d.maxWindows

\* Every variable has its type, and each copy of the detector (memory, state
\* store) holds at most maxWindows windows, where maxWindows shrinks after an
\* OutOfMemoryError but never to zero; its minReceived stays 0.
TypeOK ==
    /\ raw \in Seq(Records)
    /\ pos \in 0 .. Len(raw)
    /\ DetectorOK(det)
    /\ DetectorOK(store)
    /\ cleared \subseteq Nat
    /\ restored \subseteq Nat
    /\ clean \in [Offsets -> Nat]
    /\ legacy \subseteq Nat
    /\ DOMAIN gapTopic \subseteq Nat
    /\ amnesia \in BOOLEAN
    /\ restarts \in 0 .. MaxRestarts

\* What the task has consumed.
Consumed == {raw[i].off : i \in 1 .. pos}

\* Every record arrived in a window already seen, or above all windows seen:
\* no window was skipped entirely and then filled from behind.
NoLateWindow ==
    LET w(i) == WindowStart(raw[i].off)
    IN  \A i \in 1 .. pos :
            \/ \E j \in 1 .. i - 1 : w(j) = w(i)
            \/ \A j \in 1 .. i - 1 : w(j) < w(i)

\* Every record consumed is in the clean topic, whatever crashed in between,
\* unless a copy of it arrived with its payload cleared by the input filter
\* (process(): a set bit means that the offset was forwarded or was empty).
NoRecordLost ==
    \A i \in 1 .. pos :
        \/ clean[raw[i].off] > 0
        \/ \E j \in 1 .. pos : raw[j].off = raw[i].off /\ raw[j].empty

InDetectionRange(o) == det.windows # <<>> /\ Head(det.windows) <= o

\* As long as no restart forgot committed windows and no skipped window is
\* filled late, an offset at or above the first window is never forwarded
\* twice, restarts included.
AtMostOnceInRange ==
    ~amnesia /\ NoLateWindow =>
        \A o \in Offsets : InDetectionRange(o) => clean[o] <= 1

\* The gap topic has live records for tracked windows only, so at most
\* MAX_WINDOWS of them (onPurge writes the tombstones), unless a restart forgot
\* committed windows.
GapTopicBounded ==
    ~amnesia => DOMAIN gapTopic \subseteq Tracked(det)

\* A legacy gap record outlives its window in no case: the purge of a window
\* restored from the store also tombstones the legacy key.
LegacyRecordsTracked ==
    legacy \subseteq Tracked(det) \cap restored

\* What emitGapsForPartition writes for a tracked window is exactly what the raw
\* topic says: the offsets that never arrived, below one that did, although the
\* detector works on bitmaps that restarts rolled back and replayed.
EmitReportsTheGaps ==
    [][EmitGaps /\ ~amnesia /\ NoLateWindow =>
        \A w \in Tracked(det) :
            gapTopic'[w] = {g \in 0 .. WindowSize - 1 :
                               /\ w + g \notin Consumed
                               /\ \E v \in Consumed : contains(w, v) /\ w + g < v}]_vars
=============================================================================
