------------------------ MODULE DedupProcessorProofs ------------------------
(***************************************************************************)
(* Theorems about DedupProcessor, for every window size, number of windows  *)
(* and raw topic, and about CreateBundle, which reads the gap topic that it *)
(* writes.                                                                  *)
(***************************************************************************)
EXTENDS DedupProcessor, CreateBundle, FiniteSetTheorems, WellFoundedInduction, TLAPS

\* The window of an offset is a natural number (check(): start of the window).
LEMMA WindowStartNat ==
    ASSUME NEW n \in Nat
    PROVE  WindowStart(n) \in Nat /\ WindowStart(n) <= n
<1>1. n % WindowSize \in 0 .. WindowSize - 1
  BY DedupAssumption
<1>2. n % WindowSize <= n
  BY DedupAssumption
<1> QED BY <1>1, <1>2, DedupAssumption DEF WindowStart

\* Offsets are natural numbers.
LEMMA OffsetsNat == Offsets \subseteq Nat
BY DedupAssumption DEF Offsets

-----------------------------------------------------------------------------
\* What the operations of the detector return.

\* Windows are named by natural numbers.
LEMMA TrackedNat ==
    ASSUME NEW d, DetectorOK(d) PROVE Tracked(d) \subseteq Nat
BY DEF Tracked, DetectorOK, DetectorType

\* removeFirst() drops one window and the bits inside it, nothing else.
LEMMA RemoveFirstDetector ==
    ASSUME NEW d, DetectorOK(d), d.windows # <<>>
    PROVE  /\ DetectorOK(removeFirst(d))
           /\ Len(removeFirst(d).windows) = Len(d.windows) - 1
           /\ removeFirst(d).maxWindows = d.maxWindows
           /\ removeFirst(d).marked \subseteq d.marked
           /\ Tracked(removeFirst(d)) \subseteq Tracked(d)
<1> DEFINE e == removeFirst(d)
<1>1. /\ e.windows = Tail(d.windows)
      /\ e.marked = {o \in d.marked : ~contains(Head(d.windows), o)}
      /\ e.maxWindows = d.maxWindows
      /\ e.minReceived = d.minReceived
      /\ e \in DetectorType
  <2>1. d \in DetectorType
    BY DEF DetectorOK
  <2>2. /\ Tail(d.windows) \in Seq(Nat)
        /\ {o \in d.marked : ~contains(Head(d.windows), o)} \in SUBSET Offsets
    BY <2>1 DEF DetectorType
  <2> QED BY <2>1, <2>2 DEF DetectorType, removeFirst
<1>2. Len(e.windows) = Len(d.windows) - 1
  BY <1>1 DEF DetectorOK, DetectorType
<1>3. Tracked(e) \subseteq Tracked(d)
  BY <1>1 DEF Tracked, DetectorOK, DetectorType
<1>4. DetectorOK(e)
  BY <1>1, <1>2 DEF DetectorOK, DetectorType
<1> HIDE DEF e
<1> QED BY <1>1, <1>2, <1>3, <1>4 DEF e

\* Purging leaves room for one more window.
LEMMA PurgeIfFullDetector ==
    ASSUME NEW d, DetectorOK(d)
    PROVE  /\ DetectorOK(PurgeIfFull(d))
           /\ Len(PurgeIfFull(d).windows) < PurgeIfFull(d).maxWindows
           /\ PurgeIfFull(d).maxWindows = d.maxWindows
           /\ PurgeIfFull(d).marked \subseteq d.marked
           /\ Tracked(PurgeIfFull(d)) \subseteq Tracked(d)
<1>1. Len(d.windows) \in Nat /\ d.maxWindows \in Nat /\ d.maxWindows > 0
      /\ Len(d.windows) <= d.maxWindows
  BY DedupAssumption DEF DetectorOK, DetectorType
<1>2. CASE IsFullDetector(d)
  <2>1. d.windows # <<>>
    BY <1>1, <1>2 DEF IsFullDetector
  <2> QED BY <1>1, <1>2, <2>1, RemoveFirstDetector DEF PurgeIfFull
<1>3. CASE ~IsFullDetector(d)
  BY <1>1, <1>3 DEF PurgeIfFull, IsFullDetector
<1> QED BY <1>2, <1>3

\* Marking an offset sets its bit and touches nothing else.
LEMMA MarkReceivedDetector ==
    ASSUME NEW d, DetectorOK(d), NEW n \in Offsets
    PROVE  /\ DetectorOK(markReceived(d, n))
           /\ markReceived(d, n).windows = d.windows
           /\ markReceived(d, n).marked = d.marked \cup {n}
<1>1. ~(n < d.minReceived)
  BY OffsetsNat DEF DetectorOK, DetectorType
<1> QED BY <1>1 DEF markReceived, DetectorOK, DetectorType

\* Adding a window to a detector with room keeps the bound on windows.
LEMMA AddWindowDetector ==
    ASSUME NEW d, DetectorOK(d), Len(d.windows) < d.maxWindows, NEW n \in Offsets
    PROVE  /\ DetectorOK(AddWindow(d, n))
           /\ AddWindow(d, n).windows = Append(d.windows, WindowStart(n))
           /\ AddWindow(d, n).marked = d.marked \cup {n}
           /\ Tracked(AddWindow(d, n)) = Tracked(d) \cup {WindowStart(n)}
<1> DEFINE e == [d EXCEPT !.windows = Append(@, WindowStart(n))]
<1>1. WindowStart(n) \in Nat
  BY OffsetsNat, WindowStartNat
<1>2. /\ e.windows = Append(d.windows, WindowStart(n))
      /\ e.marked = d.marked
      /\ DetectorOK(e)
  <2>1. /\ d \in DetectorType
        /\ Append(d.windows, WindowStart(n)) \in Seq(Nat)
        /\ Len(Append(d.windows, WindowStart(n))) = Len(d.windows) + 1
        /\ Len(d.windows) \in Nat
    BY <1>1 DEF DetectorOK, DetectorType
  <2>2. /\ e \in DetectorType
        /\ e.windows = Append(d.windows, WindowStart(n))
        /\ e.marked = d.marked
        /\ e.maxWindows = d.maxWindows
    BY <2>1 DEF DetectorType
  <2> QED BY <2>1, <2>2 DEF DetectorOK, DetectorType
<1>3. Tracked(e) = Tracked(d) \cup {WindowStart(n)}
  <2>1. d.windows \in Seq(Nat) /\ Len(d.windows) \in Nat
    BY DEF DetectorOK, DetectorType
  <2>2. DOMAIN e.windows = 1 .. Len(d.windows) + 1
    BY <1>1, <1>2, <2>1
  <2>3. \A i \in 1 .. Len(d.windows) : e.windows[i] = d.windows[i]
    BY <1>1, <1>2, <2>1
  <2>4. e.windows[Len(d.windows) + 1] = WindowStart(n)
    BY <1>1, <1>2, <2>1
  <2>5. DOMAIN d.windows = 1 .. Len(d.windows)
    BY <2>1
  <2> HIDE DEF e
  <2>6. Tracked(e) = {e.windows[i] : i \in 1 .. Len(d.windows) + 1}
    BY <2>2 DEF Tracked
  <2>7. Tracked(d) = {d.windows[i] : i \in 1 .. Len(d.windows)}
    BY <2>5 DEF Tracked
  <2>8. ASSUME NEW w \in Tracked(e) PROVE w \in Tracked(d) \cup {WindowStart(n)}
    <3>1. PICK i \in 1 .. Len(d.windows) + 1 : w = e.windows[i]
      BY <2>6
    <3>2. i \in 1 .. Len(d.windows) \/ i = Len(d.windows) + 1
      BY <2>1
    <3> QED BY <3>1, <3>2, <2>3, <2>4, <2>7
  <2>9. Tracked(d) \cup {WindowStart(n)} \subseteq Tracked(e)
    <3>1. Len(d.windows) + 1 \in 1 .. Len(d.windows) + 1
      BY <2>1
    <3>2. 1 .. Len(d.windows) \subseteq 1 .. Len(d.windows) + 1
      BY <2>1
    <3> QED BY <3>1, <3>2, <2>3, <2>4, <2>6, <2>7
  <2> QED BY <2>8, <2>9
<1> HIDE DEF e
<1>4. /\ DetectorOK(markReceived(e, n))
      /\ markReceived(e, n).windows = e.windows
      /\ markReceived(e, n).marked = e.marked \cup {n}
  BY <1>2, MarkReceivedDetector
<1>5. AddWindow(d, n) = markReceived(e, n)
  BY DEF AddWindow, e
<1>6. Tracked(markReceived(e, n)) = Tracked(e)
  BY <1>4 DEF Tracked
<1> QED BY <1>2, <1>3, <1>4, <1>5, <1>6

\* After an OutOfMemoryError the detector still has a window to its name.
LEMMA OutOfMemoryDetectorOK ==
    ASSUME DetectorOK(det), OutOfMemoryDetector.windows # <<>>
    PROVE  /\ DetectorOK(OutOfMemoryDetector)
           /\ Len(OutOfMemoryDetector.windows) = OutOfMemoryDetector.maxWindows
           /\ OutOfMemoryDetector.marked \subseteq det.marked
           /\ Tracked(OutOfMemoryDetector) \subseteq Tracked(det)
<1> DEFINE d == PurgeIfFull(det)
           e == [d EXCEPT !.maxWindows = Len(d.windows)]
<1>1. /\ DetectorOK(d)
      /\ Len(d.windows) < d.maxWindows
      /\ d.marked \subseteq det.marked
      /\ Tracked(d) \subseteq Tracked(det)
  BY PurgeIfFullDetector
<1>2. OutOfMemoryDetector = e
  BY DEF OutOfMemoryDetector
<1> HIDE DEF d
<1>3. d \in DetectorType /\ Len(d.windows) \in Nat
  BY <1>1 DEF DetectorOK, DetectorType
<1>4. e.windows = d.windows /\ e.marked = d.marked /\ e.maxWindows = Len(d.windows)
  BY <1>3 DEF DetectorType
<1>5. Len(d.windows) \in 1 .. MaxWindows
  <2>1. d.windows # <<>>
    BY <1>2, <1>4
  <2>2. Len(d.windows) # 0
    BY <1>3, <2>1 DEF DetectorType
  <2>3. d.maxWindows \in 1 .. MaxWindows
    BY <1>3 DEF DetectorType
  <2> QED BY <1>1, <1>3, <2>2, <2>3, DedupAssumption
<1>6. e \in DetectorType
  BY <1>3, <1>5 DEF DetectorType
<1>7. Tracked(e) = Tracked(d)
  BY <1>4 DEF Tracked
<1> HIDE DEF e
<1> QED BY <1>1, <1>2, <1>3, <1>4, <1>6, <1>7 DEF DetectorOK
-----------------------------------------------------------------------------
\* The types, of the last commit too.
CommittedOK ==
    /\ committed.pos \in 0 .. Len(raw)
    /\ DetectorOK(committed.store)
    /\ DetectorOK(committed.det)
    /\ committed.clean \in [Offsets -> Nat]
    /\ committed.legacy \subseteq Nat
    /\ DOMAIN committed.gapTopic \subseteq Nat

TypeInv == TypeOK /\ CommittedOK

\* Everything process() may do to the state, whichever way check() went: it
\* consumes one record, sets at most that record's bit, forwards the record or
\* knows its bit, and deletes the gap records of the windows that left.
ProcessEffect(purged) ==
    /\ pos < Len(raw) /\ pos' = pos + 1
    /\ Incoming \in Records
    /\ DetectorOK(det')
    /\ det'.marked \subseteq det.marked \cup {Incoming.off}
    /\ \/ Incoming.off \in det.marked /\ clean' = clean
       \/ Deliver(Incoming)
    /\ Tracked(det) \ purged \subseteq Tracked(det')
    /\ DOMAIN gapTopic' = DOMAIN gapTopic \ purged
    /\ legacy' = legacy \ (purged \cap restored)
    /\ restored' = restored \ purged
    /\ cleared' = cleared \ purged
    /\ ProcessFrame

\* Each of the five outcomes of process() has that effect.
LEMMA ProcessStep ==
    ASSUME TypeInv, Process
    PROVE  \E purged \in SUBSET Tracked(det) : ProcessEffect(purged)
<1>1. /\ DetectorOK(det)
      /\ raw \in Seq(Records)
      /\ pos \in 0 .. Len(raw)
  BY DEF TypeInv, TypeOK
<1>2. pos < Len(raw) /\ pos' = pos + 1
  BY DEF Process, ProcessDuplicate, ProcessInWindow, ProcessBelowRange,
         ProcessNewWindow, ProcessOutOfMemory, Consume
<1>3. Incoming \in Records /\ Incoming.off \in Offsets
  BY <1>1, <1>2 DEF Incoming, Offsets
<1>4. CASE ProcessDuplicate
  BY <1>1, <1>2, <1>3, <1>4
     DEF ProcessDuplicate, ProcessEffect, NoTombstone
<1>5. CASE ProcessInWindow
  <2>1. /\ DetectorOK(det') /\ det'.windows = det.windows
        /\ det'.marked = det.marked \cup {Incoming.off}
    BY <1>1, <1>3, <1>5, MarkReceivedDetector DEF ProcessInWindow
  <2>2. Tracked(det') = Tracked(det)
    BY <2>1 DEF Tracked
  <2>3. ProcessEffect({})
    BY <1>2, <1>3, <1>5, <2>1, <2>2
       DEF ProcessInWindow, ProcessEffect, NoTombstone
  <2> QED BY <2>3
<1>6. CASE ProcessBelowRange
  BY <1>1, <1>2, <1>3, <1>6
     DEF ProcessBelowRange, ProcessEffect, NoTombstone
<1>7. CASE ProcessNewWindow
  <2> DEFINE d == PurgeIfFull(det)
             purged == Tracked(det) \ Tracked(d)
  <2>1. /\ DetectorOK(d) /\ Len(d.windows) < d.maxWindows
        /\ d.marked \subseteq det.marked
    BY <1>1, PurgeIfFullDetector
  <2>2. /\ det' = AddWindow(d, Incoming.off)
        /\ Tombstone(purged) /\ Deliver(Incoming) /\ ProcessFrame
    BY <1>7 DEF ProcessNewWindow
  <2> HIDE DEF d
  <2>3. /\ DetectorOK(det') /\ det'.marked = d.marked \cup {Incoming.off}
        /\ Tracked(det') = Tracked(d) \cup {WindowStart(Incoming.off)}
    BY <1>3, <2>1, <2>2, AddWindowDetector
  <2>4. ProcessEffect(purged)
    BY <1>2, <1>3, <2>1, <2>2, <2>3 DEF ProcessEffect, Tombstone
  <2> QED BY <2>4
<1>8. CASE ProcessOutOfMemory
  <2> DEFINE d == OutOfMemoryDetector
             purged == Tracked(det) \ Tracked(det')
  <2>1. /\ d.windows # <<>>
        /\ det' = IF BelowRange(d, Incoming.off)
                  THEN d ELSE AddWindow(removeFirst(d), Incoming.off)
        /\ Tombstone(purged) /\ Deliver(Incoming) /\ ProcessFrame
    BY <1>8 DEF ProcessOutOfMemory
  <2>2. /\ DetectorOK(d) /\ Len(d.windows) = d.maxWindows
        /\ d.marked \subseteq det.marked
    BY <1>1, <2>1, OutOfMemoryDetectorOK
  <2> HIDE DEF d
  <2>3. /\ DetectorOK(removeFirst(d))
        /\ Len(removeFirst(d).windows) = Len(d.windows) - 1
        /\ removeFirst(d).maxWindows = d.maxWindows
        /\ removeFirst(d).marked \subseteq d.marked
    BY <2>1, <2>2, RemoveFirstDetector
  <2>4. Len(removeFirst(d).windows) < removeFirst(d).maxWindows
    BY <2>2, <2>3 DEF DetectorOK, DetectorType
  <2>5. /\ DetectorOK(AddWindow(removeFirst(d), Incoming.off))
        /\ AddWindow(removeFirst(d), Incoming.off).marked
               = removeFirst(d).marked \cup {Incoming.off}
    BY <1>3, <2>3, <2>4, AddWindowDetector
  <2>6. DetectorOK(det') /\ det'.marked \subseteq det.marked \cup {Incoming.off}
    BY <2>1, <2>2, <2>3, <2>5
  <2>7. ProcessEffect(purged)
    BY <1>2, <1>3, <2>1, <2>6 DEF ProcessEffect, Tombstone
  <2> QED BY <2>7
<1> QED BY <1>4, <1>5, <1>6, <1>7, <1>8 DEF Process
-----------------------------------------------------------------------------
\* The initial states have their types; an upgraded task starts with the one
\* window of the record consumed before.
LEMMA InitTypeInv == Init => TypeInv
<1> SUFFICES ASSUME Init PROVE TypeInv
  OBVIOUS
<1>1. DetectorOK(EmptyDetector) /\ EmptyDetector.windows = <<>>
      /\ EmptyDetector.maxWindows = MaxWindows
  BY DedupAssumption DEF EmptyDetector, DetectorOK, DetectorType
<1>2. /\ DetectorOK(store) /\ legacy \subseteq Nat /\ raw \in Seq(Records)
      /\ clean \in [Offsets -> Nat]
  <2>1. CASE InitFresh
    BY <1>1, <2>1 DEF InitFresh
  <2>2. CASE InitUpgraded
    <3>1. PICK r \in Records :
            /\ raw = <<r>>
            /\ store = AddWindow(EmptyDetector, r.off)
            /\ clean = [o \in Offsets |-> IF o = r.off /\ ~r.empty THEN 1 ELSE 0]
            /\ legacy = {WindowStart(r.off)}
      BY <2>2 DEF InitUpgraded
    <3>2. r.off \in Offsets
      BY DEF Offsets
    <3>3. WindowStart(r.off) \in Nat
      BY <3>2, OffsetsNat, WindowStartNat
    <3>4. DetectorOK(store)
      BY <1>1, <3>1, <3>2, AddWindowDetector, DedupAssumption
    <3> QED BY <3>1, <3>3, <3>4
  <2> QED BY <2>1, <2>2 DEF Init
<1>3. Tracked(store) \subseteq Nat
  BY <1>2, TrackedNat
<1>4. pos \in 0 .. Len(raw) /\ DOMAIN gapTopic = {} /\ restarts \in 0 .. MaxRestarts
  BY <1>2, DedupAssumption DEF Init
<1>5. TypeOK
  BY <1>2, <1>3, <1>4 DEF Init, TypeOK
<1>6. committed = Snapshot /\ det = store
  BY DEF Init
<1>7. CommittedOK
  BY <1>2, <1>4, <1>6 DEF CommittedOK, Snapshot
<1> QED BY <1>5, <1>7 DEF TypeInv

\* Every step keeps the types.
LEMMA NextTypeInv == TypeInv /\ [Next]_vars => TypeInv'
<1> SUFFICES ASSUME TypeInv, [Next]_vars PROVE TypeInv'
  OBVIOUS
<1> USE DEF TypeInv, TypeOK, CommittedOK
<1>1. CASE Produce
  <2>1. PICK r \in Records : raw' = Append(raw, r)
    BY <1>1 DEF Produce
  <2>2. raw' \in Seq(Records) /\ Len(raw') = Len(raw) + 1 /\ Len(raw) \in Nat
    BY <2>1
  <2>3. pos' \in 0 .. Len(raw') /\ committed'.pos \in 0 .. Len(raw')
    BY <1>1, <2>2 DEF Produce
  <2> QED BY <1>1, <2>2, <2>3 DEF Produce
<1>2. CASE Process
  <2>1. PICK purged \in SUBSET Tracked(det) : ProcessEffect(purged)
    BY <1>2, ProcessStep
  <2>2. pos' \in 0 .. Len(raw')
    BY <2>1 DEF ProcessEffect, ProcessFrame
  <2>3. clean' \in [Offsets -> Nat]
    <3>1. Incoming.off \in Offsets
      BY <2>1 DEF ProcessEffect, Offsets
    <3> QED BY <2>1, <3>1 DEF ProcessEffect, Deliver
  <2>4. /\ cleared' \subseteq Nat /\ restored' \subseteq Nat
        /\ legacy' \subseteq Nat /\ DOMAIN gapTopic' \subseteq Nat
    BY <2>1 DEF ProcessEffect
  <2>5. DetectorOK(det') /\ ProcessFrame
    BY <2>1 DEF ProcessEffect
  <2> QED BY <2>2, <2>3, <2>4, <2>5 DEF ProcessFrame
<1>3. CASE EmitGaps
  <2>1. Tracked(det) \subseteq Nat
    BY TrackedNat
  <2>2. cleared' \subseteq Nat /\ DOMAIN gapTopic' \subseteq Nat
    BY <1>3, <2>1 DEF EmitGaps
  <2> QED BY <1>3, <2>2 DEF EmitGaps
<1>4. CASE Persist
  BY <1>4 DEF Persist
<1>5. CASE Commit
  <2>1. committed' = Snapshot /\ UNCHANGED <<raw, pos, det, cleared, restored,
          store, clean, gapTopic, legacy, amnesia, restarts>>
    BY <1>5 DEF Commit
  <2> QED BY <2>1 DEF Snapshot
<1>6. CASE Restart
  <2>1. Tracked(committed.store) \subseteq Nat
    BY TrackedNat
  <2>2. restarts' \in 0 .. MaxRestarts
    BY <1>6, DedupAssumption DEF Restart
  <2> QED BY <1>6, <2>1, <2>2 DEF Restart
<1>7. CASE UNCHANGED vars
  BY <1>7 DEF vars
<1> QED BY <1>1, <1>2, <1>3, <1>4, <1>5, <1>6, <1>7 DEF Next

\* Type correctness: each copy of the detector respects MAX_WINDOWS, however
\* often windows are purged, an allocation fails or the task restarts.
THEOREM DedupTypeCorrect == Spec => []TypeOK
<1>1. TypeInv => TypeOK
  BY DEF TypeInv
<1> QED BY <1>1, InitTypeInv, NextTypeInv, PTL DEF Spec

\* The strengthened form, for the theorems below.
LEMMA DedupTypeInvariant == Spec => []TypeInv
BY InitTypeInv, NextTypeInv, PTL DEF Spec
-----------------------------------------------------------------------------
\* No record is lost.

\* Offset o was forwarded (copies c), or one of the first p records
\* of topic t for it was empty.
Accounted(t, p, c, o) ==
    \/ c[o] > 0
    \/ \E j \in 1 .. p : t[j].off = o /\ t[j].empty

AllAccounted(t, p, c, marked) ==
    /\ \A i \in 1 .. p : Accounted(t, p, c, t[i].off)
    /\ \A o \in marked : Accounted(t, p, c, o)

\* The strengthening: a set bit is itself evidence, in memory, in the store and
\* in the store of the last commit, each against the outputs of its own side of
\* the transaction.
LossInv ==
    /\ AllAccounted(raw, pos, clean, det.marked)
    /\ AllAccounted(raw, pos, clean, store.marked)
    /\ AllAccounted(raw, committed.pos, committed.clean, committed.store.marked)

\* An accounted offset stays accounted while the transaction goes on.
LEMMA AccountedMonotonic ==
    ASSUME NEW t, NEW p \in Nat, NEW q \in Nat, p <= q,
           NEW c \in [Offsets -> Nat], NEW d \in [Offsets -> Nat],
           \A o \in Offsets : c[o] <= d[o],
           NEW o \in Offsets, Accounted(t, p, c, o)
    PROVE  Accounted(t, q, d, o)
<1>1. CASE c[o] > 0
  <2>1. c[o] \in Nat /\ d[o] \in Nat /\ c[o] <= d[o]
    OBVIOUS
  <2>2. d[o] > 0
    BY <1>1, <2>1
  <2> QED BY <2>2 DEF Accounted
<1>2. CASE \E j \in 1 .. p : t[j].off = o /\ t[j].empty
  BY <1>2 DEF Accounted
<1> QED BY <1>1, <1>2 DEF Accounted

\* Initially only the record consumed before an upgrade is accounted for.
LEMMA InitLossInv == Init => LossInv
<1> SUFFICES ASSUME Init PROVE LossInv
  OBVIOUS
<1>1. EmptyDetector.marked = {}
  BY DEF EmptyDetector
<1>2. AllAccounted(raw, pos, clean, store.marked)
  <2>1. CASE InitFresh
    BY <1>1, <2>1 DEF Init, InitFresh, AllAccounted
  <2>2. CASE InitUpgraded
    <3>1. PICK r \in Records :
            /\ raw = <<r>>
            /\ store = AddWindow(EmptyDetector, r.off)
            /\ clean = [o \in Offsets |-> IF o = r.off /\ ~r.empty THEN 1 ELSE 0]
      BY <2>2 DEF InitUpgraded
    <3>2. r.off \in Offsets /\ r.empty \in BOOLEAN
      BY DedupAssumption DEF Offsets
    <3>3. DetectorOK(EmptyDetector) /\ EmptyDetector.windows = <<>>
          /\ EmptyDetector.maxWindows = MaxWindows
      BY DedupAssumption DEF EmptyDetector, DetectorOK, DetectorType
    <3>4. store.marked = {r.off}
      BY <1>1, <3>1, <3>2, <3>3, AddWindowDetector, DedupAssumption
    <3>5. pos = 1 /\ raw[1] = r
      BY <3>1 DEF Init
    <3>6. Accounted(raw, 1, clean, r.off)
      <4>1. CASE r.empty
        BY <3>1, <4>1 DEF Accounted
      <4>2. CASE ~r.empty
        BY <3>1, <3>2, <4>2 DEF Accounted
      <4> QED BY <4>1, <4>2
    <3> QED BY <3>4, <3>5, <3>6 DEF AllAccounted
  <2> QED BY <2>1, <2>2 DEF Init
<1> QED BY <1>2 DEF Init, LossInv, Snapshot

\* Every step keeps every consumed record accounted for.
LEMMA NextLossInv == TypeInv /\ LossInv /\ [Next]_vars => LossInv'
<1> SUFFICES ASSUME TypeInv, LossInv, [Next]_vars PROVE LossInv'
  OBVIOUS
<1>0. /\ raw \in Seq(Records) /\ pos \in Nat /\ committed.pos \in Nat
      /\ pos <= Len(raw) /\ committed.pos <= Len(raw) /\ Len(raw) \in Nat
      /\ clean \in [Offsets -> Nat]
      /\ det.marked \subseteq Offsets /\ store.marked \subseteq Offsets
      /\ \A i \in 1 .. Len(raw) : raw[i] \in Records /\ raw[i].off \in Offsets
  BY DEF TypeInv, TypeOK, CommittedOK, DetectorOK, DetectorType, Offsets
<1>1. CASE Produce
  <2>1. PICK r \in Records : raw' = Append(raw, r)
    BY <1>1 DEF Produce
  <2>2. \A i \in 1 .. Len(raw) : raw'[i] = raw[i]
    BY <1>0, <2>1
  <2>3. ASSUME NEW p \in Nat, p <= Len(raw), NEW c, NEW m,
               AllAccounted(raw, p, c, m)
        PROVE  AllAccounted(raw', p, c, m)
    <3>1. \A i \in 1 .. p : raw'[i] = raw[i]
      BY <1>0, <2>2, <2>3
    <3>2. \A o : Accounted(raw, p, c, o) => Accounted(raw', p, c, o)
      BY <3>1 DEF Accounted
    <3> QED BY <2>3, <3>1, <3>2 DEF AllAccounted
  <2>4. UNCHANGED <<pos, det, store, clean, committed>>
    BY <1>1 DEF Produce
  <2> QED BY <1>0, <2>3, <2>4 DEF LossInv
<1>2. CASE Process
  <2>1. PICK purged \in SUBSET Tracked(det) : ProcessEffect(purged)
    BY <1>2, ProcessStep
  <2>2. /\ pos' = pos + 1 /\ pos < Len(raw) /\ raw' = raw /\ store' = store
        /\ committed' = committed /\ Incoming = raw[pos']
        /\ Incoming \in Records
        /\ det'.marked \subseteq det.marked \cup {Incoming.off}
    BY <2>1 DEF ProcessEffect, ProcessFrame, Incoming
  <2>3. /\ Incoming.off \in Offsets
        /\ \/ Incoming.off \in det.marked /\ clean' = clean
           \/ clean' = IF Incoming.empty THEN clean
                       ELSE [clean EXCEPT ![Incoming.off] = @ + 1]
    BY <2>1, DedupAssumption DEF ProcessEffect, Deliver, Offsets
  <2>4. clean' \in [Offsets -> Nat] /\ \A o \in Offsets : clean[o] <= clean'[o]
    <3>1. CASE clean' = clean
      BY <1>0, <3>1
    <3>2. CASE clean' = [clean EXCEPT ![Incoming.off] = @ + 1]
      <4>1. clean' \in [Offsets -> Nat]
        BY <1>0, <2>3, <3>2
      <4>2. \A o \in Offsets : clean'[o] = IF o = Incoming.off THEN clean[o] + 1
                                                               ELSE clean[o]
        BY <1>0, <2>3, <3>2
      <4> QED BY <1>0, <4>1, <4>2
    <3> QED BY <2>3, <3>1, <3>2
  <2>5. \A o \in Offsets :
            Accounted(raw, pos, clean, o) => Accounted(raw, pos', clean', o)
    <3>1. pos' \in Nat /\ pos <= pos'
      BY <1>0, <2>2
    <3> QED BY <1>0, <2>4, <3>1, AccountedMonotonic
  <2>6. Accounted(raw, pos', clean', Incoming.off)
    <3>1. CASE Incoming.off \in det.marked
      BY <2>3, <2>5, <3>1 DEF LossInv, AllAccounted
    <3>2. CASE Incoming.empty
      BY <1>0, <2>2, <3>2 DEF Accounted
    <3>3. CASE Incoming.off \notin det.marked /\ ~Incoming.empty
      <4>1. clean'[Incoming.off] > 0
        BY <1>0, <2>3, <3>3
      <4> QED BY <4>1 DEF Accounted
    <3> QED BY <3>1, <3>2, <3>3
  <2>7. \A i \in 1 .. pos' : Accounted(raw, pos', clean', raw[i].off)
    <3>1. \A i \in 1 .. pos : Accounted(raw, pos', clean', raw[i].off)
      BY <1>0, <2>5 DEF LossInv, AllAccounted
    <3>2. \A i \in 1 .. pos' : i \in 1 .. pos \/ i = pos'
      BY <1>0, <2>2
    <3> QED BY <2>2, <2>6, <3>1, <3>2
  <2>8. /\ \A o \in det'.marked : Accounted(raw, pos', clean', o)
        /\ \A o \in store'.marked : Accounted(raw, pos', clean', o)
    BY <1>0, <2>2, <2>5, <2>6 DEF LossInv, AllAccounted
  <2> QED BY <2>2, <2>7, <2>8 DEF LossInv, AllAccounted
<1>3. CASE EmitGaps
  BY <1>3 DEF EmitGaps, LossInv
<1>4. CASE Persist
  BY <1>4 DEF Persist, LossInv
<1>5. CASE Commit
  <2>1. /\ committed'.pos = pos /\ committed'.clean = clean
        /\ committed'.store = store
        /\ UNCHANGED <<raw, pos, det, store, clean>>
    BY <1>5 DEF Commit, Snapshot
  <2> QED BY <2>1 DEF LossInv
<1>6. CASE Restart
  BY <1>6 DEF Restart, LossInv
<1>7. CASE UNCHANGED vars
  BY <1>7 DEF vars, LossInv
<1> QED BY <1>1, <1>2, <1>3, <1>4, <1>5, <1>6, <1>7 DEF Next

\* Nothing process() consumes is lost, for every number of crashes and every
\* interleaving of the persist punctuation with the commits: a record is in the
\* clean topic, or a copy of it came with its payload cleared.
THEOREM NoRecordIsLost == Spec => []NoRecordLost
<1>1. LossInv => NoRecordLost
  BY DEF LossInv, AllAccounted, Accounted, NoRecordLost
<1> QED BY <1>1, InitTypeInv, NextTypeInv, InitLossInv, NextLossInv, PTL DEF Spec
-----------------------------------------------------------------------------
\* The gap topic.

\* The strengthening: the same holds of the last commit, whose detector is the
\* one a restart finds in the store unless windows were forgotten; and a legacy
\* record belongs to a window of the store too, which is why a restart never
\* forgets that the legacy key has to be deleted.
GapInv ==
    /\ GapTopicBounded
    /\ ~amnesia => DOMAIN committed.gapTopic \subseteq Tracked(committed.det)
    /\ LegacyRecordsTracked
    /\ legacy \subseteq Tracked(store)
    /\ committed.legacy \subseteq Tracked(committed.store)

\* Initially there is at most the legacy record of the restored window.
LEMMA InitGapInv == Init => GapInv
<1> SUFFICES ASSUME Init PROVE GapInv
  OBVIOUS
<1>1. legacy \subseteq Tracked(store)
  <2>1. CASE InitFresh
    BY <2>1 DEF InitFresh
  <2>2. CASE InitUpgraded
    <3>1. PICK r \in Records : /\ store = AddWindow(EmptyDetector, r.off)
                               /\ legacy = {WindowStart(r.off)}
      BY <2>2 DEF InitUpgraded
    <3>2. DetectorOK(EmptyDetector) /\ EmptyDetector.windows = <<>>
          /\ EmptyDetector.maxWindows = MaxWindows
      BY DedupAssumption DEF EmptyDetector, DetectorOK, DetectorType
    <3>3. r.off \in Offsets /\ Len(EmptyDetector.windows) < EmptyDetector.maxWindows
      BY <3>2, DedupAssumption DEF Offsets
    <3> QED BY <3>1, <3>2, <3>3, AddWindowDetector
  <2> QED BY <2>1, <2>2 DEF Init
<1>2. /\ DOMAIN gapTopic = {} /\ det = store /\ restored = Tracked(store)
      /\ committed = Snapshot
  BY DEF Init
<1> QED BY <1>1, <1>2
        DEF GapInv, GapTopicBounded, LegacyRecordsTracked, Snapshot

\* Every step keeps the gap topic within the tracked windows.
LEMMA NextGapInv == TypeInv /\ GapInv /\ [Next]_vars => GapInv'
<1> SUFFICES ASSUME TypeInv, GapInv, [Next]_vars PROVE GapInv'
  OBVIOUS
<1> USE DEF GapInv, GapTopicBounded, LegacyRecordsTracked
<1>1. CASE Produce
  BY <1>1 DEF Produce
<1>2. CASE Process
  <2>1. PICK purged \in SUBSET Tracked(det) : ProcessEffect(purged)
    BY <1>2, ProcessStep
  <2>2. /\ Tracked(det) \ purged \subseteq Tracked(det')
        /\ DOMAIN gapTopic' = DOMAIN gapTopic \ purged
        /\ legacy' = legacy \ (purged \cap restored)
        /\ restored' = restored \ purged
        /\ UNCHANGED <<store, committed, amnesia>>
    BY <2>1 DEF ProcessEffect, ProcessFrame
  <2> QED BY <2>2
<1>3. CASE EmitGaps
  <2>1. /\ ~amnesia => DOMAIN gapTopic' \subseteq Tracked(det)
        /\ UNCHANGED <<det, restored, store, legacy, committed, amnesia>>
    BY <1>3 DEF EmitGaps
  <2> QED BY <2>1
<1>4. CASE Persist
  BY <1>4 DEF Persist
<1>5. CASE Commit
  <2>1. /\ committed'.det = det /\ committed'.store = store
        /\ committed'.gapTopic = gapTopic /\ committed'.legacy = legacy
        /\ UNCHANGED <<det, restored, store, gapTopic, legacy, amnesia>>
    BY <1>5 DEF Commit, Snapshot
  <2> QED BY <2>1
<1>6. CASE Restart
  <2>1. /\ det' = committed.store /\ store' = committed.store
        /\ gapTopic' = committed.gapTopic /\ legacy' = committed.legacy
        /\ restored' = Tracked(committed.store)
        /\ ~amnesia' => ~amnesia /\ committed.store = committed.det
        /\ committed' = committed
    BY <1>6 DEF Restart
  <2> QED BY <2>1
<1>7. CASE UNCHANGED vars
  BY <1>7 DEF vars
<1> QED BY <1>1, <1>2, <1>3, <1>4, <1>5, <1>6, <1>7 DEF Next

\* Live gap records belong to tracked windows, however purges, emits, commits
\* and restarts interleave, as long as every commit covers the windows that the
\* store knows.
THEOREM GapTopicStaysBounded == Spec => []GapTopicBounded
<1>1. GapInv => GapTopicBounded
  BY DEF GapInv
<1> QED BY <1>1, InitTypeInv, NextTypeInv, InitGapInv, NextGapInv, PTL DEF Spec

\* A legacy gap record never outlives its window, with or without forgotten
\* windows: the obligation to delete it is restored with the window.
THEOREM LegacyRecordsStayTracked == Spec => []LegacyRecordsTracked
<1>1. GapInv => LegacyRecordsTracked
  BY DEF GapInv
<1> QED BY <1>1, InitTypeInv, NextTypeInv, InitGapInv, NextGapInv, PTL DEF Spec
-----------------------------------------------------------------------------
\* What the detector knows of the raw topic.

\* No record among the first p of topic t opened a window behind another.
NoLate(t, p) ==
    \A i \in 1 .. p :
        \/ \E j \in 1 .. i - 1 : WindowStart(t[j].off) = WindowStart(t[i].off)
        \/ \A j \in 1 .. i - 1 : WindowStart(t[j].off) < WindowStart(t[i].off)

Read(t, p, o) == \E i \in 1 .. p : t[i].off = o

\* Offset o is at or above a window of detector d.
InRange(d, o) == \E w \in Tracked(d) : w <= o

Ascending(d) == \A i, j \in DOMAIN d.windows : i < j => d.windows[i] < d.windows[j]

Aligned(d) == \A w \in Tracked(d) : WindowStart(w) = w

\* Detector d, and the copies c forwarded, after the first p records of topic t:
\* in the range of the detector the bits are the offsets that were read, each
\* was forwarded once at most, and every window that was read is tracked.
Agrees(t, p, d, c) ==
    /\ Ascending(d) /\ Aligned(d)
    /\ \A w \in Tracked(d) : \E i \in 1 .. p : WindowStart(t[i].off) = w
    /\ \A i \in 1 .. p : InRange(d, t[i].off) => WindowStart(t[i].off) \in Tracked(d)
    /\ \A o \in Offsets : InRange(d, o) => (o \in d.marked <=> Read(t, p, o))
    /\ \A o \in Offsets : InRange(d, o) => c[o] <= 1 /\ (c[o] > 0 => Read(t, p, o))
    /\ d.windows = <<>> => p = 0 /\ d.marked = {} /\ \A o \in Offsets : c[o] = 0

\* The strengthening: the detector agrees with the topic as it runs, and so does
\* the one of the last commit, which a restart finds in the store unless windows
\* were forgotten.
AgreeInv ==
    ~amnesia =>
        /\ NoLate(raw, pos) => Agrees(raw, pos, det, clean)
        /\ NoLate(raw, committed.pos) =>
             Agrees(raw, committed.pos, committed.det, committed.clean)

\* A window noted as written without gaps is so in the gap topic.
ClearedInv == \A w \in cleared : w \in DOMAIN gapTopic /\ gapTopic[w] = {}

\* Windows are aligned: multiples of their size.
LEMMA WindowQuotient ==
    ASSUME NEW n \in Nat
    PROVE  /\ n \div WindowSize \in Nat
           /\ WindowStart(n) = WindowSize * (n \div WindowSize)
           /\ WindowStart(n) <= n /\ n < WindowStart(n) + WindowSize
<1> DEFINE W == WindowSize
           q == n \div W
           r == n % W
<1>1. W \in Nat /\ W > 0
  BY DedupAssumption
<1>2. q \in Nat /\ r \in 0 .. W - 1 /\ n = W * q + r
  BY <1>1, Z3
<1>3. W * q \in Nat
  BY <1>1, <1>2
<1>4. WindowStart(n) = n - r
  BY DEF WindowStart
<1> HIDE DEF q, r, W
<1>5. WindowStart(n) = W * q
  BY <1>2, <1>3, <1>4
<1> QED BY <1>1, <1>2, <1>3, <1>5 DEF q, r, W

LEMMA Multiples ==
    ASSUME NEW W \in Nat, NEW a \in Nat, NEW b \in Nat, a < b
    PROVE  W * a + W <= W * b
<1>1. PICK k \in Nat : b = a + 1 + k
  <2>1. b - a - 1 \in Nat /\ b = a + 1 + (b - a - 1)
    OBVIOUS
  <2> QED BY <2>1
<1>2. W * k \in Nat
  BY <1>1
<1>3. W * b = W * a + W + W * k
  BY <1>1, Z3
<1> QED BY <1>2, <1>3, Z3

\* The start of a window is its own start.
LEMMA WindowStartAligned ==
    ASSUME NEW n \in Nat
    PROVE  WindowStart(n) \in Nat /\ WindowStart(WindowStart(n)) = WindowStart(n)
<1> DEFINE W == WindowSize
           b == n \div W
           v == WindowStart(n)
           c == v \div W
<1>1. W \in Nat /\ W > 0
  BY DedupAssumption
<1>2. b \in Nat /\ v = W * b
  BY WindowQuotient
<1> HIDE DEF b
<1>3. v \in Nat
  BY <1>1, <1>2
<1>4. /\ c \in Nat /\ WindowStart(v) = W * c
      /\ W * c <= v /\ v < W * c + W
  BY <1>3, WindowQuotient
<1> HIDE DEF v, c
<1>5. W * c \in Nat
  BY <1>1, <1>4
<1>6. b < c => W * b + W <= W * c
  BY <1>1, <1>2, <1>4, Multiples
<1>7. c < b => W * c + W <= W * b
  BY <1>1, <1>2, <1>4, Multiples
<1> DEFINE z == W * c
<1>8. /\ z \in Nat /\ z <= v /\ v < z + W /\ v \in Nat
      /\ (b < c => v + W <= z) /\ (c < b => z + W <= v)
  BY <1>2, <1>3, <1>4, <1>5, <1>6, <1>7
<1> HIDE DEF z
<1>9. ~(b < c) /\ ~(c < b)
  BY <1>1, <1>8
<1>10. c = b
  BY <1>2, <1>4, <1>9
<1> QED BY <1>2, <1>3, <1>4, <1>10 DEF v

\* The window of an offset is the only aligned window that contains it, and an
\* aligned window is below an offset when it is below that offset's window.
LEMMA WindowsAligned ==
    ASSUME NEW n \in Nat, NEW w \in Nat, WindowStart(w) = w
    PROVE  /\ w <= n <=> w <= WindowStart(n)
           /\ contains(w, n) <=> w = WindowStart(n)
<1> DEFINE W == WindowSize
           a == w \div W
           b == n \div W
<1>1. W \in Nat /\ W > 0
  BY DedupAssumption
<1>2. a \in Nat /\ w = W * a
  BY WindowQuotient
<1>3. /\ b \in Nat /\ WindowStart(n) = W * b
      /\ W * b <= n /\ n < W * b + W
  BY WindowQuotient
<1> HIDE DEF a, b
<1>4. W * a \in Nat /\ W * b \in Nat
  BY <1>1, <1>2, <1>3
<1>5. a < b => W * a + W <= W * b
  BY <1>1, <1>2, <1>3, Multiples
<1>6. b < a => W * b + W <= W * a
  BY <1>1, <1>2, <1>3, Multiples
<1>7. a < b \/ a = b \/ b < a
  BY <1>2, <1>3
<1> DEFINE x == W * a
           y == W * b
<1>8. /\ W \in Nat /\ W > 0 /\ x \in Nat /\ y \in Nat /\ w = x /\ WindowStart(n) = y
      /\ y <= n /\ n < y + W
      /\ x + W <= y \/ x = y \/ y + W <= x
  BY <1>1, <1>2, <1>3, <1>4, <1>5, <1>6, <1>7
<1> HIDE DEF x, y
<1>9. (w <= n <=> w <= WindowStart(n)) /\ (contains(w, n) <=> w = WindowStart(n))
  <2> HIDE DEF W
  <2>1. contains(w, n) <=> w <= n /\ n <= w + W - 1
    BY DEF contains, W
  <2> QED BY <1>8, <2>1
<1> QED BY <1>9

\* The first window is the lowest.
LEMMA HeadIsLeast ==
    ASSUME NEW d, DetectorOK(d), Ascending(d), NEW o \in Nat
    PROVE  /\ (d.windows # <<>> /\ Head(d.windows) <= o) <=> InRange(d, o)
           /\ BelowRange(d, o) <=> d.windows # <<>> /\ ~InRange(d, o)
<1> DEFINE s == d.windows
<1>1. s \in Seq(Nat) /\ Len(s) \in Nat /\ DOMAIN s = 1 .. Len(s)
  BY DEF DetectorOK, DetectorType
<1>2. CASE s = <<>>
  <2>1. Tracked(d) = {}
    BY <1>2 DEF Tracked
  <2> QED BY <1>2, <2>1 DEF InRange, BelowRange
<1>3. CASE s # <<>>
  <2>1. 1 \in DOMAIN s /\ Head(s) = s[1] /\ s[1] \in Nat
    BY <1>1, <1>3
  <2>2. \A i \in DOMAIN s : s[i] \in Nat /\ s[1] <= s[i]
    <3>1. \A i \in DOMAIN s : i = 1 \/ 1 < i
      BY <1>1
    <3>2. \A i \in DOMAIN s : s[i] \in Nat
      BY <1>1
    <3> QED BY <2>1, <3>1, <3>2 DEF Ascending
  <2>3. Head(s) \in Tracked(d) /\ \A w \in Tracked(d) : w \in Nat /\ Head(s) <= w
    BY <2>1, <2>2 DEF Tracked
  <2> HIDE DEF s
  <2>4. Head(s) <= o <=> InRange(d, o)
    BY <2>3 DEF InRange
  <2>5. BelowRange(d, o) <=> s # <<>> /\ o < Head(s)
    BY DEF BelowRange, s
  <2>6. Head(s) \in Nat
    BY <2>3
  <2> QED BY <1>3, <2>4, <2>5, <2>6 DEF s
<1> QED BY <1>2, <1>3

\* Detector e is what is left of d when first windows are removed.
Shrinks(d, e) ==
    /\ Ascending(e)
    /\ Tracked(e) \subseteq Tracked(d)
    /\ \A w \in Tracked(d), v \in Tracked(e) : v <= w => w \in Tracked(e)
    /\ e.marked \subseteq d.marked
    /\ \A o \in d.marked : InRange(e, o) => o \in e.marked

LEMMA ShrinksTransitive ==
    ASSUME NEW d, NEW e, NEW f, Shrinks(d, e), Shrinks(e, f)
    PROVE  Shrinks(d, f)
<1>1. Ascending(f) /\ Tracked(f) \subseteq Tracked(d) /\ f.marked \subseteq d.marked
  BY DEF Shrinks
<1>2. \A w \in Tracked(d), v \in Tracked(f) : v <= w => w \in Tracked(f)
  BY DEF Shrinks
<1>3. \A o : InRange(f, o) => InRange(e, o)
  BY DEF Shrinks, InRange
<1>4. \A o \in d.marked : InRange(f, o) => o \in f.marked
  BY <1>3 DEF Shrinks
<1> QED BY <1>1, <1>2, <1>4 DEF Shrinks

\* removeFirst() takes the lowest window and the bits in it.
LEMMA RemoveFirstShrinks ==
    ASSUME NEW d, DetectorOK(d), d.windows # <<>>, Ascending(d), Aligned(d)
    PROVE  Shrinks(d, removeFirst(d))
<1> DEFINE e == removeFirst(d)
           s == d.windows
           h == Head(s)
<1>1. /\ e.windows = Tail(s)
      /\ e.marked = {o \in d.marked : ~contains(h, o)}
  <2>1. d \in DetectorType
    BY DEF DetectorOK
  <2> QED BY <2>1 DEF DetectorType, removeFirst
<1>2. s \in Seq(Nat) /\ Len(s) \in Nat /\ DOMAIN s = 1 .. Len(s) /\ d.marked \subseteq Nat
  <2>1. s \in Seq(Nat) /\ d.marked \subseteq Offsets
    BY DEF DetectorOK, DetectorType
  <2> HIDE DEF s
  <2>2. d.marked \subseteq Nat
    BY <2>1, OffsetsNat
  <2> QED BY <2>1, <2>2
<1>3. /\ DOMAIN Tail(s) = 1 .. Len(s) - 1 /\ Len(s) >= 1
      /\ \A i \in 1 .. Len(s) - 1 : Tail(s)[i] = s[i + 1]
      /\ h = s[1] /\ 1 \in DOMAIN s
  BY <1>2
<1>4. \A i \in DOMAIN e.windows : i \in Nat /\ i + 1 \in DOMAIN s /\ 1 < i + 1 /\ e.windows[i] = s[i + 1]
  BY <1>1, <1>2, <1>3
<1>5. \A j \in DOMAIN s : j = 1 \/ (j - 1 \in DOMAIN e.windows /\ e.windows[j - 1] = s[j])
  <2>1. ASSUME NEW j \in DOMAIN s, j # 1
        PROVE  j - 1 \in DOMAIN e.windows /\ e.windows[j - 1] = s[j]
    <3>1. j - 1 \in 1 .. Len(s) - 1 /\ (j - 1) + 1 = j
      BY <1>2, <2>1
    <3> QED BY <1>1, <1>3, <3>1
  <2> QED BY <2>1
<1>6. h \in Tracked(d) /\ h \in Nat /\ Tracked(d) \subseteq Nat
  BY <1>2, <1>3, TrackedNat DEF Tracked
<1>7. \A v \in Tracked(e) : v \in Tracked(d) /\ h < v
  BY <1>3, <1>4 DEF Tracked, Ascending
<1>8. \A w \in Tracked(d) : w = h \/ w \in Tracked(e)
  BY <1>3, <1>5 DEF Tracked
<1>9. Ascending(e)
  <2>1. ASSUME NEW i \in DOMAIN e.windows, NEW j \in DOMAIN e.windows, i < j
        PROVE  e.windows[i] < e.windows[j]
    <3>1. i + 1 < j + 1 /\ i + 1 \in DOMAIN s /\ j + 1 \in DOMAIN s
      BY <1>4, <2>1
    <3>2. s[i + 1] < s[j + 1]
      BY <3>1 DEF Ascending
    <3> QED BY <1>4, <3>2
  <2> HIDE DEF e
  <2> QED BY <2>1 DEF Ascending
<1> HIDE DEF e, h, s
<1>10. \A w \in Tracked(d), v \in Tracked(e) : v <= w => w \in Tracked(e)
  <2> SUFFICES ASSUME NEW w \in Tracked(d), NEW v \in Tracked(e), v <= w, w = h PROVE FALSE
    BY <1>8
  <2>1. h < v /\ v \in Nat /\ h \in Nat /\ v <= h
    BY <1>6, <1>7
  <2> QED BY <2>1
<1>11. \A o \in d.marked : InRange(e, o) => o \in e.marked
  <2> SUFFICES ASSUME NEW o \in d.marked, InRange(e, o), contains(h, o) PROVE FALSE
    BY <1>1
  <2>1. PICK v \in Tracked(e) : v <= o
    BY DEF InRange
  <2>2. o \in Nat /\ v \in Nat /\ WindowStart(v) = v /\ WindowStart(h) = h /\ h < v
    BY <1>2, <1>6, <1>7 DEF Aligned
  <2>3. h = WindowStart(o) /\ v <= WindowStart(o)
    BY <1>6, <2>1, <2>2, WindowsAligned
  <2> QED BY <1>6, <2>2, <2>3
<1>12. Tracked(e) \subseteq Tracked(d) /\ e.marked \subseteq d.marked
  BY <1>1, <1>7
<1>13. Shrinks(d, e)
  BY <1>9, <1>10, <1>11, <1>12 DEF Shrinks
<1> QED BY <1>13 DEF e

LEMMA PurgeShrinks ==
    ASSUME NEW d, DetectorOK(d), Ascending(d), Aligned(d)
    PROVE  Shrinks(d, d) /\ Shrinks(d, PurgeIfFull(d)) /\ Aligned(PurgeIfFull(d))
<1>1. Shrinks(d, d)
  BY DEF Shrinks
<1>2. Len(d.windows) \in Nat /\ d.maxWindows \in Nat /\ d.maxWindows > 0
  BY DedupAssumption DEF DetectorOK, DetectorType
<1>3. CASE IsFullDetector(d)
  <2>1. d.windows # <<>>
    BY <1>2, <1>3 DEF IsFullDetector
  <2>2. Shrinks(d, PurgeIfFull(d))
    BY <1>3, <2>1, RemoveFirstShrinks DEF PurgeIfFull
  <2> QED BY <1>1, <2>2 DEF Shrinks, Aligned
<1>4. CASE ~IsFullDetector(d)
  BY <1>1, <1>4 DEF PurgeIfFull
<1> QED BY <1>3, <1>4

\* One more record.
LEMMA OneMore ==
    ASSUME NEW p \in Nat
    PROVE  /\ p + 1 \in 1 .. p + 1
           /\ \A i \in 1 .. p : i \in 1 .. p + 1
           /\ \A i \in 1 .. p + 1 : i \in 1 .. p \/ i = p + 1
           /\ \A t, o : Read(t, p + 1, o) <=> Read(t, p, o) \/ t[p + 1].off = o
<1>1. /\ p + 1 \in 1 .. p + 1
      /\ \A i \in 1 .. p : i \in 1 .. p + 1
      /\ \A i \in 1 .. p + 1 : i \in 1 .. p \/ i = p + 1
  OBVIOUS
<1> QED BY <1>1 DEF Read

\* A record below the range of the detector, which may have shrunk before.
LEMMA AgreesBelow ==
    ASSUME NEW t, NEW p \in Nat, NEW d, NEW e, DetectorOK(d), DetectorOK(e),
           NEW c, NEW c2, Agrees(t, p, d, c), Shrinks(d, e), e.windows # <<>>,
           \A i \in 1 .. p : t[i].off \in Offsets,
           NEW n \in Offsets, t[p + 1].off = n, ~InRange(e, n),
           \A o \in Offsets : o # n => c2[o] = c[o]
    PROVE  Agrees(t, p + 1, e, c2)
<1>1. \A o : InRange(e, o) => InRange(d, o) /\ o # n
  BY DEF Shrinks, InRange
<1>2. Ascending(e) /\ Aligned(e)
  BY DEF Shrinks, Agrees, Aligned
<1>3. \A w \in Tracked(e) : \E i \in 1 .. p + 1 : WindowStart(t[i].off) = w
  BY OneMore DEF Agrees, Shrinks
<1>4. ASSUME NEW i \in 1 .. p + 1, InRange(e, t[i].off)
      PROVE  WindowStart(t[i].off) \in Tracked(e)
  <2>1. t[i].off # n /\ InRange(d, t[i].off)
    BY <1>1, <1>4
  <2>2. i \in 1 .. p
    BY <2>1, OneMore
  <2>3. WindowStart(t[i].off) \in Tracked(d) /\ t[i].off \in Nat
    BY <2>1, <2>2, OffsetsNat DEF Agrees
  <2>4. PICK v \in Tracked(e) : v <= t[i].off
    BY <1>4 DEF InRange
  <2>5. v \in Nat /\ WindowStart(v) = v
    BY <1>2, TrackedNat DEF Aligned
  <2>6. v <= WindowStart(t[i].off)
    BY <2>3, <2>4, <2>5, WindowsAligned
  <2> QED BY <2>3, <2>6 DEF Shrinks
<1>5. ASSUME NEW o \in Offsets, InRange(e, o)
      PROVE  /\ o \in e.marked <=> Read(t, p + 1, o)
             /\ c2[o] <= 1 /\ (c2[o] > 0 => Read(t, p + 1, o))
  <2>1. o # n /\ InRange(d, o)
    BY <1>1, <1>5
  <2>2. Read(t, p + 1, o) <=> Read(t, p, o)
    BY <2>1, OneMore
  <2>3. o \in e.marked <=> o \in d.marked
    BY <1>5 DEF Shrinks
  <2> QED BY <2>1, <2>2, <2>3 DEF Agrees
<1> QED BY <1>2, <1>3, <1>4, <1>5 DEF Agrees

\* A record of a tracked window: its bit is set, and it is forwarded if it was
\* not.
LEMMA AgreesInWindow ==
    ASSUME NEW t, NEW p \in Nat, NEW d, NEW e, DetectorOK(d),
           NEW c \in [Offsets -> Nat], NEW c2, Agrees(t, p, d, c),
           NEW n \in Offsets, t[p + 1].off = n, findWindow(d, n) # {},
           e.windows = d.windows, \A o : o \in e.marked <=> o \in d.marked \/ o = n,
           \A o \in Offsets : o # n => c2[o] = c[o],
           n \in d.marked => c2[n] = c[n],
           c2[n] = c[n] \/ c2[n] = c[n] + 1
    PROVE  Agrees(t, p + 1, e, c2)
<1>1. Tracked(e) = Tracked(d) /\ \A o : InRange(e, o) <=> InRange(d, o)
  BY DEF Tracked, InRange
<1>2. PICK w \in Tracked(d) : contains(w, n)
  BY DEF findWindow
<1>3. n \in Nat /\ w \in Nat /\ WindowStart(w) = w
  BY OffsetsNat, TrackedNat DEF Agrees, Aligned
<1>4. w = WindowStart(n) /\ InRange(d, n)
  BY <1>2, <1>3, WindowsAligned DEF contains, InRange
<1>5. Ascending(e) /\ Aligned(e)
  BY <1>1 DEF Agrees, Ascending, Aligned
<1>6. \A v \in Tracked(e) : \E i \in 1 .. p + 1 : WindowStart(t[i].off) = v
  BY <1>1, OneMore DEF Agrees
<1>7. \A i \in 1 .. p + 1 : InRange(e, t[i].off) => WindowStart(t[i].off) \in Tracked(e)
  BY <1>1, <1>4, OneMore DEF Agrees
<1>8. \A o \in Offsets : InRange(e, o) => (o \in e.marked <=> Read(t, p + 1, o))
  <2>1. \A o : Read(t, p + 1, o) <=> Read(t, p, o) \/ o = n
    BY OneMore
  <2> QED BY <1>1, <2>1 DEF Agrees
<1>9. ASSUME NEW o \in Offsets, InRange(e, o)
      PROVE  c2[o] <= 1 /\ (c2[o] > 0 => Read(t, p + 1, o))
  <2>1. c[o] <= 1 /\ (c[o] > 0 => Read(t, p, o)) /\ c[o] \in Nat
    BY <1>1, <1>9 DEF Agrees
  <2>2. CASE o # n
    BY <2>1, <2>2, OneMore
  <2>3. CASE o = n
    <3>1. Read(t, p + 1, o)
      BY <2>3, OneMore
    <3>2. n \notin d.marked => ~Read(t, p, n)
      BY <1>4 DEF Agrees
    <3>3. CASE n \in d.marked
      BY <2>1, <2>3, <3>1, <3>3
    <3>4. CASE n \notin d.marked
      <4>1. c[n] = 0
        BY <2>1, <2>3, <3>2, <3>4
      <4> QED BY <2>3, <3>1, <4>1
    <3> QED BY <3>3, <3>4
  <2> QED BY <2>2, <2>3
<1>10. e.windows # <<>>
  <2>1. d.windows = <<>> => Tracked(d) = {}
    BY DEF Tracked
  <2> QED BY <1>2, <2>1
<1> QED BY <1>5, <1>6, <1>7, <1>8, <1>9, <1>10 DEF Agrees

\* A record that opens a window, above all that were read.
LEMMA AgreesNewWindow ==
    ASSUME NEW t, NEW p \in Nat, NEW d, NEW e, NEW f, DetectorOK(d), DetectorOK(e), DetectorOK(f),
           NEW c \in [Offsets -> Nat], NEW c2, Agrees(t, p, d, c), Shrinks(d, e),
           \A i \in 1 .. p : t[i].off \in Offsets,
           NEW n \in Offsets, t[p + 1].off = n, NoLate(t, p + 1),
           findWindow(d, n) = {}, ~BelowRange(d, n),
           f.windows = Append(e.windows, WindowStart(n)),
           \A o : o \in f.marked <=> o \in e.marked \/ o = n,
           \A w : w \in Tracked(f) <=> w \in Tracked(e) \/ w = WindowStart(n),
           \A o \in Offsets : o # n => c2[o] = c[o],
           c2[n] = c[n] \/ c2[n] = c[n] + 1
    PROVE  Agrees(t, p + 1, f, c2)
<1> DEFINE m == WindowStart(n)
<1>1. /\ n \in Nat /\ m \in Nat /\ WindowStart(m) = m
      /\ Tracked(d) \subseteq Nat /\ Tracked(e) \subseteq Nat /\ Tracked(e) \subseteq Tracked(d)
      /\ \A w \in Tracked(d) : WindowStart(w) = w
  BY OffsetsNat, TrackedNat, WindowStartAligned DEF Agrees, Aligned, Shrinks
<1>2. /\ d.windows = <<>> \/ InRange(d, n)
      /\ d.windows = <<>> => Tracked(d) = {} /\ p = 0
  <2>1. d.windows = <<>> => Tracked(d) = {} /\ p = 0
    BY DEF Tracked, Agrees
  <2> QED BY <1>1, <2>1, HeadIsLeast DEF Agrees
<1>3. \A j \in 1 .. p : t[j].off \in Nat /\ WindowStart(t[j].off) < m
  <2>1. \A j \in 1 .. p : t[j].off \in Nat
    BY OffsetsNat
  <2>2. ASSUME NEW j \in 1 .. p, WindowStart(t[j].off) = m PROVE FALSE
    <3>1. d.windows # <<>>
      BY <1>2
    <3>2. PICK v \in Tracked(d) : v <= n
      BY <1>2, <3>1 DEF InRange
    <3>3. v \in Nat /\ WindowStart(v) = v
      BY <1>1
    <3>4. v <= m
      BY <1>1, <3>2, <3>3, WindowsAligned
    <3>5. v <= t[j].off
      BY <2>1, <2>2, <3>3, <3>4, WindowsAligned
    <3>6. m \in Tracked(d)
      BY <2>2, <3>2, <3>5 DEF Agrees, InRange
    <3>7. contains(m, n)
      BY <1>1, WindowsAligned
    <3> QED BY <3>6, <3>7 DEF findWindow
  <2>3. p + 1 \in 1 .. p + 1 /\ (p + 1) - 1 = p
    OBVIOUS
  <2>4. \/ \E j \in 1 .. p : WindowStart(t[j].off) = WindowStart(t[p + 1].off)
        \/ \A j \in 1 .. p : WindowStart(t[j].off) < WindowStart(t[p + 1].off)
    BY <2>3 DEF NoLate
  <2> QED BY <2>1, <2>2, <2>4
<1>4. \A w \in Tracked(d) : w < m
  BY <1>3 DEF Agrees
<1>5. \A o \in Offsets : o \in Nat /\ (m <= o <=> m <= WindowStart(o))
  BY <1>1, OffsetsNat, WindowsAligned
<1>6. \A o \in Offsets : m <= o => ~Read(t, p, o)
  <2> SUFFICES ASSUME NEW o \in Offsets, m <= o, Read(t, p, o) PROVE FALSE
    OBVIOUS
  <2>1. PICK j \in 1 .. p : t[j].off = o
    BY DEF Read
  <2>2. WindowStart(o) < m /\ m <= WindowStart(o) /\ WindowStart(o) \in Nat
    BY <1>3, <1>5, <2>1, WindowStartNat
  <2> QED BY <1>1, <2>2
<1> HIDE DEF m
<1>7. \A o \in Offsets : m <= o => o \notin d.marked /\ c[o] = 0
  <2> SUFFICES ASSUME NEW o \in Offsets, m <= o PROVE o \notin d.marked /\ c[o] = 0
    OBVIOUS
  <2>1. CASE d.windows = <<>>
    BY <2>1 DEF Agrees
  <2>2. CASE d.windows # <<>>
    <3>1. PICK v \in Tracked(d) : v <= n
      BY <1>2, <2>2 DEF InRange
    <3>2. v < m /\ v \in Nat /\ o \in Nat
      BY <1>1, <1>4, <1>5, <3>1
    <3>3. v <= o
      BY <1>1, <3>2
    <3>4. InRange(d, o)
      BY <3>1, <3>3 DEF InRange
    <3>5. c[o] \in Nat
      OBVIOUS
    <3> QED BY <1>6, <3>4, <3>5 DEF Agrees
  <2> QED BY <2>1, <2>2
<1>8. Ascending(f)
  <2> DEFINE s == e.windows
             k == Len(s)
  <2>1. s \in Seq(Nat) /\ k \in Nat /\ DOMAIN s = 1 .. k
    BY DEF DetectorOK, DetectorType
  <2>2. f.windows = Append(s, m)
    BY DEF m
  <2>3. /\ DOMAIN f.windows = 1 .. k + 1
        /\ \A i \in 1 .. k : f.windows[i] = s[i]
        /\ f.windows[k + 1] = m
    BY <1>1, <2>1, <2>2
  <2>4. \A i \in 1 .. k : s[i] < m
    BY <1>1, <1>4, <2>1 DEF Tracked
  <2>5. Ascending(e)
    BY DEF Shrinks
  <2> HIDE DEF k
  <2>6. ASSUME NEW i \in 1 .. k + 1, NEW j \in 1 .. k + 1, i < j
        PROVE  f.windows[i] < f.windows[j]
    <3>1. i \in 1 .. k
      BY <2>1, <2>6
    <3>2. CASE j = k + 1
      BY <2>3, <2>4, <3>1, <3>2
    <3>3. CASE j \in 1 .. k
      BY <2>1, <2>3, <2>5, <2>6, <3>1, <3>3 DEF Ascending
    <3> QED BY <2>1, <3>2, <3>3
  <2> QED BY <2>3, <2>6 DEF Ascending
<1>9. Tracked(f) = Tracked(e) \cup {m}
  BY DEF m
<1>10. Aligned(f)
  BY <1>1, <1>9 DEF Aligned
<1>11. \A w \in Tracked(f) : \E i \in 1 .. p + 1 : WindowStart(t[i].off) = w
  <2>1. ASSUME NEW w \in Tracked(e) PROVE \E i \in 1 .. p + 1 : WindowStart(t[i].off) = w
    BY <1>1, OneMore DEF Agrees
  <2>2. p + 1 \in 1 .. p + 1 /\ WindowStart(t[p + 1].off) = m
    BY OneMore DEF m
  <2> QED BY <1>9, <2>1, <2>2
\* What is in the range of f is at or above its new window, or in the range of e.
<1>12. \A o \in Offsets : InRange(f, o) => InRange(e, o) \/ m <= o
  BY <1>9 DEF InRange
<1>13. ASSUME NEW i \in 1 .. p + 1, InRange(f, t[i].off)
       PROVE  WindowStart(t[i].off) \in Tracked(f)
  <2>1. CASE i = p + 1
    BY <1>9, <2>1 DEF m
  <2>2. CASE i \in 1 .. p
    <3>1. t[i].off \in Offsets /\ t[i].off \in Nat
      BY <2>2, OffsetsNat
    <3>2. ~(m <= t[i].off)
      BY <1>6, <2>2, <3>1 DEF Read
    <3>3. PICK v \in Tracked(e) : v <= t[i].off
      BY <1>12, <1>13, <3>1, <3>2 DEF InRange
    <3>4. v \in Tracked(d) /\ v \in Nat /\ WindowStart(v) = v
      BY <1>1, <3>3
    <3>5. WindowStart(t[i].off) \in Tracked(d)
      BY <2>2, <3>3, <3>4 DEF Agrees, InRange
    <3>6. v <= WindowStart(t[i].off)
      BY <3>1, <3>3, <3>4, WindowsAligned
    <3>7. WindowStart(t[i].off) \in Tracked(e)
      BY <3>3, <3>5, <3>6 DEF Shrinks
    <3> QED BY <1>9, <3>7
  <2> QED BY <2>1, <2>2, OneMore
<1>14. ASSUME NEW o \in Offsets, InRange(f, o)
       PROVE  /\ o \in f.marked <=> Read(t, p + 1, o)
              /\ c2[o] <= 1 /\ (c2[o] > 0 => Read(t, p + 1, o))
  <2>1. Read(t, p + 1, o) <=> Read(t, p, o) \/ o = n
    BY OneMore
  <2>2. n \in Offsets /\ m <= n
    BY <1>1, WindowStartNat DEF m
  <2>3. CASE o = n
    <3>1. c[n] = 0
      BY <1>7, <2>2
    <3> QED BY <2>1, <2>3, <3>1
  <2>4. CASE o # n /\ m <= o
    <3>1. o \notin d.marked /\ c[o] = 0 /\ ~Read(t, p, o)
      BY <1>6, <1>7, <2>4
    <3>2. o \notin f.marked /\ c2[o] = 0
      BY <2>4, <3>1 DEF Shrinks
    <3> QED BY <2>1, <2>4, <3>1, <3>2
  <2>5. CASE o # n /\ ~(m <= o)
    <3>1. InRange(e, o)
      BY <1>12, <1>14, <2>5
    <3>2. InRange(d, o)
      BY <1>1, <3>1 DEF InRange
    <3>3. o \in f.marked <=> o \in d.marked
      BY <2>5, <3>1 DEF Shrinks
    <3>4. c2[o] = c[o]
      BY <2>5
    <3> QED BY <2>1, <2>5, <3>2, <3>3, <3>4 DEF Agrees
  <2> QED BY <2>3, <2>4, <2>5
<1>15. f.windows # <<>>
  <2>1. f.windows = <<>> => Tracked(f) = {}
    BY DEF Tracked
  <2> QED BY <1>9, <2>1
<1> QED BY <1>8, <1>10, <1>11, <1>13, <1>14, <1>15 DEF Agrees

\* Whichever way check() goes, the detector goes on agreeing with the topic.
LEMMA ProcessAgrees ==
    ASSUME TypeInv, Process, NoLate(raw, pos + 1), Agrees(raw, pos, det, clean)
    PROVE  Agrees(raw, pos + 1, det', clean')
<1> DEFINE n == Incoming.off
<1>1. /\ DetectorOK(det) /\ clean \in [Offsets -> Nat] /\ pos \in Nat
      /\ raw \in Seq(Records) /\ pos < Len(raw)
  <2>1. pos < Len(raw)
    BY DEF Process, ProcessDuplicate, ProcessInWindow, ProcessBelowRange,
           ProcessNewWindow, ProcessOutOfMemory, Consume
  <2> QED BY <2>1 DEF TypeInv, TypeOK
<1>2. \A i \in 1 .. pos + 1 : raw[i] \in Records /\ raw[i].off \in Offsets
  BY <1>1 DEF Offsets
<1>3. n \in Offsets /\ raw[pos + 1].off = n /\ n \in Nat
  <2>1. pos + 1 \in 1 .. pos + 1
    BY <1>1
  <2>2. raw[pos + 1].off \in Offsets
    BY <1>2, <2>1
  <2> QED BY <2>2, OffsetsNat DEF Incoming
<1>4. \A i \in 1 .. pos : raw[i].off \in Offsets
  BY <1>1, <1>2
<1>5. Deliver(Incoming) => /\ \A o \in Offsets : o # n => clean'[o] = clean[o]
                           /\ clean'[n] = clean[n] \/ clean'[n] = clean[n] + 1
  BY <1>1, <1>3 DEF Deliver
<1>6. Ascending(det) /\ Aligned(det)
  BY DEF Agrees
<1>7. /\ DetectorOK(PurgeIfFull(det)) /\ Shrinks(det, PurgeIfFull(det)) /\ Shrinks(det, det)
      /\ Len(PurgeIfFull(det).windows) < PurgeIfFull(det).maxWindows
  BY <1>1, <1>6, PurgeIfFullDetector, PurgeShrinks
<1> HIDE DEF n
<1>8. CASE ProcessDuplicate
  <2>1. /\ findWindow(det, n) # {} /\ n \in det.marked /\ det' = det /\ clean' = clean
    BY <1>8 DEF ProcessDuplicate, n
  <2>2. \A o : o \in det'.marked <=> o \in det.marked \/ o = n
    BY <2>1
  <2> QED BY <1>1, <1>3, <2>1, <2>2, AgreesInWindow
<1>9. CASE ProcessInWindow
  <2>1. /\ findWindow(det, n) # {} /\ n \notin det.marked /\ det' = markReceived(det, n)
        /\ Deliver(Incoming)
    BY <1>9 DEF ProcessInWindow, n
  <2>2. det'.windows = det.windows /\ det'.marked = det.marked \cup {n}
    BY <1>1, <1>3, <2>1, MarkReceivedDetector
  <2>3. /\ \A o \in Offsets : o # n => clean'[o] = clean[o]
        /\ clean'[n] = clean[n] \/ clean'[n] = clean[n] + 1
    BY <1>5, <2>1
  <2>4. \A o : o \in det'.marked <=> o \in det.marked \/ o = n
    BY <2>2
  <2>5. findWindow(det, n) # {} /\ n \notin det.marked /\ det'.windows = det.windows
    BY <2>1, <2>2
  <2> QED BY <1>1, <1>3, <2>3, <2>4, <2>5, AgreesInWindow
<1>10. CASE ProcessBelowRange
  <2>1. BelowRange(det, n) /\ det' = det /\ Deliver(Incoming)
    BY <1>10 DEF ProcessBelowRange, n
  <2>2. det.windows # <<>> /\ ~InRange(det, n)
    BY <1>1, <1>3, <1>6, <2>1, HeadIsLeast
  <2> QED BY <1>1, <1>3, <1>4, <1>5, <1>7, <2>1, <2>2, AgreesBelow
<1>11. CASE ProcessNewWindow
  <2> DEFINE e == PurgeIfFull(det)
  <2>1. /\ findWindow(det, n) = {} /\ ~BelowRange(det, n)
        /\ det' = AddWindow(e, n) /\ Deliver(Incoming)
    BY <1>11 DEF ProcessNewWindow, n
  <2> HIDE DEF e
  <2>2. /\ DetectorOK(det') /\ det'.windows = Append(e.windows, WindowStart(n))
        /\ det'.marked = e.marked \cup {n} /\ Tracked(det') = Tracked(e) \cup {WindowStart(n)}
    BY <1>3, <1>7, <2>1, AddWindowDetector DEF e
  <2>3. /\ \A o \in Offsets : o # n => clean'[o] = clean[o]
        /\ clean'[n] = clean[n] \/ clean'[n] = clean[n] + 1
    BY <1>5, <2>1
  <2>4. DetectorOK(e) /\ Shrinks(det, e)
    BY <1>7 DEF e
  <2>5. /\ \A o : o \in det'.marked <=> o \in e.marked \/ o = n
        /\ \A w : w \in Tracked(det') <=> w \in Tracked(e) \/ w = WindowStart(n)
    BY <2>2
  <2>6. DetectorOK(det') /\ det'.windows = Append(e.windows, WindowStart(n))
    BY <2>2
  <2> QED BY <1>1, <1>3, <1>4, <2>1, <2>3, <2>4, <2>5, <2>6, AgreesNewWindow
<1>12. CASE ProcessOutOfMemory
  <2> DEFINE d == PurgeIfFull(det)
             e == OutOfMemoryDetector
  <2>1. /\ findWindow(det, n) = {} /\ ~BelowRange(det, n) /\ e.windows # <<>>
        /\ det' = IF BelowRange(e, n) THEN e ELSE AddWindow(removeFirst(e), n)
        /\ Deliver(Incoming)
    BY <1>12 DEF ProcessOutOfMemory, n
  <2>2. DetectorOK(e) /\ Len(e.windows) = e.maxWindows
    BY <1>1, <2>1, OutOfMemoryDetectorOK
  <2>3. e.windows = d.windows /\ e.marked = d.marked
    <3>1. e = [d EXCEPT !.maxWindows = Len(d.windows)]
      BY DEF OutOfMemoryDetector
    <3>2. d \in DetectorType
      BY <1>7 DEF DetectorOK
    <3> HIDE DEF d, e
    <3> QED BY <3>1, <3>2 DEF DetectorType
  <2> HIDE DEF e
  <2>4. Shrinks(det, e)
    <3>1. Shrinks(det, d)
      BY <1>7
    <3> HIDE DEF d
    <3> QED BY <2>3, <3>1 DEF Shrinks, Tracked, Ascending, InRange
  <2>5. Ascending(e) /\ Aligned(e)
    BY <1>6, <2>4 DEF Shrinks, Aligned
  <2>6. CASE BelowRange(e, n)
    <3>1. ~InRange(e, n)
      BY <1>3, <2>2, <2>5, <2>6, HeadIsLeast
    <3> QED BY <1>1, <1>3, <1>4, <1>5, <2>1, <2>2, <2>4, <2>6, <3>1, AgreesBelow
  <2>7. CASE ~BelowRange(e, n)
    <3> DEFINE f == removeFirst(e)
    <3>1. det' = AddWindow(f, n)
      BY <2>1, <2>7
    <3>2. /\ DetectorOK(f) /\ Len(f.windows) = Len(e.windows) - 1
          /\ f.maxWindows = e.maxWindows
      BY <2>1, <2>2, RemoveFirstDetector
    <3>3. Shrinks(e, f)
      BY <2>1, <2>2, <2>5, RemoveFirstShrinks
    <3> HIDE DEF f
    <3>4. Shrinks(det, f)
      BY <2>4, <3>3, ShrinksTransitive
    <3>5. Len(f.windows) < f.maxWindows
      BY <2>2, <3>2 DEF DetectorOK, DetectorType
    <3>6. /\ DetectorOK(det') /\ det'.windows = Append(f.windows, WindowStart(n))
          /\ det'.marked = f.marked \cup {n} /\ Tracked(det') = Tracked(f) \cup {WindowStart(n)}
      BY <1>3, <3>1, <3>2, <3>5, AddWindowDetector
    <3>7. /\ \A o \in Offsets : o # n => clean'[o] = clean[o]
          /\ clean'[n] = clean[n] \/ clean'[n] = clean[n] + 1
      BY <1>5, <2>1
    <3>8. /\ \A o : o \in det'.marked <=> o \in f.marked \/ o = n
          /\ \A w : w \in Tracked(det') <=> w \in Tracked(f) \/ w = WindowStart(n)
      BY <3>6
    <3>9. DetectorOK(det') /\ det'.windows = Append(f.windows, WindowStart(n))
      BY <3>6
    <3>10. findWindow(det, n) = {} /\ ~BelowRange(det, n) /\ DetectorOK(f)
      BY <2>1, <3>2
    <3> QED BY <1>1, <1>3, <1>4, <3>4, <3>7, <3>8, <3>9, <3>10, AgreesNewWindow
  <2> QED BY <2>6, <2>7
<1> QED BY <1>8, <1>9, <1>10, <1>11, <1>12 DEF Process

\* A prefix of a topic without late windows has none, and only the records read
\* matter.
LEMMA NoLatePrefix ==
    ASSUME NEW t, NEW p \in Nat, NoLate(t, p + 1) PROVE NoLate(t, p)
BY OneMore DEF NoLate

LEMMA SamePrefix ==
    ASSUME NEW t, NEW u, NEW p \in Nat, NEW d, NEW c,
           \A i \in 1 .. p : t[i] = u[i]
    PROVE  /\ NoLate(t, p) <=> NoLate(u, p)
           /\ Agrees(t, p, d, c) <=> Agrees(u, p, d, c)
<1>1. NoLate(t, p) <=> NoLate(u, p)
  <2>1. \A i \in 1 .. p : \A j \in 1 .. i - 1 : t[i] = u[i] /\ t[j] = u[j]
    OBVIOUS
  <2> QED BY <2>1 DEF NoLate
<1>2. \A o : Read(t, p, o) <=> Read(u, p, o)
  BY DEF Read
<1>3. Agrees(t, p, d, c) <=> Agrees(u, p, d, c)
  BY <1>2 DEF Agrees
<1> QED BY <1>1, <1>3

\* A fresh task agrees with an empty topic, an upgraded one with its record.
LEMMA InitAgreeInv == Init => AgreeInv /\ ClearedInv
<1> SUFFICES ASSUME Init PROVE AgreeInv /\ ClearedInv
  OBVIOUS
<1>1. DetectorOK(EmptyDetector) /\ EmptyDetector.windows = <<>>
      /\ EmptyDetector.maxWindows = MaxWindows /\ EmptyDetector.marked = {}
  BY DedupAssumption DEF EmptyDetector, DetectorOK, DetectorType
<1>2. Agrees(<<>>, 0, EmptyDetector, [o \in Offsets |-> 0])
  <2>1. Tracked(EmptyDetector) = {}
    BY <1>1 DEF Tracked
  <2> QED BY <1>1, <2>1 DEF Agrees, Ascending, Aligned, InRange
<1>3. Agrees(raw, pos, store, clean)
  <2>1. CASE InitFresh
    BY <1>2, <2>1 DEF Init, InitFresh
  <2>2. CASE InitUpgraded
    <3>1. PICK r \in Records :
            /\ raw = <<r>>
            /\ store = AddWindow(EmptyDetector, r.off)
            /\ clean = [o \in Offsets |-> IF o = r.off /\ ~r.empty THEN 1 ELSE 0]
      BY <2>2 DEF InitUpgraded
    <3>2. r.off \in Offsets /\ pos = 1 /\ raw[1] = r /\ r.off \in Nat
      BY <3>1, OffsetsNat DEF Init, Offsets
    <3> DEFINE m == WindowStart(r.off)
    <3>3. /\ store.windows = Append(<<>>, m) /\ store.marked = {r.off}
          /\ Tracked(store) = {m}
      <4>1. Tracked(EmptyDetector) = {}
        BY <1>1 DEF Tracked
      <4> QED BY <1>1, <3>1, <3>2, <4>1, AddWindowDetector, DedupAssumption
    <3>4. m \in Nat /\ WindowStart(m) = m
      BY <3>2, WindowStartAligned
    <3> HIDE DEF m
    <3>5. DOMAIN store.windows = {1} /\ store.windows # <<>>
      BY <3>3
    <3>6. Ascending(store)
      BY <3>5 DEF Ascending
    <3>7. Aligned(store)
      BY <3>3, <3>4 DEF Aligned
    <3>8. \A o : Read(raw, 1, o) <=> o = r.off
      BY <3>2 DEF Read
    <3>9. \A i \in 1 .. 1 : raw[i].off = r.off /\ WindowStart(raw[i].off) \in Tracked(store)
      BY <3>2, <3>3 DEF m
    <3>10. \A w \in Tracked(store) : \E i \in 1 .. 1 : WindowStart(raw[i].off) = w
      BY <3>2, <3>3 DEF m
    <3>11. \A o \in Offsets : clean[o] <= 1 /\ (clean[o] > 0 => o = r.off)
      BY <3>1
    <3> QED BY <3>2, <3>3, <3>5, <3>6, <3>7, <3>8, <3>9, <3>10, <3>11 DEF Agrees
  <2> QED BY <2>1, <2>2 DEF Init
<1> QED BY <1>3 DEF Init, AgreeInv, ClearedInv, Snapshot

\* Every step keeps the detector in agreement with the topic, here and in the
\* last commit.
LEMMA NextAgreeInv == TypeInv /\ AgreeInv /\ [Next]_vars => AgreeInv'
<1> SUFFICES ASSUME TypeInv, AgreeInv, [Next]_vars, ~amnesia'
             PROVE  /\ NoLate(raw', pos') => Agrees(raw', pos', det', clean')
                    /\ NoLate(raw', committed'.pos) =>
                         Agrees(raw', committed'.pos, committed'.det, committed'.clean)
  BY DEF AgreeInv
<1>1. /\ raw \in Seq(Records) /\ pos \in Nat /\ committed.pos \in Nat
      /\ pos <= Len(raw) /\ committed.pos <= Len(raw) /\ Len(raw) \in Nat
  BY DEF TypeInv, TypeOK, CommittedOK
<1>2. ~amnesia
  BY DEF Next, Produce, Process, ProcessDuplicate, ProcessInWindow, ProcessBelowRange,
         ProcessNewWindow, ProcessOutOfMemory, ProcessFrame, EmitGaps, Persist, Commit,
         Restart, vars
<1>3. /\ NoLate(raw, pos) => Agrees(raw, pos, det, clean)
      /\ NoLate(raw, committed.pos) =>
           Agrees(raw, committed.pos, committed.det, committed.clean)
  BY <1>2 DEF AgreeInv
<1>4. CASE Produce
  <2>1. PICK r \in Records : raw' = Append(raw, r)
    BY <1>4 DEF Produce
  <2>2. \A i \in 1 .. Len(raw) : raw'[i] = raw[i]
    BY <1>1, <2>1
  <2>3. UNCHANGED <<pos, det, clean, committed>>
    BY <1>4 DEF Produce
  <2>4. /\ \A i \in 1 .. pos : raw'[i] = raw[i]
        /\ \A i \in 1 .. committed.pos : raw'[i] = raw[i]
    BY <1>1, <2>2
  <2>5. /\ NoLate(raw', pos) <=> NoLate(raw, pos)
        /\ Agrees(raw', pos, det, clean) <=> Agrees(raw, pos, det, clean)
    BY <1>1, <2>4, SamePrefix
  <2>6. /\ NoLate(raw', committed.pos) <=> NoLate(raw, committed.pos)
        /\ Agrees(raw', committed.pos, committed.det, committed.clean)
             <=> Agrees(raw, committed.pos, committed.det, committed.clean)
    BY <1>1, <2>4, SamePrefix
  <2> QED BY <1>3, <2>3, <2>5, <2>6
<1>5. CASE Process
  <2>1. pos' = pos + 1 /\ raw' = raw /\ committed' = committed
    BY <1>5 DEF Process, ProcessDuplicate, ProcessInWindow, ProcessBelowRange,
         ProcessNewWindow, ProcessOutOfMemory, ProcessFrame, Consume
  <2>2. ASSUME NoLate(raw, pos + 1) PROVE Agrees(raw, pos + 1, det', clean')
    <3>1. NoLate(raw, pos)
      BY <1>1, <2>2, NoLatePrefix
    <3> QED BY <1>3, <1>5, <2>2, <3>1, ProcessAgrees
  <2> QED BY <1>3, <2>1, <2>2
<1>6. CASE EmitGaps \/ Persist \/ UNCHANGED vars
  <2>1. UNCHANGED <<raw, pos, det, clean, committed>>
    BY <1>6 DEF EmitGaps, Persist, vars
  <2> QED BY <1>3, <2>1
<1>7. CASE Commit
  <2>1. /\ committed'.pos = pos /\ committed'.clean = clean /\ committed'.det = det
        /\ UNCHANGED <<raw, pos, det, clean>>
    BY <1>7 DEF Commit, Snapshot
  <2> QED BY <1>3, <2>1
<1>8. CASE Restart
  <2>1. /\ pos' = committed.pos /\ det' = committed.store /\ clean' = committed.clean
        /\ raw' = raw /\ committed' = committed /\ committed.store = committed.det
    BY <1>8 DEF Restart
  <2> QED BY <1>3, <2>1
<1> QED BY <1>4, <1>5, <1>6, <1>7, <1>8 DEF Next

\* An offset in the range of detection is forwarded once at most: duplicates in
\* the raw topic, purged windows, failed allocations and restarts that replay
\* what was not committed do not change that, unless a restart forgot committed
\* windows or a window skipped entirely is filled from behind.
THEOREM ForwardedAtMostOnce == Spec => []AtMostOnceInRange
<1>1. TypeInv /\ AgreeInv => AtMostOnceInRange
  <2> SUFFICES ASSUME TypeInv, AgreeInv, ~amnesia, NoLateWindow,
                      NEW o \in Offsets, InDetectionRange(o)
               PROVE  clean[o] <= 1
    BY DEF AtMostOnceInRange
  <2>1. NoLate(raw, pos)
    BY DEF NoLate, NoLateWindow
  <2>2. Agrees(raw, pos, det, clean)
    BY <2>1 DEF AgreeInv
  <2>3. DetectorOK(det) /\ Ascending(det) /\ o \in Nat
    BY <2>2, OffsetsNat DEF TypeInv, TypeOK, Agrees
  <2>4. InRange(det, o)
    BY <2>3, HeadIsLeast DEF InDetectionRange
  <2> QED BY <2>2, <2>4 DEF Agrees
<1>2. Init => TypeInv /\ AgreeInv
  BY InitTypeInv, InitAgreeInv
<1> QED BY <1>1, <1>2, NextTypeInv, NextAgreeInv, PTL DEF Spec

\* What is noted as written without gaps stays so: a window that leaves takes
\* its note and its record with it, and a restart drops all notes.
LEMMA NextClearedInv == ClearedInv /\ [Next]_vars => ClearedInv'
<1> SUFFICES ASSUME ClearedInv, [Next]_vars PROVE ClearedInv'
  OBVIOUS
<1>1. CASE UNCHANGED <<cleared, gapTopic>>
  BY <1>1 DEF ClearedInv
<1>2. ASSUME NEW purged, Tombstone(purged) PROVE ClearedInv'
  BY <1>2 DEF Tombstone, ClearedInv
<1>3. CASE EmitGaps
  <2> DEFINE gaps(w) == findGapsFiltered(det, w)
             written == {w \in Tracked(det) : gaps(w) # {} \/ w \notin cleared}
  <2>1. /\ gapTopic' = [w \in DOMAIN gapTopic \cup written |->
                          IF w \in written THEN gaps(w) ELSE gapTopic[w]]
        /\ cleared' = {w \in Tracked(det) : gaps(w) = {}}
    BY <1>3 DEF EmitGaps
  <2>2. ASSUME NEW w \in cleared' PROVE w \in DOMAIN gapTopic' /\ gapTopic'[w] = {}
    <3>1. w \in Tracked(det) /\ gaps(w) = {}
      BY <2>1
    <3>2. CASE w \in written
      BY <2>1, <3>1, <3>2
    <3>3. CASE w \notin written
      <4>1. w \in cleared
        BY <3>1, <3>3
      <4> QED BY <2>1, <3>3, <4>1 DEF ClearedInv
    <3> QED BY <3>2, <3>3
  <2> QED BY <2>2 DEF ClearedInv
<1>4. CASE Process
  BY <1>1, <1>2, <1>4 DEF Process, ProcessDuplicate, ProcessInWindow, ProcessBelowRange,
         ProcessNewWindow, ProcessOutOfMemory, NoTombstone
<1>5. CASE Restart
  BY <1>5 DEF Restart, ClearedInv
<1>6. CASE Produce \/ Persist \/ Commit \/ UNCHANGED vars
  BY <1>1, <1>6 DEF Produce, Persist, Commit, vars
<1> QED BY <1>3, <1>4, <1>5, <1>6 DEF Next

\* In the range of detection the bits are the topic, so the gaps computed from
\* the bits are the gaps of the topic.
LEMMA GapsOfTheTopic ==
    ASSUME TypeInv, Agrees(raw, pos, det, clean), NEW w \in Tracked(det)
    PROVE  findGapsFiltered(det, w) =
             {g \in 0 .. WindowSize - 1 :
                /\ w + g \notin Consumed
                /\ \E v \in Consumed : contains(w, v) /\ w + g < v}
<1>1. /\ DetectorOK(det) /\ det.minReceived = 0 /\ det.marked \subseteq Offsets /\ w \in Nat
      /\ pos \in Nat /\ \A i \in 1 .. pos : raw[i].off \in Offsets
  <2>1. DetectorOK(det)
    BY DEF TypeInv, TypeOK
  <2>2. det.minReceived = 0 /\ det.marked \subseteq Offsets
    BY <2>1 DEF DetectorOK, DetectorType
  <2>3. w \in Nat
    BY <2>1, TrackedNat
  <2>4. raw \in Seq(Records) /\ pos \in 0 .. Len(raw)
    BY DEF TypeInv, TypeOK
  <2>5. \A i \in 1 .. pos : raw[i] \in Records
    BY <2>4
  <2> QED BY <2>1, <2>2, <2>3, <2>4, <2>5 DEF Offsets
<1>2. Consumed \subseteq Offsets /\ \A o : o \in Consumed <=> Read(raw, pos, o)
  BY <1>1 DEF Consumed, Read
<1>3. ASSUME NEW o \in Nat, w <= o PROVE o \in det.marked <=> o \in Consumed
  <2>1. CASE o \in Offsets
    <3>1. InRange(det, o)
      BY <1>3 DEF InRange
    <3> QED BY <1>2, <2>1, <3>1 DEF Agrees
  <2>2. CASE o \notin Offsets
    BY <1>1, <1>2, <2>2
  <2> QED BY <2>1, <2>2
<1>4. WindowSize \in Nat
  BY DedupAssumption
<1>5. ASSUME NEW g \in 0 .. WindowSize - 1
      PROVE  /\ w + g \in det.marked <=> w + g \in Consumed
             /\ w + g >= det.minReceived
  <2>1. w + g \in Nat /\ w <= w + g
    BY <1>1, <1>4
  <2> QED BY <1>1, <1>3, <2>1
<1>6. \A v : contains(w, v) /\ v \in Offsets => v \in Nat /\ w <= v
  BY OffsetsNat DEF contains
<1>7. \A v : contains(w, v) => (v \in det.marked <=> v \in Consumed)
  BY <1>1, <1>2, <1>3, <1>6
<1>8. ASSUME NEW g \in 0 .. WindowSize - 1
      PROVE  (\E v \in det.marked : contains(w, v) /\ w + g < v)
               <=> (\E v \in Consumed : contains(w, v) /\ w + g < v)
  BY <1>7
<1> QED BY <1>5, <1>8 DEF findGapsFiltered

\* emitGapsForPartition writes the gaps of the raw topic, under the conditions of
\* ForwardedAtMostOnce: also for a window it does not write again, because what
\* is in the gap topic is still right.
THEOREM GapsReportedAreTheGaps == Spec => EmitReportsTheGaps
<1> DEFINE Reports ==
      EmitGaps /\ ~amnesia /\ NoLateWindow =>
        \A w \in Tracked(det) :
            gapTopic'[w] = {g \in 0 .. WindowSize - 1 :
                               /\ w + g \notin Consumed
                               /\ \E v \in Consumed : contains(w, v) /\ w + g < v}
<1>1. TypeInv /\ AgreeInv /\ ClearedInv => Reports
  <2> SUFFICES ASSUME TypeInv, AgreeInv, ClearedInv, EmitGaps, ~amnesia, NoLateWindow,
                      NEW w \in Tracked(det)
               PROVE  gapTopic'[w] = findGapsFiltered(det, w)
    <3>1. NoLateWindow => NoLate(raw, pos)
      BY DEF NoLate, NoLateWindow
    <3>2. AgreeInv /\ ~amnesia /\ NoLateWindow => Agrees(raw, pos, det, clean)
      BY <3>1 DEF AgreeInv
    <3> QED BY <3>2, GapsOfTheTopic
  <2> DEFINE gaps(v) == findGapsFiltered(det, v)
             written == {v \in Tracked(det) : gaps(v) # {} \/ v \notin cleared}
  <2>1. gapTopic' = [v \in DOMAIN gapTopic \cup written |->
                          IF v \in written THEN gaps(v) ELSE gapTopic[v]]
    BY DEF EmitGaps
  <2>2. CASE w \in written
    BY <2>1, <2>2
  <2>3. CASE w \notin written
    <3>1. w \in cleared /\ gaps(w) = {}
      BY <2>3
    <3> QED BY <2>1, <2>3, <3>1 DEF ClearedInv
  <2> QED BY <2>2, <2>3
<1>2. Init => TypeInv /\ AgreeInv /\ ClearedInv
  BY InitTypeInv, InitAgreeInv
<1> HIDE DEF Reports
<1>3. Spec => [](TypeInv /\ AgreeInv /\ ClearedInv)
  BY <1>2, NextTypeInv, NextAgreeInv, NextClearedInv, PTL DEF Spec
<1>4. Spec => [][Reports]_vars
  BY <1>1, <1>3, PTL
<1> QED BY <1>4, PTL DEF EmitReportsTheGaps, Reports


-----------------------------------------------------------------------------
\* CreateBundle: what create reads of the gap topic while it changes.

\* The records of the gap topic.
GapRecords == [offset : Nat, key : Keys, entry : Entries \ {None}]

\* A gap topic: every record is in the partition of its key, below the newest
\* offset, and no two of a partition have the same offset.
GapLog(l, n) ==
    /\ l \in [Partitions -> SUBSET GapRecords]
    /\ n \in [Partitions -> Nat]
    /\ \A p \in Partitions : \A r \in l[p] : r.offset < n[p] /\ Place[r.key] = p
    /\ \A p \in Partitions : \A q, r \in l[p] : q.offset = r.offset => q = r

\* The pass of create has not come to the partition of k.
Ahead(k) ==
    \/ pc = "idle"
    \/ pc = "open" /\ Place[k] >= partition
    \/ pc = "read" /\ Place[k] > partition

\* The entry of the last of the records R.
LastOf(R) == (CHOOSE r \in R : \A q \in R : q.offset <= r.offset).entry

\* The records of k that the pass has still to read before it leaves the partition.
Left(k) == {r \in log[partition] : r.key = k /\ position <= r.offset /\ r.offset <= final}

\* What create will know of k if nothing is written from now on: the topic's word
\* for it ahead of the pass, the last record left in the partition that is being
\* read, and else what was read.
View(k) ==
    IF Ahead(k) THEN Latest(log, k)
    ELSE IF pc = "read" /\ Place[k] = partition /\ Left(k) # {} THEN LastOf(Left(k))
    ELSE state[k]

\* Where the pass is; nothing is known of the keys ahead of it.
PassInv ==
    /\ pc \in {"idle", "open", "read", "write", "done", "failed"}
    /\ state \in [Keys -> Entries]
    /\ partition \in Nat /\ position \in Nat /\ final \in Int
    /\ pc \in {"open", "read"} => partition \in Partitions
    /\ pc = "read" => final < next[partition]
    /\ \A k \in Keys : Ahead(k) => state[k] = None
    /\ pc = "done" =>
          reported = [w \in Windows |-> Live(state[<<"binary", w>>], state[<<"legacy", w>>])]

\* A record that was written to the partition since it was opened, which the pass
\* may still read as its last, said something of its window when it was written.
NewInv ==
    pc = "read" => \A w \in Windows : \A r \in log[partition] : r.offset > final =>
       /\ r.key = <<"binary", w>> => Live(r.entry, None) \in held[w]
       /\ r.key = <<"legacy", w>> => r.entry = Deleted /\ None \in held[w]

\* What create will know of a window is something the topic has said of it.
ViewInv ==
    pc \notin {"idle", "failed"} /\ ~cut =>
       \A w \in Windows : Live(View(<<"binary", w>>), View(<<"legacy", w>>)) \in held[w]

\* The inductive invariant of CreateBundle.
CreateInv == GapLog(log, next) /\ PassInv /\ NewInv /\ ViewInv

\* A set of numbers that has an element has a smallest.
LEMMA SmallestOffset ==
    ASSUME NEW S, S \subseteq Nat, S # {}
    PROVE  \E d \in S : \A e \in S : d <= e
<1>1. PICK x \in S : \A y \in S : ~(<<y, x>> \in OpToRel(<, Nat))
  BY WFMin, NatLessThanWellFounded
<1>2. ASSUME NEW y \in S PROVE x <= y
  <2>1. x \in Nat /\ y \in Nat
    OBVIOUS
  <2>2. y < x => <<y, x>> \in OpToRel(<, Nat)
    BY <2>1 DEF OpToRel
  <2>3. ~(y < x)
    BY <1>1, <2>2
  <2> QED BY <2>1, <2>3
<1> QED BY <1>2

\* The last of the records R, below n, is the one with the highest offset.
LEMMA LastExists ==
    ASSUME NEW R, NEW n \in Nat, R # {}, \A r \in R : r.offset \in Nat /\ r.offset < n
    PROVE  \E r \in R : \A q \in R : q.offset <= r.offset
<1> DEFINE S == {n - r.offset : r \in R}
<1>1. S \subseteq Nat /\ S # {}
  OBVIOUS
<1>2. PICK d \in S : \A e \in S : d <= e
  BY <1>1, SmallestOffset
<1>3. PICK r \in R : d = n - r.offset
  OBVIOUS
<1>4. \A q \in R : n - q.offset \in S
  OBVIOUS
<1>5. \A q \in R : d <= n - q.offset
  BY <1>2, <1>4
<1> HIDE DEF S
<1> QED BY <1>3, <1>5

\* A record that no other exceeds is the last.
LEMMA LastIs ==
    ASSUME NEW R, NEW r \in R, \A q \in R : q.offset \in Nat /\ q.offset <= r.offset,
           \A p, q \in R : p.offset = q.offset => p = q
    PROVE  LastOf(R) = r.entry
<1> DEFINE x == CHOOSE y \in R : \A q \in R : q.offset <= y.offset
<1>1. x \in R /\ \A q \in R : q.offset <= x.offset
  OBVIOUS
<1> HIDE DEF x
<1>2. x.offset = r.offset
  BY <1>1
<1>3. x = r
  BY <1>1, <1>2
<1> QED BY <1>3 DEF LastOf, x

\* The records of k.
Of(l, k) == {r \in l[Place[k]] : r.key = k}

\* What the topic says of a key, in terms of its last record.
LEMMA LatestIs ==
    ASSUME NEW l, NEW k
    PROVE  Latest(l, k) = IF Of(l, k) = {} THEN None ELSE LastOf(Of(l, k))
BY DEF Latest, Of, LastOf

\* Keys and partitions.
LEMMA PlaceFacts ==
    /\ \A k \in Keys : Place[k] \in Partitions
    /\ \A w \in Windows : /\ <<"binary", w>> \in Keys /\ <<"legacy", w>> \in Keys
                          /\ <<"binary", w>> # <<"legacy", w>>
    /\ \A v, w : <<"binary", v>> # <<"legacy", w>>
    /\ \A v, w \in Windows : \A x \in Kinds : <<x, v>> = <<x, w>> => v = w
    /\ Partitions \subseteq Nat
<1>1. Place \in [Keys -> Partitions] /\ NrPartitions \in Nat
  BY CreateAssumption
<1> QED BY <1>1 DEF Keys, Kinds, Partitions

\* The kinds of entry.
LEMMA EntryFacts ==
    /\ None \in Entries /\ Deleted \in Entries /\ None # Deleted
    /\ None.tag = "none" /\ Deleted.tag = "tombstone"
    /\ \A s : Gaps(s).tag = "gaps" /\ Gaps(s) # None
    /\ \A s \in Values : Gaps(s) \in Entries
BY DEF Entries, None, Deleted, Gaps, Entry

\* A current entry, a tombstone too, decides whatever the legacy one is.
LEMMA LiveFacts ==
    /\ Live(None, Deleted) = None
    /\ \A a, b, c : a # None => Live(a, b) = Live(a, c)
    /\ \A b : Live(Deleted, b) = None
BY EntryFacts DEF Live

\* OnTopic is the precedence of gapState.windows, applied to the latest records.
LEMMA OnTopicIs ==
    ASSUME NEW l, NEW w
    PROVE  OnTopic(l, w) = Live(Latest(l, <<"binary", w>>), Latest(l, <<"legacy", w>>))
BY EntryFacts DEF OnTopic, Live

\* The records of a key.
LEMMA OfFacts ==
    ASSUME NEW l, NEW n, GapLog(l, n), NEW k \in Keys
    PROVE  /\ Of(l, k) \subseteq l[Place[k]]
           /\ \A r \in Of(l, k) : r.offset \in Nat /\ r.offset < n[Place[k]] /\ r.entry # None
                                  /\ r.entry \in Entries
           /\ \A q, r \in Of(l, k) : q.offset = r.offset => q = r
           /\ n[Place[k]] \in Nat
<1>1. Place[k] \in Partitions
  BY PlaceFacts
<1> QED BY <1>1 DEF Of, GapLog, GapRecords

\* A record is appended: it is the latest of its key, the other keys stay.
LEMMA PutLog ==
    ASSUME NEW l, NEW n, GapLog(l, n), NEW k \in Keys, NEW e \in Entries \ {None}
    PROVE  /\ GapLog(Put(l, n, k, e), Taken(n, k))
           /\ Latest(Put(l, n, k, e), k) = e
           /\ \A j \in Keys : j # k => Latest(Put(l, n, k, e), j) = Latest(l, j)
           /\ \A p \in Partitions : /\ n[p] <= Taken(n, k)[p]
                                    /\ l[p] \subseteq Put(l, n, k, e)[p]
           /\ \A p \in Partitions : \A r \in Put(l, n, k, e)[p] :
                 r \in l[p] \/ (r.offset >= n[p] /\ r.key = k /\ r.entry = e)
<1> DEFINE h == Place[k]
           new == [offset |-> n[h], key |-> k, entry |-> e]
           m == Put(l, n, k, e)
           o == Taken(n, k)
<1>1. h \in Partitions /\ n[h] \in Nat /\ new \in GapRecords
  BY PlaceFacts DEF GapLog, GapRecords
<1>2. m = [l EXCEPT ![h] = @ \cup {new}] /\ o = [n EXCEPT ![h] = @ + 1]
  BY DEF Put, Taken
<1>3. new.offset = n[h] /\ new.key = k /\ new.entry = e
  OBVIOUS
<1> HIDE DEF new, m, o
<1>4. /\ m[h] = l[h] \cup {new} /\ \A p \in Partitions \ {h} : m[p] = l[p]
      /\ o[h] = n[h] + 1 /\ \A p \in Partitions \ {h} : o[p] = n[p]
      /\ m \in [Partitions -> SUBSET GapRecords] /\ o \in [Partitions -> Nat]
  BY <1>1, <1>2 DEF GapLog
<1> HIDE DEF h
<1>5. GapLog(m, o)
  <2>1. ASSUME NEW p \in Partitions, NEW r \in m[p]
        PROVE  r.offset < o[p] /\ Place[r.key] = p
    <3>1. CASE p = h
      BY <1>1, <1>3, <1>4, <2>1, <3>1 DEF GapLog, GapRecords, h
    <3>2. CASE p # h
      BY <1>4, <2>1, <3>2 DEF GapLog
    <3> QED BY <3>1, <3>2
  <2>2. ASSUME NEW p \in Partitions, NEW q \in m[p], NEW r \in m[p], q.offset = r.offset
        PROVE  q = r
    <3>1. CASE p = h
      <4>1. \A x \in l[h] : x.offset \in Nat /\ x.offset < n[h]
        BY <1>1 DEF GapLog, GapRecords
      <4> QED BY <1>1, <1>3, <1>4, <2>2, <3>1, <4>1 DEF GapLog
    <3>2. CASE p # h
      BY <1>4, <2>2, <3>2 DEF GapLog
    <3> QED BY <3>1, <3>2
  <2> QED BY <1>4, <2>1, <2>2 DEF GapLog
<1>6. Latest(m, k) = e
  <2>1. new \in Of(m, k)
    BY <1>3, <1>4 DEF Of, h
  <2>2. \A q \in Of(m, k) : q.offset \in Nat /\ q.offset <= new.offset
    BY <1>1, <1>3, <1>4, <1>5, OfFacts DEF h
  <2>3. \A p, q \in Of(m, k) : p.offset = q.offset => p = q
    BY <1>5, OfFacts
  <2>4. LastOf(Of(m, k)) = e
    BY <1>3, <2>1, <2>2, <2>3, LastIs
  <2> QED BY <2>1, <2>4, LatestIs
<1>7. ASSUME NEW j \in Keys, j # k PROVE Latest(m, j) = Latest(l, j)
  <2>1. Of(m, j) = Of(l, j)
    BY <1>3, <1>4, <1>7, PlaceFacts DEF Of
  <2> QED BY <2>1, LatestIs
<1>8. ASSUME NEW p \in Partitions
      PROVE  /\ n[p] <= o[p] /\ l[p] \subseteq m[p]
             /\ \A r \in m[p] : r \in l[p] \/ (r.offset >= n[p] /\ r.key = k /\ r.entry = e)
  <2>1. n[p] \in Nat
    BY DEF GapLog
  <2> QED BY <1>1, <1>3, <1>4, <2>1
<1> QED BY <1>5, <1>6, <1>7, <1>8 DEF m, o

\* A record leaves the log that a later one of its key supersedes.
LEMMA DropLog ==
    ASSUME NEW l, NEW n, GapLog(l, n), NEW p \in Partitions, NEW r \in l[p], NEW q \in l[p],
           q.key = r.key, q.offset > r.offset
    PROVE  LET m == [l EXCEPT ![p] = @ \ {r}] IN
           /\ GapLog(m, n)
           /\ \A k \in Keys : Latest(m, k) = Latest(l, k)
           /\ \A x \in Partitions : m[x] \subseteq l[x]
<1> DEFINE m == [l EXCEPT ![p] = @ \ {r}]
<1>1. /\ m[p] = l[p] \ {r} /\ \A x \in Partitions \ {p} : m[x] = l[x]
      /\ m \in [Partitions -> SUBSET GapRecords]
      /\ r.offset \in Nat /\ q.offset \in Nat
  BY DEF GapLog, GapRecords
<1> HIDE DEF m
<1>2. \A x \in Partitions : m[x] \subseteq l[x]
  BY <1>1
<1>3. GapLog(m, n)
  BY <1>1, <1>2 DEF GapLog
<1>4. ASSUME NEW k \in Keys PROVE Latest(m, k) = Latest(l, k)
  <2>1. Of(m, k) = Of(l, k) \ {r} \/ Of(m, k) = Of(l, k)
    BY <1>1, PlaceFacts DEF Of
  <2>2. CASE Of(m, k) = Of(l, k)
    BY <2>2, LatestIs
  <2>3. CASE Of(m, k) = Of(l, k) \ {r} /\ r \in Of(l, k)
    <3>1. q \in Of(l, k) /\ q # r
      <4>1. r.key = k
        BY <2>3 DEF Of
      <4>2. Place[r.key] = p
        BY DEF GapLog
      <4>3. q \in Of(l, k)
        BY <4>1, <4>2 DEF Of
      <4> QED BY <1>1, <4>3
    <3>2. PICK z \in Of(l, k) : \A y \in Of(l, k) : y.offset <= z.offset
      <4>1. /\ n[Place[k]] \in Nat /\ Of(l, k) # {}
            /\ \A y \in Of(l, k) : y.offset \in Nat /\ y.offset < n[Place[k]]
        BY <3>1, OfFacts
      <4> QED BY <4>1, LastExists
    <3>3. z # r
      <4>1. z.offset \in Nat
        BY OfFacts
      <4> QED BY <1>1, <3>1, <3>2, <4>1
    <3>4. \A y \in Of(l, k) : y.offset \in Nat
      BY OfFacts
    <3>5. \A x, y \in Of(l, k) : x.offset = y.offset => x = y
      BY OfFacts
    <3>6. LastOf(Of(l, k)) = z.entry
      BY <3>2, <3>4, <3>5, LastIs
    <3>7. z \in Of(m, k) /\ Of(m, k) \subseteq Of(l, k)
      BY <2>3, <3>3
    <3>8. LastOf(Of(m, k)) = z.entry
      BY <3>2, <3>4, <3>5, <3>7, LastIs
    <3> QED BY <3>1, <3>6, <3>7, <3>8, LatestIs
  <2> QED BY <2>1, <2>2, <2>3
<1> QED BY <1>2, <1>3, <1>4 DEF m

\* The records that the current pass has not come to.
LEMMA LeftFacts ==
    ASSUME CreateInv, pc = "read", NEW k \in Keys
    PROVE  /\ Left(k) \subseteq log[partition]
           /\ \A r \in Left(k) : r.offset \in Nat /\ r.offset < next[partition]
                                 /\ r.entry \in Entries \ {None}
           /\ \A q, r \in Left(k) : q.offset = r.offset => q = r
           /\ partition \in Partitions /\ next[partition] \in Nat
           /\ position \in Nat /\ final \in Int /\ final < next[partition]
BY DEF CreateInv, PassInv, GapLog, GapRecords, Left

\* The topic changes from log to l while create reads: what has been read or is
\* being read stays as it is.
LEMMA WriteInv ==
    ASSUME CreateInv, NEW l, NEW n, Write(l, n), GapLog(l, n),
           \A p \in Partitions : next[p] <= n[p],
           pc # "idle" =>
              /\ \A p \in Partitions : \A r \in l[p] :
                    \/ r \in log[p]
                    \/ /\ r.offset >= next[p]
                       /\ \A w \in Windows :
                             /\ r.key = <<"binary", w>> => Live(r.entry, None) = OnTopic(l, w)
                             /\ r.key = <<"legacy", w>> => r.entry = Deleted /\ OnTopic(l, w) = None
              /\ pc = "read" => \A k \in Keys : Place[k] = partition =>
                    LET R == {r \in l[partition] : r.key = k /\ position <= r.offset
                                                   /\ r.offset <= final}
                    IN (R = {} <=> Left(k) = {}) /\ (R # {} => LastOf(R) = LastOf(Left(k)))
              /\ \A w \in Windows :
                    LET b == <<"binary", w>>
                        g == <<"legacy", w>>
                    IN /\ Latest(l, b) = Latest(log, b) \/ Latest(l, b) # None
                       /\ \/ Latest(l, g) = Latest(log, g)
                          \/ Latest(l, g) = Deleted /\ OnTopic(l, w) = None
    PROVE  CreateInv'
<1>1. /\ log' = l /\ next' = n
      /\ pc \in {"idle", "open", "read"}
      /\ held' = [w \in Windows |-> IF pc = "idle" THEN {} ELSE held[w] \cup {OnTopic(l, w)}]
      /\ UNCHANGED <<pc, partition, position, final, state, reported, cut>>
  BY DEF Write, readVars, resultVars
<1>2. GapLog(log, next)'
  BY <1>1
<1>3. \A k : Ahead(k)' <=> Ahead(k)
  BY <1>1 DEF Ahead
<1>4. PassInv'
  <2>1. pc = "read" => final < n[partition]
    <3>1. SUFFICES ASSUME pc = "read" PROVE final < n[partition]
      OBVIOUS
    <3>2. partition \in Partitions /\ final \in Int /\ final < next[partition]
          /\ next[partition] \in Nat
      BY <3>1 DEF CreateInv, PassInv, GapLog
    <3>3. n[partition] \in Nat /\ next[partition] <= n[partition]
      BY <3>2 DEF GapLog
    <3> QED BY <3>2, <3>3
  <2> QED BY <1>1, <1>3, <2>1 DEF CreateInv, PassInv
<1>5. CASE pc = "idle"
  BY <1>1, <1>2, <1>4, <1>5 DEF CreateInv, NewInv, ViewInv
<1>6. CASE pc # "idle"
  <2>1. \A w \in Windows : held[w] \subseteq held'[w] /\ OnTopic(l, w) \in held'[w]
    BY <1>1, <1>6
  <2>2. NewInv'
    <3> SUFFICES ASSUME pc = "read", NEW w \in Windows, NEW r \in l[partition], r.offset > final
                 PROVE  /\ r.key = <<"binary", w>> => Live(r.entry, None) \in held'[w]
                        /\ r.key = <<"legacy", w>> => r.entry = Deleted /\ None \in held'[w]
      BY <1>1 DEF NewInv
    <3>1. partition \in Partitions
      BY DEF CreateInv, PassInv
    <3>2. CASE r \in log[partition]
      BY <2>1, <3>2 DEF CreateInv, NewInv
    <3>3. CASE r \notin log[partition]
      BY <1>6, <2>1, <3>1, <3>3
    <3> QED BY <3>2, <3>3
  <2>3. ASSUME NEW k \in Keys
        PROVE  View(k)' = IF Ahead(k) THEN Latest(l, k) ELSE View(k)
    <3>1. CASE Ahead(k)
      BY <1>1, <1>3, <3>1 DEF View
    <3>2. CASE ~Ahead(k) /\ pc = "read" /\ Place[k] = partition
      <4>1. Left(k)' = {r \in l[partition] : r.key = k /\ position <= r.offset /\ r.offset <= final}
        BY <1>1 DEF Left
      <4>2. /\ Left(k)' = {} <=> Left(k) = {}
            /\ Left(k)' # {} => LastOf(Left(k)') = LastOf(Left(k))
        BY <1>6, <3>2, <4>1
      <4>3. View(k)' = IF Left(k)' # {} THEN LastOf(Left(k)') ELSE state[k]
        BY <1>1, <1>3, <3>2 DEF View, LastOf
      <4> QED BY <3>2, <4>2, <4>3 DEF View
    <3>3. CASE ~Ahead(k) /\ ~(pc = "read" /\ Place[k] = partition)
      BY <1>1, <1>3, <3>3 DEF View
    <3> QED BY <3>1, <3>2, <3>3
  <2>4. ViewInv'
    <3> SUFFICES ASSUME ~cut, NEW w \in Windows
                 PROVE  (Live(View(<<"binary", w>>), View(<<"legacy", w>>)) \in held[w])'
      BY <1>1 DEF ViewInv
    <3> DEFINE b == <<"binary", w>>
               g == <<"legacy", w>>
    <3>1. Live(View(b), View(g)) \in held[w]
      BY <1>1, <1>6 DEF CreateInv, ViewInv
    <3>2. OnTopic(l, w) = Live(Latest(l, b), Latest(l, g))
      BY OnTopicIs
    <3>3. /\ View(b)' = IF Ahead(b) THEN Latest(l, b) ELSE View(b)
          /\ View(g)' = IF Ahead(g) THEN Latest(l, g) ELSE View(g)
      BY <2>3, PlaceFacts
    <3>4. /\ Ahead(b) => View(b) = Latest(log, b)
          /\ Ahead(g) => View(g) = Latest(log, g)
      BY DEF View
    <3>5. /\ Latest(l, b) = Latest(log, b) \/ Latest(l, b) # None
          /\ \/ Latest(l, g) = Latest(log, g)
             \/ Latest(l, g) = Deleted /\ OnTopic(l, w) = None
      BY <1>6
    <3> HIDE DEF b, g
    <3>6. Live(View(b)', View(g)') \in held'[w]
      <4>1. CASE Ahead(b) /\ Ahead(g)
        BY <2>1, <3>2, <3>3, <4>1
      <4>2. CASE ~Ahead(b) /\ ~Ahead(g)
        BY <2>1, <3>1, <3>3, <4>2
      <4>3. CASE Ahead(b) /\ ~Ahead(g)
        BY <2>1, <3>1, <3>2, <3>3, <3>4, <3>5, <4>3, LiveFacts
      <4>4. CASE ~Ahead(b) /\ Ahead(g)
        BY <2>1, <3>1, <3>2, <3>3, <3>4, <3>5, <4>4, LiveFacts
      <4> QED BY <4>1, <4>2, <4>3, <4>4
    <3> QED BY <3>6 DEF b, g, Live
  <2> QED BY <1>2, <1>4, <2>2, <2>4 DEF CreateInv
<1> QED BY <1>5, <1>6

\* What is written lies behind the end of the current pass.
LEMMA WrittenBehind ==
    ASSUME CreateInv, NEW l, NEW n, GapLog(l, n), \A p \in Partitions : log[p] \subseteq l[p],
           \A p \in Partitions : \A r \in l[p] : r \in log[p] \/ r.offset >= next[p],
           pc = "read", NEW k \in Keys
    PROVE  {r \in l[partition] : r.key = k /\ position <= r.offset /\ r.offset <= final} = Left(k)
<1>1. /\ partition \in Partitions /\ final \in Int
      /\ next[partition] \in Nat /\ final < next[partition]
  BY LeftFacts
<1>2. \A r \in l[partition] : r.offset \in Nat
  BY <1>1 DEF GapLog, GapRecords
<1>3. \A r \in l[partition] : r.offset <= final => r \in log[partition]
  BY <1>1, <1>2
<1> QED BY <1>1, <1>3 DEF Left

\* The gaps of a window are written.
LEMMA EmitInv ==
    ASSUME CreateInv, NEW w \in Windows, NEW s \in Values, Emit(w, s)
    PROVE  CreateInv'
<1> DEFINE k == <<"binary", w>>
           l == Put(log, next, k, Gaps(s))
           n == Taken(next, k)
<1>1. k \in Keys /\ Gaps(s) \in Entries \ {None} /\ GapLog(log, next)
  BY PlaceFacts, EntryFacts DEF CreateInv
<1>2. /\ GapLog(l, n)
      /\ Latest(l, k) = Gaps(s)
      /\ \A j \in Keys : j # k => Latest(l, j) = Latest(log, j)
      /\ \A p \in Partitions : next[p] <= n[p] /\ log[p] \subseteq l[p]
      /\ \A p \in Partitions : \A r \in l[p] :
            r \in log[p] \/ (r.offset >= next[p] /\ r.key = k /\ r.entry = Gaps(s))
  BY <1>1, PutLog
<1>3. Write(l, n)
  BY DEF Emit
<1> HIDE DEF l, n, k
<1>4. OnTopic(l, w) = Live(Gaps(s), None)
  BY <1>2, OnTopicIs, EntryFacts, LiveFacts DEF k
<1>5. ASSUME NEW p \in Partitions, NEW r \in l[p], r \notin log[p], NEW v \in Windows
      PROVE  /\ r.offset >= next[p]
             /\ r.key = <<"binary", v>> => Live(r.entry, None) = OnTopic(l, v)
             /\ r.key = <<"legacy", v>> => r.entry = Deleted /\ OnTopic(l, v) = None
  <2>1. r.offset >= next[p] /\ r.key = k /\ r.entry = Gaps(s)
    BY <1>2, <1>5
  <2>2. r.key = <<"binary", v>> => v = w
    BY <2>1, PlaceFacts DEF k, Kinds
  <2>3. r.key # <<"legacy", v>>
    BY <2>1, PlaceFacts DEF k
  <2> QED BY <1>4, <2>1, <2>2, <2>3
<1>6. ASSUME pc = "read", NEW j \in Keys
      PROVE  {r \in l[partition] : r.key = j /\ position <= r.offset /\ r.offset <= final} = Left(j)
  BY <1>2, <1>6, WrittenBehind
<1>7. ASSUME NEW v \in Windows
      PROVE  /\ \/ Latest(l, <<"binary", v>>) = Latest(log, <<"binary", v>>)
                \/ Latest(l, <<"binary", v>>) # None
             /\ Latest(l, <<"legacy", v>>) = Latest(log, <<"legacy", v>>)
  <2>1. <<"legacy", v>> # k /\ <<"legacy", v>> \in Keys /\ <<"binary", v>> \in Keys
    BY PlaceFacts DEF k
  <2> QED BY <1>1, <1>2, <2>1
<1> QED BY <1>2, <1>3, <1>5, <1>6, <1>7, WriteInv

\* A purge deletes the legacy record only together with the current one.
LEMMA PurgeInv ==
    ASSUME CreateInv, NEW w \in Windows, Purge(w)
    PROVE  CreateInv'
<1> DEFINE b == <<"binary", w>>
           g == <<"legacy", w>>
           l1 == Put(log, next, b, Deleted)
           n1 == Taken(next, b)
           l2 == Put(l1, n1, g, Deleted)
           n2 == Taken(n1, g)
<1>1. b \in Keys /\ g \in Keys /\ b # g /\ Deleted \in Entries \ {None} /\ GapLog(log, next)
  BY PlaceFacts, EntryFacts DEF CreateInv
<1>2. Write(l1, n1) \/ Write(l2, n2)
  BY DEF Purge
<1>3. /\ GapLog(l1, n1)
      /\ Latest(l1, b) = Deleted
      /\ \A j \in Keys : j # b => Latest(l1, j) = Latest(log, j)
      /\ \A p \in Partitions : next[p] <= n1[p] /\ log[p] \subseteq l1[p]
      /\ \A p \in Partitions : \A r \in l1[p] :
            r \in log[p] \/ (r.offset >= next[p] /\ r.key = b /\ r.entry = Deleted)
  BY <1>1, PutLog
<1> HIDE DEF l1, n1, b, g
<1>4. /\ GapLog(l2, n2)
      /\ Latest(l2, g) = Deleted
      /\ \A j \in Keys : j # g => Latest(l2, j) = Latest(l1, j)
      /\ \A p \in Partitions : n1[p] <= n2[p] /\ l1[p] \subseteq l2[p]
      /\ \A p \in Partitions : \A r \in l2[p] :
            r \in l1[p] \/ (r.offset >= n1[p] /\ r.key = g /\ r.entry = Deleted)
  BY <1>1, <1>3, PutLog
<1> HIDE DEF l2, n2
<1>5. ASSUME NEW l, NEW n, Write(l, n), GapLog(l, n),
             Latest(l, b) = Deleted, Latest(l, g) \in {Latest(log, g), Deleted},
             \A j \in Keys : j \notin {b, g} => Latest(l, j) = Latest(log, j),
             \A p \in Partitions : next[p] <= n[p] /\ log[p] \subseteq l[p],
             \A p \in Partitions : \A r \in l[p] :
                r \in log[p] \/ (r.offset >= next[p] /\ r.key \in {b, g} /\ r.entry = Deleted)
      PROVE  CreateInv'
  <2>1. OnTopic(l, w) = None
    BY <1>5, OnTopicIs, LiveFacts DEF b
  <2>2. ASSUME NEW p \in Partitions, NEW r \in l[p], r \notin log[p], NEW v \in Windows
        PROVE  /\ r.offset >= next[p]
               /\ r.key = <<"binary", v>> => Live(r.entry, None) = OnTopic(l, v)
               /\ r.key = <<"legacy", v>> => r.entry = Deleted /\ OnTopic(l, v) = None
    <3>1. r.offset >= next[p] /\ r.key \in {b, g} /\ r.entry = Deleted
      BY <1>5, <2>2
    <3>2. r.key \in {<<"binary", v>>, <<"legacy", v>>} => v = w
      BY <3>1, PlaceFacts DEF b, g, Kinds
    <3> QED BY <2>1, <3>1, <3>2, LiveFacts
  <2>3. ASSUME pc = "read", NEW j \in Keys
        PROVE  {r \in l[partition] : r.key = j /\ position <= r.offset /\ r.offset <= final}
                  = Left(j)
    BY <1>5, <2>3, WrittenBehind
  <2>4. ASSUME NEW v \in Windows
        PROVE  /\ \/ Latest(l, <<"binary", v>>) = Latest(log, <<"binary", v>>)
                  \/ Latest(l, <<"binary", v>>) # None
               /\ \/ Latest(l, <<"legacy", v>>) = Latest(log, <<"legacy", v>>)
                  \/ Latest(l, <<"legacy", v>>) = Deleted /\ OnTopic(l, v) = None
    <3>1. <<"binary", v>> \in Keys /\ <<"legacy", v>> \in Keys
      BY PlaceFacts
    <3>2. CASE v = w
      BY <1>1, <1>5, <2>1, <3>2 DEF b, g
    <3>3. CASE v # w
      <4>1. <<"binary", v>> \notin {b, g} /\ <<"legacy", v>> \notin {b, g}
        BY <3>3, PlaceFacts DEF b, g, Kinds
      <4> QED BY <1>5, <3>1, <4>1
    <3> QED BY <3>2, <3>3
  <2> QED BY <1>5, <2>2, <2>3, <2>4, WriteInv
<1>6. CASE Write(l1, n1)
  <2>1. Latest(l1, g) \in {Latest(log, g), Deleted}
    BY <1>1, <1>3
  <2> QED BY <1>3, <1>5, <1>6, <2>1
<1>7. CASE Write(l2, n2)
  <2>1. Latest(l2, b) = Deleted /\ \A j \in Keys : j \notin {b, g} => Latest(l2, j) = Latest(log, j)
    BY <1>1, <1>3, <1>4
  <2>2. ASSUME NEW p \in Partitions
        PROVE  /\ next[p] <= n2[p] /\ log[p] \subseteq l2[p]
               /\ \A r \in l2[p] :
                     r \in log[p] \/ (r.offset >= next[p] /\ r.key \in {b, g} /\ r.entry = Deleted)
    <3>1. next[p] \in Nat /\ n1[p] \in Nat /\ n2[p] \in Nat
      BY <1>1, <1>3, <1>4 DEF GapLog
    <3>2. \A r \in l2[p] : r.offset \in Nat
      BY <1>4 DEF GapLog, GapRecords
    <3> QED BY <1>3, <1>4, <3>1, <3>2
  <2> QED BY <1>4, <1>5, <1>7, <2>1, <2>2
<1> QED BY <1>2, <1>6, <1>7

\* A marker takes an offset and changes nothing that is read.
LEMMA MarkerInv ==
    ASSUME CreateInv, NEW p \in Partitions, WriteMarker(p)
    PROVE  CreateInv'
<1> DEFINE n == [next EXCEPT ![p] = @ + 1]
<1>1. GapLog(log, next)
  BY DEF CreateInv
<1>2. n \in [Partitions -> Nat] /\ \A x \in Partitions : next[x] <= n[x] /\ next[x] \in Nat
  BY <1>1 DEF GapLog
<1>3. Write(log, n)
  BY DEF WriteMarker
<1> HIDE DEF n
<1>4. GapLog(log, n)
  <2>1. \A x \in Partitions : \A r \in log[x] : r.offset \in Nat /\ r.offset < n[x]
    BY <1>1, <1>2 DEF GapLog, GapRecords
  <2> QED BY <1>1, <1>2, <2>1 DEF GapLog
<1>5. ASSUME pc = "read", NEW j \in Keys
      PROVE  {r \in log[partition] : /\ r.key = j
                                     /\ position <= r.offset /\ r.offset <= final} = Left(j)
  BY DEF Left
<1> QED BY <1>2, <1>3, <1>4, <1>5, WriteInv

\* A record that is compacted away is superseded by one that create still reads.
LEMMA CompactInv ==
    ASSUME CreateInv, NEW p \in Partitions, Compact(p)
    PROVE  CreateInv'
<1>1. PICK r \in log[p] :
         /\ \E q \in log[p] : /\ q.key = r.key
                              /\ q.offset > r.offset
                              /\ pc = "read" /\ p = partition => q.offset <= final
         /\ Write([log EXCEPT ![p] = @ \ {r}], next)
  BY DEF Compact
<1>2. PICK q \in log[p] : /\ q.key = r.key
                          /\ q.offset > r.offset
                          /\ pc = "read" /\ p = partition => q.offset <= final
  BY <1>1
<1> DEFINE l == [log EXCEPT ![p] = @ \ {r}]
<1>3. GapLog(log, next)
  BY DEF CreateInv
<1>4. /\ GapLog(l, next)
      /\ \A k \in Keys : Latest(l, k) = Latest(log, k)
      /\ \A x \in Partitions : l[x] \subseteq log[x]
  BY <1>2, <1>3, DropLog
<1>5. /\ l[p] = log[p] \ {r} /\ \A x \in Partitions \ {p} : l[x] = log[x]
      /\ r.offset \in Nat /\ q.offset \in Nat
      /\ \A x \in Partitions : next[x] <= next[x]
  BY <1>3 DEF GapLog, GapRecords
<1>6. Write(l, next)
  BY <1>1
<1> HIDE DEF l
<1>7. ASSUME pc = "read", NEW k \in Keys, Place[k] = partition
      PROVE  LET R == {x \in l[partition] : x.key = k /\ position <= x.offset /\ x.offset <= final}
             IN (R = {} <=> Left(k) = {}) /\ (R # {} => LastOf(R) = LastOf(Left(k)))
  <2> DEFINE R == {x \in l[partition] : x.key = k /\ position <= x.offset /\ x.offset <= final}
  <2>1. partition \in Partitions /\ position \in Nat /\ final \in Int /\ next[partition] \in Nat
    BY <1>7, LeftFacts
  <2>2. CASE r \notin Left(k)
    <3>1. R = Left(k)
      <4>1. CASE partition = p
        BY <1>5, <2>2, <4>1 DEF Left
      <4>2. CASE partition # p
        BY <1>5, <2>1, <4>2 DEF Left
      <4> QED BY <4>1, <4>2
    <3> QED BY <3>1
  <2>3. CASE r \in Left(k)
    <3>1. partition = p
      <4>1. r \in log[partition] /\ Place[r.key] = partition /\ Place[r.key] = p
        BY <1>3, <2>1, <2>3 DEF Left, GapLog
      <4> QED BY <4>1
    <3>2. R = Left(k) \ {r}
      BY <1>5, <3>1 DEF Left
    <3> HIDE DEF R
    <3>3. q \in Left(k) /\ q # r
      BY <1>2, <1>5, <1>7, <2>1, <2>3, <3>1 DEF Left
    <3>4. /\ \A y \in Left(k) : y.offset \in Nat /\ y.offset < next[partition]
          /\ \A x, y \in Left(k) : x.offset = y.offset => x = y
      BY <1>7, LeftFacts
    <3>5. PICK z \in Left(k) : \A y \in Left(k) : y.offset <= z.offset
      BY <2>1, <3>3, <3>4, LastExists
    <3>6. z # r
      BY <1>2, <1>5, <3>3, <3>5
    <3>7. LastOf(Left(k)) = z.entry
      BY <3>4, <3>5, LastIs
    <3>8. LastOf(R) = z.entry
      <4>1. z \in R /\ R \subseteq Left(k)
        BY <3>2, <3>6
      <4>2. \A y \in R : y.offset \in Nat /\ y.offset <= z.offset
        BY <3>4, <3>5, <4>1
      <4>3. \A x, y \in R : x.offset = y.offset => x = y
        BY <3>4, <4>1
      <4> QED BY <4>1, <4>2, <4>3, LastIs
    <3>9. R # {} /\ Left(k) # {}
      BY <3>2, <3>3
    <3> QED BY <3>7, <3>8, <3>9 DEF R
  <2> QED BY <2>2, <2>3
<1>8. \A v \in Windows : <<"binary", v>> \in Keys /\ <<"legacy", v>> \in Keys
  BY PlaceFacts
<1> QED BY <1>4, <1>5, <1>6, <1>7, <1>8, WriteInv

\* Tombstones expire before create begins.
LEMMA ExpireTombstoneInv ==
    ASSUME CreateInv, NEW p \in Partitions, ExpireTombstone(p)
    PROVE  CreateInv'
<1>1. PICK r \in log[p] : Write([log EXCEPT ![p] = @ \ {r}], next)
  BY DEF ExpireTombstone
<1> DEFINE l == [log EXCEPT ![p] = @ \ {r}]
<1>2. GapLog(log, next) /\ pc = "idle"
  BY DEF CreateInv, ExpireTombstone
<1>3. l \in [Partitions -> SUBSET GapRecords] /\ \A x \in Partitions : l[x] \subseteq log[x]
  BY <1>2 DEF GapLog
<1>4. Write(l, next) /\ \A x \in Partitions : next[x] <= next[x]
  BY <1>1, <1>2 DEF GapLog
<1> HIDE DEF l
<1>5. GapLog(l, next)
  BY <1>2, <1>3 DEF GapLog
<1> QED BY <1>2, <1>4, <1>5, WriteInv

\* create begins: what it will read is what the topic says.
LEMMA StartCreateInv ==
    ASSUME CreateInv, StartCreate
    PROVE  CreateInv'
<1>1. /\ pc = "idle" /\ pc' = "open" /\ partition' = 1
      /\ held' = [w \in Windows |-> {OnTopic(log, w)}]
      /\ UNCHANGED <<log, next, position, final, state, reported, cut>>
  BY DEF StartCreate, topicVars, resultVars
<1>2. 1 \in Partitions
  BY CreateAssumption DEF Partitions
<1>3. \A k \in Keys : Ahead(k)' /\ Ahead(k)
  BY <1>1, PlaceFacts DEF Ahead, Partitions
<1>4. GapLog(log, next)' /\ NewInv'
  BY <1>1 DEF CreateInv, NewInv
<1>5. PassInv'
  BY <1>1, <1>2, <1>3 DEF CreateInv, PassInv
<1>6. ViewInv'
  <2> SUFFICES ASSUME NEW w \in Windows
               PROVE  (Live(View(<<"binary", w>>), View(<<"legacy", w>>)) \in held[w])'
    BY DEF ViewInv
  <2> DEFINE b == <<"binary", w>>
             g == <<"legacy", w>>
  <2>1. View(b)' = Latest(log, b) /\ View(g)' = Latest(log, g)
    BY <1>1, <1>3, PlaceFacts DEF View
  <2>2. OnTopic(log, w) \in held'[w] /\ OnTopic(log, w) = Live(Latest(log, b), Latest(log, g))
    BY <1>1, OnTopicIs
  <2> HIDE DEF b, g
  <2>3. Live(View(b)', View(g)') \in held'[w]
    BY <2>1, <2>2
  <2> QED BY <2>3 DEF b, g, Live
<1> QED BY <1>4, <1>5, <1>6 DEF CreateInv

\* A step of create that leaves what it has read or will read as it is.
LEMMA SameViews ==
    ASSUME CreateInv, UNCHANGED <<topicVars, held>>, PassInv', NewInv',
           pc \notin {"idle", "failed"}, cut => cut',
           ~cut' /\ pc' # "failed" => \A k \in Keys : View(k)' = View(k)
    PROVE  CreateInv'
<1>1. GapLog(log, next)'
  BY DEF CreateInv, topicVars
<1>2. ViewInv'
  <2> SUFFICES ASSUME ~cut', pc' \notin {"idle", "failed"}, NEW w \in Windows
               PROVE  (Live(View(<<"binary", w>>), View(<<"legacy", w>>)) \in held[w])'
    BY DEF ViewInv
  <2>1. /\ View(<<"binary", w>>)' = View(<<"binary", w>>)
        /\ View(<<"legacy", w>>)' = View(<<"legacy", w>>)
    BY PlaceFacts
  <2>2. Live(View(<<"binary", w>>), View(<<"legacy", w>>)) \in held[w]
    BY DEF CreateInv, ViewInv
  <2> QED BY <2>1, <2>2 DEF Live
<1> QED BY <1>1, <1>2 DEF CreateInv

\* The partition is passed.
LEMMA PassStep ==
    ASSUME CreateInv, pc \in {"open", "read"}, NextPartition,
           UNCHANGED <<topicVars, reported, held>>,
           state' \in [Keys -> Entries],
           \A k \in Keys : Place[k] # partition => state'[k] = state[k]
    PROVE  /\ PassInv' /\ NewInv'
           /\ \A k \in Keys : View(k)' = IF Place[k] = partition THEN state'[k] ELSE View(k)
<1>1. /\ partition \in Partitions /\ partition \in Nat /\ NrPartitions \in Nat
      /\ partition <= NrPartitions
  BY CreateAssumption DEF CreateInv, PassInv, Partitions
<1>2. /\ partition' = partition + 1
      /\ pc' = IF partition < NrPartitions THEN "open" ELSE "write"
      /\ position' = 0 /\ final' = -1
      /\ log' = log /\ next' = next /\ reported' = reported /\ held' = held
  BY DEF NextPartition, topicVars
<1>3. \A k \in Keys : Place[k] \in Nat /\ Place[k] <= NrPartitions
  BY <1>1, PlaceFacts DEF Partitions
<1>4. \A k \in Keys : Ahead(k)' <=> Place[k] > partition
  BY <1>1, <1>2, <1>3 DEF Ahead
<1>5. \A k \in Keys : Ahead(k) <=> \/ Place[k] > partition
                                   \/ pc = "open" /\ Place[k] = partition
  BY <1>1, <1>3 DEF Ahead
<1>6. PassInv'
  <2>1. pc' \in {"open", "write"} /\ (pc' = "open" => partition' \in Partitions)
    BY <1>1, <1>2 DEF Partitions
  <2>2. \A k \in Keys : Ahead(k)' => state'[k] = None
    <3>1. ASSUME NEW k \in Keys, Ahead(k)' PROVE state'[k] = None
      <4>1. Ahead(k) /\ Place[k] # partition
        BY <1>1, <1>3, <1>4, <1>5, <3>1
      <4> QED BY <4>1 DEF CreateInv, PassInv
    <3> QED BY <3>1
  <2> QED BY <1>1, <1>2, <2>1, <2>2 DEF PassInv
<1>7. NewInv'
  BY <1>2 DEF NewInv
<1>8. ASSUME NEW k \in Keys
      PROVE  View(k)' = IF Place[k] = partition THEN state'[k] ELSE View(k)
  <2>1. CASE Place[k] > partition
    <3>1. Ahead(k) /\ Ahead(k)' /\ Place[k] # partition
      BY <1>1, <1>3, <1>4, <1>5, <2>1
    <3> QED BY <1>2, <3>1 DEF View
  <2>2. CASE ~(Place[k] > partition)
    <3>1. ~Ahead(k)' /\ pc' # "read"
      BY <1>2, <1>4, <2>2
    <3>2. View(k)' = state'[k]
      BY <3>1 DEF View
    <3>3. CASE Place[k] # partition
      <4>1. ~Ahead(k)
        BY <1>1, <1>3, <1>5, <2>2, <3>3
      <4> QED BY <3>2, <3>3, <4>1 DEF View
    <3> QED BY <3>2, <3>3
  <2> QED BY <2>1, <2>2
<1> QED BY <1>6, <1>7, <1>8

\* A partition is opened: all of its records are left to read.
LEMMA OpenInv ==
    ASSUME CreateInv, OpenPartition
    PROVE  CreateInv'
<1>1. /\ pc = "open" /\ UNCHANGED <<topicVars, state, reported, cut, held>>
      /\ partition \in Partitions /\ next[partition] \in Nat
  BY DEF OpenPartition, resultVars, CreateInv, PassInv, GapLog
<1>2. \A k \in Keys : Place[k] = partition =>
         Ahead(k) /\ state[k] = None /\ View(k) = Latest(log, k)
  BY <1>1, PlaceFacts DEF CreateInv, PassInv, Ahead, View, Partitions
<1>3. CASE next[partition] = 0 /\ NextPartition
  <2>1. state' \in [Keys -> Entries]
    BY <1>1 DEF CreateInv, PassInv
  <2>2. /\ PassInv' /\ NewInv'
        /\ \A k \in Keys : View(k)' = IF Place[k] = partition THEN state'[k] ELSE View(k)
    BY <1>1, <1>3, <2>1, PassStep
  <2>3. ASSUME NEW k \in Keys, Place[k] = partition PROVE Latest(log, k) = None
    <3>1. Of(log, k) = {}
      BY <1>3, <2>3, OfFacts DEF CreateInv
    <3> QED BY <3>1, LatestIs
  <2>4. \A k \in Keys : View(k)' = View(k)
    BY <1>1, <1>2, <2>2, <2>3
  <2> QED BY <1>1, <2>2, <2>4, SameViews
<1>4. CASE /\ next[partition] # 0 /\ pc' = "read" /\ position' = 0
           /\ final' = next[partition] - 1 /\ partition' = partition
  <2>1. log' = log /\ next' = next /\ state' = state /\ reported' = reported
    BY <1>1 DEF topicVars
  <2>2. \A k \in Keys : Ahead(k)' <=> Ahead(k) /\ Place[k] # partition
    BY <1>1, <1>4, PlaceFacts DEF Ahead, Partitions
  <2>3. PassInv'
    BY <1>1, <1>4, <2>1, <2>2 DEF CreateInv, PassInv
  <2>4. \A r \in log[partition] : r.offset \in Nat /\ r.offset <= final' /\ ~(r.offset > final')
    BY <1>1, <1>4 DEF CreateInv, GapLog, GapRecords
  <2>5. NewInv'
    BY <1>4, <2>1, <2>4 DEF NewInv
  <2>6. ASSUME NEW k \in Keys PROVE View(k)' = View(k)
    <3>1. CASE Place[k] = partition
      <4>1. Left(k)' = Of(log, k)
        BY <1>4, <2>1, <2>4, <3>1 DEF Left, Of
      <4>2. View(k)' = IF Left(k)' # {} THEN LastOf(Left(k)') ELSE state[k]
        BY <1>4, <2>1, <2>2, <3>1 DEF View, LastOf
      <4> QED BY <1>2, <3>1, <4>1, <4>2, LatestIs
    <3>2. CASE Place[k] # partition
      BY <1>1, <1>4, <2>1, <2>2, <3>2 DEF View
    <3> QED BY <3>1, <3>2
  <2> QED BY <1>1, <2>3, <2>5, <2>6, SameViews
<1> QED BY <1>3, <1>4 DEF OpenPartition, ExpectedFinalOffset

\* After these there is nothing to show: the partition, or the bundle, is given up.
LEMMA GiveUpInv ==
    ASSUME CreateInv, LookupFailure \/ ReadFails \/ Terminate
    PROVE  CreateInv'
<1>1. CASE LookupFailure
  <2>1. /\ pc = "open" /\ NextPartition /\ cut'
        /\ UNCHANGED <<topicVars, state, reported, held>>
        /\ state' \in [Keys -> Entries]
    BY <1>1 DEF LookupFailure, resultVars, CreateInv, PassInv
  <2>2. PassInv' /\ NewInv'
    BY <2>1, PassStep
  <2> QED BY <2>1, <2>2, SameViews
<1>2. CASE ReadFails \/ Terminate
  <2>1. /\ pc \in {"open", "read"} /\ pc' \in {"failed", "write"}
        /\ position' \in {position, 0} /\ final' \in {final, -1}
        /\ UNCHANGED <<topicVars, partition, state, reported, held>>
    <3>1. CASE ReadFails
      BY <3>1 DEF ReadFails, readVars, resultVars
    <3>2. CASE Terminate
      BY <3>2 DEF Terminate, resultVars
    <3> QED BY <1>2, <3>1, <3>2
  <2>2. (cut => cut') /\ (~cut' => pc' = "failed")
    BY <1>2 DEF ReadFails, Terminate
  <2>3. \A k : ~Ahead(k)'
    BY <2>1 DEF Ahead
  <2>4. /\ position' \in Nat /\ final' \in Int /\ partition' \in Nat
        /\ state' \in [Keys -> Entries]
    BY <2>1 DEF CreateInv, PassInv
  <2>5. PassInv'
    BY <2>1, <2>3, <2>4 DEF PassInv
  <2>6. NewInv'
    BY <2>1 DEF NewInv
  <2> QED BY <2>1, <2>2, <2>5, <2>6, SameViews
<1> QED BY <1>1, <1>2

\* The partition is left with nothing unread, or that is on record.
LEMMA StallInv ==
    ASSUME CreateInv, Stall
    PROVE  CreateInv'
<1>1. /\ pc = "read" /\ NextPartition /\ cut' = (cut \/ Unread # {})
      /\ UNCHANGED <<topicVars, state, reported, held>>
      /\ state' \in [Keys -> Entries]
  BY DEF Stall, resultVars, CreateInv, PassInv
<1>2. /\ PassInv' /\ NewInv'
      /\ \A k \in Keys : View(k)' = IF Place[k] = partition THEN state'[k] ELSE View(k)
  BY <1>1, PassStep
<1>3. ASSUME ~cut', NEW k \in Keys PROVE View(k)' = View(k)
  <2>1. Left(k) = {}
    BY <1>1, <1>3 DEF Left, Unread
  <2>2. CASE Place[k] = partition
    <3>1. ~Ahead(k)
      BY <1>1, <2>2, PlaceFacts DEF Ahead, Partitions
    <3> QED BY <1>1, <1>2, <2>1, <2>2, <3>1 DEF View
  <2> QED BY <1>2, <2>2
<1> QED BY <1>1, <1>2, <1>3, SameViews

\* The bundle is written from what was read.
LEMMA WriteResultsInv ==
    ASSUME CreateInv, WriteResults
    PROVE  CreateInv'
<1>1. /\ pc = "write" /\ pc' = "done"
      /\ reported' = [w \in Windows |-> Live(state[<<"binary", w>>], state[<<"legacy", w>>])]
      /\ UNCHANGED <<topicVars, partition, position, final, state, cut, held>>
  BY DEF WriteResults, readVars
<1>2. \A k : ~Ahead(k)' /\ ~Ahead(k)
  BY <1>1 DEF Ahead
<1>3. PassInv'
  BY <1>1, <1>2 DEF CreateInv, PassInv
<1>4. NewInv'
  BY <1>1 DEF NewInv
<1>5. \A k \in Keys : View(k)' = View(k)
  BY <1>1, <1>2 DEF View
<1> QED BY <1>1, <1>3, <1>4, <1>5, SameViews

\* The least unread record is applied: its key has now been read as far as it, and
\* no record of another key is passed over.
LEMMA DeliverFacts ==
    ASSUME CreateInv, DeliverRecord
    PROVE  \E r \in log[partition] :
              /\ pc = "read" /\ r.offset \in Nat /\ r.offset >= position
              /\ r.key \in Keys /\ Place[r.key] = partition /\ r.entry \in Entries \ {None}
              /\ \A q \in log[partition] : q.offset >= position => r.offset <= q.offset
              /\ state' = [state EXCEPT ![r.key] = r.entry]
              /\ AfterMessage(r.offset)
<1>1. PICK r \in Unread : /\ \A q \in Unread : r.offset <= q.offset
                          /\ state' = Apply(state, r)
                          /\ AfterMessage(r.offset)
  BY DEF DeliverRecord
<1>2. pc = "read" /\ partition \in Partitions /\ r \in log[partition] /\ r.offset >= position
  BY DEF DeliverRecord, CreateInv, PassInv, Unread
<1>3. /\ r.offset \in Nat /\ r.key \in Keys /\ Place[r.key] = partition
      /\ r.entry \in Entries \ {None}
  BY <1>2 DEF CreateInv, GapLog, GapRecords
<1>4. \A q \in log[partition] : q.offset >= position => r.offset <= q.offset
  BY <1>1 DEF Unread
<1> QED BY <1>1, <1>2, <1>3, <1>4 DEF Apply

\* Every key of the partition that is not r's stands as before, and what r's key
\* stands for is r or what comes after it.
LEMMA DeliverInv ==
    ASSUME CreateInv, DeliverRecord
    PROVE  CreateInv'
<1>1. PICK r \in log[partition] :
         /\ pc = "read" /\ r.offset \in Nat /\ r.offset >= position
         /\ r.key \in Keys /\ Place[r.key] = partition /\ r.entry \in Entries \ {None}
         /\ \A q \in log[partition] : q.offset >= position => r.offset <= q.offset
         /\ state' = [state EXCEPT ![r.key] = r.entry]
         /\ AfterMessage(r.offset)
  BY DeliverFacts
<1>2. /\ UNCHANGED <<topicVars, reported, cut, held>> /\ state \in [Keys -> Entries]
      /\ partition \in Partitions /\ partition \in Nat /\ position \in Nat /\ final \in Int
      /\ log' = log /\ next' = next
  BY <1>1 DEF DeliverRecord, resultVars, topicVars, CreateInv, PassInv
<1>3. /\ state' \in [Keys -> Entries] /\ state'[r.key] = r.entry
      /\ \A k \in Keys : k # r.key => state'[k] = state[k]
  BY <1>1, <1>2
<1>4. \A k \in Keys : Place[k] # partition => state'[k] = state[k]
  BY <1>1, <1>3
<1>5. \A k \in Keys : Place[k] \in Nat /\ (Ahead(k) <=> Place[k] > partition)
  BY <1>1, PlaceFacts DEF Ahead
<1>6. \A k \in Keys : Place[k] = partition =>
         View(k) = IF Left(k) # {} THEN LastOf(Left(k)) ELSE state[k]
  BY <1>1, <1>2, <1>5 DEF View
<1>7. /\ \A q \in log[partition] : q.offset \in Nat
      /\ \A p, q \in log[partition] : p.offset = q.offset => p = q
  BY <1>2 DEF CreateInv, GapLog, GapRecords
<1>8. CASE r.offset < final
  <2>1. /\ position' = r.offset + 1 /\ pc' = "read" /\ partition' = partition
        /\ final' = final
    BY <1>1, <1>2, <1>8 DEF AfterMessage
  <2>2. \A k \in Keys : Ahead(k)' <=> Ahead(k)
    BY <1>1, <2>1 DEF Ahead
  <2>3. PassInv'
    <3>1. \A k \in Keys : Ahead(k)' => state'[k] = None
      BY <1>2, <1>4, <1>5, <2>2 DEF CreateInv, PassInv
    <3> QED BY <1>1, <1>2, <1>3, <2>1, <3>1 DEF CreateInv, PassInv
  <2>4. NewInv'
    BY <1>1, <1>2, <2>1 DEF CreateInv, NewInv
  <2>5. ASSUME NEW k \in Keys PROVE Left(k)' = Left(k) \ {r}
    <3>1. Left(k)' = {x \in log[partition] : /\ x.key = k /\ r.offset + 1 <= x.offset
                                             /\ x.offset <= final}
      BY <1>2, <2>1 DEF Left
    <3>2. \A x \in log[partition] : r.offset + 1 <= x.offset <=> position <= x.offset /\ x # r
      BY <1>1, <1>2, <1>7
    <3> QED BY <3>1, <3>2 DEF Left
  <2>6. ASSUME NEW k \in Keys PROVE View(k)' = View(k)
    <3>1. CASE Place[k] # partition
      BY <1>2, <1>4, <2>1, <2>2, <3>1 DEF View
    <3>2. CASE Place[k] = partition /\ k # r.key
      <4>1. Left(k)' = Left(k)
        BY <2>5, <3>2 DEF Left
      <4>2. View(k)' = IF Left(k)' # {} THEN LastOf(Left(k)') ELSE state'[k]
        BY <1>2, <1>5, <2>1, <2>2, <3>2 DEF View, LastOf
      <4> QED BY <1>3, <1>6, <3>2, <4>1, <4>2
    <3>3. CASE k = r.key
      <4>1. r \in Left(k) /\ Left(k)' = Left(k) \ {r}
        BY <1>1, <1>2, <1>8, <2>5, <3>3 DEF Left
      <4>2. /\ \A y \in Left(k) : y.offset \in Nat /\ r.offset <= y.offset
                                  /\ y.offset < next[partition]
            /\ next[partition] \in Nat
            /\ \A x, y \in Left(k) : x.offset = y.offset => x = y
        BY <1>1, <1>2, <1>7, LeftFacts DEF Left
      <4>3. View(k)' = IF Left(k)' # {} THEN LastOf(Left(k)') ELSE state'[k]
        BY <1>1, <1>2, <1>5, <2>1, <2>2, <3>3 DEF View, LastOf
      <4>4. PICK z \in Left(k) : \A y \in Left(k) : y.offset <= z.offset
        BY <4>1, <4>2, LastExists
      <4>5. View(k) = z.entry
        <5>1. LastOf(Left(k)) = z.entry
          BY <4>2, <4>4, LastIs
        <5> QED BY <1>1, <1>6, <3>3, <4>1, <5>1
      <4>6. CASE Left(k)' = {}
        <5>1. z = r
          BY <4>1, <4>6
        <5> QED BY <1>3, <3>3, <4>3, <4>5, <4>6, <5>1
      <4>7. CASE Left(k)' # {}
        <5>1. PICK y \in Left(k) : y # r
          BY <4>1, <4>7
        <5>2. z # r
          <6>1. y.offset <= r.offset => y = r
            BY <4>1, <4>2
          <6> QED BY <4>4, <5>1, <6>1
        <5>3. z \in Left(k)' /\ Left(k)' \subseteq Left(k)
          BY <4>1, <5>2
        <5> DEFINE R == Left(k)'
        <5>4. LastOf(R) = z.entry
          <6>1. z \in R /\ R \subseteq Left(k)
            BY <5>3
          <6> HIDE DEF R
          <6>2. \A x \in R : x.offset \in Nat /\ x.offset <= z.offset
            BY <4>2, <4>4, <6>1
          <6>3. \A x, v \in R : x.offset = v.offset => x = v
            BY <4>2, <6>1
          <6> QED BY <6>1, <6>2, <6>3, LastIs
        <5> QED BY <4>3, <4>5, <4>7, <5>4
      <4> QED BY <4>6, <4>7
    <3> QED BY <3>1, <3>2, <3>3
  <2> QED BY <1>1, <1>2, <2>3, <2>4, <2>6, SameViews
<1>9. CASE ~(r.offset < final)
  <2>1. NextPartition
    BY <1>1, <1>2, <1>9 DEF AfterMessage
  <2>2. /\ PassInv' /\ NewInv'
        /\ \A k \in Keys : View(k)' = IF Place[k] = partition THEN state'[k] ELSE View(k)
    BY <1>1, <1>2, <1>3, <1>4, <2>1, PassStep
  <2>3. \A k \in Keys : \A x \in Left(k) : x = r /\ k = r.key /\ r.offset = final
    BY <1>1, <1>2, <1>7, <1>9 DEF Left
  <2>4. \A k \in Keys : k # r.key => View(k)' = View(k)
    BY <1>3, <1>6, <2>2, <2>3
  <2>5. View(r.key)' = r.entry
    BY <1>1, <1>3, <2>2
  <2>6. CASE r.offset = final
    <3>1. r \in Left(r.key)
      BY <1>1, <1>2, <2>6 DEF Left
    <3>2. LastOf(Left(r.key)) = r.entry
      <4>1. \A q \in Left(r.key) : q.offset \in Nat /\ q.offset <= r.offset
        BY <1>1, <2>3
      <4>2. \A p, q \in Left(r.key) : p.offset = q.offset => p = q
        BY <1>1, <2>3
      <4> QED BY <3>1, <4>1, <4>2, LastIs
    <3>3. View(r.key) = r.entry
      BY <1>1, <1>6, <3>1, <3>2
    <3>4. \A k \in Keys : View(k)' = View(k)
      BY <2>4, <2>5, <3>3
    <3> QED BY <1>1, <1>2, <2>2, <3>4, SameViews
  <2>7. CASE r.offset > final
    <3>1. ViewInv'
      <4> SUFFICES ASSUME ~cut', NEW w \in Windows
                   PROVE  (Live(View(<<"binary", w>>), View(<<"legacy", w>>)) \in held[w])'
        BY DEF ViewInv
      <4> DEFINE b == <<"binary", w>>
                 g == <<"legacy", w>>
      <4>1. b \in Keys /\ g \in Keys /\ b # g
        BY PlaceFacts
      <4>2. Live(View(b), View(g)) \in held[w]
        BY <1>1, <1>2 DEF CreateInv, ViewInv
      <4>3. /\ r.key = b => Live(r.entry, None) \in held[w]
            /\ r.key = g => r.entry = Deleted /\ None \in held[w]
        BY <1>1, <2>7 DEF CreateInv, NewInv
      <4>4. held' = held
        BY <1>2
      <4> HIDE DEF b, g
      <4>5. Live(View(b)', View(g)') \in held[w]
        <5>1. CASE r.key = b
          <6>1. Live(View(b)', View(g)') = Live(r.entry, None)
            BY <1>1, <2>5, <5>1, LiveFacts
          <6> QED BY <4>3, <5>1, <6>1
        <5>2. CASE r.key = g
          <6>1. View(b)' = View(b) /\ View(g)' = Deleted
            BY <2>4, <2>5, <4>1, <4>3, <5>2
          <6>2. CASE View(b) = None
            BY <4>3, <5>2, <6>1, <6>2, LiveFacts
          <6>3. CASE View(b) # None
            <7>1. Live(View(b), Deleted) = Live(View(b), View(g))
              BY <6>3, LiveFacts
            <7> QED BY <4>2, <6>1, <7>1
          <6> QED BY <6>2, <6>3
        <5>3. CASE r.key # b /\ r.key # g
          BY <2>4, <4>1, <4>2, <5>3
        <5> QED BY <5>1, <5>2, <5>3
      <4>6. (Live(View(b), View(g)))' = Live(View(b)', View(g)')
        BY DEF Live, b, g
      <4> QED BY <4>4, <4>5, <4>6 DEF b, g
    <3>2. GapLog(log, next)'
      BY <1>2 DEF CreateInv
    <3> QED BY <2>2, <3>1, <3>2 DEF CreateInv
  <2> QED BY <1>1, <1>2, <1>9, <2>6, <2>7
<1> QED BY <1>1, <1>2, <1>8, <1>9

\* Every step keeps the invariant.
LEMMA CreateStepInv ==
    ASSUME CreateInv, [CreateNext]_createVars
    PROVE  CreateInv'
<1>1. CASE CreateNext
  <2>1. CASE \E w \in Windows : \E s \in Values : Emit(w, s)
    BY <2>1, EmitInv
  <2>2. CASE \E w \in Windows : Purge(w)
    BY <2>2, PurgeInv
  <2>3. CASE \E p \in Partitions : WriteMarker(p) \/ Compact(p) \/ ExpireTombstone(p)
    BY <2>3, MarkerInv, CompactInv, ExpireTombstoneInv
  <2>4. CASE \/ StartCreate \/ OpenPartition \/ LookupFailure \/ ReadFails \/ DeliverRecord
             \/ Stall \/ Terminate \/ WriteResults
    BY <2>4, StartCreateInv, OpenInv, GiveUpInv, DeliverInv, StallInv, WriteResultsInv
  <2> QED BY <1>1, <2>1, <2>2, <2>3, <2>4 DEF CreateNext
<1>2. CASE UNCHANGED createVars
  <2>1. UNCHANGED <<log, next, pc, partition, position, final, state, cut, held, reported>>
    BY <1>2 DEF createVars
  <2>2. \A k : Ahead(k)' <=> Ahead(k)
    BY <2>1 DEF Ahead
  <2>3. \A k : View(k)' = View(k)
    BY <2>1, <2>2 DEF View, Left
  <2>4. GapLog(log, next)' /\ PassInv' /\ NewInv'
    BY <2>1, <2>2 DEF CreateInv, PassInv, NewInv
  <2>5. ViewInv'
    BY <2>1, <2>3 DEF CreateInv, ViewInv, Live
  <2> QED BY <2>4, <2>5 DEF CreateInv
<1> QED BY <1>1, <1>2

\* The offsets of the records that are there from before: the windows of a
\* partition take 0, 1, ... in their order.
LEMMA RankFacts ==
    ASSUME NEW ws, ws \subseteq Nat, IsFiniteSet(ws)
    PROVE  /\ Cardinality(ws) \in Nat
           /\ \A w \in ws : Rank(ws, w) \in Nat /\ Rank(ws, w) < Cardinality(ws)
           /\ \A v, w \in ws : Rank(ws, v) = Rank(ws, w) => v = w
<1> DEFINE Below(w) == {v \in ws : v < w}
<1>1. \A w : Rank(ws, w) = Cardinality(Below(w))
  BY DEF Rank
<1>2. \A w : Below(w) \subseteq ws
  OBVIOUS
<1>3. \A w \in ws : w \in ws /\ w \notin Below(w)
  OBVIOUS
<1>4. ASSUME NEW v \in ws, NEW w \in ws, v < w
      PROVE  Below(v) \subseteq Below(w) /\ v \in Below(w)
  <2>1. \A x \in ws : x < v => x < w
    BY <1>4
  <2> QED BY <1>4, <2>1
<1> HIDE DEF Below
<1>5. \A w : IsFiniteSet(Below(w)) /\ Cardinality(Below(w)) \in Nat
  BY <1>2, FS_Subset, FS_CardinalityType
<1>6. Cardinality(ws) \in Nat
  BY FS_CardinalityType
<1>7. ASSUME NEW w \in ws PROVE Cardinality(Below(w)) < Cardinality(ws)
  <2>1. /\ Cardinality(Below(w)) <= Cardinality(ws)
        /\ Cardinality(Below(w)) = Cardinality(ws) => Below(w) = ws
    BY <1>2, FS_Subset
  <2> QED BY <1>3, <1>5, <1>6, <2>1
<1>8. ASSUME NEW v \in ws, NEW w \in ws, v < w
      PROVE  Cardinality(Below(v)) # Cardinality(Below(w))
  <2>1. Cardinality(Below(v)) = Cardinality(Below(w)) => Below(v) = Below(w)
    BY <1>4, <1>5, <1>8, FS_Subset
  <2> QED BY <1>3, <1>4, <1>8, <2>1
<1>9. ASSUME NEW v \in ws, NEW w \in ws, v # w
      PROVE  Cardinality(Below(v)) # Cardinality(Below(w))
  <2>1. v \in Nat /\ w \in Nat
    OBVIOUS
  <2>2. v < w \/ w < v
    BY <1>9, <2>1
  <2> QED BY <1>8, <2>2
<1> QED BY <1>1, <1>5, <1>6, <1>7, <1>9

\* The invariant holds at first: create has not begun.
LEMMA CreateInitInv ==
    ASSUME CreateInit
    PROVE  CreateInv
<1>1. PICK old \in [Windows -> {None} \cup {Gaps(s) : s \in Values}] :
         LET of(p) == {w \in Windows : old[w] # None /\ Place[<<"legacy", w>>] = p} IN
         /\ log = [p \in Partitions |->
                     {[offset |-> Rank(of(p), w), key |-> <<"legacy", w>>,
                       entry |-> old[w]] : w \in of(p)}]
         /\ next = [p \in Partitions |-> Cardinality(of(p))]
  BY DEF CreateInit
<1> DEFINE of(p) == {w \in Windows : old[w] # None /\ Place[<<"legacy", w>>] = p}
           rec(p, w) == [offset |-> Rank(of(p), w), key |-> <<"legacy", w>>, entry |-> old[w]]
<1>2. /\ log = [p \in Partitions |-> {rec(p, w) : w \in of(p)}]
      /\ next = [p \in Partitions |-> Cardinality(of(p))]
  BY <1>1
<1>3. \A p : of(p) \subseteq Windows
  OBVIOUS
<1>4. \A p : \A w \in of(p) : Place[<<"legacy", w>>] = p /\ old[w] \in Entries \ {None}
  BY EntryFacts DEF Entries
<1>5. \A p, w : /\ rec(p, w).offset = Rank(of(p), w) /\ rec(p, w).key = <<"legacy", w>>
                /\ rec(p, w).entry = old[w]
  OBVIOUS
<1>6. \A p : \A w \in of(p) : Rank(of(p), w) \in Nat => rec(p, w) \in GapRecords
  BY <1>3, <1>4, PlaceFacts DEF GapRecords
<1> HIDE DEF of, rec
<1>7. Windows \subseteq Nat /\ IsFiniteSet(Windows)
  BY CreateAssumption
<1>8. ASSUME NEW p
      PROVE  /\ Cardinality(of(p)) \in Nat
             /\ \A w \in of(p) : Rank(of(p), w) \in Nat /\ Rank(of(p), w) < Cardinality(of(p))
             /\ \A v, w \in of(p) : Rank(of(p), v) = Rank(of(p), w) => v = w
  <2>1. of(p) \subseteq Nat /\ IsFiniteSet(of(p))
    BY <1>3, <1>7, FS_Subset
  <2> QED BY <2>1, RankFacts
<1>9. \A p \in Partitions : log[p] = {rec(p, w) : w \in of(p)} /\ next[p] = Cardinality(of(p))
  BY <1>2
<1>10. GapLog(log, next)
  <2>1. log \in [Partitions -> SUBSET GapRecords] /\ next \in [Partitions -> Nat]
    BY <1>2, <1>6, <1>8
  <2>2. ASSUME NEW p \in Partitions, NEW r \in log[p]
        PROVE  r.offset < next[p] /\ Place[r.key] = p
    <3>1. PICK w \in of(p) : r = rec(p, w)
      BY <1>9
    <3>2. r.offset = Rank(of(p), w) /\ r.key = <<"legacy", w>>
      BY <1>5, <3>1
    <3>3. next[p] = Cardinality(of(p)) /\ Rank(of(p), w) < Cardinality(of(p))
      BY <1>8, <1>9
    <3>4. Place[<<"legacy", w>>] = p
      BY <1>4
    <3> QED BY <3>2, <3>3, <3>4
  <2>3. ASSUME NEW p \in Partitions, NEW q \in log[p], NEW r \in log[p], q.offset = r.offset
        PROVE  q = r
    <3>1. PICK v \in of(p) : q = rec(p, v)
      BY <1>9
    <3>2. PICK w \in of(p) : r = rec(p, w)
      BY <1>9
    <3>3. v = w
      BY <1>5, <1>8, <2>3, <3>1, <3>2
    <3> QED BY <3>1, <3>2, <3>3
  <2> QED BY <2>1, <2>2, <2>3 DEF GapLog
<1>11. /\ pc = "idle" /\ state = [k \in Keys |-> None]
       /\ partition = 0 /\ position = 0 /\ final = -1
  BY DEF CreateInit
<1>12. PassInv
  BY <1>11, EntryFacts DEF PassInv
<1>13. NewInv /\ ViewInv
  BY <1>11 DEF NewInv, ViewInv
<1> QED BY <1>10, <1>12, <1>13 DEF CreateInv

\* At the end nothing is ahead: what was read is what the topic said.
LEMMA CreateInvFresh ==
    ASSUME CreateInv
    PROVE  BundleFresh
<1> SUFFICES ASSUME pc = "done", ~cut, NEW w \in Windows
             PROVE  reported[w] \in held[w]
  BY DEF BundleFresh
<1> DEFINE b == <<"binary", w>>
           g == <<"legacy", w>>
<1>1. Live(View(b), View(g)) \in held[w]
  BY DEF CreateInv, ViewInv
<1>2. View(b) = state[b] /\ View(g) = state[g]
  BY DEF View, Ahead
<1>3. reported[w] = Live(state[b], state[g])
  BY DEF CreateInv, PassInv
<1> QED BY <1>1, <1>2, <1>3

\* What create finds out about a window is what the gap topic said of it at some
\* time of the run, for every number of windows, partitions and records, every
\* placement of the keys, and whatever the deduplicator and compaction do to the
\* topic meanwhile (gapState.apply, gapState.windows, ReadToEndPartition).
THEOREM BundleIsFresh == CreateSpec => []BundleFresh
<1>1. CreateSpec => []CreateInv
  BY CreateInitInv, CreateStepInv, PTL DEF CreateSpec
<1> QED BY <1>1, CreateInvFresh, PTL
=============================================================================
