------------------------- MODULE UpstreamRelayProofs -------------------------
(***************************************************************************)
(* What upstream's relay guarantees for every number of partitions,         *)
(* records, retries, crashes, lost commits and shutdowns.                   *)
(*                                                                         *)
(* The argument: a claim advances past a record only when it marks it, and  *)
(* it marks it only when it was sent or may be skipped.  So everything      *)
(* below the position of a claim is dealt with, and the committed offset is *)
(* never beyond a position.                                                 *)
(*                                                                         *)
(* First, what the self-test of the deliver filter is worth, which decides  *)
(* what the relay leaves to another sender: it looks at the numbers of the  *)
(* list, and decides for every offset there will ever be.                   *)
(***************************************************************************)
EXTENDS UpstreamRelay, LostEventStore, TLAPS

\* The place of any offset, offset 0 of a partition included, is one of the period.
LEMMA PositionInPeriod ==
    ASSUME NEW k \in Int, k > 0, NEW offset \in Int
    PROVE  Position(offset, k) \in 1 .. k
  <1>1. GoMod(offset - 1, k) \in Int
    BY DEF GoMod
  <1>. DEFINE sum == GoMod(offset - 1, k) + k
  <1>2. sum \in Int
    BY <1>1
  <1>. HIDE DEF sum
  <1>3. sum % k \in 0 .. k - 1
    BY <1>2
  <1>4. posMod(offset - 1, k) \in 0 .. k - 1
    BY <1>3 DEF posMod, sum
  <1>. QED
    BY <1>4 DEF Position

\* A place of the period is its own place.
LEMMA PositionOfPosition ==
    ASSUME NEW k \in Int, k > 0, NEW q \in 1 .. k
    PROVE  Position(q, k) = q
  <1>1. q - 1 \in 0 .. k - 1 /\ q - 1 >= 0
    OBVIOUS
  <1>2. (q - 1) % k = q - 1
    BY <1>1
  <1>3. (q - 1 + k) % k = q - 1
    BY <1>1
  <1>4. posMod(q - 1, k) = q - 1
    BY <1>1, <1>2, <1>3 DEF posMod, GoMod
  <1>. QED
    BY <1>4 DEF Position

\* A list that passes the self-test of NewFilter, and reaches over a period, lets
\* exactly those offsets through whose place in the period is in the list.
THEOREM SelfTestDecides ==
    ASSUME NEW s, NewFilter(s), s[Len(s)] >= Period(s), NEW offset \in Int
    PROVE  Check(s, offset) <=> Listed(s, Position(offset, Period(s)))
  <1>1. Period(s) \in Int /\ Period(s) > 0
    <2>1. s \in Seq(Int) /\ Len(s) > 0 /\ Len(s) % 3 = 0
      BY DEF NewFilter
    <2>2. Len(s) \in Nat /\ GroupSize(s) \in Nat /\ GroupSize(s) > 0 /\ 3 * GroupSize(s) = Len(s)
      BY <2>1 DEF GroupSize
    <2>3. 1 \in 1 .. Len(s) /\ GroupSize(s) + 1 \in 1 .. Len(s)
      BY <2>2
    <2>4. Number(s, 1, 1) \in Int /\ Number(s, 2, 1) \in Int
      BY <2>1, <2>2, <2>3 DEF Number
    <2>. QED
      BY <2>4 DEF NewFilter, Period
  <1>2. s[Len(s)] \in Int
    BY DEF NewFilter
  <1>. DEFINE q == Position(offset, Period(s))
  <1>3. q \in 1 .. Period(s)
    BY <1>1, PositionInPeriod
  <1>4. Position(q, Period(s)) = q
    BY <1>1, <1>3, PositionOfPosition
  <1>5. Check(s, q) <=> Check(s, offset)
    BY <1>4 DEF Check
  <1>6. q \in 1 .. s[Len(s)]
    BY <1>1, <1>2, <1>3
  <1>7. Check(s, q) <=> Listed(s, q)
    BY <1>6 DEF NewFilter, doSelfTest
  <1>. QED
    BY <1>5, <1>7

\* Upstreams that share a topic: if each list is accepted, all have the same period,
\* and every place of the period is in the list of exactly one, then every offset is
\* sent by exactly one of them.
THEOREM EveryOffsetHasOneSender ==
    ASSUME NEW Senders, NEW list \in [Senders -> Seq(Int)], NEW k \in Int, k > 0,
           \A u \in Senders : /\ NewFilter(list[u])
                              /\ Period(list[u]) = k
                              /\ list[u][Len(list[u])] >= k,
           \A q \in 1 .. k : \E u \in Senders :
              Listed(list[u], q) /\ \A v \in Senders : Listed(list[v], q) => v = u,
           NEW offset \in Int
    PROVE  \E u \in Senders :
              Check(list[u], offset) /\ \A v \in Senders : Check(list[v], offset) => v = u
  <1>1. Position(offset, k) \in 1 .. k
    BY PositionInPeriod
  <1>2. PICK u \in Senders :
           /\ Listed(list[u], Position(offset, k))
           /\ \A v \in Senders : Listed(list[v], Position(offset, k)) => v = u
    BY <1>1
  <1>3. \A v \in Senders : Check(list[v], offset) <=> Listed(list[v], Position(offset, k))
    BY SelfTestDecides
  <1>. QED
    BY <1>2, <1>3

-----------------------------------------------------------------------------
(* The relay.                                                              *)

USE RelayAssumption

\* A record as the claim of its partition sees it.
LEMMA RecordOfClaim ==
    ASSUME TypeOK, NEW p \in Partitions, position[p] < LogEnd[p]
    PROVE  Record(p) \in Records
  <1>1. LogEnd[p] \in Nat /\ position[p] \in Nat
    BY DEF TypeOK
  <1>2. position[p] \in 0 .. LogEnd[p] - 1
    BY <1>1
  <1>. QED
    BY <1>2 DEF Record, Records

\* Records are pairs of a partition and an offset below its end.
LEMMA RecordsArePairs ==
    \A r \in Records : /\ r = <<r[1], r[2]>>
                       /\ r[1] \in Partitions
                       /\ r[2] \in Nat
                       /\ r[2] < LogEnd[r[1]]
  BY DEF Records

\* The handler skips a record only where the configuration allows it, and sends
\* it in one of the three forms.
LEMMA PreparedForms ==
    ASSUME NEW r \in Records, NEW form \in Prepared(r)
    PROVE  /\ form \in Forms \cup {"skip", "retry"}
           /\ form = "skip" => MayBeSkipped(r)
  BY DEF Prepared, Encoded, WithinLimit, InputFiltered, ShouldFilterOut, LostEvent, Forms,
         MayBeSkipped

-----------------------------------------------------------------------------
LEMMA RelayInit == Init => TypeOK
  BY RecordsArePairs DEF Init, TypeOK

\* One step of a claim keeps the types.
LEMMA TypeClaim ==
    ASSUME TypeOK, NEW p \in Partitions, ClaimStep(p)
    PROVE  TypeOK'
  <1>1. ASSUME NEW form \in Forms \cup {"skip", "retry"}, Take(p, form)
        PROVE  TypeOK'
    <2>1. CASE form = "skip"
      BY <1>1, <2>1 DEF Take, MarkMessage, HandlerReturns, TypeOK, faults
    <2>2. CASE form = "retry"
      BY <1>1, <2>2 DEF Take, GiveUp, HandlerReturns, TypeOK, faults
    <2>3. CASE form \notin {"skip", "retry"}
      BY <1>1, <2>3 DEF Take, TypeOK, faults
    <2>. QED
      BY <2>1, <2>2, <2>3
  <1>2. CASE ReturnFromClaim(p)
    BY <1>2 DEF ReturnFromClaim, TypeOK, faults
  <1>3. CASE SendSucceeds(p)
    <2>1. Record(p) \in Records
      BY <1>3, RecordOfClaim DEF SendSucceeds, TypeOK
    <2>2. times' \in [Records -> Nat]
      BY <1>3, <2>1 DEF SendSucceeds, TypeOK
    <2>. QED
      BY <1>3, <2>2 DEF SendSucceeds, MarkMessage, HandlerReturns, TypeOK, faults
  <1>4. CASE SendFails(p)
    BY <1>4 DEF SendFails, TypeOK, faults
  <1>5. CASE RetryOrGiveUp(p)
    BY <1>5 DEF RetryOrGiveUp, GiveUp, HandlerReturns, TypeOK, faults
  <1>6. CASE Cancelled(p)
    BY <1>6 DEF Cancelled, GiveUp, HandlerReturns, TypeOK, faults
  <1>. QED
    BY <1>1, <1>2, <1>3, <1>4, <1>5, <1>6 DEF ClaimStep

\* The session and the process keep the types.
LEMMA TypeSession ==
    ASSUME TypeOK, SessionStep \/ ProcessStep
    PROVE  TypeOK'
  <1>1. CASE StartSession
    BY <1>1 DEF StartSession, TypeOK, faults
  <1>2. CASE AutoCommit
    BY <1>2 DEF AutoCommit, TypeOK, faults, consumerVars
  <1>3. CASE Rebalance
    BY <1>3 DEF Rebalance, TypeOK, faults, consumerVars
  <1>4. CASE EndSession
    BY <1>4 DEF EndSession, TypeOK, faults, consumerVars
  <1>5. CASE EndSessionUncommitted
    BY <1>5 DEF EndSessionUncommitted, TypeOK, consumerVars
  <1>6. CASE Sigterm
    BY <1>6 DEF Sigterm, TypeOK, consumerVars
  <1>7. CASE Exit
    BY <1>7 DEF Exit, TypeOK, faults, consumerVars
  <1>8. CASE Crash
    BY <1>8 DEF Crash, TypeOK
  <1>9. CASE Restart
    BY <1>9 DEF Restart, TypeOK, faults, consumerVars
  <1>10. CASE Connect
    BY <1>10 DEF Connect, TypeOK, faults, consumerVars
  <1>. QED
    BY <1>1, <1>2, <1>3, <1>4, <1>5, <1>6, <1>7, <1>8, <1>9, <1>10
       DEF SessionStep, ProcessStep

LEMMA TypeUnchanged == TypeOK /\ UNCHANGED vars => TypeOK'
  BY DEF TypeOK, vars

LEMMA TypeNext == TypeOK /\ [Next]_vars => TypeOK'
  BY TypeClaim, TypeSession, TypeUnchanged DEF Next

\* Types hold in every reachable state: a claim never runs ahead of the log, the
\* committed offset never ahead of the marked one, and the retry limit of
\* kafkaHandlerWithContext is respected.
THEOREM RelayTypeCorrect == Spec => []TypeOK
  BY RelayInit, TypeNext, PTL DEF Spec
-----------------------------------------------------------------------------
\* Everything below the position of a claim is dealt with.
BelowPosition ==
    \A r \in Records : r[2] < position[r[1]] => DealtWith(r)

\* The strengthening of NoRecordSkipped and SentInOrder.
SkipInv == TypeOK /\ BelowPosition /\ SentInOrder

LEMMA SkipInit == Init => SkipInv
  <1>. SUFFICES ASSUME Init PROVE SkipInv
    OBVIOUS
  <1>1. TypeOK
    BY RelayInit
  <1>2. BelowPosition
    BY RecordsArePairs DEF Init, BelowPosition
  <1>3. SentInOrder
    BY DEF Init, SentInOrder
  <1>. QED
    BY <1>1, <1>2, <1>3 DEF SkipInv

\* A step that sends nothing and leaves the positions alone, or takes positions back
\* to the committed offsets, keeps the invariant.
LEMMA SkipQuiet ==
    ASSUME SkipInv, TypeOK', times' = times, position' = position \/ position' = committed
    PROVE  SkipInv'
  <1>1. \A r \in Records : DealtWith(r)' <=> DealtWith(r)
    BY DEF DealtWith, MayBeSkipped
  <1>2. \A r \in Records : r[2] < position[r[1]]' => r[2] < position[r[1]]
    BY RecordsArePairs DEF SkipInv, TypeOK
  <1>3. BelowPosition'
    BY <1>1, <1>2 DEF SkipInv, BelowPosition
  <1>4. SentInOrder'
    BY <1>1 DEF SkipInv, SentInOrder
  <1>. QED
    BY <1>3, <1>4 DEF SkipInv

\* A claim that marks its record after having dealt with it keeps the invariant.
LEMMA SkipMark ==
    ASSUME SkipInv, TypeOK', NEW p \in Partitions,
           position[p] < LogEnd[p], MarkMessage(p),
           \/ times' = times
           \/ times' = [times EXCEPT ![Record(p)] = @ + 1],
           times'[Record(p)] > 0 \/ MayBeSkipped(Record(p))
    PROVE  SkipInv'
  <1>1. Record(p) \in Records
    BY RecordOfClaim DEF SkipInv
  <1>2. \A r \in Records : DealtWith(r) => DealtWith(r)'
    BY <1>1 DEF SkipInv, TypeOK, DealtWith, MayBeSkipped
  <1>3. ASSUME NEW r \in Records, r[2] < position[r[1]]'
        PROVE  r[2] < position[r[1]] \/ r = Record(p)
    <2>1. position[r[1]]' = IF r[1] = p THEN position[p] + 1 ELSE position[r[1]]
      BY RecordsArePairs DEF MarkMessage, HandlerReturns, SkipInv, TypeOK
    <2>2. r[2] \in Nat /\ r[1] \in Partitions /\ r = <<r[1], r[2]>> /\ position[p] \in Nat
      BY RecordsArePairs DEF SkipInv, TypeOK
    <2>3. CASE r[1] = p
      <3>1. r[2] < position[p] \/ r[2] = position[p]
        BY <1>3, <2>1, <2>2, <2>3
      <3>. QED
        BY <3>1, <2>2, <2>3 DEF Record
    <2>4. CASE r[1] # p
      BY <1>3, <2>1, <2>4
    <2>. QED
      BY <2>3, <2>4
  <1>4. BelowPosition'
    <2>. SUFFICES ASSUME NEW r \in Records, r[2] < position'[r[1]]
                  PROVE  DealtWith(r)'
      BY DEF BelowPosition
    <2>1. CASE r[2] < position[r[1]]
      BY <1>2, <2>1 DEF SkipInv, BelowPosition
    <2>2. CASE r = Record(p)
      BY <2>2 DEF DealtWith, MayBeSkipped
    <2>. QED
      BY <1>3, <2>1, <2>2
  <1>5. ASSUME NEW r \in Records, NEW s \in Records,
               r[1] = s[1], r[2] < s[2], times'[s] > 0
        PROVE  DealtWith(r)'
    <2>1. CASE times[s] > 0
      BY <1>2, <1>5, <2>1 DEF SkipInv, SentInOrder
    <2>2. CASE ~(times[s] > 0)
      <3>1. s = Record(p)
        BY <1>1, <1>5, <2>2 DEF SkipInv, TypeOK
      <3>2. s[1] = p /\ s[2] = position[p]
        BY <3>1 DEF Record
      <3>. QED
        BY <1>2, <1>5, <3>2 DEF SkipInv, BelowPosition
    <2>. QED
      BY <2>1, <2>2
  <1>6. SentInOrder'
    BY <1>5 DEF SentInOrder, DealtWith, MayBeSkipped
  <1>. QED
    BY <1>4, <1>6 DEF SkipInv

LEMMA SkipNext == SkipInv /\ [Next]_vars => SkipInv'
  <1>. SUFFICES ASSUME SkipInv, [Next]_vars PROVE SkipInv'
    OBVIOUS
  <1>0. TypeOK /\ TypeOK'
    BY TypeNext DEF SkipInv
  <1>1. ASSUME NEW p \in Partitions, NEW form \in Forms \cup {"skip", "retry"},
               Take(p, form)
        PROVE  SkipInv'
    <2>1. CASE form = "skip"
      <3>1. Record(p) \in Records
        BY <1>0, <1>1, RecordOfClaim DEF Take
      <3>2. MayBeSkipped(Record(p))
        BY <1>1, <2>1, <3>1, PreparedForms DEF Take
      <3>. QED
        BY <1>0, <1>1, <2>1, <3>2, SkipMark DEF Take
    <2>2. CASE form # "skip"
      BY <1>0, <1>1, <2>2, SkipQuiet DEF Take, GiveUp, HandlerReturns
    <2>. QED
      BY <2>1, <2>2
  <1>2. ASSUME NEW p \in Partitions, SendSucceeds(p)
        PROVE  SkipInv'
    <2>1. position[p] < LogEnd[p]
      BY <1>0, <1>2 DEF SendSucceeds, TypeOK
    <2>2. Record(p) \in Records
      BY <1>0, <2>1, RecordOfClaim
    <2>3. times'[Record(p)] > 0
      BY <1>0, <1>2, <2>2 DEF SendSucceeds, TypeOK
    <2>. QED
      BY <1>0, <1>2, <2>1, <2>3, SkipMark DEF SendSucceeds
  <1>3. ASSUME NEW p \in Partitions,
               ReturnFromClaim(p) \/ SendFails(p) \/ RetryOrGiveUp(p) \/ Cancelled(p)
        PROVE  SkipInv'
    BY <1>0, <1>3, SkipQuiet
       DEF ReturnFromClaim, SendFails, RetryOrGiveUp, Cancelled, GiveUp, HandlerReturns
  <1>4. CASE SessionStep
    BY <1>0, <1>4, SkipQuiet
       DEF SessionStep, StartSession, AutoCommit, Rebalance, EndSession,
           EndSessionUncommitted, consumerVars
  <1>5. CASE ProcessStep
    BY <1>0, <1>5, SkipQuiet
       DEF ProcessStep, Connect, Sigterm, Exit, Crash, Restart, consumerVars
  <1>6. CASE UNCHANGED vars
    BY <1>0, <1>6, SkipQuiet DEF vars
  <1>. QED
    BY <1>1, <1>2, <1>3, <1>4, <1>5, <1>6 DEF Next, ClaimStep

LEMMA SkipImplies == SkipInv => NoRecordSkipped
  BY RecordsArePairs DEF SkipInv, TypeOK, BelowPosition, NoRecordSkipped

\* The consumer group never passes a record that was neither sent in some form
\* nor skipped on purpose: at-least-once from Kafka to the wire.
THEOREM RelaySkipsNothing == Spec => []NoRecordSkipped
  BY SkipInit, SkipNext, SkipImplies, PTL DEF Spec

\* First transmissions of a partition's records are in the order of offsets.
THEOREM RelaySendsInOrder == Spec => []SentInOrder
  <1>1. SkipInv => SentInOrder
    BY DEF SkipInv
  <1>. QED
    BY SkipInit, SkipNext, <1>1, PTL DEF Spec
-----------------------------------------------------------------------------
\* Where the partition goes on: in the session, or from the broker.
Base(p) == IF session = "none" THEN committed[p] ELSE position[p]

\* A record from there on was sent at most once per fault, one before it once
\* more.
SentPerFault ==
    \A r \in Records :
        times[r] <= crashes + lostCommits + (IF r[2] < Base(r[1]) THEN 1 ELSE 0)

\* The strengthening of DuplicatesNeedFault: a claim has marked all it is past,
\* and runs only in a session.
DupInv ==
    /\ TypeOK
    /\ marked = position
    /\ \A p \in Partitions : claim[p] # "returned" => session # "none"
    /\ SentPerFault

LEMMA DupInit == Init => DupInv
  <1>. SUFFICES ASSUME Init PROVE DupInv
    OBVIOUS
  <1>1. SentPerFault
    BY RecordsArePairs DEF Init, SentPerFault, Base
  <1>. QED
    BY <1>1, RelayInit DEF Init, DupInv

\* A step that sends nothing, forgets no fault, and takes no partition back
\* unless a fault is counted, keeps the bound.
LEMMA DupQuiet ==
    ASSUME DupInv, TypeOK', times' = times,
           \/ /\ crashes' = crashes /\ lostCommits' = lostCommits
              /\ \A p \in Partitions : Base(p)' >= Base(p)
           \/ crashes' + lostCommits' = crashes + lostCommits + 1
    PROVE  SentPerFault'
  <1>. SUFFICES ASSUME NEW r \in Records
                PROVE  times[r] <= crashes' + lostCommits'
                                   + (IF r[2] < Base(r[1])' THEN 1 ELSE 0)
    BY DEF SentPerFault
  <1>1. /\ times[r] \in Nat /\ crashes \in Nat /\ lostCommits \in Nat
        /\ crashes' \in Nat /\ lostCommits' \in Nat
    BY DEF DupInv, TypeOK
  <1>2. /\ r[1] \in Partitions /\ r[2] \in Nat
        /\ Base(r[1]) \in Nat /\ Base(r[1])' \in Nat
    BY RecordsArePairs DEF DupInv, TypeOK, Base
  <1>3. times[r] <= crashes + lostCommits + (IF r[2] < Base(r[1]) THEN 1 ELSE 0)
    BY DEF DupInv, SentPerFault
  <1>4. CASE crashes' + lostCommits' = crashes + lostCommits + 1
    <2>1. times[r] <= crashes + lostCommits + 1
      BY <1>1, <1>3
    <2>2. times[r] <= crashes' + lostCommits'
      BY <1>4, <2>1
    <2>. QED
      BY <1>1, <2>2
  <1>5. CASE /\ crashes' = crashes /\ lostCommits' = lostCommits
             /\ \A p \in Partitions : Base(p)' >= Base(p)
    <2>1. Base(r[1])' >= Base(r[1])
      BY <1>2, <1>5
    <2>. QED
      BY <1>1, <1>2, <1>3, <1>5, <2>1
  <1>. QED
    BY <1>4, <1>5

LEMMA DupClaim ==
    ASSUME DupInv, NEW p \in Partitions, ClaimStep(p)
    PROVE  DupInv'
  <1>0. TypeOK /\ TypeOK'
    BY TypeClaim DEF DupInv
  <1>1. ASSUME NEW form \in Forms \cup {"skip", "retry"}, Take(p, form)
        PROVE  DupInv'
    <2>0. session # "none" /\ session' # "none"
      BY <1>1 DEF DupInv, Take, MarkMessage, GiveUp, HandlerReturns
    <2>1. marked' = position' /\ \A q \in Partitions : position'[q] >= position[q]
      BY <1>0, <1>1 DEF DupInv, TypeOK, Take, MarkMessage, GiveUp, HandlerReturns
    <2>2. \A q \in Partitions : Base(q)' >= Base(q)
      BY <2>0, <2>1 DEF Base
    <2>3. times' = times /\ crashes' = crashes /\ lostCommits' = lostCommits
      BY <1>1 DEF Take, faults
    <2>4. SentPerFault'
      BY <1>0, <2>2, <2>3, DupQuiet
    <2>. QED
      BY <1>0, <2>0, <2>1, <2>4 DEF DupInv
  <1>2. CASE SendSucceeds(p)
    <2>0. session # "none" /\ session' = session
      BY <1>2 DEF DupInv, SendSucceeds, MarkMessage, HandlerReturns
    <2>1. position[p] < LogEnd[p] /\ position[p] \in Nat /\ Record(p) \in Records
      BY <1>0, <1>2, RecordOfClaim DEF SendSucceeds, TypeOK
    <2>2. /\ marked' = position'
          /\ position' = [position EXCEPT ![p] = @ + 1]
          /\ times' = [times EXCEPT ![Record(p)] = @ + 1]
          /\ crashes' = crashes /\ lostCommits' = lostCommits
      BY <1>2 DEF SendSucceeds, MarkMessage, HandlerReturns, DupInv, faults
    <2>3. ASSUME NEW r \in Records
          PROVE  times'[r] <= crashes + lostCommits
                              + (IF r[2] < Base(r[1])' THEN 1 ELSE 0)
      <3>1. /\ r[1] \in Partitions /\ r[2] \in Nat /\ r = <<r[1], r[2]>>
            /\ position \in [Partitions -> Nat] /\ times \in [Records -> Nat]
            /\ crashes \in Nat /\ lostCommits \in Nat
        BY <1>0, RecordsArePairs DEF TypeOK
      <3>2. times[r] <= crashes + lostCommits
                        + (IF r[2] < position[r[1]] THEN 1 ELSE 0)
        BY <2>0 DEF DupInv, SentPerFault, Base
      <3>3. Base(r[1])' = IF r[1] = p THEN position[p] + 1 ELSE position[r[1]]
        BY <2>0, <2>2, <3>1 DEF Base
      <3>4. CASE r = Record(p)
        <4>1. r[1] = p /\ r[2] = position[p]
          BY <3>4 DEF Record
        <4>2. times'[r] = times[r] + 1
          BY <2>1, <2>2, <3>1, <3>4
        <4>. QED
          BY <3>1, <3>2, <3>3, <4>1, <4>2
      <3>5. CASE r # Record(p)
        <4>1. times'[r] = times[r]
          BY <2>1, <2>2, <3>1, <3>5
        <4>. QED
          BY <3>1, <3>2, <3>3, <4>1
      <3>. QED
        BY <3>4, <3>5
    <2>4. SentPerFault'
      BY <2>2, <2>3 DEF SentPerFault
    <2>. QED
      BY <1>0, <2>0, <2>2, <2>4 DEF DupInv
  <1>3. CASE ReturnFromClaim(p) \/ SendFails(p) \/ RetryOrGiveUp(p) \/ Cancelled(p)
    <2>0. session # "none" /\ session' # "none"
      BY <1>3 DEF DupInv, ReturnFromClaim, SendFails, RetryOrGiveUp, Cancelled, GiveUp, HandlerReturns
    <2>1. /\ position' = position /\ marked' = marked /\ times' = times
          /\ crashes' = crashes /\ lostCommits' = lostCommits
      BY <1>3 DEF ReturnFromClaim, SendFails, RetryOrGiveUp, Cancelled, GiveUp, HandlerReturns, faults
    <2>2. \A q \in Partitions : Base(q)' >= Base(q)
      BY <1>0, <2>0, <2>1 DEF Base, TypeOK
    <2>3. SentPerFault'
      BY <1>0, <2>1, <2>2, DupQuiet
    <2>. QED
      BY <1>0, <2>0, <2>1, <2>3 DEF DupInv
  <1>. QED
    BY <1>1, <1>2, <1>3 DEF ClaimStep

LEMMA DupSession ==
    ASSUME DupInv, SessionStep \/ ProcessStep
    PROVE  DupInv'
  <1>0. TypeOK /\ TypeOK'
    BY TypeSession DEF DupInv
  <1>1. marked' = position'
    BY DEF DupInv, SessionStep, StartSession, AutoCommit, Rebalance, EndSession,
           EndSessionUncommitted, ProcessStep, Connect, Sigterm, Exit, Crash, Restart, consumerVars
  <1>2. \A p \in Partitions : claim'[p] # "returned" => session' # "none"
    BY DEF DupInv, SessionStep, StartSession, AutoCommit, Rebalance, EndSession,
           EndSessionUncommitted, AllReturned, ProcessStep, Connect, Sigterm, Exit, Crash,
           Restart, consumerVars
  <1>3. times' = times
    BY DEF SessionStep, StartSession, AutoCommit, Rebalance, EndSession,
           EndSessionUncommitted, ProcessStep, Connect, Sigterm, Exit, Crash, Restart
  <1>4. CASE Crash \/ EndSessionUncommitted
    <2>0. crashes \in Nat /\ lostCommits \in Nat
      BY <1>0 DEF TypeOK
    <2>a. \/ crashes' = crashes + 1 /\ lostCommits' = lostCommits
          \/ crashes' = crashes /\ lostCommits' = lostCommits + 1
      BY <1>4 DEF Crash, EndSessionUncommitted
    <2>1. crashes' + lostCommits' = crashes + lostCommits + 1
      BY <2>0, <2>a
    <2>. QED
      BY <1>0, <1>1, <1>2, <1>3, <2>1, DupQuiet DEF DupInv
  <1>5. CASE \/ StartSession \/ AutoCommit \/ Rebalance \/ EndSession
             \/ Connect \/ Sigterm \/ Exit \/ Restart
    <2>1. crashes' = crashes /\ lostCommits' = lostCommits
      BY <1>5 DEF StartSession, AutoCommit, Rebalance, EndSession, Connect,
                  Sigterm, Exit, Restart, faults
    <2>2. \A p \in Partitions : Base(p)' = Base(p)
      BY <1>5 DEF DupInv, Base, StartSession, AutoCommit, Rebalance, EndSession,
                  Connect, Sigterm, Exit, Restart, consumerVars
    <2>3. \A p \in Partitions : Base(p)' >= Base(p)
      BY <1>0, <2>2 DEF Base, TypeOK
    <2>. QED
      BY <1>0, <1>1, <1>2, <1>3, <2>1, <2>3, DupQuiet DEF DupInv
  <1>. QED
    BY <1>4, <1>5 DEF SessionStep, ProcessStep

LEMMA DupNext == DupInv /\ [Next]_vars => DupInv'
  <1>1. DupInv /\ UNCHANGED vars => DupInv'
    BY DEF DupInv, TypeOK, SentPerFault, Base, vars
  <1>. QED
    BY <1>1, DupClaim, DupSession DEF Next

LEMMA DupImplies == DupInv => DuplicatesNeedFault
  <1>. SUFFICES ASSUME DupInv, NEW r \in Records
                PROVE  times[r] <= 1 + crashes + lostCommits
    BY DEF DuplicatesNeedFault
  <1>1. times[r] \in Nat /\ crashes \in Nat /\ lostCommits \in Nat
    BY DEF DupInv, TypeOK
  <1>2. times[r] <= crashes + lostCommits + (IF r[2] < Base(r[1]) THEN 1 ELSE 0)
    BY DEF DupInv, SentPerFault
  <1>. QED
    BY <1>1, <1>2

\* Without a crash and without a lost commit no record is sent twice, whatever
\* sends fail, sessions end and SIGTERMs come; every fault costs at most one
\* more copy of a record.
THEOREM RelayDuplicatesBounded == Spec => []DuplicatesNeedFault
  BY DupInit, DupNext, DupImplies, PTL DEF Spec

-----------------------------------------------------------------------------
(***************************************************************************)
(* The directory of the payloads that the relay could not deliver, for any  *)
(* number of threads, payloads, days and faults.                            *)
(*                                                                         *)
(* The argument: the number of a payload is in no file until the payload is *)
(* written, so whatever bears the number of a stored payload is complete.   *)
(* Only a removal that is reported, or one by a thread that has made the    *)
(* archive, takes a file or an archive away.  The days follow the same way: *)
(* a complete file has the day of its payload, and so has its archive.      *)
(***************************************************************************)

\* The fields of the record of a thread.
Slots == {"stage", "n", "today", "todo", "source", "about", "alone"}

\* Only a temporary file has an owner.
WellNamed(f) ==
    /\ DOMAIN f = {"n", "kind", "owner"}
    /\ f.n \in Nat \ {0}
    /\ f.kind \in {"raw", "zip", "tmp", "junk"}
    /\ f.kind # "tmp" => f.owner = Nobody

StoreTyped ==
    /\ writes \in Nat
    /\ \A f \in DOMAIN files : WellNamed(f) /\ f.n <= writes
    /\ \A n \in stored : n \in Nat /\ n <= writes
    /\ DOMAIN thread = Threads
    /\ \A t \in Threads : DOMAIN thread[t] = Slots /\ thread[t].n \in Nat \ {0}

Busy(t) == thread[t].stage # "idle"
Compressing(t) == thread[t].stage \in {"copy", "rename", "drop"}

\* What a thread compresses was in the directory.
SourcesNamed ==
    \A t \in Threads :
       Compressing(t) => /\ WellNamed(thread[t].source) /\ thread[t].source.n <= writes
                         /\ thread[t].source.kind \in {"raw", "tmp"}

\* The number of a payload that is yet to be written is nowhere else.
NumbersFresh ==
    \A t \in Threads : Busy(t) =>
       /\ thread[t].n <= writes /\ thread[t].n \notin stored
       /\ \A f \in DOMAIN files : f.n # thread[t].n
       /\ \A u \in Threads : Compressing(u) => thread[u].source.n # thread[t].n
       /\ \A u \in Threads : Busy(u) /\ u # t => thread[u].n # thread[t].n

\* The files of a payload that was stored are complete, the temporary one of a
\* thread that is about to rename it too.
FilesComplete ==
    /\ \A f \in DOMAIN files : f.kind \in {"raw", "zip"} /\ f.n \in stored => files[f].full
    /\ \A t \in Threads :
         /\ thread[t].stage \in {"copy", "rename"} /\ thread[t].source.kind = "raw"
            /\ thread[t].source.n \in stored => thread[t].about.full
         /\ thread[t].stage = "rename" /\ Mine(t) \in DOMAIN files =>
              files[Mine(t)] = thread[t].about

Unreported == stored \ (announced \cup cut)

\* A payload has a file or an archive, and an archive if its file is about to go.
PayloadsThere ==
    /\ \A n \in Unreported : Raw(n) \in DOMAIN files \/ Zip(n) \in DOMAIN files
    /\ \A t \in Threads :
         thread[t].stage = "drop" /\ thread[t].source.kind = "raw"
         /\ thread[t].source.n \in Unreported => Zip(thread[t].source.n) \in DOMAIN files

StoreInv == StoreTyped /\ SourcesNamed /\ NumbersFresh /\ FilesComplete /\ PayloadsThere

LEMMA StoreInvInit == StoreInit => StoreInv
  <1>. SUFFICES ASSUME StoreInit PROVE StoreInv
    OBVIOUS
  <1>1. /\ files = [f \in {Raw(1)} |-> [mtime |-> 0, full |-> TRUE]]
        /\ thread = [t \in Threads |-> Idle]
        /\ writes = 1 /\ stored = {1}
    BY DEF StoreInit
  <1>2. WellNamed(Raw(1)) /\ Raw(1).n = 1
    BY DEF WellNamed, Raw
  <1>3. DOMAIN Idle = Slots /\ Idle.n = 1 /\ Idle.stage = "idle"
    BY DEF Idle, Slots
  <1>4. DOMAIN files = {Raw(1)} /\ files[Raw(1)].full
    BY <1>1
  <1>5. DOMAIN thread = Threads /\ \A t \in Threads : thread[t] = Idle
    BY <1>1
  <1>6. StoreTyped
    BY <1>1, <1>2, <1>3, <1>4, <1>5 DEF StoreTyped
  <1>7. \A t \in Threads : thread[t].stage = "idle"
    BY <1>3, <1>5
  <1>8. SourcesNamed /\ NumbersFresh
    BY <1>7 DEF SourcesNamed, NumbersFresh, Busy, Compressing
  <1>9. FilesComplete
    BY <1>4, <1>7 DEF FilesComplete
  <1>10. PayloadsThere
    BY <1>1, <1>4, <1>7 DEF PayloadsThere, Unreported
  <1>. QED
    BY <1>6, <1>8, <1>9, <1>10 DEF StoreInv


-----------------------------------------------------------------------------

\* The record of a thread after a step: the other threads keep theirs, but for
\* what they know of being alone.
OthersKeep(t) ==
    /\ DOMAIN thread' = Threads
    /\ \A u \in Threads : DOMAIN thread'[u] = Slots /\ thread'[u].n \in Nat \ {0}
    /\ \A u \in Threads \ {t} :
         /\ thread'[u].stage = thread[u].stage /\ thread'[u].n = thread[u].n
         /\ thread'[u].source = thread[u].source /\ thread'[u].about = thread[u].about

\* A thread that is busy goes on with its payload, one that begins takes the next number.
NumberTaken(t) ==
    /\ writes' \in Nat /\ writes' >= writes
    /\ Busy(t)' => \/ Busy(t) /\ thread'[t].n = thread[t].n
                   \/ writes' = writes + 1 /\ thread'[t].n = writes'

\* Files go, but no file of a payload that nobody reported, unless it has an archive.
FilesGo ==
    /\ DOMAIN files' \subseteq DOMAIN files
    /\ \A f \in DOMAIN files' : files'[f] = files[f]
    /\ stored' = stored /\ announced \subseteq announced' /\ cut \subseteq cut'
    /\ \A f \in DOMAIN files \ DOMAIN files' :
         f.kind \in {"raw", "zip"} /\ f.n \in stored \ (announced' \cup cut') =>
           f.kind = "raw" /\ Zip(f.n) \in DOMAIN files'

LEMMA StoreNames ==
    ASSUME NEW n
    PROVE  /\ Zip(n).n = n /\ Zip(n).kind = "zip"
           /\ Raw(n).n = n /\ Raw(n).kind = "raw"
           /\ n \in Nat \ {0} => WellNamed(Zip(n)) /\ WellNamed(Raw(n))
  BY DEF Zip, Raw, WellNamed

LEMMA NumbersStay ==
    ASSUME StoreInv, NEW t \in Threads, OthersKeep(t), NumberTaken(t),
           \/ ~ Compressing(t)'
           \/ Compressing(t) /\ thread'[t].source = thread[t].source
           \/ thread'[t].source \in DOMAIN files,
           stored' = stored,
           \A f \in DOMAIN files' : \E g \in DOMAIN files : f.n = g.n
    PROVE  NumbersFresh'
  <1>1. StoreTyped /\ SourcesNamed /\ NumbersFresh
    BY DEF StoreInv
  <1>2. \A u \in Threads : Compressing(u)' =>
          \/ Compressing(u) /\ thread'[u].source = thread[u].source
          \/ thread'[u].source \in DOMAIN files
    BY DEF OthersKeep, Compressing
  <1>3. \A u \in Threads : Compressing(u)' =>
          \/ \E g \in DOMAIN files : thread'[u].source.n = g.n
          \/ Compressing(u) /\ thread'[u].source.n = thread[u].source.n
    BY <1>2
  <1>4. \A u \in Threads :
          Compressing(u) => thread[u].source.n <= writes /\ thread[u].source.n \in Nat
    BY <1>1 DEF SourcesNamed, WellNamed
  <1>5. \A f \in DOMAIN files : f.n <= writes /\ f.n \in Nat
    BY <1>1 DEF StoreTyped, WellNamed
  <1>. SUFFICES ASSUME NEW w \in Threads, Busy(w)'
                PROVE  /\ thread'[w].n <= writes' /\ thread'[w].n \notin stored'
                       /\ \A f \in DOMAIN files' : f.n # thread'[w].n
                       /\ \A u \in Threads : Compressing(u)' => thread'[u].source.n # thread'[w].n
                       /\ \A u \in Threads : Busy(u)' /\ u # w => thread'[u].n # thread'[w].n
    BY DEF NumbersFresh
  <1>6. \A u \in Threads : Busy(u)' =>
          \/ Busy(u) /\ thread'[u].n = thread[u].n
          \/ u = t /\ writes' = writes + 1 /\ thread'[u].n = writes'
    BY DEF OthersKeep, NumberTaken, Busy
  <1>7. writes \in Nat /\ writes' \in Nat /\ writes' >= writes
    BY <1>1 DEF StoreTyped, NumberTaken
  <1>8. \A u \in Threads : Busy(u) => thread[u].n \in Nat /\ thread[u].n <= writes
    BY <1>1 DEF StoreTyped, NumbersFresh
  <1>9. CASE Busy(w) /\ thread'[w].n = thread[w].n
    <2>1. /\ thread[w].n <= writes /\ thread[w].n \notin stored
          /\ \A f \in DOMAIN files : f.n # thread[w].n
          /\ \A u \in Threads : Compressing(u) => thread[u].source.n # thread[w].n
          /\ \A u \in Threads : Busy(u) /\ u # w => thread[u].n # thread[w].n
      BY <1>1, <1>9 DEF NumbersFresh
    <2>2. \A u \in Threads : Compressing(u)' => thread'[u].source.n # thread'[w].n
      BY <1>3, <1>9, <2>1
    <2>3. \A u \in Threads : Busy(u)' /\ u # w => thread'[u].n # thread'[w].n
      BY <1>6, <1>7, <1>8, <1>9, <2>1
    <2>. QED
      BY <1>7, <1>8, <1>9, <2>1, <2>2, <2>3
  <1>10. CASE w = t /\ writes' = writes + 1 /\ thread'[w].n = writes'
    <2>1. \A n \in stored : n \in Nat /\ n <= writes
      BY <1>1 DEF StoreTyped
    <2>2. \A u \in Threads : Compressing(u)' => thread'[u].source.n # thread'[w].n
      BY <1>3, <1>4, <1>5, <1>7, <1>10
    <2>3. \A u \in Threads : Busy(u)' /\ u # w => thread'[u].n # thread'[w].n
      BY <1>6, <1>7, <1>8, <1>10
    <2>4. \A f \in DOMAIN files' : f.n # thread'[w].n
      BY <1>5, <1>7, <1>10
    <2>. QED
      BY <1>7, <1>10, <2>1, <2>2, <2>3, <2>4
  <1>. QED
    BY <1>6, <1>9, <1>10

\* A step that only lets files go, of a thread that compresses nothing after it.
LEMMA FilesGoKeeps ==
    ASSUME StoreInv, NEW t \in Threads, OthersKeep(t), NumberTaken(t), FilesGo, ~ Compressing(t)'
    PROVE  StoreInv'
  <1>1. StoreTyped /\ SourcesNamed /\ NumbersFresh /\ FilesComplete /\ PayloadsThere
    BY DEF StoreInv
  <1>2. writes \in Nat /\ writes' \in Nat /\ writes' >= writes
    BY <1>1 DEF StoreTyped, NumberTaken
  <1>3. StoreTyped'
    <2>1. \A f \in DOMAIN files' : WellNamed(f) /\ f.n <= writes
      BY <1>1 DEF StoreTyped, FilesGo
    <2>2. \A f \in DOMAIN files' : WellNamed(f) /\ f.n <= writes'
      BY <1>2, <2>1 DEF WellNamed
    <2>3. \A n \in stored' : n \in Nat /\ n <= writes'
      BY <1>1, <1>2 DEF StoreTyped, FilesGo
    <2>. QED
      BY <1>2, <2>2, <2>3 DEF StoreTyped, OthersKeep, WellNamed
  <1>4. \A u \in Threads : Compressing(u)' =>
          /\ Compressing(u) /\ thread'[u].stage = thread[u].stage
          /\ thread'[u].source = thread[u].source /\ thread'[u].about = thread[u].about
    BY DEF OthersKeep, Compressing
  <1>5. SourcesNamed'
    <2>. SUFFICES ASSUME NEW u \in Threads, Compressing(u)'
                  PROVE  /\ WellNamed(thread'[u].source) /\ thread'[u].source.n <= writes'
                         /\ thread'[u].source.kind \in {"raw", "tmp"}
      BY DEF SourcesNamed, WellNamed
    <2>1. /\ WellNamed(thread[u].source) /\ thread[u].source.n <= writes
          /\ thread[u].source.kind \in {"raw", "tmp"}
      BY <1>1, <1>4 DEF SourcesNamed
    <2>2. thread[u].source.n \in Nat
      BY <2>1 DEF WellNamed
    <2>. QED
      BY <1>2, <1>4, <2>1, <2>2
  <1>6. NumbersFresh'
    BY NumbersStay DEF FilesGo
  <1>7. FilesComplete'
    <2>1. \A f \in DOMAIN files' : f.kind \in {"raw", "zip"} /\ f.n \in stored' => files'[f].full
      BY <1>1 DEF FilesComplete, FilesGo
    <2>2. ASSUME NEW u \in Threads, thread'[u].stage \in {"copy", "rename"}
          PROVE  /\ thread'[u].source.kind = "raw" /\ thread'[u].source.n \in stored' =>
                      thread'[u].about.full
                 /\ thread'[u].stage = "rename" /\ Mine(u)' \in DOMAIN files' =>
                      files'[Mine(u)'] = thread'[u].about
      <3>1. /\ thread'[u].stage = thread[u].stage
            /\ thread'[u].source = thread[u].source /\ thread'[u].about = thread[u].about
        BY <1>4, <2>2 DEF Compressing
      <3>2. Mine(u)' = Mine(u)
        BY <3>1 DEF Mine
      <3>. QED
        BY <1>1, <2>2, <3>1, <3>2 DEF FilesComplete, FilesGo
    <2>. QED
      BY <2>1, <2>2 DEF FilesComplete
  <1>8. PayloadsThere'
    <2>0. Unreported' \subseteq Unreported
      BY DEF Unreported, FilesGo
    <2>1. ASSUME NEW n \in Unreported'
          PROVE  Raw(n) \in DOMAIN files' \/ Zip(n) \in DOMAIN files'
      <3>1. Raw(n) \in DOMAIN files \/ Zip(n) \in DOMAIN files
        BY <1>1, <2>0 DEF PayloadsThere
      <3>2. Zip(n) \in DOMAIN files => Zip(n) \in DOMAIN files'
        BY StoreNames DEF FilesGo, Unreported
      <3>3. Raw(n) \in DOMAIN files =>
              Raw(n) \in DOMAIN files' \/ Zip(n) \in DOMAIN files'
        BY StoreNames DEF FilesGo, Unreported
      <3>. QED
        BY <3>1, <3>2, <3>3
    <2>2. ASSUME NEW u \in Threads, thread'[u].stage = "drop", thread'[u].source.kind = "raw",
                 thread'[u].source.n \in Unreported'
          PROVE  Zip(thread'[u].source.n) \in DOMAIN files'
      <3>1. thread[u].stage = "drop" /\ thread'[u].source = thread[u].source
        BY <1>4, <2>2 DEF Compressing
      <3>2. Zip(thread[u].source.n) \in DOMAIN files
        BY <1>1, <2>0, <2>2, <3>1 DEF PayloadsThere
      <3>3. thread[u].source.n \in stored \ (announced' \cup cut')
        BY <2>2, <3>1 DEF Unreported, FilesGo
      <3>. QED
        BY <3>1, <3>2, <3>3, StoreNames DEF FilesGo
    <2>. QED
      BY <2>1, <2>2 DEF PayloadsThere, Raw, Zip
  <1>. QED
    BY <1>3, <1>5, <1>6, <1>7, <1>8 DEF StoreInv

LEMMA FilesRemoved ==
    ASSUME NEW F, files' = Removed(F)
    PROVE  /\ DOMAIN files' = DOMAIN files \ F
           /\ \A f \in DOMAIN files' : files'[f] = files[f]
  BY DEF Removed

LEMMA FilesPut ==
    ASSUME NEW f, NEW about, files' = Put(f, about)
    PROVE  /\ DOMAIN files' = DOMAIN files \cup {f}
           /\ files'[f] = about
           /\ \A g \in DOMAIN files \ {f} : files'[g] = files[g]
  BY DEF Put

LEMMA ThreadGoes ==
    ASSUME StoreTyped, NEW t \in Threads, NEW stage, Goes(t, stage)
    PROVE  /\ OthersKeep(t) /\ \A u \in Threads \ {t} : thread'[u] = thread[u]
           /\ thread'[t].stage = stage /\ thread'[t].n = thread[t].n
           /\ thread'[t].source = thread[t].source /\ thread'[t].about = thread[t].about
           /\ thread'[t].today = thread[t].today /\ thread'[t].alone = thread[t].alone
  <1>0. /\ DOMAIN thread = Threads
        /\ \A u \in Threads : DOMAIN thread[u] = Slots /\ thread[u].n \in Nat \ {0}
    BY DEF StoreTyped
  <1>1. /\ DOMAIN thread' = Threads
        /\ \A u \in Threads \ {t} : thread'[u] = thread[u]
        /\ thread'[t] = [thread[t] EXCEPT !.stage = stage]
    BY <1>0 DEF Goes
  <1>2. /\ DOMAIN thread'[t] = Slots
        /\ thread'[t].stage = stage /\ thread'[t].n = thread[t].n
        /\ thread'[t].source = thread[t].source /\ thread'[t].about = thread[t].about
        /\ thread'[t].today = thread[t].today /\ thread'[t].alone = thread[t].alone
    BY <1>0, <1>1 DEF Slots
  <1>. QED
    BY <1>0, <1>1, <1>2 DEF OthersKeep

LEMMA ThreadGoesOn ==
    ASSUME StoreTyped, NEW t \in Threads, NEW stage, NEW todo,
           thread' = [thread EXCEPT ![t].stage = stage, ![t].todo = todo]
    PROVE  /\ OthersKeep(t) /\ \A u \in Threads \ {t} : thread'[u] = thread[u]
           /\ thread'[t].stage = stage /\ thread'[t].n = thread[t].n
           /\ thread'[t].today = thread[t].today /\ thread'[t].alone = thread[t].alone
  <1>0. /\ DOMAIN thread = Threads
        /\ \A u \in Threads : DOMAIN thread[u] = Slots /\ thread[u].n \in Nat \ {0}
    BY DEF StoreTyped
  <1>1. /\ DOMAIN thread' = Threads
        /\ \A u \in Threads \ {t} : thread'[u] = thread[u]
        /\ thread'[t] = [thread[t] EXCEPT !.stage = stage, !.todo = todo]
    BY <1>0
  <1>2. /\ DOMAIN thread'[t] = Slots /\ thread'[t].stage = stage /\ thread'[t].n = thread[t].n
        /\ thread'[t].today = thread[t].today /\ thread'[t].alone = thread[t].alone
    BY <1>0, <1>1 DEF Slots
  <1>. QED
    BY <1>0, <1>1, <1>2 DEF OthersKeep

LEMMA ThreadSame ==
    ASSUME StoreTyped, NEW t \in Threads, thread' = thread
    PROVE  OthersKeep(t)
  BY DEF StoreTyped, OthersKeep

LEMMA NumberKept ==
    ASSUME StoreTyped, NEW t \in Threads, writes' = writes,
           Busy(t)' => Busy(t) /\ thread'[t].n = thread[t].n
    PROVE  NumberTaken(t)
  BY DEF StoreTyped, NumberTaken

\* recordLostEvent, writeLostEvent: a payload gets a number nobody has.
LEMMA StoreStart ==
    ASSUME StoreInv, NEW t \in Threads, Start(t) \/ StartFails(t)
    PROVE  StoreInv'
  <1>0. StoreTyped
    BY DEF StoreInv
  <1>1. FilesGo
    BY DEF FilesGo, Start, StartFails, history
  <1>2. writes' = writes + 1 /\ writes \in Nat /\ thread[t].stage = "idle"
    BY <1>0 DEF Start, StartFails, StoreTyped
  <1>3. CASE Start(t)
    <2>1. PICK names :
            thread' = [u \in Threads |->
              IF u = t
                THEN [Idle EXCEPT !.stage = "delete", !.n = writes + 1, !.today = day,
                                  !.todo = names,
                                  !.alone = /\ names = DOMAIN files
                                            /\ \A v \in Threads \ {t} : thread[v].stage = "idle"]
                ELSE [thread[u] EXCEPT !.alone = FALSE]]
      BY <1>3 DEF Start
    <2>. DEFINE alone == /\ names = DOMAIN files
                         /\ \A v \in Threads \ {t} : thread[v].stage = "idle"
    <2>2. DOMAIN thread' = Threads
      BY <2>1
    <2>3. thread'[t] = [Idle EXCEPT !.stage = "delete", !.n = writes + 1, !.today = day,
                                          !.todo = names, !.alone = alone]
      BY <2>1
    <2>4. \A u \in Threads \ {t} : thread'[u] = [thread[u] EXCEPT !.alone = FALSE]
      BY <2>1
    <2>. HIDE DEF alone
    <2>5. DOMAIN thread'[t] = Slots /\ thread'[t].n = writes + 1 /\ thread'[t].stage = "delete"
      BY <2>3 DEF Idle, Slots
    <2>6. ASSUME NEW u \in Threads \ {t}
          PROVE  /\ DOMAIN thread'[u] = Slots
                 /\ thread'[u].stage = thread[u].stage /\ thread'[u].n = thread[u].n
                 /\ thread'[u].source = thread[u].source /\ thread'[u].about = thread[u].about
      <3>1. DOMAIN thread[u] = Slots
        BY <1>0 DEF StoreTyped
      <3>2. thread'[u] = [thread[u] EXCEPT !.alone = FALSE]
        BY <2>4
      <3>. QED
        BY <3>1, <3>2 DEF Slots
    <2>7. \A u \in Threads : thread[u].n \in Nat \ {0}
      BY <1>0 DEF StoreTyped
    <2>8. OthersKeep(t)
      BY <1>2, <2>2, <2>5, <2>6, <2>7 DEF OthersKeep
    <2>9. NumberTaken(t) /\ ~ Compressing(t)'
      BY <1>2, <2>5 DEF NumberTaken, Compressing
    <2>. QED
      BY <1>1, <2>8, <2>9, FilesGoKeeps
  <1>4. CASE StartFails(t)
    <2>1. thread' = thread
      BY <1>4 DEF StartFails
    <2>2. NumberTaken(t) /\ ~ Compressing(t)'
      BY <1>2, <2>1 DEF NumberTaken, Compressing, Busy
    <2>. QED
      BY <1>0, <1>1, <2>1, <2>2, ThreadSame, FilesGoKeeps
  <1>. QED
    BY <1>3, <1>4

\* deleteOldLostEventFiles: what goes is reported.
LEMMA StoreDelete ==
    ASSUME StoreInv, NEW t \in Threads, NEW f,
           DeleteOld(t, f) \/ DeleteFails(t, f) \/ Deleted(t)
    PROVE  StoreInv'
  <1>0. StoreTyped
    BY DEF StoreInv
  <1>1. writes' = writes /\ thread[t].stage = "delete"
    BY DEF DeleteOld, DeleteFails, Deleted
  <1>2. CASE DeleteOld(t, f)
    <2>1. /\ files' = Removed({f}) /\ announced' = announced \cup Payloads({f})
          /\ thread' = thread /\ stored' = stored /\ cut' = cut
      BY <1>2 DEF DeleteOld
    <2>a. DOMAIN files' = DOMAIN files \ {f} /\ \A g \in DOMAIN files' : files'[g] = files[g]
      BY <2>1, FilesRemoved
    <2>b. f.kind \in {"raw", "zip"} => f.n \in announced'
      BY <2>1 DEF Payloads
    <2>2. FilesGo
      BY <2>1, <2>a, <2>b DEF FilesGo
    <2>3. NumberTaken(t) /\ ~ Compressing(t)'
      BY <1>0, <1>1, <2>1, NumberKept DEF Compressing, Busy
    <2>. QED
      BY <1>0, <2>1, <2>2, <2>3, ThreadSame, FilesGoKeeps
  <1>3. CASE DeleteFails(t, f)
    <2>1. /\ FilesGo
          /\ thread' = [thread EXCEPT ![t].todo = @ \ {f}, ![t].alone = FALSE]
      BY <1>3 DEF FilesGo, DeleteFails, history
    <2>2. /\ DOMAIN thread = Threads
          /\ \A u \in Threads : DOMAIN thread[u] = Slots /\ thread[u].n \in Nat \ {0}
      BY <1>0 DEF StoreTyped
    <2>3. /\ DOMAIN thread' = Threads
          /\ \A u \in Threads \ {t} : thread'[u] = thread[u]
          /\ thread'[t] = [thread[t] EXCEPT !.todo = @ \ {f}, !.alone = FALSE]
      BY <2>1, <2>2
    <2>4. DOMAIN thread'[t] = Slots /\ thread'[t].stage = "delete" /\ thread'[t].n = thread[t].n
      BY <1>1, <2>2, <2>3 DEF Slots
    <2>5. OthersKeep(t)
      BY <2>2, <2>3, <2>4 DEF OthersKeep
    <2>6. NumberTaken(t) /\ ~ Compressing(t)'
      BY <1>0, <1>1, <2>4, NumberKept DEF Compressing, Busy
    <2>. QED
      BY <2>1, <2>5, <2>6, FilesGoKeeps
  <1>4. CASE Deleted(t)
    <2>1. FilesGo
      BY <1>4 DEF FilesGo, Deleted, history
    <2>a. PICK names : thread' = [thread EXCEPT ![t].stage = "compress", ![t].todo = names]
      BY <1>4 DEF Deleted
    <2>2. OthersKeep(t) /\ thread'[t].stage = "compress" /\ thread'[t].n = thread[t].n
      BY <1>0, <2>a, ThreadGoesOn
    <2>3. NumberTaken(t) /\ ~ Compressing(t)'
      BY <1>0, <1>1, <2>2, NumberKept DEF Compressing, Busy
    <2>. QED
      BY <2>1, <2>2, <2>3, FilesGoKeeps
  <1>. QED
    BY <1>2, <1>3, <1>4

\* ensureSpaceForLostEvent: what is evicted is reported.
LEMMA StoreSpace ==
    ASSUME StoreInv, NEW t \in Threads, NEW f,
           \/ Compressed(t) \/ EnoughSpace(t) \/ TooLittleSpace(t)
           \/ Evict(t, f) \/ EvictFails(t, f) \/ NothingToEvict(t)
    PROVE  StoreInv'
  <1>0. StoreTyped
    BY DEF StoreInv
  <1>1. writes' = writes /\ Busy(t)
    BY DEF Busy, Compressed, EnoughSpace, TooLittleSpace, Evict,
           EvictFails, NothingToEvict
  <1>2. FilesGo
    <2>1. CASE Evict(t, f)
      <3>1. /\ files' = Removed({f}) /\ announced' = announced \cup Payloads({f})
            /\ stored' = stored /\ cut' = cut
        BY <2>1 DEF Evict
      <3>2. DOMAIN files' = DOMAIN files \ {f} /\ \A g \in DOMAIN files' : files'[g] = files[g]
        BY <3>1, FilesRemoved
      <3>3. f.kind \in {"raw", "zip"} => f.n \in announced'
        BY <3>1 DEF Payloads
      <3>. QED
        BY <3>1, <3>2, <3>3 DEF FilesGo
    <2>2. CASE ~ Evict(t, f)
      BY <2>2 DEF FilesGo, history, Compressed, EnoughSpace,
                  TooLittleSpace, EvictFails, NothingToEvict
    <2>. QED
      BY <2>1, <2>2
  <1>3. \/ \E stage \in {"check", "write"} : Goes(t, stage)
        \/ \E stage \in {"evict", "write"} : \E todo :
             thread' = [thread EXCEPT ![t].stage = stage, ![t].todo = todo]
        \/ EvictFails(t, f)
    BY DEF Compressed, EnoughSpace, TooLittleSpace, Evict,
           NothingToEvict
  <1>4. /\ OthersKeep(t) /\ thread'[t].n = thread[t].n
        /\ thread'[t].stage \in {"check", "evict", "write"}
    <2>1. CASE EvictFails(t, f)
      <3>1. thread' = [thread EXCEPT ![t].todo = @ \ {f}] /\ thread[t].stage = "evict"
        BY <2>1 DEF EvictFails
      <3>2. /\ DOMAIN thread = Threads
            /\ \A u \in Threads : DOMAIN thread[u] = Slots /\ thread[u].n \in Nat \ {0}
        BY <1>0 DEF StoreTyped
      <3>3. /\ DOMAIN thread' = Threads
            /\ \A u \in Threads \ {t} : thread'[u] = thread[u]
            /\ thread'[t] = [thread[t] EXCEPT !.todo = @ \ {f}]
        BY <3>1, <3>2
      <3>4. DOMAIN thread'[t] = Slots /\ thread'[t].stage = "evict" /\ thread'[t].n = thread[t].n
        BY <3>1, <3>2, <3>3 DEF Slots
      <3>. QED
        BY <3>2, <3>3, <3>4 DEF OthersKeep
    <2>2. CASE \E stage \in {"check", "write"} : Goes(t, stage)
      BY <1>0, <2>2, ThreadGoes
    <2>3. CASE \E stage \in {"evict", "write"} : \E todo :
                 thread' = [thread EXCEPT ![t].stage = stage, ![t].todo = todo]
      <3>1. PICK stage \in {"evict", "write"} : \E todo :
              thread' = [thread EXCEPT ![t].stage = stage, ![t].todo = todo]
        BY <2>3
      <3>2. PICK todo : thread' = [thread EXCEPT ![t].stage = stage, ![t].todo = todo]
        BY <3>1
      <3>. QED
        BY <1>0, <3>2, ThreadGoesOn
    <2>. QED
      BY <1>3, <2>1, <2>2, <2>3
  <1>5. NumberTaken(t) /\ ~ Compressing(t)'
    BY <1>0, <1>1, <1>4, NumberKept DEF Compressing
  <1>. QED
    BY <1>2, <1>4, <1>5, FilesGoKeeps

\* compressLostEventFile, its ends: what is left of a temporary file goes, or
\* the source, which has an archive.
LEMMA StoreDrop ==
    ASSUME StoreInv, NEW t \in Threads,
           CompressFails(t) \/ DropSource(t) \/ DropFails(t)
    PROVE  StoreInv'
  <1>0. StoreTyped /\ SourcesNamed /\ PayloadsThere
    BY DEF StoreInv
  <1>1. /\ writes' = writes /\ Busy(t) /\ Goes(t, "compress")
        /\ stored' = stored /\ announced' = announced /\ cut' = cut
    BY DEF Busy, CompressFails, DropSource, DropFails, AfterFailure,
           history
  <1>2. OthersKeep(t) /\ thread'[t].stage = "compress" /\ thread'[t].n = thread[t].n
    BY <1>0, <1>1, ThreadGoes
  <1>3. NumberTaken(t) /\ ~ Compressing(t)'
    BY <1>0, <1>1, <1>2, NumberKept DEF Compressing
  <1>4. CASE files' = files
    BY <1>1, <1>2, <1>3, <1>4, FilesGoKeeps DEF FilesGo
  <1>5. CASE files' = Removed({Mine(t)})
    <2>1. Mine(t).kind = "tmp"
      BY DEF Mine, Temp
    <2>a. /\ DOMAIN files' = DOMAIN files \ {Mine(t)}
          /\ \A g \in DOMAIN files' : files'[g] = files[g]
      BY <1>5, FilesRemoved
    <2>2. FilesGo
      BY <1>1, <2>a, <2>1 DEF FilesGo
    <2>. QED
      BY <1>2, <1>3, <2>2, FilesGoKeeps
  <1>6. CASE DropSource(t)
    <2>. DEFINE f == thread[t].source
    <2>1. files' = Removed({f}) /\ thread[t].stage = "drop"
      BY <1>6 DEF DropSource
    <2>2. DOMAIN files' = DOMAIN files \ {f} /\ \A g \in DOMAIN files' : files'[g] = files[g]
      BY <2>1, FilesRemoved
    <2>3. f.kind \in {"raw", "tmp"}
      BY <1>0, <2>1 DEF SourcesNamed, Compressing
    <2>4. f.kind = "raw" /\ f.n \in Unreported => Zip(f.n) \in DOMAIN files
      BY <1>0, <2>1 DEF PayloadsThere
    <2>5. f.kind = "raw" => Zip(f.n) # f
      BY StoreNames
    <2>6. FilesGo
      BY <1>1, <2>2, <2>3, <2>4, <2>5 DEF FilesGo, Unreported
    <2>. QED
      BY <1>2, <1>3, <2>6, FilesGoKeeps
  <1>. QED
    BY <1>4, <1>5, <1>6 DEF CompressFails, DropFails

\* A step of a compression: the files and archives stay, and what is new in the
\* directory is a file of a payload that has one.
CompressionFiles(t) ==
    /\ \A f \in DOMAIN files : f.kind \in {"raw", "zip"} => f \in DOMAIN files'
    /\ \A f \in DOMAIN files' : WellNamed(f) /\ \E g \in DOMAIN files : f.n = g.n
    /\ \A f \in DOMAIN files' : f.kind \in {"raw", "zip"} /\ f.n \in stored => files'[f].full
    /\ \A u \in Threads \ {t} : Mine(u) \in DOMAIN files' =>
         Mine(u) \in DOMAIN files /\ files'[Mine(u)] = files[Mine(u)]

CompressionThread(t) ==
    /\ Busy(t) /\ thread'[t].n = thread[t].n
    /\ \/ Compressing(t) /\ thread'[t].source = thread[t].source
       \/ thread'[t].source \in DOMAIN files
    /\ thread'[t].source.kind \in {"raw", "tmp"}
    /\ thread'[t].stage \in {"copy", "rename"} /\ thread'[t].source.kind = "raw"
       /\ thread'[t].source.n \in stored => thread'[t].about.full
    /\ thread'[t].stage = "rename" => files'[Mine(t)'] = thread'[t].about
    /\ thread'[t].stage = "drop" /\ thread'[t].source.kind = "raw" =>
         Zip(thread'[t].source.n) \in DOMAIN files'

LEMMA CompressionKeeps ==
    ASSUME StoreInv, NEW t \in Threads, OthersKeep(t), writes' = writes,
           stored' = stored, announced' = announced, cut' = cut,
           CompressionFiles(t), CompressionThread(t)
    PROVE  StoreInv'
  <1>1. StoreTyped /\ SourcesNamed /\ NumbersFresh /\ FilesComplete /\ PayloadsThere
    BY DEF StoreInv
  <1>2. StoreTyped'
    <2>1. \A f \in DOMAIN files' : WellNamed(f) /\ f.n <= writes'
      BY <1>1 DEF StoreTyped, CompressionFiles
    <2>. QED
      BY <1>1, <2>1 DEF StoreTyped, OthersKeep, WellNamed
  <1>3. SourcesNamed'
    <2>. SUFFICES ASSUME NEW u \in Threads, Compressing(u)'
                  PROVE  /\ WellNamed(thread'[u].source) /\ thread'[u].source.n <= writes
                         /\ thread'[u].source.kind \in {"raw", "tmp"}
      BY DEF SourcesNamed, WellNamed
    <2>1. CASE u = t
      BY <1>1, <2>1 DEF StoreTyped, SourcesNamed, CompressionThread
    <2>2. CASE u # t
      BY <1>1, <2>2 DEF OthersKeep, SourcesNamed, Compressing
    <2>. QED
      BY <2>1, <2>2
  <1>4. NumbersFresh'
    <2>1. NumberTaken(t)
      BY <1>1, NumberKept DEF CompressionThread
    <2>. QED
      BY <2>1, NumbersStay DEF CompressionFiles, CompressionThread
  <1>5. FilesComplete'
    <2>1. ASSUME NEW u \in Threads, thread'[u].stage \in {"copy", "rename"}
          PROVE  /\ thread'[u].source.kind = "raw" /\ thread'[u].source.n \in stored' =>
                      thread'[u].about.full
                 /\ thread'[u].stage = "rename" /\ Mine(u)' \in DOMAIN files' =>
                      files'[Mine(u)'] = thread'[u].about
      <3>1. CASE u # t
        <4>1. /\ thread'[u].stage = thread[u].stage
              /\ thread'[u].source = thread[u].source /\ thread'[u].about = thread[u].about
          BY <3>1 DEF OthersKeep
        <4>2. Mine(u)' = Mine(u)
          BY <4>1 DEF Mine
        <4>. QED
          BY <1>1, <2>1, <3>1, <4>1, <4>2 DEF FilesComplete, CompressionFiles
      <3>. QED
        BY <2>1, <3>1 DEF CompressionThread
    <2>. QED
      BY <2>1 DEF FilesComplete, CompressionFiles
  <1>6. PayloadsThere'
    <2>1. ASSUME NEW n \in Unreported'
          PROVE  Raw(n) \in DOMAIN files' \/ Zip(n) \in DOMAIN files'
      BY <1>1, StoreNames DEF PayloadsThere, Unreported, CompressionFiles
    <2>2. ASSUME NEW u \in Threads, thread'[u].stage = "drop", thread'[u].source.kind = "raw",
                 thread'[u].source.n \in Unreported'
          PROVE  Zip(thread'[u].source.n) \in DOMAIN files'
      <3>1. CASE u # t
        <4>1. thread[u].stage = "drop" /\ thread'[u].source = thread[u].source
          BY <2>2, <3>1 DEF OthersKeep
        <4>2. Zip(thread[u].source.n) \in DOMAIN files
          BY <1>1, <2>2, <4>1 DEF PayloadsThere, Unreported
        <4>. QED
          BY <4>1, <4>2, StoreNames DEF CompressionFiles
      <3>. QED
        BY <2>2, <3>1 DEF CompressionThread
    <2>. QED
      BY <2>1, <2>2 DEF PayloadsThere, Raw, Zip
  <1>. QED
    BY <1>2, <1>3, <1>4, <1>5, <1>6 DEF StoreInv

LEMMA MineNames ==
    ASSUME NEW u, NEW n
    PROVE  /\ Temp(n, u).n = n /\ Temp(n, u).kind = "tmp" /\ Temp(n, u).owner = u
           /\ Mine(u).kind = "tmp" /\ Mine(u).owner = u
           /\ Mine(u).n = thread[u].source.n
           /\ n \in Nat \ {0} => WellNamed(Temp(n, u))
  BY DEF Temp, Mine, WellNamed

LEMMA StoreOpenTemp ==
    ASSUME StoreInv, NEW t \in Threads, NEW f, OpenTemp(t, f)
    PROVE  StoreInv'
  <1>0. StoreTyped /\ SourcesNamed /\ NumbersFresh /\ FilesComplete /\ PayloadsThere
    BY DEF StoreInv
  <1>1. /\ thread[t].stage = "compress" /\ f \in ToCompress(t)
        /\ files' = Put(Temp(f.n, t), [mtime |-> day, full |-> FALSE])
        /\ thread' = [thread EXCEPT ![t].stage = "copy", ![t].todo = @ \ {f}, ![t].source = f,
                                    ![t].about = files[f]]
        /\ writes' = writes /\ stored' = stored /\ announced' = announced /\ cut' = cut
    BY DEF OpenTemp, history
  <1>2. f \in DOMAIN files /\ f.kind \in {"raw", "tmp"}
    BY <1>1 DEF ToCompress
  <1>3. /\ DOMAIN thread = Threads
        /\ \A u \in Threads : DOMAIN thread[u] = Slots /\ thread[u].n \in Nat \ {0}
    BY <1>0 DEF StoreTyped
  <1>4. /\ DOMAIN thread' = Threads
        /\ \A u \in Threads \ {t} : thread'[u] = thread[u]
        /\ thread'[t] = [thread[t] EXCEPT !.stage = "copy", !.todo = @ \ {f}, !.source = f,
                                          !.about = files[f]]
    BY <1>1, <1>3
  <1>5. /\ DOMAIN thread'[t] = Slots /\ thread'[t].stage = "copy" /\ thread'[t].n = thread[t].n
        /\ thread'[t].source = f /\ thread'[t].about = files[f]
    BY <1>3, <1>4 DEF Slots
  <1>6. OthersKeep(t) /\ Busy(t)
    BY <1>1, <1>3, <1>4, <1>5 DEF OthersKeep, Busy
  <1>. DEFINE m == Temp(f.n, t)
  <1>7. /\ DOMAIN files' = DOMAIN files \cup {m}
        /\ \A g \in DOMAIN files \ {m} : files'[g] = files[g]
    BY <1>1, FilesPut
  <1>8. f.n \in Nat \ {0} /\ \A g \in DOMAIN files : WellNamed(g)
    BY <1>0, <1>2 DEF StoreTyped, WellNamed
  <1>9. m.n = f.n /\ m.kind = "tmp" /\ m.owner = t /\ WellNamed(m)
    BY <1>8, MineNames
  <1>. HIDE DEF m
  <1>10. \A u \in Threads \ {t} : Mine(u) # m
    BY <1>9, MineNames
  <1>11. \A g \in DOMAIN files' : WellNamed(g) /\ \E h \in DOMAIN files : g.n = h.n
    BY <1>2, <1>7, <1>8, <1>9
  <1>12. \A g \in DOMAIN files' : g.kind \in {"raw", "zip"} /\ g.n \in stored => files'[g].full
    BY <1>0, <1>7, <1>9 DEF FilesComplete
  <1>13. f.kind = "raw" /\ f.n \in stored => files[f].full
    BY <1>0, <1>2 DEF FilesComplete
  <1>14. \A u \in Threads \ {t} : Mine(u) \in DOMAIN files' =>
           Mine(u) \in DOMAIN files /\ files'[Mine(u)] = files[Mine(u)]
    BY <1>7, <1>10
  <1>15. \A g \in DOMAIN files : g.kind \in {"raw", "zip"} => g \in DOMAIN files'
    BY <1>7
  <1>16. CompressionFiles(t)
    BY <1>11, <1>12, <1>14, <1>15 DEF CompressionFiles
  <1>17. CompressionThread(t)
    BY <1>2, <1>5, <1>6, <1>13 DEF CompressionThread
  <1>. QED
    BY <1>1, <1>6, <1>16, <1>17, CompressionKeeps

LEMMA StoreCopy ==
    ASSUME StoreInv, NEW t \in Threads, Copy(t)
    PROVE  StoreInv'
  <1>0. StoreTyped /\ SourcesNamed /\ NumbersFresh /\ FilesComplete /\ PayloadsThere
    BY DEF StoreInv
  <1>1. /\ thread[t].stage = "copy" /\ Mine(t) \in DOMAIN files
        /\ files' = Put(Mine(t), thread[t].about)
        /\ Goes(t, "rename")
        /\ writes' = writes /\ stored' = stored /\ announced' = announced /\ cut' = cut
    BY DEF Copy, Copied, history
  <1>2. /\ OthersKeep(t) /\ thread'[t].stage = "rename" /\ thread'[t].n = thread[t].n
        /\ thread'[t].source = thread[t].source /\ thread'[t].about = thread[t].about
    BY <1>0, <1>1, ThreadGoes
  <1>3. Busy(t) /\ Compressing(t) /\ thread[t].source.kind \in {"raw", "tmp"}
    BY <1>0, <1>1 DEF Busy, Compressing, SourcesNamed
  <1>4. Mine(t)' = Mine(t)
    BY <1>2 DEF Mine
  <1>. DEFINE m == Mine(t)
  <1>5. m \in DOMAIN files
    BY <1>1
  <1>6. /\ DOMAIN files' = DOMAIN files \cup {m}
        /\ files'[m] = thread[t].about
        /\ \A g \in DOMAIN files \ {m} : files'[g] = files[g]
    BY <1>1, FilesPut
  <1>7. DOMAIN files' = DOMAIN files
    BY <1>5, <1>6
  <1>9. m.kind = "tmp" /\ m.owner = t
    BY MineNames
  <1>10. \A u \in Threads \ {t} : Mine(u) # m
    BY <1>9, MineNames
  <1>11. \A g \in DOMAIN files' : WellNamed(g) /\ \E h \in DOMAIN files : g.n = h.n
    BY <1>0, <1>6, <1>7 DEF StoreTyped
  <1>. HIDE DEF m
  <1>12. \A g \in DOMAIN files' : g.kind \in {"raw", "zip"} /\ g.n \in stored => files'[g].full
    BY <1>0, <1>6, <1>7, <1>9 DEF FilesComplete
  <1>13. thread[t].source.kind = "raw" /\ thread[t].source.n \in stored => thread[t].about.full
    BY <1>0, <1>1 DEF FilesComplete
  <1>14. \A u \in Threads \ {t} : Mine(u) \in DOMAIN files' =>
           Mine(u) \in DOMAIN files /\ files'[Mine(u)] = files[Mine(u)]
    BY <1>6, <1>7, <1>10
  <1>15. files'[Mine(t)'] = thread'[t].about
    BY <1>2, <1>4, <1>6, <1>7 DEF m
  <1>16. \A g \in DOMAIN files : g.kind \in {"raw", "zip"} => g \in DOMAIN files'
    BY <1>6, <1>7
  <1>17. CompressionFiles(t)
    BY <1>11, <1>12, <1>14, <1>16 DEF CompressionFiles
  <1>18. CompressionThread(t)
    BY <1>2, <1>3, <1>13, <1>15 DEF CompressionThread
  <1>. QED
    BY <1>1, <1>2, <1>17, <1>18, CompressionKeeps

LEMMA StoreRename ==
    ASSUME StoreInv, NEW t \in Threads, Rename(t)
    PROVE  StoreInv'
  <1>0. StoreTyped /\ SourcesNamed /\ NumbersFresh /\ FilesComplete /\ PayloadsThere
    BY DEF StoreInv
  <1>. DEFINE m == Mine(t)
  <1>. DEFINE z == Archive(thread[t].source)
  <1>1. /\ thread[t].stage = "rename" /\ m \in DOMAIN files
        /\ files' = [f \in (DOMAIN files \ {m}) \cup {z} |->
                       IF f = z THEN files[m] ELSE files[f]]
        /\ Goes(t, "drop")
        /\ writes' = writes /\ stored' = stored /\ announced' = announced /\ cut' = cut
    BY DEF Rename, history
  <1>2. /\ OthersKeep(t) /\ thread'[t].stage = "drop" /\ thread'[t].n = thread[t].n
        /\ thread'[t].source = thread[t].source /\ thread'[t].about = thread[t].about
    BY <1>0, <1>1, ThreadGoes
  <1>3. /\ Busy(t) /\ Compressing(t)
        /\ thread[t].source.kind \in {"raw", "tmp"} /\ thread[t].source.n \in Nat \ {0}
    BY <1>0, <1>1 DEF Busy, Compressing, SourcesNamed, WellNamed
  <1>4. m.kind = "tmp" /\ m.owner = t /\ m.n = thread[t].source.n
    BY MineNames
  <1>5. /\ z.n = thread[t].source.n /\ z.kind \in {"zip", "junk"} /\ WellNamed(z)
        /\ z.kind = "zip" => thread[t].source.kind = "raw"
        /\ thread[t].source.kind = "raw" => z = Zip(thread[t].source.n)
    BY <1>3 DEF Archive, Zip, WellNamed
  <1>6. \A u \in Threads \ {t} : Mine(u) # m /\ Mine(u).kind = "tmp"
    BY <1>4, MineNames
  <1>. HIDE DEF m, z
  <1>7. /\ DOMAIN files' = (DOMAIN files \ {m}) \cup {z}
        /\ files'[z] = files[m]
        /\ \A g \in DOMAIN files \ {m, z} : files'[g] = files[g]
    BY <1>1
  <1>8. \A g \in DOMAIN files' : WellNamed(g) /\ \E h \in DOMAIN files : g.n = h.n
    BY <1>0, <1>1, <1>4, <1>5, <1>7 DEF StoreTyped
  <1>9. files[m] = thread[t].about
    BY <1>0, <1>1 DEF FilesComplete, m
  <1>10. thread[t].source.kind = "raw" /\ thread[t].source.n \in stored => thread[t].about.full
    BY <1>0, <1>1 DEF FilesComplete
  <1>11. \A g \in DOMAIN files' : g.kind \in {"raw", "zip"} /\ g.n \in stored => files'[g].full
    BY <1>0, <1>5, <1>7, <1>9, <1>10 DEF FilesComplete
  <1>12. \A u \in Threads \ {t} : Mine(u) \in DOMAIN files' =>
           Mine(u) \in DOMAIN files /\ files'[Mine(u)] = files[Mine(u)]
    BY <1>5, <1>6, <1>7
  <1>13. \A g \in DOMAIN files : g.kind \in {"raw", "zip"} => g \in DOMAIN files'
    BY <1>4, <1>7
  <1>14. thread'[t].source.kind = "raw" => Zip(thread'[t].source.n) \in DOMAIN files'
    BY <1>2, <1>5, <1>7
  <1>15. CompressionFiles(t)
    BY <1>8, <1>11, <1>12, <1>13 DEF CompressionFiles
  <1>16. CompressionThread(t)
    BY <1>2, <1>3, <1>14 DEF CompressionThread
  <1>. QED
    BY <1>1, <1>2, <1>15, <1>16, CompressionKeeps

\* writeLostEvent, its end: the file of a payload is complete, or the payload
\* does not count as stored.
LEMMA StoreWrite ==
    ASSUME StoreInv, NEW t \in Threads, Write(t) \/ WriteFails(t)
    PROVE  StoreInv'
  <1>0. StoreTyped /\ SourcesNamed /\ NumbersFresh /\ FilesComplete /\ PayloadsThere
    BY DEF StoreInv
  <1>. DEFINE k == thread[t].n
  <1>. DEFINE r == Raw(k)
  <1>1. /\ thread[t].stage = "write" /\ writes' = writes
        /\ thread' = [thread EXCEPT ![t] = Idle]
        /\ announced' = announced /\ cut' = cut
        /\ \/ /\ files' = Put(r, [mtime |-> day, full |-> TRUE])
              /\ stored' = stored \cup {k}
           \/ /\ files' = files \/ files' = Put(r, [mtime |-> day, full |-> FALSE])
              /\ stored' = stored
    BY DEF Write, WriteFails, history
  <1>2. /\ k \in Nat \ {0} /\ k <= writes /\ k \notin stored
        /\ \A f \in DOMAIN files : f.n # k
        /\ \A u \in Threads : Compressing(u) => thread[u].source.n # k
        /\ \A u \in Threads : Busy(u) /\ u # t => thread[u].n # k
    BY <1>0, <1>1 DEF NumbersFresh, Busy, StoreTyped
  <1>3. r.n = k /\ r.kind = "raw" /\ WellNamed(r)
    BY <1>2, StoreNames
  <1>4. DOMAIN Idle = Slots /\ Idle.n = 1 /\ Idle.stage = "idle"
    BY DEF Idle, Slots
  <1>5. /\ DOMAIN thread' = Threads /\ thread'[t] = Idle
        /\ \A u \in Threads \ {t} : thread'[u] = thread[u]
    BY <1>0, <1>1 DEF StoreTyped
  <1>6. \A u \in Threads : Busy(u)' => u # t /\ Busy(u) /\ thread'[u] = thread[u]
    BY <1>4, <1>5 DEF Busy
  <1>7. \A u \in Threads : Compressing(u)' => u # t /\ Compressing(u) /\ thread'[u] = thread[u]
    BY <1>4, <1>5 DEF Compressing
  <1>. HIDE DEF r
  <1>8. /\ DOMAIN files \subseteq DOMAIN files' /\ DOMAIN files' \subseteq DOMAIN files \cup {r}
        /\ \A f \in DOMAIN files : f # r /\ files'[f] = files[f]
        /\ \/ stored' = stored
           \/ stored' = stored \cup {k} /\ r \in DOMAIN files' /\ files'[r].full
    <2>1. r \notin DOMAIN files
      BY <1>2, <1>3
    <2>2. CASE files' = files /\ stored' = stored
      BY <2>1, <2>2
    <2>3. ASSUME NEW whole \in BOOLEAN, files' = Put(r, [mtime |-> day, full |-> whole])
          PROVE  /\ DOMAIN files' = DOMAIN files \cup {r}
                 /\ files'[r].full = whole
                 /\ \A f \in DOMAIN files : files'[f] = files[f]
      <3>1. /\ DOMAIN files' = DOMAIN files \cup {r}
            /\ files'[r] = [mtime |-> day, full |-> whole]
            /\ \A f \in DOMAIN files \ {r} : files'[f] = files[f]
        BY <2>3, FilesPut
      <3>. QED
        BY <2>1, <3>1
    <2>. QED
      BY <1>1, <2>1, <2>2, <2>3
  <1>. HIDE DEF k
  <1>9. StoreTyped'
    <2>1. \A f \in DOMAIN files' : WellNamed(f) /\ f.n <= writes'
      BY <1>0, <1>1, <1>2, <1>3, <1>8 DEF StoreTyped
    <2>2. \A n \in stored' : n \in Nat /\ n <= writes'
      BY <1>0, <1>1, <1>2, <1>8 DEF StoreTyped
    <2>3. \A u \in Threads : DOMAIN thread'[u] = Slots /\ thread'[u].n \in Nat \ {0}
      BY <1>0, <1>4, <1>5 DEF StoreTyped
    <2>. QED
      BY <1>0, <1>1, <1>5, <2>1, <2>2, <2>3 DEF StoreTyped, WellNamed
  <1>10. SourcesNamed'
    <2>1. \A u \in Threads : Compressing(u)' =>
            /\ WellNamed(thread'[u].source) /\ thread'[u].source.n <= writes'
            /\ thread'[u].source.kind \in {"raw", "tmp"}
      BY <1>0, <1>1, <1>7 DEF SourcesNamed
    <2>. QED
      BY <2>1 DEF SourcesNamed, WellNamed
  <1>11. NumbersFresh'
    <2>. SUFFICES ASSUME NEW w \in Threads, Busy(w)'
                  PROVE  /\ thread'[w].n <= writes' /\ thread'[w].n \notin stored'
                         /\ \A f \in DOMAIN files' : f.n # thread'[w].n
                         /\ \A u \in Threads : Compressing(u)' => thread'[u].source.n # thread'[w].n
                         /\ \A u \in Threads : Busy(u)' /\ u # w => thread'[u].n # thread'[w].n
      BY DEF NumbersFresh
    <2>1. w # t /\ Busy(w) /\ thread'[w] = thread[w]
      BY <1>6
    <2>2. /\ thread[w].n <= writes /\ thread[w].n \notin stored
          /\ \A f \in DOMAIN files : f.n # thread[w].n
          /\ \A u \in Threads : Compressing(u) => thread[u].source.n # thread[w].n
          /\ \A u \in Threads : Busy(u) /\ u # w => thread[u].n # thread[w].n
      BY <1>0, <2>1 DEF NumbersFresh
    <2>3. thread[w].n # k
      BY <1>2, <2>1
    <2>4. \A f \in DOMAIN files' : f.n # thread[w].n
      BY <1>3, <1>8, <2>2, <2>3
    <2>5. thread[w].n \notin stored'
      BY <1>8, <2>2, <2>3
    <2>. QED
      BY <1>1, <1>6, <1>7, <2>1, <2>2, <2>4, <2>5
  <1>12. FilesComplete'
    <2>1. \A f \in DOMAIN files' : f.kind \in {"raw", "zip"} /\ f.n \in stored' => files'[f].full
      BY <1>0, <1>2, <1>3, <1>8 DEF FilesComplete
    <2>2. ASSUME NEW u \in Threads, thread'[u].stage \in {"copy", "rename"}
          PROVE  /\ thread'[u].source.kind = "raw" /\ thread'[u].source.n \in stored' =>
                      thread'[u].about.full
                 /\ thread'[u].stage = "rename" /\ Mine(u)' \in DOMAIN files' =>
                      files'[Mine(u)'] = thread'[u].about
      <3>1. Compressing(u) /\ thread'[u] = thread[u] /\ thread[u].source.n # k
        BY <1>2, <1>7, <2>2 DEF Compressing
      <3>2. Mine(u)' = Mine(u) /\ Mine(u) # r
        BY <1>3, <3>1, MineNames DEF Mine
      <3>. QED
        BY <1>0, <1>8, <2>2, <3>1, <3>2 DEF FilesComplete
    <2>. QED
      BY <2>1, <2>2 DEF FilesComplete
  <1>13. PayloadsThere'
    <2>1. ASSUME NEW n \in Unreported'
          PROVE  Raw(n) \in DOMAIN files' \/ Zip(n) \in DOMAIN files'
      <3>1. n \in Unreported \/ (n = k /\ r \in DOMAIN files')
        BY <1>1, <1>8 DEF Unreported
      <3>. QED
        BY <1>0, <1>8, <3>1 DEF PayloadsThere, r
    <2>2. ASSUME NEW u \in Threads, thread'[u].stage = "drop", thread'[u].source.kind = "raw",
                 thread'[u].source.n \in Unreported'
          PROVE  Zip(thread'[u].source.n) \in DOMAIN files'
      <3>1. Compressing(u) /\ thread'[u] = thread[u] /\ thread[u].source.n # k
        BY <1>2, <1>7, <2>2 DEF Compressing
      <3>2. thread[u].source.n \in Unreported
        BY <1>1, <1>8, <2>2, <3>1 DEF Unreported
      <3>. QED
        BY <1>0, <1>8, <2>2, <3>1, <3>2 DEF PayloadsThere
    <2>. QED
      BY <2>1, <2>2 DEF PayloadsThere, Raw, Zip
  <1>. QED
    BY <1>9, <1>10, <1>11, <1>12, <1>13 DEF StoreInv

LEMMA StoreNextDay ==
    ASSUME StoreInv, files' = files, thread' = thread, writes' = writes, stored' = stored,
           announced' = announced, cut' = cut
    PROVE  StoreInv'
  BY DEF StoreInv, StoreTyped, SourcesNamed, NumbersFresh, FilesComplete, PayloadsThere,
         Unreported, WellNamed, Busy, Compressing, Mine, Temp, Raw, Zip

\* A crash: the files keep their names, but for the temporary ones, which have
\* no owner any more.
LEMMA StoreCrash ==
    ASSUME StoreInv, ProcessDies
    PROVE  StoreInv'
  <1>0. StoreTyped /\ NumbersFresh /\ FilesComplete /\ PayloadsThere
    BY DEF StoreInv
  <1>. DEFINE orphan(f) == [f EXCEPT !.owner = Nobody]
  <1>. DEFINE before(f) == IF f \in DOMAIN files THEN files[f] ELSE [mtime |-> day, full |-> FALSE]
  <1>. DEFINE rest(gone, partial) ==
                (DOMAIN files \ gone) \cup {Raw(thread[t].n) : t \in partial}
  <1>1. PICK gone \in {{}} \cup {{f} : f \in UNION {Removing(t) : t \in Threads}},
             partial \in SUBSET {t \in Threads : thread[t].stage = "write"} :
          /\ files' = [o \in {orphan(f) : f \in rest(gone, partial)} |->
                         before(CHOOSE f \in rest(gone, partial) : orphan(f) = o)]
          /\ cut' = cut \cup Payloads(gone)
    BY DEF ProcessDies
  <1>. DEFINE kept == rest(gone, partial)
  <1>2. /\ thread' = [t \in Threads |-> Idle]
        /\ writes' = writes /\ stored' = stored /\ announced' = announced
    BY DEF ProcessDies
  <1>3. ASSUME NEW f \in kept
        PROVE  /\ WellNamed(f) /\ f.n <= writes
               /\ f \in DOMAIN files \/ f.n \notin stored
    <2>1. CASE f \in DOMAIN files
      BY <1>0, <2>1 DEF StoreTyped
    <2>2. CASE \E t \in partial : f = Raw(thread[t].n)
      <3>1. PICK t \in partial : f = Raw(thread[t].n)
        BY <2>2
      <3>2. t \in Threads /\ Busy(t)
        BY DEF Busy
      <3>3. thread[t].n \in Nat \ {0} /\ thread[t].n <= writes /\ thread[t].n \notin stored
        BY <1>0, <3>2 DEF StoreTyped, NumbersFresh
      <3>. QED
        BY <3>1, <3>3, StoreNames
    <2>. QED
      BY <2>1, <2>2
  <1>4. ASSUME NEW f \in kept
        PROVE  WellNamed(orphan(f)) /\ orphan(f).n = f.n /\ orphan(f).kind = f.kind
    BY <1>3 DEF WellNamed
  <1>5. /\ DOMAIN files' = {orphan(f) : f \in kept}
        /\ \A o \in DOMAIN files' : files'[o] = before(CHOOSE f \in kept : orphan(f) = o)
    BY <1>1
  <1>. HIDE DEF kept, orphan
  <1>6. \A o \in DOMAIN files' : \E f \in kept : orphan(f) = o /\ files'[o] = before(f)
    BY <1>5
  <1>. HIDE DEF before
  <1>7. \A t \in Threads : thread'[t] = Idle
    BY <1>2
  <1>8. DOMAIN Idle = Slots /\ Idle.n = 1 /\ Idle.stage = "idle"
    BY DEF Idle, Slots
  <1>9. StoreTyped'
    <2>1. \A o \in DOMAIN files' : WellNamed(o) /\ o.n <= writes
      BY <1>3, <1>4, <1>6
    <2>2. \A t \in Threads : DOMAIN thread'[t] = Slots /\ thread'[t].n \in Nat \ {0}
      BY <1>7, <1>8
    <2>3. DOMAIN thread' = Threads
      BY <1>2
    <2>. QED
      BY <1>0, <1>2, <2>1, <2>2, <2>3 DEF StoreTyped, WellNamed
  <1>10. \A t \in Threads : thread'[t].stage = "idle"
    BY <1>7, <1>8
  <1>11. SourcesNamed' /\ NumbersFresh'
    BY <1>10 DEF SourcesNamed, NumbersFresh, Busy, Compressing
  <1>12. FilesComplete'
    <2>1. ASSUME NEW o \in DOMAIN files', o.kind \in {"raw", "zip"}, o.n \in stored
          PROVE  files'[o].full
      <3>1. PICK f \in kept : orphan(f) = o /\ files'[o] = before(f)
        BY <1>6
      <3>2. f.n = o.n /\ f.kind = o.kind
        BY <1>4, <3>1
      <3>3. f \in DOMAIN files
        BY <1>3, <2>1, <3>2
      <3>. QED
        BY <1>0, <2>1, <3>1, <3>2, <3>3 DEF FilesComplete, before
    <2>. QED
      BY <1>2, <1>10, <2>1 DEF FilesComplete
  <1>13. PayloadsThere'
    <2>1. ASSUME NEW f \in DOMAIN files, f \notin kept, f.kind \in {"raw", "zip"}
          PROVE  f.n \in cut'
      BY <1>1, <2>1 DEF kept, Payloads
    <2>2. \A n : orphan(Raw(n)) = Raw(n) /\ orphan(Zip(n)) = Zip(n)
      BY DEF orphan, Raw, Zip
    <2>3. ASSUME NEW n \in Unreported'
          PROVE  Raw(n) \in DOMAIN files' \/ Zip(n) \in DOMAIN files'
      <3>1. n \in Unreported /\ n \notin cut'
        BY <1>1, <1>2 DEF Unreported
      <3>2. Raw(n) \in DOMAIN files \/ Zip(n) \in DOMAIN files
        BY <1>0, <3>1 DEF PayloadsThere
      <3>3. Raw(n) \in kept \/ Zip(n) \in kept
        BY <2>1, <3>1, <3>2, StoreNames
      <3>. QED
        BY <1>5, <2>2, <3>3
    <2>. QED
      BY <1>10, <2>3 DEF PayloadsThere, Raw, Zip
  <1>. QED
    BY <1>9, <1>11, <1>12, <1>13 DEF StoreInv

LEMMA StoreInvNext == StoreInv /\ [StoreNext]_storeVars => StoreInv'
  <1>. SUFFICES ASSUME StoreInv, [StoreNext]_storeVars PROVE StoreInv'
    OBVIOUS
  <1>1. CASE \E t \in Threads :
               \/ Start(t) \/ StartFails(t)
               \/ \E f \in Names : DeleteOld(t, f) \/ DeleteFails(t, f)
               \/ Deleted(t)
    BY <1>1, StoreStart, StoreDelete
  <1>2. CASE \E t \in Threads :
               \/ \E f \in Names : OpenTemp(t, f)
               \/ Copy(t) \/ Rename(t) \/ CompressFails(t)
               \/ DropSource(t) \/ DropFails(t)
    BY <1>2, StoreOpenTemp, StoreCopy, StoreRename, StoreDrop
  <1>3. CASE \E t \in Threads :
               \/ Compressed(t) \/ EnoughSpace(t) \/ TooLittleSpace(t)
               \/ \E f \in Names : Evict(t, f) \/ EvictFails(t, f)
               \/ NothingToEvict(t)
    BY <1>3, StoreSpace
  <1>4. CASE \E t \in Threads : Write(t) \/ WriteFails(t)
    BY <1>4, StoreWrite
  <1>5. CASE NextDay
    BY <1>5, StoreNextDay DEF NextDay, history
  <1>6. CASE ProcessDies
    BY <1>6, StoreCrash
  <1>7. CASE UNCHANGED storeVars
    BY <1>7, StoreNextDay DEF storeVars, history
  <1>. QED
    BY <1>1, <1>2, <1>3, <1>4, <1>5, <1>6, <1>7 DEF StoreNext

LEMMA StoreImplies == StoreInv => PayloadsKept
  <1>. SUFFICES ASSUME StoreInv, NEW n \in stored, n \notin announced \cup cut
                PROVE  Copies(n) # {}
    BY DEF PayloadsKept
  <1>1. Raw(n) \in DOMAIN files \/ Zip(n) \in DOMAIN files
    BY DEF StoreInv, PayloadsThere, Unreported
  <1>2. \A f \in {Raw(n), Zip(n)} : f \in DOMAIN files => files[f].full
    BY StoreNames DEF StoreInv, FilesComplete
  <1>. QED
    BY <1>1, <1>2 DEF Copies

\* A payload that upstream stored is in the directory, complete, until a file of
\* it is reported as deleted or evicted, or is removed just before a crash.
THEOREM StoredPayloadsStay == StoreSpec => []PayloadsKept
  BY StoreInvInit, StoreInvNext, StoreImplies, PTL DEF StoreSpec

-----------------------------------------------------------------------------
(* How long payloads are kept.                                             *)

\* Days are numbers, and the history has a day for every number in use.
DaysTyped ==
    /\ day \in Nat /\ writes \in 1 .. MaxWrites /\ DOMAIN born = 1 .. MaxWrites
    /\ \A f \in DOMAIN files : files[f].mtime \in Nat
    /\ \A t \in Threads :
         /\ thread[t].n \in 1 .. MaxWrites
         /\ thread[t].today \in Nat /\ thread[t].today <= day
         /\ thread[t].stage = "copy" => thread[t].about.mtime \in Nat

\* A complete file or archive has the day of its payload, as what is copied into
\* an archive has.
AgesKept ==
    /\ \A f \in DOMAIN files : f.kind \in {"raw", "zip"} /\ files[f].full =>
         files[f].mtime = born[f.n]
    /\ \A t \in Threads :
         thread[t].stage \in {"copy", "rename"} /\ thread[t].source.kind = "raw"
         /\ thread[t].about.full => thread[t].about.mtime = born[thread[t].source.n]

Young(t, about) == DeleteAfterDays > 0 => thread[t].today - about.mtime <= DeleteAfterDays

\* A thread that is alone has seen every file there is, and has deleted the old ones.
Undisturbed(t) ==
    thread[t].alone =>
      /\ \A u \in Threads \ {t} : ~ Busy(u)
      /\ thread[t].stage = "delete" => DOMAIN files \subseteq thread[t].todo
      /\ thread[t].stage \notin {"idle", "delete"} =>
           \A f \in DOMAIN files : Young(t, files[f])
      /\ thread[t].stage = "copy" => Young(t, thread[t].about)

AgeInv == DaysTyped /\ AgesKept /\ \A t \in Threads : Undisturbed(t)

LEMMA AgeInit == StoreInit => AgeInv
  <1>. SUFFICES ASSUME StoreInit PROVE AgeInv
    OBVIOUS
  <1>1. /\ files = [f \in {Raw(1)} |-> [mtime |-> 0, full |-> TRUE]]
        /\ thread = [t \in Threads |-> Idle]
        /\ writes = 1 /\ day = 0 /\ born = [n \in 1 .. MaxWrites |-> 0]
    BY DEF StoreInit
  <1>2. /\ Idle.n = 1 /\ Idle.stage = "idle" /\ Idle.today = 0
        /\ Idle.alone = FALSE
    BY DEF Idle
  <1>3. \A t \in Threads : thread[t] = Idle
    BY <1>1
  <1>4. 1 \in 1 .. MaxWrites
    BY StoreAssumption
  <1>5. \A f \in DOMAIN files : f.n = 1 /\ files[f].mtime = 0
    BY <1>1, StoreNames
  <1>6. DaysTyped
    BY <1>1, <1>2, <1>3, <1>4, <1>5 DEF DaysTyped
  <1>7. AgesKept
    BY <1>1, <1>2, <1>3, <1>4, <1>5 DEF AgesKept
  <1>8. \A t \in Threads : Undisturbed(t)
    BY <1>2, <1>3 DEF Undisturbed
  <1>. QED
    BY <1>6, <1>7, <1>8 DEF AgeInv

\* A step of a thread in its pass: the other threads, the days and the number of
\* its payload stay as they are.
PassStep(t) ==
    /\ Busy(t) /\ DOMAIN thread' = Threads
    /\ \A u \in Threads \ {t} : thread'[u] = thread[u]
    /\ thread'[t].n = thread[t].n /\ thread'[t].today = thread[t].today
    /\ thread'[t].alone => thread[t].alone
    /\ day' = day /\ writes' = writes /\ born' = born

\* The deletion goes on with the names it listed, and ends when it has deleted
\* what is old.
PassStage(t) ==
    /\ thread'[t].alone /\ thread'[t].stage = "delete" =>
         thread[t].stage = "delete" /\ thread'[t].todo = thread[t].todo
    /\ thread'[t].alone /\ thread'[t].stage \notin {"idle", "delete"} =>
         \A f \in DOMAIN files : Young(t, files[f])

\* Only files with the day of their payload, or of an earlier file, appear.
PassFiles(t) ==
    \A f \in DOMAIN files' :
       \/ f \in DOMAIN files /\ files'[f] = files[f]
       \/ /\ files'[f].mtime \in Nat
          /\ f.kind \in {"raw", "zip"} /\ files'[f].full => files'[f].mtime = born[f.n]
          /\ thread'[t].stage # "delete"
          /\ thread'[t].alone => Young(t, files'[f])

PassSource(t) ==
    /\ thread'[t].stage = "copy" => /\ thread'[t].about.mtime \in Nat
                                    /\ thread'[t].alone => Young(t, thread'[t].about)
    /\ thread'[t].stage \in {"copy", "rename"} /\ thread'[t].source.kind = "raw"
       /\ thread'[t].about.full => thread'[t].about.mtime = born[thread'[t].source.n]

YoungAfter(t, about) ==
    DeleteAfterDays > 0 => thread'[t].today - about.mtime <= DeleteAfterDays

LEMMA PassKeeps ==
    ASSUME AgeInv, NEW t \in Threads, PassStep(t), PassStage(t), PassFiles(t), PassSource(t)
    PROVE  AgeInv'
  <1>0. DaysTyped /\ AgesKept /\ \A u \in Threads : Undisturbed(u)
    BY DEF AgeInv
  <1>1. DaysTyped'
    <2>1. \A f \in DOMAIN files' : files'[f].mtime \in Nat
      BY <1>0 DEF DaysTyped, PassFiles
    <2>2. \A u \in Threads :
            /\ thread'[u].n \in 1 .. MaxWrites
            /\ thread'[u].today \in Nat /\ thread'[u].today <= day
            /\ thread'[u].stage = "copy" => thread'[u].about.mtime \in Nat
      BY <1>0 DEF DaysTyped, PassStep, PassSource
    <2>. QED
      BY <1>0, <2>1, <2>2 DEF DaysTyped, PassStep
  <1>2. AgesKept'
    <2>1. \A f \in DOMAIN files' : f.kind \in {"raw", "zip"} /\ files'[f].full =>
            files'[f].mtime = born'[f.n]
      BY <1>0 DEF AgesKept, PassFiles, PassStep
    <2>2. \A u \in Threads :
            thread'[u].stage \in {"copy", "rename"} /\ thread'[u].source.kind = "raw"
            /\ thread'[u].about.full => thread'[u].about.mtime = born'[thread'[u].source.n]
      BY <1>0 DEF AgesKept, PassSource, PassStep
    <2>. QED
      BY <2>1, <2>2 DEF AgesKept
  <1>3. ASSUME NEW u \in Threads \ {t} PROVE Undisturbed(u)'
    <2>1. ~ thread[u].alone
      BY <1>0 DEF Undisturbed, PassStep
    <2>2. ~ thread'[u].alone
      BY <2>1 DEF PassStep
    <2>. QED
      BY <2>2 DEF Undisturbed
  <1>4. Undisturbed(t)'
    <2>. SUFFICES ASSUME thread'[t].alone
                  PROVE  /\ \A u \in Threads \ {t} : ~ Busy(u)'
                         /\ thread'[t].stage = "delete" => DOMAIN files' \subseteq thread'[t].todo
                         /\ thread'[t].stage \notin {"idle", "delete"} =>
                              \A f \in DOMAIN files' : YoungAfter(t, files'[f])
                         /\ thread'[t].stage = "copy" => YoungAfter(t, thread'[t].about)
      BY DEF Undisturbed, Young, YoungAfter
    <2>0. thread[t].alone
      BY DEF PassStep
    <2>1. \A u \in Threads \ {t} : ~ Busy(u)'
      BY <1>0, <2>0 DEF Undisturbed, PassStep, Busy
    <2>2. thread'[t].stage = "delete" => DOMAIN files' \subseteq thread'[t].todo
      BY <1>0, <2>0 DEF Undisturbed, PassStage, PassFiles
    <2>3. \A about : Young(t, about) => YoungAfter(t, about)
      BY DEF Young, YoungAfter, PassStep
    <2>4. ASSUME thread'[t].stage \notin {"idle", "delete"}, NEW f \in DOMAIN files'
          PROVE  YoungAfter(t, files'[f])
      <3>1. Young(t, files'[f])
        BY <2>4 DEF PassStage, PassFiles
      <3>. QED
        BY <2>3, <3>1
    <2>5. ASSUME thread'[t].stage = "copy"
          PROVE  YoungAfter(t, thread'[t].about)
      BY <2>3, <2>5 DEF PassSource
    <2>. QED
      BY <2>1, <2>2, <2>4, <2>5
  <1>5. \A u \in Threads : Undisturbed(u)'
    BY <1>3, <1>4
  <1>. QED
    BY <1>1, <1>2, <1>5 DEF AgeInv

LEMMA PassOn ==
    ASSUME AgeInv, NEW t \in Threads, PassStep(t),
           thread[t].stage # "delete", thread'[t].stage # "delete"
    PROVE  PassStage(t)
  BY DEF AgeInv, Undisturbed, PassStep, PassStage, Busy

LEMMA PassShrinks ==
    ASSUME AgeInv, NEW t \in Threads, PassStep(t), PassStage(t),
           DOMAIN files' \subseteq DOMAIN files, \A f \in DOMAIN files' : files'[f] = files[f],
           thread'[t].stage \notin {"copy", "rename"}
    PROVE  AgeInv'
  <1>1. PassFiles(t) /\ PassSource(t)
    BY DEF PassFiles, PassSource
  <1>. QED
    BY <1>1, PassKeeps

LEMMA AgeDelete ==
    ASSUME StoreInv, AgeInv, NEW t \in Threads, NEW f,
           DeleteOld(t, f) \/ DeleteFails(t, f)
    PROVE  AgeInv'
  <1>0. StoreTyped
    BY DEF StoreInv
  <1>1. /\ thread[t].stage = "delete" /\ Busy(t)
        /\ day' = day /\ writes' = writes /\ born' = born
    BY DEF DeleteOld, DeleteFails, history, Busy
  <1>2. DOMAIN files' \subseteq DOMAIN files /\ \A g \in DOMAIN files' : files'[g] = files[g]
    BY FilesRemoved DEF DeleteOld, DeleteFails
  <1>3. CASE DeleteOld(t, f)
    <2>1. thread' = thread
      BY <1>3 DEF DeleteOld
    <2>2. PassStep(t) /\ PassStage(t)
      BY <1>0, <1>1, <2>1 DEF PassStep, PassStage, StoreTyped
    <2>. QED
      BY <1>1, <1>2, <2>1, <2>2, PassShrinks
  <1>4. CASE DeleteFails(t, f)
    <2>1. thread' = [thread EXCEPT ![t].todo = @ \ {f}, ![t].alone = FALSE]
      BY <1>4 DEF DeleteFails
    <2>2. DOMAIN thread = Threads /\ DOMAIN thread[t] = Slots
      BY <1>0 DEF StoreTyped
    <2>3. /\ DOMAIN thread' = Threads
          /\ \A u \in Threads \ {t} : thread'[u] = thread[u]
          /\ thread'[t] = [thread[t] EXCEPT !.todo = @ \ {f}, !.alone = FALSE]
      BY <2>1, <2>2
    <2>4. /\ thread'[t].stage = "delete" /\ thread'[t].n = thread[t].n
          /\ thread'[t].today = thread[t].today /\ thread'[t].alone = FALSE
      BY <1>1, <2>2, <2>3 DEF Slots
    <2>5. PassStep(t) /\ PassStage(t)
      BY <1>1, <2>3, <2>4 DEF PassStep, PassStage
    <2>. QED
      BY <1>2, <2>4, <2>5, PassShrinks
  <1>. QED
    BY <1>3, <1>4

\* deleteOldLostEventFiles, its end: what is left is not old.
LEMMA AgeDeleted ==
    ASSUME StoreInv, AgeInv, NEW t \in Threads, Deleted(t)
    PROVE  AgeInv'
  <1>0. StoreTyped /\ DaysTyped /\ Undisturbed(t)
    BY DEF StoreInv, AgeInv
  <1>1. /\ thread[t].stage = "delete" /\ Busy(t) /\ ToDelete(t) = {}
        /\ day' = day /\ writes' = writes /\ born' = born /\ files' = files
    BY DEF Deleted, history, Busy
  <1>2. PICK names : thread' = [thread EXCEPT ![t].stage = "compress", ![t].todo = names]
    BY DEF Deleted
  <1>3. /\ OthersKeep(t) /\ \A u \in Threads \ {t} : thread'[u] = thread[u]
        /\ thread'[t].stage = "compress" /\ thread'[t].n = thread[t].n
        /\ thread'[t].today = thread[t].today /\ thread'[t].alone = thread[t].alone
    BY <1>0, <1>2, ThreadGoesOn
  <1>4. PassStep(t)
    BY <1>1, <1>3 DEF PassStep, OthersKeep
  <1>5. ASSUME thread[t].alone, NEW f \in DOMAIN files
        PROVE  Young(t, files[f])
    <2>1. f \in thread[t].todo
      BY <1>0, <1>1, <1>5 DEF Undisturbed
    <2>2. ~ Older(t, f, DeleteAfterDays)
      BY <1>1, <2>1 DEF ToDelete
    <2>3. thread[t].today \in Nat /\ files[f].mtime \in Nat /\ DeleteAfterDays \in Nat
      BY <1>0, StoreAssumption DEF DaysTyped
    <2>. QED
      BY <2>2, <2>3 DEF Older, Young
  <1>6. PassStage(t)
    BY <1>3, <1>5 DEF PassStage
  <1>. QED
    BY <1>1, <1>3, <1>4, <1>6, PassShrinks

LEMMA AgeDrop ==
    ASSUME StoreInv, AgeInv, NEW t \in Threads,
           CompressFails(t) \/ DropSource(t) \/ DropFails(t)
    PROVE  AgeInv'
  <1>0. StoreTyped
    BY DEF StoreInv
  <1>1. /\ Goes(t, "compress") /\ thread[t].stage # "delete" /\ Busy(t)
        /\ day' = day /\ writes' = writes /\ born' = born
    BY DEF CompressFails, DropSource, DropFails, AfterFailure,
           history, Busy
  <1>2. /\ OthersKeep(t) /\ \A u \in Threads \ {t} : thread'[u] = thread[u]
        /\ thread'[t].stage = "compress" /\ thread'[t].n = thread[t].n
        /\ thread'[t].today = thread[t].today /\ thread'[t].alone = thread[t].alone
    BY <1>0, <1>1, ThreadGoes
  <1>3. PassStep(t)
    BY <1>1, <1>2 DEF PassStep, OthersKeep
  <1>4. files' = files \/ \E f : files' = Removed({f})
    BY DEF CompressFails, DropSource, DropFails
  <1>5. DOMAIN files' \subseteq DOMAIN files /\ \A g \in DOMAIN files' : files'[g] = files[g]
    BY <1>4, FilesRemoved
  <1>. QED
    BY <1>1, <1>2, <1>3, <1>5, PassOn, PassShrinks

LEMMA AgeSpace ==
    ASSUME StoreInv, AgeInv, NEW t \in Threads, NEW f,
           \/ Compressed(t) \/ EnoughSpace(t) \/ TooLittleSpace(t)
           \/ Evict(t, f) \/ EvictFails(t, f) \/ NothingToEvict(t)
    PROVE  AgeInv'
  <1>0. StoreTyped
    BY DEF StoreInv
  <1>1. /\ thread[t].stage \in {"compress", "check", "evict"} /\ Busy(t)
        /\ day' = day /\ writes' = writes /\ born' = born
    BY DEF Busy, Compressed, EnoughSpace, TooLittleSpace, Evict,
           EvictFails, NothingToEvict, history
  <1>2. \/ \E stage \in {"check", "write"} : Goes(t, stage)
        \/ \E stage \in {"evict", "write"} : \E todo :
             thread' = [thread EXCEPT ![t].stage = stage, ![t].todo = todo]
        \/ EvictFails(t, f)
    BY DEF Compressed, EnoughSpace, TooLittleSpace, Evict,
           NothingToEvict
  <1>3. /\ DOMAIN thread' = Threads /\ \A u \in Threads \ {t} : thread'[u] = thread[u]
        /\ thread'[t].stage \in {"check", "evict", "write"} /\ thread'[t].n = thread[t].n
        /\ thread'[t].today = thread[t].today /\ thread'[t].alone = thread[t].alone
    <2>1. CASE EvictFails(t, f)
      <3>1. thread' = [thread EXCEPT ![t].todo = @ \ {f}] /\ thread[t].stage = "evict"
        BY <2>1 DEF EvictFails
      <3>2. DOMAIN thread = Threads /\ DOMAIN thread[t] = Slots
        BY <1>0 DEF StoreTyped
      <3>3. /\ DOMAIN thread' = Threads
            /\ \A u \in Threads \ {t} : thread'[u] = thread[u]
            /\ thread'[t] = [thread[t] EXCEPT !.todo = @ \ {f}]
        BY <3>1, <3>2
      <3>. QED
        BY <3>1, <3>2, <3>3 DEF Slots
    <2>2. CASE \E stage \in {"check", "write"} : Goes(t, stage)
      BY <1>0, <2>2, ThreadGoes DEF OthersKeep
    <2>3. CASE \E stage \in {"evict", "write"} : \E todo :
                 thread' = [thread EXCEPT ![t].stage = stage, ![t].todo = todo]
      <3>1. PICK stage \in {"evict", "write"} : \E todo :
              thread' = [thread EXCEPT ![t].stage = stage, ![t].todo = todo]
        BY <2>3
      <3>2. PICK todo : thread' = [thread EXCEPT ![t].stage = stage, ![t].todo = todo]
        BY <3>1
      <3>. QED
        BY <1>0, <3>2, ThreadGoesOn DEF OthersKeep
    <2>. QED
      BY <1>2, <2>1, <2>2, <2>3
  <1>4. PassStep(t)
    BY <1>1, <1>3 DEF PassStep
  <1>5. files' = files \/ files' = Removed({f})
    BY DEF Compressed, EnoughSpace, TooLittleSpace, Evict,
           EvictFails, NothingToEvict
  <1>6. DOMAIN files' \subseteq DOMAIN files /\ \A g \in DOMAIN files' : files'[g] = files[g]
    BY <1>5, FilesRemoved
  <1>. QED
    BY <1>1, <1>3, <1>4, <1>6, PassOn, PassShrinks

LEMMA AgeOpenTemp ==
    ASSUME StoreInv, AgeInv, NEW t \in Threads, NEW f, OpenTemp(t, f)
    PROVE  AgeInv'
  <1>0. StoreTyped /\ DaysTyped /\ AgesKept /\ Undisturbed(t)
    BY DEF StoreInv, AgeInv
  <1>1. /\ thread[t].stage = "compress" /\ f \in DOMAIN files
        /\ files' = Put(Temp(f.n, t), [mtime |-> day, full |-> FALSE])
        /\ thread' = [thread EXCEPT ![t].stage = "copy", ![t].todo = @ \ {f}, ![t].source = f,
                                    ![t].about = files[f]]
        /\ day' = day /\ writes' = writes /\ born' = born
    BY DEF OpenTemp, ToCompress, history
  <1>2. DOMAIN thread = Threads /\ DOMAIN thread[t] = Slots
    BY <1>0 DEF StoreTyped
  <1>3. /\ DOMAIN thread' = Threads
        /\ \A u \in Threads \ {t} : thread'[u] = thread[u]
        /\ thread'[t] = [thread[t] EXCEPT !.stage = "copy", !.todo = @ \ {f}, !.source = f,
                                          !.about = files[f]]
    BY <1>1, <1>2
  <1>4. /\ thread'[t].stage = "copy" /\ thread'[t].n = thread[t].n
        /\ thread'[t].source = f /\ thread'[t].about = files[f]
        /\ thread'[t].today = thread[t].today /\ thread'[t].alone = thread[t].alone
    BY <1>2, <1>3 DEF Slots
  <1>5. PassStep(t)
    BY <1>1, <1>3, <1>4 DEF PassStep, Busy
  <1>6. PassStage(t)
    BY <1>1, <1>4, <1>5, PassOn
  <1>. DEFINE m == Temp(f.n, t)
  <1>7. /\ DOMAIN files' = DOMAIN files \cup {m}
        /\ files'[m] = [mtime |-> day, full |-> FALSE]
        /\ \A g \in DOMAIN files \ {m} : files'[g] = files[g]
    BY <1>1, FilesPut
  <1>8. m.kind = "tmp"
    BY MineNames
  <1>. HIDE DEF m
  <1>9. files'[m].mtime = day
    BY <1>7
  <1>10. day \in Nat /\ thread[t].today \in Nat /\ thread[t].today <= day /\ DeleteAfterDays \in Nat
    BY <1>0, StoreAssumption DEF DaysTyped
  <1>11. files'[m].mtime \in Nat /\ Young(t, files'[m])
    BY <1>9, <1>10 DEF Young
  <1>12. PassFiles(t)
    BY <1>4, <1>7, <1>8, <1>11 DEF PassFiles
  <1>13. PassSource(t)
    <2>1. files[f].mtime \in Nat
      BY <1>0, <1>1 DEF DaysTyped
    <2>2. thread[t].alone => Young(t, files[f])
      BY <1>0, <1>1 DEF Undisturbed
    <2>3. f.kind = "raw" /\ files[f].full => files[f].mtime = born[f.n]
      BY <1>0, <1>1 DEF AgesKept
    <2>. QED
      BY <1>4, <2>1, <2>2, <2>3 DEF PassSource
  <1>. QED
    BY <1>5, <1>6, <1>12, <1>13, PassKeeps

\* compressLostEventFile: the archive gets the times of its source.
LEMMA AgeCopy ==
    ASSUME StoreInv, AgeInv, NEW t \in Threads, Copy(t)
    PROVE  AgeInv'
  <1>0. StoreTyped /\ DaysTyped /\ AgesKept /\ Undisturbed(t)
    BY DEF StoreInv, AgeInv
  <1>1. /\ thread[t].stage = "copy"
        /\ files' = Put(Mine(t), thread[t].about)
        /\ Goes(t, "rename")
        /\ day' = day /\ writes' = writes /\ born' = born
    BY DEF Copy, Copied, history
  <1>2. /\ OthersKeep(t) /\ \A u \in Threads \ {t} : thread'[u] = thread[u]
        /\ thread'[t].stage = "rename" /\ thread'[t].n = thread[t].n
        /\ thread'[t].source = thread[t].source /\ thread'[t].about = thread[t].about
        /\ thread'[t].today = thread[t].today /\ thread'[t].alone = thread[t].alone
    BY <1>0, <1>1, ThreadGoes
  <1>3. PassStep(t)
    BY <1>1, <1>2 DEF PassStep, Busy, OthersKeep
  <1>4. PassStage(t)
    BY <1>1, <1>2, <1>3, PassOn
  <1>. DEFINE m == Mine(t)
  <1>5. /\ DOMAIN files' = DOMAIN files \cup {m}
        /\ files'[m] = thread[t].about
        /\ \A g \in DOMAIN files \ {m} : files'[g] = files[g]
    BY <1>1, FilesPut
  <1>6. m.kind = "tmp"
    BY MineNames
  <1>. HIDE DEF m
  <1>7. thread[t].about.mtime \in Nat /\ (thread[t].alone => Young(t, thread[t].about))
    BY <1>0, <1>1 DEF DaysTyped, Undisturbed
  <1>8. PassFiles(t)
    BY <1>2, <1>5, <1>6, <1>7 DEF PassFiles
  <1>9. PassSource(t)
    BY <1>0, <1>1, <1>2 DEF PassSource, AgesKept
  <1>. QED
    BY <1>3, <1>4, <1>8, <1>9, PassKeeps

LEMMA AgeRename ==
    ASSUME StoreInv, AgeInv, NEW t \in Threads, Rename(t)
    PROVE  AgeInv'
  <1>0. StoreTyped /\ FilesComplete /\ DaysTyped /\ AgesKept /\ Undisturbed(t)
    BY DEF StoreInv, AgeInv
  <1>. DEFINE m == Mine(t)
  <1>. DEFINE z == Archive(thread[t].source)
  <1>1. /\ thread[t].stage = "rename" /\ m \in DOMAIN files
        /\ files' = [f \in (DOMAIN files \ {m}) \cup {z} |->
                       IF f = z THEN files[m] ELSE files[f]]
        /\ Goes(t, "drop")
        /\ day' = day /\ writes' = writes /\ born' = born
    BY DEF Rename, history
  <1>2. /\ OthersKeep(t) /\ \A u \in Threads \ {t} : thread'[u] = thread[u]
        /\ thread'[t].stage = "drop" /\ thread'[t].n = thread[t].n
        /\ thread'[t].today = thread[t].today /\ thread'[t].alone = thread[t].alone
    BY <1>0, <1>1, ThreadGoes
  <1>3. PassStep(t)
    BY <1>1, <1>2 DEF PassStep, Busy, OthersKeep
  <1>4. PassStage(t)
    BY <1>1, <1>2, <1>3, PassOn
  <1>5. files[m] = thread[t].about
    BY <1>0, <1>1 DEF FilesComplete
  <1>6. /\ z.n = thread[t].source.n /\ z.kind # "raw"
        /\ z.kind = "zip" => thread[t].source.kind = "raw"
    BY DEF Archive
  <1>. HIDE DEF m, z
  <1>7. /\ DOMAIN files' = (DOMAIN files \ {m}) \cup {z}
        /\ files'[z] = files[m]
        /\ \A g \in DOMAIN files \ {m, z} : files'[g] = files[g]
    BY <1>1
  <1>8. files[m].mtime \in Nat /\ (thread[t].alone => Young(t, files[m]))
    BY <1>0, <1>1 DEF DaysTyped, Undisturbed
  <1>9. z.kind \in {"raw", "zip"} /\ files[m].full => files[m].mtime = born[z.n]
    BY <1>0, <1>1, <1>5, <1>6 DEF AgesKept
  <1>10. PassFiles(t)
    BY <1>2, <1>7, <1>8, <1>9 DEF PassFiles
  <1>11. PassSource(t)
    BY <1>2 DEF PassSource
  <1>. QED
    BY <1>3, <1>4, <1>10, <1>11, PassKeeps

\* writeLostEvent: the day of a payload is that of its file.
LEMMA AgeWrite ==
    ASSUME StoreInv, AgeInv, NEW t \in Threads,
           Write(t) \/ WriteFails(t)
    PROVE  AgeInv'
  <1>0. /\ StoreTyped /\ SourcesNamed /\ NumbersFresh /\ DaysTyped /\ AgesKept
        /\ \A u \in Threads : Undisturbed(u)
    BY DEF StoreInv, AgeInv
  <1>. DEFINE k == thread[t].n
  <1>. DEFINE r == Raw(k)
  <1>1. /\ thread[t].stage = "write" /\ writes' = writes /\ day' = day
        /\ thread' = [thread EXCEPT ![t] = Idle]
        /\ \/ /\ files' = Put(r, [mtime |-> day, full |-> TRUE])
              /\ born' = [born EXCEPT ![k] = day]
           \/ /\ files' = files \/ files' = Put(r, [mtime |-> day, full |-> FALSE])
              /\ born' = born
    BY DEF Write, WriteFails, history
  <1>2. /\ k \in 1 .. MaxWrites
        /\ \A f \in DOMAIN files : f.n # k
        /\ \A u \in Threads : Compressing(u) => thread[u].source.n # k
    BY <1>0, <1>1 DEF NumbersFresh, Busy, DaysTyped
  <1>3. r.n = k /\ r.kind = "raw"
    BY StoreNames
  <1>4. /\ Idle.n = 1 /\ Idle.stage = "idle" /\ Idle.today = 0
        /\ Idle.alone = FALSE
    BY DEF Idle
  <1>5. /\ DOMAIN thread' = Threads /\ thread'[t] = Idle
        /\ \A u \in Threads \ {t} : thread'[u] = thread[u]
    BY <1>0, <1>1 DEF StoreTyped
  <1>. HIDE DEF r
  <1>6. /\ DOMAIN files' \subseteq DOMAIN files \cup {r}
        /\ \A f \in DOMAIN files : f # r /\ files'[f] = files[f]
        /\ r \in DOMAIN files' => files'[r].mtime = day
        /\ r \in DOMAIN files' /\ files'[r].full => born'[k] = day
    <2>1. r \notin DOMAIN files
      BY <1>2, <1>3
    <2>2. CASE files' = files
      BY <2>1, <2>2
    <2>3. ASSUME NEW whole \in BOOLEAN, files' = Put(r, [mtime |-> day, full |-> whole])
          PROVE  /\ DOMAIN files' = DOMAIN files \cup {r}
                 /\ files'[r].full = whole /\ files'[r].mtime = day
                 /\ \A f \in DOMAIN files : files'[f] = files[f]
      <3>1. /\ DOMAIN files' = DOMAIN files \cup {r}
            /\ files'[r] = [mtime |-> day, full |-> whole]
            /\ \A f \in DOMAIN files \ {r} : files'[f] = files[f]
        BY <2>3, FilesPut
      <3>. QED
        BY <2>1, <3>1
    <2>4. born' = [born EXCEPT ![k] = day] => born'[k] = day
      BY <1>0, <1>2 DEF DaysTyped
    <2>. QED
      BY <1>1, <2>1, <2>2, <2>3, <2>4
  <1>7. DOMAIN born' = DOMAIN born /\ \A n \in DOMAIN born : n # k => born'[n] = born[n]
    BY <1>1
  <1>8. /\ \A f \in DOMAIN files : born'[f.n] = born[f.n]
        /\ \A u \in Threads : Compressing(u) => born'[thread[u].source.n] = born[thread[u].source.n]
    <2>1. \A n \in Nat \ {0} : n <= writes => n \in DOMAIN born
      BY <1>0, StoreAssumption DEF DaysTyped
    <2>2. \A f \in DOMAIN files : f.n \in DOMAIN born
      BY <1>0, <2>1 DEF StoreTyped, WellNamed
    <2>3. \A u \in Threads : Compressing(u) => thread[u].source.n \in DOMAIN born
      BY <1>0, <2>1 DEF SourcesNamed, WellNamed
    <2>. QED
      BY <1>2, <1>7, <2>2, <2>3
  <1>. HIDE DEF k
  <1>9. DaysTyped'
    <2>1. \A f \in DOMAIN files' : files'[f].mtime \in Nat
      BY <1>0, <1>6 DEF DaysTyped
    <2>2. 1 \in 1 .. MaxWrites /\ day \in Nat
      BY <1>0, StoreAssumption DEF DaysTyped
    <2>3. \A u \in Threads :
            /\ thread'[u].n \in 1 .. MaxWrites
            /\ thread'[u].today \in Nat /\ thread'[u].today <= day'
            /\ thread'[u].stage = "copy" => thread'[u].about.mtime \in Nat
      BY <1>0, <1>1, <1>4, <1>5, <2>2 DEF DaysTyped
    <2>. QED
      BY <1>0, <1>1, <1>7, <2>1, <2>3 DEF DaysTyped
  <1>10. AgesKept'
    <2>1. ASSUME NEW f \in DOMAIN files', f.kind \in {"raw", "zip"}, files'[f].full
          PROVE  files'[f].mtime = born'[f.n]
      <3>1. CASE f = r
        BY <1>3, <1>6, <2>1, <3>1
      <3>2. CASE f \in DOMAIN files
        BY <1>0, <1>2, <1>6, <1>8, <2>1, <3>2 DEF AgesKept
      <3>. QED
        BY <1>6, <3>1, <3>2
    <2>2. ASSUME NEW u \in Threads, thread'[u].stage \in {"copy", "rename"},
                 thread'[u].source.kind = "raw", thread'[u].about.full
          PROVE  thread'[u].about.mtime = born'[thread'[u].source.n]
      <3>1. u # t /\ thread'[u] = thread[u]
        BY <1>4, <1>5, <2>2
      <3>2. Compressing(u)
        BY <2>2, <3>1 DEF Compressing
      <3>. QED
        BY <1>0, <1>8, <2>2, <3>1, <3>2 DEF AgesKept
    <2>. QED
      BY <2>1, <2>2 DEF AgesKept
  <1>11. \A u \in Threads : ~ thread'[u].alone
    <2>1. \A u \in Threads \ {t} : ~ thread[u].alone
      BY <1>0, <1>1 DEF Undisturbed, Busy
    <2>. QED
      BY <1>4, <1>5, <2>1
  <1>12. \A u \in Threads : Undisturbed(u)'
    BY <1>11 DEF Undisturbed
  <1>. QED
    BY <1>9, <1>10, <1>12 DEF AgeInv

LEMMA AgeStart ==
    ASSUME StoreInv, AgeInv, NEW t \in Threads, Start(t)
    PROVE  AgeInv'
  <1>0. StoreTyped /\ DaysTyped /\ AgesKept
    BY DEF StoreInv, AgeInv
  <1>1. /\ writes < MaxWrites /\ writes' = writes + 1
        /\ day' = day /\ files' = files /\ born' = born
    BY DEF Start, history
  <1>2. PICK names :
          thread' = [u \in Threads |->
            IF u = t
              THEN [Idle EXCEPT !.stage = "delete", !.n = writes + 1, !.today = day,
                                !.todo = names,
                                !.alone = /\ names = DOMAIN files
                                          /\ \A v \in Threads \ {t} : thread[v].stage = "idle"]
              ELSE [thread[u] EXCEPT !.alone = FALSE]]
    BY DEF Start
  <1>. DEFINE alone == /\ names = DOMAIN files
                       /\ \A v \in Threads \ {t} : thread[v].stage = "idle"
  <1>3. thread'[t] = [Idle EXCEPT !.stage = "delete", !.n = writes + 1, !.today = day,
                                        !.todo = names, !.alone = alone]
    BY <1>2
  <1>4. \A u \in Threads \ {t} : thread'[u] = [thread[u] EXCEPT !.alone = FALSE]
    BY <1>2
  <1>. HIDE DEF alone
  <1>5. /\ thread'[t].n = writes + 1 /\ thread'[t].stage = "delete" /\ thread'[t].today = day
        /\ thread'[t].todo = names /\ thread'[t].alone = alone
    BY <1>3 DEF Idle
  <1>6. ASSUME NEW u \in Threads \ {t}
        PROVE  /\ thread'[u].stage = thread[u].stage /\ thread'[u].n = thread[u].n
               /\ thread'[u].source = thread[u].source /\ thread'[u].about = thread[u].about
               /\ thread'[u].today = thread[u].today /\ thread'[u].alone = FALSE
    <2>1. DOMAIN thread[u] = Slots
      BY <1>0 DEF StoreTyped
    <2>2. thread'[u] = [thread[u] EXCEPT !.alone = FALSE]
      BY <1>4
    <2>. QED
      BY <2>1, <2>2 DEF Slots
  <1>7. DaysTyped'
    <2>1. writes + 1 \in 1 .. MaxWrites /\ day \in Nat
      BY <1>0, <1>1, StoreAssumption DEF DaysTyped
    <2>2. ASSUME NEW u \in Threads
          PROVE  /\ thread'[u].n \in 1 .. MaxWrites
                 /\ thread'[u].today \in Nat /\ thread'[u].today <= day
                 /\ thread'[u].stage = "copy" => thread'[u].about.mtime \in Nat
      <3>1. CASE u = t
        BY <1>5, <2>1, <3>1
      <3>2. CASE u # t
        BY <1>0, <1>6, <3>2 DEF DaysTyped
      <3>. QED
        BY <3>1, <3>2
    <2>. QED
      BY <1>0, <1>1, <2>1, <2>2 DEF DaysTyped
  <1>8. AgesKept'
    <2>1. \A u \in Threads :
            thread'[u].stage \in {"copy", "rename"} /\ thread'[u].source.kind = "raw"
            /\ thread'[u].about.full => thread'[u].about.mtime = born[thread'[u].source.n]
      BY <1>0, <1>5, <1>6 DEF AgesKept
    <2>. QED
      BY <1>0, <1>1, <2>1 DEF AgesKept
  <1>9. Undisturbed(t)'
    <2>. SUFFICES ASSUME thread'[t].alone
                  PROVE  /\ \A u \in Threads \ {t} : ~ Busy(u)'
                         /\ DOMAIN files' \subseteq thread'[t].todo
      BY <1>5 DEF Undisturbed
    <2>1. names = DOMAIN files /\ \A v \in Threads \ {t} : thread[v].stage = "idle"
      BY <1>5 DEF alone
    <2>. QED
      BY <1>1, <1>5, <1>6, <2>1 DEF Busy
  <1>10. \A u \in Threads \ {t} : Undisturbed(u)'
    BY <1>6 DEF Undisturbed
  <1>11. \A u \in Threads : Undisturbed(u)'
    BY <1>9, <1>10
  <1>. QED
    BY <1>7, <1>8, <1>11 DEF AgeInv

\* Time passes, or a payload is not even begun.
LEMMA AgeQuiet ==
    ASSUME AgeInv, files' = files, thread' = thread, born' = born,
           day' \in {day, day + 1}, writes' = writes \/ (writes < MaxWrites /\ writes' = writes + 1)
    PROVE  AgeInv'
  <1>0. DaysTyped /\ AgesKept /\ \A t \in Threads : Undisturbed(t)
    BY DEF AgeInv
  <1>1. DaysTyped'
    <2>1. writes' \in 1 .. MaxWrites /\ day \in Nat /\ day' \in Nat /\ day <= day'
      BY <1>0, StoreAssumption DEF DaysTyped
    <2>2. \A t \in Threads : thread[t].today \in Nat /\ thread[t].today <= day'
      BY <1>0, <2>1 DEF DaysTyped
    <2>. QED
      BY <1>0, <2>1, <2>2 DEF DaysTyped
  <1>2. AgesKept'
    BY <1>0 DEF AgesKept
  <1>3. \A t \in Threads : Undisturbed(t)'
    BY <1>0 DEF Undisturbed, Young, Busy
  <1>. QED
    BY <1>1, <1>2, <1>3 DEF AgeInv

LEMMA AgeCrash ==
    ASSUME StoreInv, AgeInv, ProcessDies
    PROVE  AgeInv'
  <1>0. StoreTyped /\ DaysTyped /\ AgesKept
    BY DEF StoreInv, AgeInv
  <1>. DEFINE orphan(f) == [f EXCEPT !.owner = Nobody]
  <1>. DEFINE before(f) == IF f \in DOMAIN files THEN files[f] ELSE [mtime |-> day, full |-> FALSE]
  <1>. DEFINE rest(gone, partial) ==
                (DOMAIN files \ gone) \cup {Raw(thread[t].n) : t \in partial}
  <1>1. PICK gone \in {{}} \cup {{f} : f \in UNION {Removing(t) : t \in Threads}},
             partial \in SUBSET {t \in Threads : thread[t].stage = "write"} :
          files' = [o \in {orphan(f) : f \in rest(gone, partial)} |->
                      before(CHOOSE f \in rest(gone, partial) : orphan(f) = o)]
    BY DEF ProcessDies
  <1>. DEFINE kept == rest(gone, partial)
  <1>2. /\ thread' = [t \in Threads |-> Idle]
        /\ writes' = writes /\ day' = day /\ born' = born
    BY DEF ProcessDies
  <1>3. ASSUME NEW f \in kept
        PROVE  orphan(f).n = f.n /\ orphan(f).kind = f.kind
    <2>1. f \in DOMAIN files \/ \E t \in partial : f = Raw(thread[t].n)
      OBVIOUS
    <2>2. DOMAIN f = {"n", "kind", "owner"}
      BY <1>0, <2>1 DEF StoreTyped, WellNamed, Raw
    <2>. QED
      BY <2>2
  <1>4. /\ DOMAIN files' = {orphan(f) : f \in kept}
        /\ \A o \in DOMAIN files' : files'[o] = before(CHOOSE f \in kept : orphan(f) = o)
    BY <1>1
  <1>. HIDE DEF kept, orphan
  <1>5. \A o \in DOMAIN files' : \E f \in kept : orphan(f) = o /\ files'[o] = before(f)
    BY <1>4
  <1>6. \A f : f \notin DOMAIN files => before(f).mtime = day /\ ~ before(f).full
    OBVIOUS
  <1>7. \A f \in DOMAIN files : before(f) = files[f]
    OBVIOUS
  <1>. HIDE DEF before
  <1>8. /\ Idle.n = 1 /\ Idle.stage = "idle" /\ Idle.today = 0
        /\ Idle.alone = FALSE
    BY DEF Idle
  <1>9. \A t \in Threads : thread'[t] = Idle
    BY <1>2
  <1>10. DaysTyped'
    <2>1. 1 \in 1 .. MaxWrites /\ day \in Nat
      BY <1>0, StoreAssumption DEF DaysTyped
    <2>2. \A o \in DOMAIN files' : files'[o].mtime \in Nat
      BY <1>0, <1>5, <1>6, <1>7 DEF DaysTyped
    <2>. QED
      BY <1>0, <1>2, <1>8, <1>9, <2>1, <2>2 DEF DaysTyped
  <1>11. AgesKept'
    <2>1. ASSUME NEW o \in DOMAIN files', o.kind \in {"raw", "zip"}, files'[o].full
          PROVE  files'[o].mtime = born[o.n]
      <3>1. PICK f \in kept : orphan(f) = o /\ files'[o] = before(f)
        BY <1>5
      <3>2. f.n = o.n /\ f.kind = o.kind
        BY <1>3, <3>1
      <3>3. f \in DOMAIN files
        BY <1>6, <2>1, <3>1
      <3>. QED
        BY <1>0, <1>7, <2>1, <3>1, <3>2, <3>3 DEF AgesKept
    <2>. QED
      BY <1>2, <1>8, <1>9, <2>1 DEF AgesKept
  <1>12. \A t \in Threads : Undisturbed(t)'
    BY <1>8, <1>9 DEF Undisturbed
  <1>. QED
    BY <1>10, <1>11, <1>12 DEF AgeInv

LEMMA AgeNext == StoreInv /\ AgeInv /\ [StoreNext]_storeVars => AgeInv'
  <1>. SUFFICES ASSUME StoreInv, AgeInv, [StoreNext]_storeVars PROVE AgeInv'
    OBVIOUS
  <1>1. CASE \E t \in Threads :
               \/ Start(t)
               \/ \E f \in Names : DeleteOld(t, f) \/ DeleteFails(t, f)
               \/ Deleted(t)
    BY <1>1, AgeStart, AgeDelete, AgeDeleted
  <1>2. CASE \E t \in Threads :
               \/ \E f \in Names : OpenTemp(t, f)
               \/ Copy(t) \/ Rename(t) \/ CompressFails(t)
               \/ DropSource(t) \/ DropFails(t)
    BY <1>2, AgeOpenTemp, AgeCopy, AgeRename, AgeDrop
  <1>3. CASE \E t \in Threads :
               \/ Compressed(t) \/ EnoughSpace(t) \/ TooLittleSpace(t)
               \/ \E f \in Names : Evict(t, f) \/ EvictFails(t, f)
               \/ NothingToEvict(t)
    BY <1>3, AgeSpace
  <1>4. CASE \E t \in Threads : Write(t) \/ WriteFails(t)
    BY <1>4, AgeWrite
  <1>5. CASE NextDay \/ \E t \in Threads : StartFails(t)
    <2>1. /\ files' = files /\ thread' = thread /\ born' = born /\ day' \in {day, day + 1}
          /\ writes' = writes \/ (writes < MaxWrites /\ writes' = writes + 1)
      BY <1>5 DEF NextDay, StartFails, history
    <2>. QED
      BY <2>1, AgeQuiet
  <1>6. CASE ProcessDies
    BY <1>6, AgeCrash
  <1>7. CASE UNCHANGED storeVars
    <2>1. files' = files /\ thread' = thread /\ born' = born /\ day' = day /\ writes' = writes
      BY <1>7 DEF storeVars, history
    <2>. QED
      BY <2>1, AgeQuiet
  <1>. QED
    BY <1>1, <1>2, <1>3, <1>4, <1>5, <1>6, <1>7 DEF StoreNext

LEMMA AgeImplies == AgeInv => RetentionHolds
  <1>. SUFFICES ASSUME AgeInv, NEW t \in Threads, thread[t].stage = "write", thread[t].alone,
                       DeleteAfterDays > 0, NEW n \in 1 .. MaxWrites, Copies(n) # {}
                PROVE  thread[t].today - born[n] <= DeleteAfterDays
    BY DEF RetentionHolds
  <1>1. PICK f \in {Raw(n), Zip(n)} \cap DOMAIN files : files[f].full
    BY DEF Copies
  <1>2. f.n = n /\ f.kind \in {"raw", "zip"}
    BY StoreNames
  <1>3. files[f].mtime = born[n]
    BY <1>1, <1>2 DEF AgeInv, AgesKept
  <1>4. Young(t, files[f])
    BY <1>1 DEF AgeInv, Undisturbed
  <1>. QED
    BY <1>3, <1>4 DEF Young

\* Once a thread has had the directory to itself for a pass, no payload in it is
\* older than the retention, compressed or not.
THEOREM RetentionIsKept == StoreSpec => []RetentionHolds
  BY StoreInvInit, StoreInvNext, AgeInit, AgeNext, AgeImplies, PTL DEF StoreSpec
=============================================================================
