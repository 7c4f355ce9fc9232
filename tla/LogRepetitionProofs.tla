------------------------- MODULE LogRepetitionProofs -------------------------
(***************************************************************************)
(* What the application log guarantees for every cache size, interval,      *)
(* anchor interval, set of certificates and set of records that cannot be   *)
(* written.                                                                 *)
(*                                                                         *)
(* The argument has two halves.  The cache: an entry that has nothing to    *)
(* report was seen no later than it was reported, so a timer set for it     *)
(* also suits its next report.  The output: it is in the order of the       *)
(* numbers; the records of the open window are the numbers given out since  *)
(* it was opened, without the lost ones; and the value that the next record *)
(* is chained to is that of the last chained record if nothing was lost     *)
(* since.  Both survive every operation that writes a record or starts the  *)
(* chain again.  One step writes any number of records, so the second half  *)
(* rests on an induction over the number of records, which takes the        *)
(* smallest number that fails.                                              *)
(***************************************************************************)
EXTENDS LogRepetition, FiniteSetTheorems, WellFoundedInduction, TLAPS

-----------------------------------------------------------------------------
(* The inductive invariant of the cache.                                   *)

Entries == [count : Nat, lastEmitted : Nat, lastSeen : Nat]

CacheType ==
    /\ DOMAIN repetitions \subseteq Messages
    /\ IsFiniteSet(DOMAIN repetitions)
    /\ \A m \in DOMAIN repetitions : repetitions[m] \in Entries
    /\ timer \in Nat \cup {NoTimer}
    /\ interval \in Nat /\ now \in Nat
    /\ calls \in [Messages -> Nat] /\ reported \in [Messages -> Nat]

\* An entry with nothing to report was seen no later than it was reported, and
\* both were in the past.
SeenWhenReported ==
    \A m \in DOMAIN repetitions :
       /\ repetitions[m].lastSeen <= now /\ repetitions[m].lastEmitted <= now
       /\ repetitions[m].count = 0 => repetitions[m].lastSeen <= repetitions[m].lastEmitted

\* The timer suits every entry, whether it waits or not.
TimerSuits ==
    /\ timer # NoTimer => timer <= now + interval
    /\ \A m \in DOMAIN repetitions :
         timer # NoTimer /\ timer <= repetitions[m].lastEmitted + interval

CacheInv ==
    /\ CacheType
    /\ SeenWhenReported
    /\ TimerSuits
    /\ \A m \in Messages : calls[m] = reported[m] + Waiting(repetitions, m)
    /\ ~Alive => DOMAIN repetitions = {}

-----------------------------------------------------------------------------
(* The inductive invariant of the output, of an integrity state s.         *)

Keys == {NoKey, BadSign} \cup {KeyOf[c] : c \in Certs}
Bodies == [kind : {"event", "anchor", "announcement"}, key : Keys]
Items == {"genesis"} \cup Algorithms \cup (Nat \X Bodies)
Statements ==
    {<<>>} \cup (Algorithms \X Nat \X Nat \X Nat \X Nat \X Seq(Items) \X Seq(Items))
Anchors == [from : Nat, to : Nat, key : Keys, statement : Statements]
Records ==
    [seq : Nat, algorithm : Algorithms, body : Bodies, chained : BOOLEAN, segment : Nat,
     window : Nat, prev : Seq(Items), chain : Seq(Items), restart : BOOLEAN, anchor : Anchors]

Fields ==
    {"algorithm", "chainLen", "seq", "chain", "sinceAnchor", "anchorFrom", "restartPending",
     "signer", "segmentID", "windowID", "lost", "written"}

Typed(s) ==
    /\ DOMAIN s = Fields
    /\ s.algorithm \in Algorithms /\ s.chainLen \in Nat
    /\ s.seq \in Nat /\ s.anchorFrom \in Nat /\ s.sinceAnchor \in Nat
    /\ s.segmentID \in Nat /\ s.windowID \in Nat
    /\ s.chain \in Seq(Items)
    /\ s.signer \in Certs \cup {NoCert}
    /\ s.written \in Seq(Records)

\* The output is in the order of the numbers, which are below the next one.
Ordered(s) ==
    /\ \A i \in DOMAIN s.written : s.written[i].seq < s.seq /\ s.written[i].seq \notin s.lost
    /\ \A i, j \in DOMAIN s.written : i < j => s.written[i].seq < s.written[j].seq

\* A record inside a chain has an earlier one's hash, and a window; one outside
\* has none.
RecordsFormed(s) ==
    \A i \in DOMAIN s.written :
       LET r == s.written[i] IN
       /\ r.chained => /\ r.window \in 1 .. s.windowID
                       /\ Len(r.prev) >= 2
                       /\ r.chain = Append(r.prev, <<r.seq, r.body>>)
       /\ ~r.chained => r.window = 0 /\ ~Signed(r) /\ ~r.restart

\* After a reset the chain holds only its beginning, and a chain that has not
\* been used since the last reset says so.
StateFormed(s) ==
    /\ s.algorithm # NoAlg => Len(s.chain) >= 2
    /\ s.restartPending => Len(s.chain) <= 2
    /\ s.algorithm # NoAlg /\ s.chainLen = 0 => s.restartPending
    /\ chainingEnabled(s) => s.windowID >= 1
    /\ s.anchorFrom <= s.seq

\* The records of the window that is open are the numbers since it was opened.
OpenWindow(s) ==
    chainingEnabled(s) =>
      /\ \A i \in DOMAIN s.written :
           s.written[i].window = s.windowID =>
             /\ s.anchorFrom <= s.written[i].seq
             /\ s.written[i].segment = s.segmentID
             /\ s.written[i].algorithm = s.algorithm
             /\ s.written[i].seq + 1 = s.seq => s.written[i].chain = s.chain
      /\ \A q \in s.anchorFrom .. s.seq - 1 :
           q \in s.lost
             \/ \E i \in DOMAIN s.written : s.written[i].seq = q /\ s.written[i].window = s.windowID

\* Records of one window with successive numbers are linked.
Linked(s) ==
    \A i, j \in DOMAIN s.written :
       /\ s.written[i].chained /\ s.written[i].window = s.written[j].window
       /\ s.written[j].seq = s.written[i].seq + 1
       => s.written[j].prev = s.written[i].chain

\* The window of a signed anchor is closed, and is the numbers the anchor says.
Closed(s, a) ==
    /\ a.chained /\ a.window < s.windowID
    /\ a.body.kind = "anchor"
    /\ a.anchor.from <= a.seq /\ a.anchor.to = a.seq
    /\ a.anchor.statement = Statement(a, a.anchor.from, a.anchor.to)
    /\ \A j \in DOMAIN s.written :
         s.written[j].window = a.window =>
           /\ s.written[j].seq \in a.anchor.from .. a.anchor.to
           /\ s.written[j].segment = a.segment
           /\ s.written[j].algorithm = a.algorithm
    /\ \A q \in a.anchor.from .. a.anchor.to :
         q \in s.lost
           \/ \E j \in DOMAIN s.written : s.written[j].seq = q /\ s.written[j].window = a.window

ClosedWindows(s) ==
    \A i \in DOMAIN s.written : Signed(s.written[i]) => Closed(s, s.written[i])

ChainedIn(s) == {i \in DOMAIN s.written : s.written[i].chained}
SignedIn(s) == {i \in DOMAIN s.written : Signed(s.written[i])}

NoneLost(s, from, to) == (from .. to) \cap s.lost = {}

\* What BreaksAreDeclared says of two records.
Declared(s, q, r) ==
    /\ q.seq < r.seq
    /\ r.restart => r.prev # q.chain
    /\ ~r.restart => (r.prev = q.chain <=> NoneLost(s, q.seq + 1, r.seq - 1))

\* The next record will be chained to the last one in the output if there is
\* neither a loss nor a restart between them.
BreaksInv(s) ==
    /\ \A i, j \in ChainedIn(s) :
         Follows(ChainedIn(s), i, j) => Declared(s, s.written[i], s.written[j])
    /\ \A i \in ChainedIn(s) :
         (\A k \in ChainedIn(s) : k <= i) /\ ~s.restartPending =>
           (s.chain = s.written[i].chain <=> NoneLost(s, s.written[i].seq + 1, s.seq - 1))

\* What KeysAuthenticated says of the change from the key of an anchor to another.
Announced(s, a, key, to) ==
    \/ a.anchor.key = key
    \/ ~NoneLost(s, a.anchor.from, to)
    \/ \E k \in DOMAIN s.written :
         /\ s.written[k].body = [kind |-> "announcement", key |-> key]
         /\ s.written[k].window = a.window

\* The key in use is that of the last anchor, or its change is accounted for.
KeysInv(s, at) ==
    /\ s.signer = NoCert => SignedIn(s) = {}
    /\ at # NotStarted =>
         /\ \A i, j \in SignedIn(s) :
              Follows(SignedIn(s), i, j) /\ s.written[i].seq >= at =>
                Announced(s, s.written[i], s.written[j].anchor.key, s.written[j].seq)
         /\ \A i \in SignedIn(s) :
              (\A k \in SignedIn(s) : k <= i) /\ s.written[i].seq >= at =>
                Announced(s, s.written[i], KeyOf[s.signer], s.seq - 1)

\* Everything but the keys.
ChainInv(s) ==
    /\ Typed(s)
    /\ Ordered(s) /\ RecordsFormed(s) /\ StateFormed(s)
    /\ OpenWindow(s) /\ Linked(s) /\ ClosedWindows(s)
    /\ BreaksInv(s)

LogInv ==
    /\ CacheInv
    /\ ChainInv(integrity)
    /\ KeysInv(integrity, startedAt)
    /\ phase = "starting" => startedAt = NotStarted

-----------------------------------------------------------------------------
(* The cache.                                                              *)

\* A set of naturals that is not empty has a smallest element.
LEMMA SmallestNumber ==
    ASSUME NEW S, S \subseteq Nat, S # {}
    PROVE  \E d \in S : \A e \in S : d <= e
  <1>1. PICK x \in S : \A y \in S : ~(<<y, x>> \in OpToRel(<, Nat))
    BY WFMin, NatLessThanWellFounded
  <1>2. ASSUME NEW y \in S
        PROVE  x <= y
    <2>1. x \in Nat /\ y \in Nat
      OBVIOUS
    <2>2. y < x => <<y, x>> \in OpToRel(<, Nat)
      BY <2>1 DEF OpToRel
    <2>3. ~(y < x)
      BY <1>1, <2>2
    <2>. QED
      BY <2>1, <2>3
  <1>. QED
    BY <1>2

\* The timer is set for no later than any entry is due, and no later than an
\* interval from now.
LEMMA TimerIsEarliest ==
    ASSUME NEW r, \A m \in DOMAIN r : r[m] \in Entries,
           interval \in Nat, now \in Nat, DOMAIN r # {}
    PROVE  LET t == scheduleRepeatTimer(NoTimer, r) IN
           /\ t \in Nat
           /\ t <= now + interval
           /\ \A m \in DOMAIN r : t <= Due(r[m])
  <1>. DEFINE dues == {Due(r[m]) : m \in DOMAIN r} \cup {now + interval}
  <1>1. \A m \in DOMAIN r : Due(r[m]) \in Nat
    BY DEF Due, Entries
  <1>2. dues \subseteq Nat /\ dues # {}
    BY <1>1
  <1>. HIDE DEF dues
  <1>3. \E d \in dues : \A e \in dues : d <= e
    BY <1>2, SmallestNumber
  <1>. DEFINE t == CHOOSE d \in dues : \A e \in dues : d <= e
  <1>4. t \in dues /\ \A e \in dues : t <= e
    BY <1>3
  <1>5. t = scheduleRepeatTimer(NoTimer, r)
    BY DEF scheduleRepeatTimer, dues
  <1>. HIDE DEF t
  <1>6. t \in Nat
    BY <1>2, <1>4
  <1>7. now + interval \in dues /\ \A m \in DOMAIN r : Due(r[m]) \in dues
    BY DEF dues
  <1>8. t <= now + interval /\ \A m \in DOMAIN r : t <= Due(r[m])
    BY <1>4, <1>7
  <1>. QED
    BY <1>5, <1>6, <1>8

\* What a rescheduled timer has to be after a step that leaves the entries r.
Suits(t, r) ==
    /\ t \in Nat \cup {NoTimer}
    /\ t # NoTimer => t <= now + interval
    /\ \A m \in DOMAIN r : t # NoTimer /\ t <= r[m].lastEmitted + interval

\* A timer suits the entries it is set for.
LEMMA NewTimerSuits ==
    ASSUME NEW r, \A m \in DOMAIN r : r[m] \in Entries,
           \A m \in DOMAIN r : r[m].count = 0 => r[m].lastSeen <= r[m].lastEmitted,
           interval \in Nat, now \in Nat
    PROVE  Suits(scheduleRepeatTimer(NoTimer, r), r)
  <1>1. CASE DOMAIN r = {}
    BY <1>1 DEF Suits, scheduleRepeatTimer, NoTimer
  <1>2. CASE DOMAIN r # {}
    <2>. DEFINE t == scheduleRepeatTimer(NoTimer, r)
    <2>1. /\ t \in Nat
          /\ t <= now + interval
          /\ \A m \in DOMAIN r : t <= Due(r[m])
      BY <1>2, TimerIsEarliest
    <2>. HIDE DEF t
    <2>2. ASSUME NEW m \in DOMAIN r
          PROVE  t <= r[m].lastEmitted + interval
      <3>1. t <= Due(r[m]) /\ r[m] \in Entries
        BY <2>1
      <3>2. r[m].count \in Nat /\ r[m].lastSeen \in Nat /\ r[m].lastEmitted \in Nat
        BY <3>1 DEF Entries
      <3>3. CASE r[m].count = 0
        BY <2>1, <3>1, <3>2, <3>3 DEF Due
      <3>4. CASE r[m].count # 0
        BY <2>1, <3>1, <3>2, <3>4 DEF Due
      <3>. QED
        BY <3>3, <3>4
    <2>3. t # NoTimer
      BY <2>1 DEF NoTimer
    <2>4. Suits(t, r)
      BY <2>1, <2>2, <2>3 DEF Suits
    <2>. QED
      BY <2>4 DEF t
  <1>. QED
    BY <1>1, <1>2

\* A timer that runs suits the entries it suited, however they were reported
\* since, and the entries of now.
LEMMA OldTimerSuits ==
    ASSUME NEW r, NEW u, NEW t, Suits(t, r),
           interval \in Nat, now \in Nat,
           \A m \in DOMAIN u : u[m] \in Entries,
           \A m \in DOMAIN u :
              \/ u[m].lastEmitted = now
              \/ m \in DOMAIN r /\ u[m].lastEmitted = r[m].lastEmitted,
           \A m \in DOMAIN u : u[m].count = 0 => u[m].lastSeen <= u[m].lastEmitted
    PROVE  Suits(scheduleRepeatTimer(t, u), u)
  <1>1. CASE t = NoTimer
    BY <1>1, NewTimerSuits
  <1>2. CASE t # NoTimer
    <2>1. scheduleRepeatTimer(t, u) = t
      BY <1>2 DEF scheduleRepeatTimer
    <2>2. Suits(t, u)
      BY <1>2 DEF Suits
    <2>. QED
      BY <2>1, <2>2
  <1>. QED
    BY <1>1, <1>2

\* What a step of the cache has to establish, with the clock as it is: the new
\* entries u are accounted for by the new calls c and reports p.
Kept(u, c, p) ==
    /\ DOMAIN u \subseteq Messages
    /\ IsFiniteSet(DOMAIN u)
    /\ \A m \in DOMAIN u : u[m] \in Entries
    /\ \A m \in DOMAIN u :
         /\ u[m].lastSeen <= now /\ u[m].lastEmitted <= now
         /\ u[m].count = 0 => u[m].lastSeen <= u[m].lastEmitted
    /\ c \in [Messages -> Nat] /\ p \in [Messages -> Nat]
    /\ \A m \in Messages : c[m] = p[m] + Waiting(u, m)

\* The parts of the invariant, put together again.
LEMMA CacheStep ==
    ASSUME CacheInv, now' = now, interval' = interval,
           Kept(repetitions', calls', reported'), Suits(timer', repetitions'),
           ~Alive' => DOMAIN repetitions' = {}
    PROVE  CacheInv'
  <1>1. interval \in Nat /\ now \in Nat
    BY DEF CacheInv, CacheType
  <1>2. CacheType'
    BY <1>1 DEF CacheType, Kept, Suits
  <1>3. SeenWhenReported'
    BY DEF SeenWhenReported, Kept
  <1>4. TimerSuits'
    BY DEF TimerSuits, Suits
  <1>5. \A m \in Messages : calls'[m] = reported'[m] + Waiting(repetitions', m)
    BY DEF Kept
  <1>. QED
    BY <1>2, <1>3, <1>4, <1>5 DEF CacheInv, Waiting

\* The invariant says so of the present entries.
LEMMA CacheNow ==
    ASSUME CacheInv
    PROVE  /\ Kept(repetitions, calls, reported)
           /\ Suits(timer, repetitions)
           /\ interval \in Nat /\ now \in Nat
  BY DEF CacheInv, CacheType, SeenWhenReported, TimerSuits, Kept, Suits

\* A cache without entries needs no timer.
LEMMA EmptySuits == Suits(NoTimer, <<>>)
  BY DEF Suits, NoTimer

\* An entry after its report.
LEMMA FlushedEntry ==
    ASSUME NEW e \in Entries, NEW d \in Nat
    PROVE  LET f == [e EXCEPT !.count = 0, !.lastEmitted = d] IN
           f \in Entries /\ f.count = 0 /\ f.lastEmitted = d /\ f.lastSeen = e.lastSeen
  BY DEF Entries

\* What flushing does to each entry.
LEMMA FlushShape ==
    ASSUME NEW u, NEW K, \A m \in DOMAIN u : u[m] \in Entries, now \in Nat
    PROVE  LET v == flushRepetition(u, K) IN
           /\ DOMAIN v = DOMAIN u
           /\ \A m \in DOMAIN u :
                /\ v[m] \in Entries /\ v[m].lastSeen = u[m].lastSeen
                /\ IF m \in K /\ u[m].count > 0 THEN v[m].count = 0 /\ v[m].lastEmitted = now
                                               ELSE v[m] = u[m]
  <1>. DEFINE v == flushRepetition(u, K)
  <1>1. \A m \in DOMAIN u :
          /\ v[m] \in Entries /\ v[m].lastSeen = u[m].lastSeen
          /\ IF m \in K /\ u[m].count > 0 THEN v[m].count = 0 /\ v[m].lastEmitted = now
                                         ELSE v[m] = u[m]
    <2>. TAKE m \in DOMAIN u
    <2>. DEFINE f == [u[m] EXCEPT !.count = 0, !.lastEmitted = now]
    <2>1. v[m] = IF m \in K /\ u[m].count > 0 THEN f ELSE u[m]
      BY DEF flushRepetition, ToFlush
    <2>2. u[m] \in Entries
      OBVIOUS
    <2>3. f \in Entries /\ f.count = 0 /\ f.lastEmitted = now /\ f.lastSeen = u[m].lastSeen
      BY <2>2, FlushedEntry
    <2>. HIDE DEF f
    <2>. QED
      BY <2>1, <2>2, <2>3
  <1>2. DOMAIN v = DOMAIN u
    BY DEF flushRepetition
  <1>. QED
    BY <1>1, <1>2

\* Flushing the messages K keeps the entries, and their counts go to the report.
LEMMA FlushKeeps ==
    ASSUME NEW u, NEW c, NEW p, NEW K, Kept(u, c, p), now \in Nat
    PROVE  LET q == [m \in Messages |-> p[m] + IF m \in K THEN Waiting(u, m) ELSE 0]
           IN  Kept(flushRepetition(u, K), c, q)
  <1>. DEFINE v == flushRepetition(u, K)
              q == [m \in Messages |-> p[m] + IF m \in K THEN Waiting(u, m) ELSE 0]
  <1>1. \A m \in DOMAIN u : u[m] \in Entries
    BY DEF Kept
  <1>2. \A m \in DOMAIN u :
          /\ v[m] \in Entries /\ v[m].lastSeen = u[m].lastSeen
          /\ IF m \in K /\ u[m].count > 0 THEN v[m].count = 0 /\ v[m].lastEmitted = now
                                         ELSE v[m] = u[m]
    BY <1>1, FlushShape
  <1>3. DOMAIN v = DOMAIN u
    BY <1>1, FlushShape
  <1>. HIDE DEF v
  <1>4. \A m \in DOMAIN v : v[m] \in Entries
    BY <1>2, <1>3
  <1>5. \A m \in DOMAIN v :
          /\ v[m].lastSeen <= now /\ v[m].lastEmitted <= now
          /\ v[m].count = 0 => v[m].lastSeen <= v[m].lastEmitted
    BY <1>1, <1>2, <1>3 DEF Kept, Entries
  <1>6. \A m \in Messages : Waiting(u, m) \in Nat
    BY <1>1 DEF Waiting, Entries
  <1>7. q \in [Messages -> Nat]
    BY <1>6 DEF Kept
  <1>8. ASSUME NEW m \in Messages
        PROVE  c[m] = q[m] + Waiting(v, m)
    <2>1. c[m] = p[m] + Waiting(u, m) /\ c[m] \in Nat /\ p[m] \in Nat
      BY DEF Kept
    <2>2. CASE m \notin DOMAIN u
      BY <1>3, <2>1, <2>2 DEF Waiting
    <2>3. CASE m \in DOMAIN u /\ m \in K
      <3>1. Waiting(u, m) = u[m].count /\ u[m].count \in Nat
        BY <1>1, <2>3 DEF Waiting, Entries
      <3>2. Waiting(v, m) = 0
        BY <1>2, <1>3, <2>3, <3>1 DEF Waiting
      <3>3. q[m] = p[m] + Waiting(u, m)
        BY <2>3
      <3>. QED
        BY <2>1, <3>1, <3>2, <3>3
    <2>4. CASE m \in DOMAIN u /\ m \notin K
      <3>1. Waiting(v, m) = Waiting(u, m)
        BY <1>2, <1>3, <2>4 DEF Waiting
      <3>2. q[m] = p[m] + 0
        BY <2>4
      <3>. QED
        BY <1>6, <2>1, <3>1, <3>2
    <2>. QED
      BY <2>2, <2>3, <2>4
  <1>. HIDE DEF q
  <1>9. Kept(v, c, q)
    BY <1>3, <1>4, <1>5, <1>7, <1>8 DEF Kept
  <1>. QED
    BY <1>9 DEF v, q

\* Entries that have nothing to report may be forgotten.
LEMMA ForgetKeeps ==
    ASSUME NEW u, NEW c, NEW p, NEW K, Kept(u, c, p),
           \A m \in K \cap DOMAIN u : u[m].count = 0
    PROVE  Kept(Without(u, K), c, p)
  <1>. DEFINE v == Without(u, K)
  <1>1. DOMAIN v = DOMAIN u \ K /\ \A m \in DOMAIN v : v[m] = u[m]
    BY DEF Without
  <1>. HIDE DEF v
  <1>2. IsFiniteSet(DOMAIN v)
    BY <1>1, FS_Subset DEF Kept
  <1>3. \A m \in Messages : Waiting(v, m) = Waiting(u, m)
    BY <1>1 DEF Waiting
  <1>4. Kept(v, c, p)
    BY <1>1, <1>2, <1>3 DEF Kept
  <1>. QED
    BY <1>4 DEF v

\* A call that is written at once is accounted for.
LEMMA CallKeeps ==
    ASSUME NEW u, NEW c, NEW p, NEW m \in Messages, Kept(u, c, p)
    PROVE  Kept(u, [c EXCEPT ![m] = @ + 1], [p EXCEPT ![m] = @ + 1])
  <1>. DEFINE d == [c EXCEPT ![m] = @ + 1]
              q == [p EXCEPT ![m] = @ + 1]
  <1>1. c \in [Messages -> Nat] /\ p \in [Messages -> Nat]
    BY DEF Kept
  <1>2. d \in [Messages -> Nat] /\ q \in [Messages -> Nat]
    BY <1>1
  <1>3. \A k \in Messages : d[k] = (IF k = m THEN c[k] + 1 ELSE c[k])
                            /\ q[k] = (IF k = m THEN p[k] + 1 ELSE p[k])
    BY <1>1
  <1>. HIDE DEF d, q
  <1>4. \A k \in Messages : Waiting(u, k) \in Nat
    BY DEF Kept, Waiting, Entries
  <1>5. \A k \in Messages : d[k] = q[k] + Waiting(u, k)
    BY <1>1, <1>3, <1>4 DEF Kept
  <1>6. Kept(u, d, q)
    BY <1>2, <1>5 DEF Kept
  <1>. QED
    BY <1>6 DEF d, q

\* A new entry has nothing to report.
LEMMA NewEntryKeeps ==
    ASSUME NEW u, NEW c, NEW p, NEW m \in Messages, Kept(u, c, p), m \notin DOMAIN u, now \in Nat
    PROVE  Kept(With(u, m, [count |-> 0, lastEmitted |-> now, lastSeen |-> now]), c, p)
  <1>. DEFINE entry == [count |-> 0, lastEmitted |-> now, lastSeen |-> now]
              v == With(u, m, entry)
  <1>1. entry \in Entries /\ entry.count = 0 /\ entry.lastSeen <= entry.lastEmitted
        /\ entry.lastSeen <= now /\ entry.lastEmitted <= now
    BY DEF Entries
  <1>. HIDE DEF entry
  <1>2. /\ DOMAIN v = DOMAIN u \cup {m}
        /\ v[m] = entry
        /\ \A k \in DOMAIN u : v[k] = u[k]
    BY DEF With
  <1>. HIDE DEF v
  <1>3. IsFiniteSet(DOMAIN v)
    BY <1>2, FS_AddElement DEF Kept
  <1>4. \A k \in DOMAIN v : v[k] \in Entries
    BY <1>1, <1>2 DEF Kept
  <1>5. \A k \in DOMAIN v :
          /\ v[k].lastSeen <= now /\ v[k].lastEmitted <= now
          /\ v[k].count = 0 => v[k].lastSeen <= v[k].lastEmitted
    BY <1>1, <1>2 DEF Kept
  <1>6. \A k \in Messages : Waiting(v, k) = Waiting(u, k)
    BY <1>1, <1>2 DEF Waiting
  <1>7. Kept(v, c, p)
    BY <1>2, <1>3, <1>4, <1>5, <1>6 DEF Kept
  <1>. QED
    BY <1>7 DEF v, entry

\* The entries K leave the cache after their report.
LEMMA LeaveKeeps ==
    ASSUME NEW u, NEW c, NEW p, NEW K, Kept(u, c, p), now \in Nat
    PROVE  LET F == ToFlush(u, K)
               q == [m \in Messages |-> p[m] + IF m \in F THEN Waiting(u, m) ELSE 0]
           IN  Kept(Without(u, K), c, q)
  <1>. DEFINE F == ToFlush(u, K)
              q == [m \in Messages |-> p[m] + IF m \in F THEN Waiting(u, m) ELSE 0]
              v == flushRepetition(u, F)
  <1>0. \A m \in DOMAIN u : u[m] \in Entries
    BY DEF Kept
  <1>1. \A m \in DOMAIN u : m \in F <=> m \in K /\ u[m].count > 0
    BY DEF ToFlush
  <1>. HIDE DEF F
  <1>2. Kept(v, c, q)
    BY FlushKeeps
  <1>. HIDE DEF q
  <1>3. /\ DOMAIN v = DOMAIN u
        /\ \A m \in DOMAIN u : IF m \in F /\ u[m].count > 0 THEN v[m].count = 0 ELSE v[m] = u[m]
    BY <1>0, FlushShape
  <1>. HIDE DEF v
  <1>4. \A m \in DOMAIN u : u[m].count \in Nat
    BY <1>0 DEF Entries
  <1>5. \A m \in K \cap DOMAIN v : v[m].count = 0
    BY <1>1, <1>3, <1>4
  <1>6. Kept(Without(v, K), c, q)
    BY <1>2, <1>5, ForgetKeeps
  <1>7. \A m \in DOMAIN u \ K : v[m] = u[m]
    BY <1>1, <1>3
  <1>8. Without(v, K) = Without(u, K)
    BY <1>3, <1>7 DEF Without
  <1>9. Kept(Without(u, K), c, q)
    BY <1>6, <1>8
  <1>. QED
    BY <1>9 DEF q, F

\* Nothing is left of a cache that is reset.
LEMMA NothingLeft ==
    ASSUME NEW u, NEW c, NEW p, Kept(Without(u, DOMAIN u), c, p)
    PROVE  Kept(<<>>, c, p)
  <1>1. DOMAIN Without(u, DOMAIN u) = {}
    BY DEF Without
  <1>2. DOMAIN <<>> = {}
    OBVIOUS
  <1>3. \A m : Waiting(Without(u, DOMAIN u), m) = Waiting(<<>>, m)
    BY <1>1, <1>2 DEF Waiting
  <1>4. IsFiniteSet(DOMAIN <<>>)
    BY <1>2, FS_EmptySet
  <1>. QED
    BY <1>1, <1>2, <1>3, <1>4 DEF Kept

\* A repeat is counted.
LEMMA CountedShape ==
    ASSUME NEW u, NEW m \in DOMAIN u, u[m] \in Entries, now \in Nat
    PROVE  LET v == [u EXCEPT ![m].count = @ + 1, ![m].lastSeen = now] IN
           /\ DOMAIN v = DOMAIN u
           /\ \A k \in DOMAIN u : k # m => v[k] = u[k]
           /\ v[m] \in Entries
           /\ v[m].count = u[m].count + 1
           /\ v[m].lastSeen = now /\ v[m].lastEmitted = u[m].lastEmitted
  <1>. DEFINE e == u[m]
              f == [e EXCEPT !.count = @ + 1]
              g == [f EXCEPT !.lastSeen = now]
              v == [u EXCEPT ![m].count = @ + 1, ![m].lastSeen = now]
  <1>1. /\ DOMAIN v = DOMAIN u
        /\ \A k \in DOMAIN u : k # m => v[k] = u[k]
        /\ v[m] = g
    OBVIOUS
  <1>. HIDE DEF v, e
  <1>2. e \in Entries
    BY DEF e
  <1>3. f \in Entries /\ f.count = e.count + 1 /\ f.lastEmitted = e.lastEmitted
    BY <1>2 DEF Entries
  <1>. HIDE DEF f
  <1>4. /\ g \in Entries /\ g.count = f.count
        /\ g.lastEmitted = f.lastEmitted /\ g.lastSeen = now
    BY <1>3 DEF Entries
  <1>. HIDE DEF g
  <1>. QED
    BY <1>1, <1>3, <1>4 DEF v, e

LEMMA CountedKeeps ==
    ASSUME NEW u, NEW c, NEW p, NEW m \in DOMAIN u, Kept(u, c, p), now \in Nat
    PROVE  Kept([u EXCEPT ![m].count = @ + 1, ![m].lastSeen = now], [c EXCEPT ![m] = @ + 1], p)
  <1>. DEFINE v == [u EXCEPT ![m].count = @ + 1, ![m].lastSeen = now]
              d == [c EXCEPT ![m] = @ + 1]
  <1>1. m \in Messages /\ u[m] \in Entries /\ c \in [Messages -> Nat] /\ p \in [Messages -> Nat]
    BY DEF Kept
  <1>2. /\ DOMAIN v = DOMAIN u
        /\ \A k \in DOMAIN u : k # m => v[k] = u[k]
        /\ v[m] \in Entries
        /\ v[m].count = u[m].count + 1
        /\ v[m].lastSeen = now /\ v[m].lastEmitted = u[m].lastEmitted
    BY <1>1, CountedShape
  <1>3. d \in [Messages -> Nat] /\ \A k \in Messages : d[k] = IF k = m THEN c[k] + 1 ELSE c[k]
    BY <1>1
  <1>. HIDE DEF v, d
  <1>4. u[m].count \in Nat /\ u[m].lastEmitted <= now
    BY <1>1 DEF Entries, Kept
  <1>5. \A k \in DOMAIN v : v[k] \in Entries
    BY <1>2 DEF Kept
  <1>6. \A k \in DOMAIN v :
          /\ v[k].lastSeen <= now /\ v[k].lastEmitted <= now
          /\ v[k].count = 0 => v[k].lastSeen <= v[k].lastEmitted
    <2>. TAKE k \in DOMAIN v
    <2>1. CASE k = m
      BY <1>2, <1>4, <2>1
    <2>2. CASE k # m
      BY <1>2, <2>2 DEF Kept
    <2>. QED
      BY <2>1, <2>2
  <1>7. ASSUME NEW k \in Messages
        PROVE  d[k] = p[k] + Waiting(v, k)
    <2>1. c[k] = p[k] + Waiting(u, k) /\ c[k] \in Nat /\ p[k] \in Nat
      BY DEF Kept
    <2>2. CASE k = m
      <3>1. Waiting(u, k) = u[m].count /\ Waiting(v, k) = u[m].count + 1
        BY <1>2, <2>2 DEF Waiting
      <3>. QED
        BY <1>3, <1>4, <2>1, <2>2, <3>1
    <2>3. CASE k # m
      <3>1. Waiting(v, k) = Waiting(u, k)
        BY <1>2, <2>3 DEF Waiting
      <3>. QED
        BY <1>3, <2>1, <2>3, <3>1
    <2>. QED
      BY <2>2, <2>3
  <1>8. IsFiniteSet(DOMAIN v) /\ DOMAIN v \subseteq Messages
    BY <1>2 DEF Kept
  <1>9. Kept(v, d, p)
    BY <1>1, <1>3, <1>5, <1>6, <1>7, <1>8 DEF Kept
  <1>. QED
    BY <1>9 DEF v, d

\* What is kept, of the entries alone.
LEMMA KeptEntries ==
    ASSUME NEW u, NEW c, NEW p, Kept(u, c, p)
    PROVE  /\ \A m \in DOMAIN u : u[m] \in Entries
           /\ \A m \in DOMAIN u : u[m].count = 0 => u[m].lastSeen <= u[m].lastEmitted
  BY DEF Kept

LEMMA RepeatedKeepsCache ==
    ASSUME CacheInv, NEW m \in Messages, Repeated(m)
    PROVE  CacheInv'
  <1>. DEFINE counted == [repetitions EXCEPT ![m].count = @ + 1, ![m].lastSeen = now]
              K == IF now - repetitions[m].lastEmitted >= interval THEN {m} ELSE {}
              u == flushRepetition(counted, K)
              q == [k \in Messages |-> reported[k] + IF k \in K THEN Waiting(counted, k) ELSE 0]
  <1>1. Kept(repetitions, calls, reported) /\ Suits(timer, repetitions)
        /\ interval \in Nat /\ now \in Nat
    BY CacheNow
  <1>2. m \in DOMAIN repetitions /\ calls' = [calls EXCEPT ![m] = @ + 1] /\ Alive
        /\ interval' = interval /\ now' = now /\ phase' = phase
    BY DEF Repeated, Call, process
  <1>3. repetitions' = u /\ reported' = q /\ timer' = scheduleRepeatTimer(timer, repetitions')
    BY DEF Repeated, Summarised
  <1>4. repetitions[m] \in Entries
    BY <1>1, <1>2, KeptEntries
  <1>5. Kept(counted, calls', reported)
    BY <1>1, <1>2, CountedKeeps
  <1>6. DOMAIN counted = DOMAIN repetitions
        /\ \A k \in DOMAIN repetitions : counted[k].lastEmitted = repetitions[k].lastEmitted
    <2>1. /\ DOMAIN counted = DOMAIN repetitions
          /\ \A k \in DOMAIN repetitions : k # m => counted[k] = repetitions[k]
          /\ counted[m].lastEmitted = repetitions[m].lastEmitted
      BY <1>1, <1>2, <1>4, CountedShape
    <2>. QED
      BY <2>1
  <1>. HIDE DEF K, counted
  <1>7. Kept(u, calls', q)
    BY <1>1, <1>5, FlushKeeps
  <1>8. \A k \in DOMAIN counted : counted[k] \in Entries
    BY <1>5, KeptEntries
  <1>9. DOMAIN u = DOMAIN counted
        /\ \A k \in DOMAIN counted : u[k].lastEmitted \in {now, counted[k].lastEmitted}
    BY <1>1, <1>8, FlushShape
  <1>. HIDE DEF u, q
  <1>10. \A k \in DOMAIN u :
           \/ u[k].lastEmitted = now
           \/ k \in DOMAIN repetitions /\ u[k].lastEmitted = repetitions[k].lastEmitted
    BY <1>6, <1>9
  <1>11. /\ \A k \in DOMAIN u : u[k] \in Entries
         /\ \A k \in DOMAIN u : u[k].count = 0 => u[k].lastSeen <= u[k].lastEmitted
    BY <1>7, KeptEntries
  <1>12. Suits(scheduleRepeatTimer(timer, u), u)
    BY <1>1, <1>10, <1>11, OldTimerSuits
  <1>13. Kept(repetitions', calls', reported') /\ Suits(timer', repetitions')
    BY <1>3, <1>7, <1>12
  <1>14. Alive'
    BY <1>2 DEF Alive
  <1>. QED
    BY <1>2, <1>13, <1>14, CacheStep

LEMMA FirstKeepsCache ==
    ASSUME CacheInv, NEW m \in Messages, First(m)
    PROVE  CacheInv'
  <1>1. Kept(repetitions, calls, reported) /\ Suits(timer, repetitions)
        /\ interval \in Nat /\ now \in Nat
    BY CacheNow
  <1>2. calls' = [calls EXCEPT ![m] = @ + 1] /\ Alive
        /\ interval' = interval /\ now' = now /\ phase' = phase
        /\ timer' = scheduleRepeatTimer(timer, repetitions')
    BY DEF First, Call, process
  <1>. DEFINE entry == [count |-> 0, lastEmitted |-> now, lastSeen |-> now]
              gone(evicted) == evicted \cup ({m} \cap DOMAIN repetitions)
              F(evicted) == ToFlush(repetitions, gone(evicted))
  <1>3. PICK evicted \in Evicted(m) :
          /\ repetitions' = With(Without(repetitions, gone(evicted)), m, entry)
          /\ reported' = [Summarised(repetitions, F(evicted)) EXCEPT ![m] = @ + 1]
    BY DEF First, Flushed
  <1>. DEFINE K == gone(evicted)
              u == Without(repetitions, K)
              q == [k \in Messages |-> reported[k]
                      + IF k \in ToFlush(repetitions, K) THEN Waiting(repetitions, k) ELSE 0]
  <1>4. q = Summarised(repetitions, F(evicted))
    BY DEF Summarised
  <1>5. m \notin DOMAIN u /\ DOMAIN u \subseteq DOMAIN repetitions
        /\ \A k \in DOMAIN u : u[k] = repetitions[k]
    BY DEF Without
  <1>6. repetitions' = With(u, m, entry) /\ reported' = [q EXCEPT ![m] = @ + 1]
    BY <1>3, <1>4
  <1>. HIDE DEF K
  <1>7. Kept(u, calls, q)
    BY <1>1, LeaveKeeps
  <1>. HIDE DEF u, q
  <1>8. Kept(With(u, m, entry), calls, q)
    BY <1>1, <1>5, <1>7, NewEntryKeeps
  <1>9. \A k \in DOMAIN With(u, m, entry) :
          \/ With(u, m, entry)[k].lastEmitted = now
          \/ k \in DOMAIN repetitions
               /\ With(u, m, entry)[k].lastEmitted = repetitions[k].lastEmitted
    BY <1>5 DEF With
  <1>. DEFINE w == With(u, m, entry)
  <1>. HIDE DEF w
  <1>10. Kept(w, calls, q)
    BY <1>8 DEF w
  <1>11. Kept(w, calls', reported')
    BY <1>2, <1>6, <1>10, CallKeeps
  <1>12. /\ \A k \in DOMAIN w : w[k] \in Entries
         /\ \A k \in DOMAIN w : w[k].count = 0 => w[k].lastSeen <= w[k].lastEmitted
    BY <1>11, KeptEntries
  <1>13. \A k \in DOMAIN w :
           \/ w[k].lastEmitted = now
           \/ k \in DOMAIN repetitions /\ w[k].lastEmitted = repetitions[k].lastEmitted
    BY <1>9 DEF w
  <1>14. Suits(scheduleRepeatTimer(timer, w), w)
    BY <1>1, <1>12, <1>13, OldTimerSuits
  <1>15. repetitions' = w
    BY <1>6 DEF w
  <1>16. Alive'
    BY <1>2 DEF Alive
  <1>. QED
    BY <1>2, <1>11, <1>14, <1>15, <1>16, CacheStep

\* Everything that waits is in the report of a reset.
LEMMA ResetReports ==
    ASSUME CacheInv
    PROVE  Kept(<<>>, calls, AllReported)
  <1>1. Kept(repetitions, calls, reported) /\ now \in Nat
    BY CacheNow
  <1>2. Kept(Without(repetitions, DOMAIN repetitions), calls, AllReported)
    BY <1>1, LeaveKeeps DEF AllReported, Summarised, Flushed
  <1>. QED
    BY <1>2, NothingLeft

\* A reset, with a call that is written at once or without one.
LEMMA ResetKeepsCache ==
    ASSUME CacheInv, resetRepetition, interval' = interval, now' = now,
           \/ calls' = calls /\ reported' = AllReported
           \/ \E m \in Messages : /\ calls' = [calls EXCEPT ![m] = @ + 1]
                                  /\ reported' = [AllReported EXCEPT ![m] = @ + 1]
    PROVE  CacheInv'
  <1>1. Kept(<<>>, calls, AllReported)
    BY ResetReports
  <1>2. Kept(<<>>, calls', reported')
    BY <1>1, CallKeeps
  <1>3. repetitions' = <<>> /\ timer' = NoTimer
    BY DEF resetRepetition
  <1>4. DOMAIN <<>> = {}
    OBVIOUS
  <1>5. Kept(repetitions', calls', reported') /\ Suits(timer', repetitions')
    BY <1>2, <1>3, EmptySuits
  <1>. QED
    BY <1>3, <1>4, <1>5, CacheStep

LEMMA TimerKeepsCache ==
    ASSUME CacheInv, TimerFires
    PROVE  CacheInv'
  <1>. DEFINE K == {m \in DOMAIN repetitions : now - repetitions[m].lastEmitted >= interval}
              v == flushRepetition(repetitions, K)
              gone == {m \in DOMAIN v : v[m].count = 0 /\ Idle(v[m])}
              u == Without(v, gone)
              q == [k \in Messages |-> reported[k]
                      + IF k \in K THEN Waiting(repetitions, k) ELSE 0]
  <1>1. Kept(repetitions, calls, reported) /\ interval \in Nat /\ now \in Nat
    BY CacheNow
  <1>2. calls' = calls /\ Alive /\ interval' = interval /\ now' = now /\ phase' = phase
        /\ timer' = scheduleRepeatTimer(NoTimer, repetitions')
    BY DEF TimerFires, process
  <1>3. repetitions' = u /\ reported' = q
    BY DEF TimerFires, Summarised
  <1>. HIDE DEF K
  <1>4. Kept(v, calls, q)
    BY <1>1, FlushKeeps
  <1>. HIDE DEF v, q
  <1>5. \A m \in gone \cap DOMAIN v : v[m].count = 0
    OBVIOUS
  <1>. HIDE DEF gone
  <1>6. Kept(u, calls, q)
    BY <1>4, <1>5, ForgetKeeps
  <1>. HIDE DEF u
  <1>7. /\ \A k \in DOMAIN u : u[k] \in Entries
        /\ \A k \in DOMAIN u : u[k].count = 0 => u[k].lastSeen <= u[k].lastEmitted
    BY <1>6, KeptEntries
  <1>8. Suits(scheduleRepeatTimer(NoTimer, u), u)
    BY <1>1, <1>7, NewTimerSuits
  <1>9. Kept(repetitions', calls', reported') /\ Suits(timer', repetitions')
    BY <1>2, <1>3, <1>6, <1>8
  <1>10. Alive'
    BY <1>2 DEF Alive
  <1>. QED
    BY <1>2, <1>9, <1>10, CacheStep

LEMMA TickKeepsCache ==
    ASSUME CacheInv, Tick
    PROVE  CacheInv'
  <1>1. /\ now' = now + 1
        /\ UNCHANGED <<repetitions, timer, interval, phase, calls, reported>>
    BY DEF Tick, process
  <1>2. CacheType /\ SeenWhenReported /\ TimerSuits
    BY DEF CacheInv
  <1>3. now \in Nat /\ interval \in Nat /\ timer \in Nat \cup {NoTimer}
        /\ \A m \in DOMAIN repetitions :
             repetitions[m].lastSeen \in Nat /\ repetitions[m].lastEmitted \in Nat
    BY <1>2 DEF CacheType, Entries
  <1>4. CacheType'
    BY <1>1, <1>2, <1>3 DEF CacheType
  <1>5. SeenWhenReported'
    BY <1>1, <1>2, <1>3 DEF SeenWhenReported
  <1>6. TimerSuits'
    BY <1>1, <1>2, <1>3 DEF TimerSuits, NoTimer
  <1>. QED
    BY <1>1, <1>4, <1>5, <1>6 DEF CacheInv, Alive

\* A step that leaves the cache alone.
LEMMA OtherKeepsCache ==
    ASSUME CacheInv, UNCHANGED <<repetitions, timer, interval, now, calls, reported>>,
           (Alive /\ Alive') \/ phase' = phase
    PROVE  CacheInv'
  <1>1. CacheType'
    BY DEF CacheInv, CacheType
  <1>2. SeenWhenReported' /\ TimerSuits'
    BY DEF CacheInv, SeenWhenReported, TimerSuits
  <1>. QED
    BY <1>1, <1>2 DEF CacheInv, Alive

LEMMA CacheInit == Init => CacheInv
  <1>. SUFFICES ASSUME Init PROVE CacheInv
    OBVIOUS
  <1>1. interval \in Nat /\ now = 0 /\ timer = NoTimer /\ repetitions = <<>>
    BY RepetitionAssumption DEF Init
  <1>2. calls = [m \in Messages |-> 0] /\ reported = [m \in Messages |-> 0] /\ Alive
    BY DEF Init, Alive
  <1>3. DOMAIN repetitions = {}
    BY <1>1
  <1>4. IsFiniteSet(DOMAIN repetitions)
    BY <1>3, FS_EmptySet
  <1>5. CacheType
    BY <1>1, <1>2, <1>3, <1>4 DEF CacheType
  <1>6. SeenWhenReported /\ TimerSuits
    BY <1>1, <1>3 DEF SeenWhenReported, TimerSuits
  <1>7. \A m \in Messages : calls[m] = reported[m] + Waiting(repetitions, m)
    BY <1>2, <1>3 DEF Waiting
  <1>. QED
    BY <1>2, <1>5, <1>6, <1>7 DEF CacheInv

LEMMA CacheNext ==
    ASSUME CacheInv, [Next]_vars
    PROVE  CacheInv'
  <1>1. CASE \E m \in Messages : Repeated(m) \/ First(m) \/ Unsuppressed(m) \/ Fatal(m)
    <2>1. PICK m \in Messages : Repeated(m) \/ First(m) \/ Unsuppressed(m) \/ Fatal(m)
      BY <1>1
    <2>2. CASE Unsuppressed(m) \/ Fatal(m)
      <3>1. /\ resetRepetition /\ interval' = interval /\ now' = now
            /\ calls' = [calls EXCEPT ![m] = @ + 1]
            /\ reported' = [AllReported EXCEPT ![m] = @ + 1]
        BY <2>2 DEF Unsuppressed, Fatal, Call
      <3>. QED
        BY <3>1, ResetKeepsCache
    <2>. QED
      BY <2>1, <2>2, RepeatedKeepsCache, FirstKeepsCache
  <1>2. CASE TimerFires
    BY <1>2, TimerKeepsCache
  <1>3. CASE Tick
    BY <1>3, TickKeepsCache
  <1>4. CASE Reconfigure
    BY <1>4, ResetKeepsCache DEF Reconfigure
  <1>5. CASE \/ \E alg \in Algorithms : SetHashAlgorithm(alg)
             \/ \E length \in ChainLengths : SetHashChainLength(length)
             \/ SetFormat \/ SetLogFile \/ ProductionWarning
    BY <1>4, <1>5 DEF SetHashAlgorithm, SetHashChainLength, SetFormat, SetLogFile,
                      ProductionWarning
  <1>6. CASE \/ \E c \in Certs : SetSigningCertificate(c)
             \/ Started
             \/ \E c \in Certs : Expire(c)
    BY <1>6, OtherKeepsCache DEF SetSigningCertificate, Option, Started, Expire, Outside, Alive,
                                 process
  <1>7. CASE \E c \in Certs \cup {NoCert} : RotateSigningCertificate(c)
    <2>1. PICK c \in Certs \cup {NoCert} : RotateSigningCertificate(c)
      BY <1>7
    <2>2. \/ Reconfigure
          \/ UNCHANGED <<repetitions, timer, interval, now, calls, reported>> /\ phase' = phase
      BY <2>1 DEF RotateSigningCertificate, Outside, process
    <2>. QED
      BY <1>4, <2>2, OtherKeepsCache
  <1>8. CASE UNCHANGED vars
    BY <1>8, OtherKeepsCache DEF vars, process
  <1>. QED
    BY <1>1, <1>2, <1>3, <1>5, <1>6, <1>7, <1>8 DEF Next

\* No call of the logger is forgotten, for every size of the cache, every interval
\* and every order of calls, evictions, timers, reconfigurations and exits
\* (suppressLocked, resetRepetitionLocked).
THEOREM NoCallForgotten == Spec => []RepeatsConserved
  <1>1. CacheInv => RepeatsConserved
    BY DEF CacheInv, RepeatsConserved, Waiting
  <1>. QED
    BY <1>1, CacheInit, CacheNext, PTL DEF Spec

\* A message that waits has a timer that fires within an interval of its last
\* report, for every size of the cache and every interval
\* (scheduleRepeatTimerLocked).
THEOREM ReportsAreInTime == Spec => []SummaryInTime
  <1>1. CacheInv => SummaryInTime
    BY DEF CacheInv, TimerSuits, SummaryInTime
  <1>. QED
    BY <1>1, CacheInit, CacheNext, PTL DEF Spec

-----------------------------------------------------------------------------
(* Writing one record.                                                     *)

\* t is s after the record r was numbered and written, or lost.
Wrote(s, t, r) ==
    /\ Typed(s) /\ Typed(t) /\ r \in Records
    /\ s.algorithm # NoAlg
    /\ t.algorithm = s.algorithm /\ t.chainLen = s.chainLen
    /\ t.segmentID = s.segmentID /\ t.signer = s.signer
    /\ t.lost = s.lost /\ t.seq = s.seq + 1
    /\ t.written = IF s.seq \in s.lost THEN s.written ELSE Append(s.written, r)
    /\ r.seq = s.seq /\ r.algorithm = s.algorithm
    /\ chainingEnabled(s) =>
         /\ r.chained
         /\ r.window = s.windowID /\ r.segment = s.segmentID
         /\ r.prev = s.chain /\ r.chain = Append(s.chain, <<s.seq, r.body>>)
         /\ r.restart <=> s.restartPending
         /\ t.chain = r.chain /\ ~t.restartPending
    /\ ~chainingEnabled(s) =>
         /\ ~r.chained /\ ~r.restart
         /\ r.window = 0 /\ r.anchor = NoAnchor
         /\ t.chain = s.chain /\ t.restartPending = s.restartPending

\* The window stays open.
Plain(s, t, r) ==
    r.anchor = NoAnchor /\ t.windowID = s.windowID /\ t.anchorFrom = s.anchorFrom

\* The record closes the window.
Anchored(s, t, r) ==
    /\ chainingEnabled(s)
    /\ r.body.kind = "anchor"
    /\ r.anchor.from = s.anchorFrom /\ r.anchor.to = s.seq
    /\ Signed(r) => /\ s.signer # NoCert /\ r.anchor.key = KeyOf[s.signer]
                    /\ r.anchor.statement = Statement(r, s.anchorFrom, s.seq)
    /\ t.windowID = s.windowID + 1 /\ t.anchorFrom = t.seq

\* The hash of the next record is a sequence of what was hashed.
LEMMA NextHash ==
    ASSUME NEW h \in Seq(Items), NEW q \in Nat, NEW b \in Bodies
    PROVE  Append(h, <<q, b>>) \in Seq(Items)
  <1>1. <<q, b>> \in Items
    BY DEF Items
  <1>. HIDE DEF Items
  <1>. QED
    BY <1>1

LEMMA NoAnchorTyped == NoAnchor \in Anchors
  BY DEF NoAnchor, Anchors, Statements, Keys

\* The record that stamp makes.
LEMMA StampShape ==
    ASSUME NEW s, Typed(s), NEW body \in Bodies
    PROVE  LET r == stamp(s, body) IN
           /\ r \in Records
           /\ r.seq = s.seq /\ r.algorithm = s.algorithm /\ r.body = body /\ r.anchor = NoAnchor
           /\ chainingEnabled(s) =>
                /\ r.chained
                /\ r.window = s.windowID /\ r.segment = s.segmentID
                /\ r.prev = s.chain /\ r.chain = Append(s.chain, <<s.seq, body>>)
                /\ r.restart <=> s.restartPending
           /\ ~chainingEnabled(s) => ~r.chained /\ ~r.restart /\ r.window = 0
  <1>. DEFINE on == chainingEnabled(s)
              segment == IF on THEN s.segmentID ELSE 0
              window == IF on THEN s.windowID ELSE 0
              prev == IF on THEN s.chain ELSE <<>>
              chain == IF on THEN Append(s.chain, <<s.seq, body>>) ELSE <<>>
              restart == on /\ s.restartPending
              r == [seq |-> s.seq, algorithm |-> s.algorithm, body |-> body, chained |-> on,
                    segment |-> segment, window |-> window, prev |-> prev, chain |-> chain,
                    restart |-> restart, anchor |-> NoAnchor]
  <1>1. r = stamp(s, body)
    BY DEF stamp, advanceChain
  <1>2. s.seq \in Nat /\ s.algorithm \in Algorithms /\ s.segmentID \in Nat /\ s.windowID \in Nat
        /\ s.chain \in Seq(Items)
    BY DEF Typed
  <1>3. Append(s.chain, <<s.seq, body>>) \in Seq(Items)
    BY <1>2, NextHash
  <1>4. segment \in Nat /\ window \in Nat /\ prev \in Seq(Items) /\ chain \in Seq(Items)
    BY <1>2, <1>3
  <1>5. on \in BOOLEAN /\ restart \in BOOLEAN
    BY DEF chainingEnabled
  <1>6. on => /\ window = s.windowID /\ segment = s.segmentID
              /\ prev = s.chain /\ chain = Append(s.chain, <<s.seq, body>>)
              /\ restart <=> s.restartPending
    OBVIOUS
  <1>7. ~on => ~restart /\ window = 0
    OBVIOUS
  <1>. HIDE DEF on, segment, window, prev, chain, restart
  <1>8. r \in Records
    BY <1>2, <1>4, <1>5, NoAnchorTyped DEF Records
  <1>9. /\ r.seq = s.seq /\ r.algorithm = s.algorithm /\ r.body = body /\ r.anchor = NoAnchor
        /\ (r.chained <=> on) /\ r.segment = segment /\ r.window = window
        /\ r.prev = prev /\ r.chain = chain /\ (r.restart <=> restart)
    BY <1>5
  <1>. HIDE DEF r
  <1>. QED
    BY <1>1, <1>6, <1>7, <1>8, <1>9 DEF on

\* All but the listed fields are the same.
Same(s, t) ==
    /\ t.algorithm = s.algorithm /\ t.chainLen = s.chainLen /\ t.segmentID = s.segmentID
    /\ t.signer = s.signer /\ t.lost = s.lost

\* What stamping does to the state.
LEMMA StampedShape ==
    ASSUME NEW s, Typed(s), NEW r \in Records, s.algorithm # NoAlg
    PROVE  LET t == Stamped(s, r) IN
           /\ Typed(t) /\ Same(s, t)
           /\ t.windowID = s.windowID /\ t.anchorFrom = s.anchorFrom
           /\ t.written = s.written /\ t.seq = s.seq + 1
           /\ r.chained => t.chain = r.chain /\ ~t.restartPending
           /\ ~r.chained => t.chain = s.chain /\ t.restartPending = s.restartPending
  <1>1. CASE r.chained
    <2>. DEFINE t == [s EXCEPT !.seq = @ + 1, !.chain = r.chain, !.sinceAnchor = @ + 1,
                               !.restartPending = FALSE]
    <2>1. t = Stamped(s, r)
      BY <1>1 DEF Stamped
    <2>2. r.chain \in Seq(Items)
      BY DEF Records
    <2>3. Typed(t)
      BY <2>2 DEF Typed, Fields
    <2>4. /\ Same(s, t)
          /\ t.windowID = s.windowID /\ t.anchorFrom = s.anchorFrom
          /\ t.written = s.written /\ t.seq = s.seq + 1
          /\ t.chain = r.chain /\ ~t.restartPending
      BY DEF Typed, Fields, Same
    <2>. HIDE DEF t
    <2>. QED
      BY <1>1, <2>1, <2>3, <2>4
  <1>2. CASE ~r.chained
    <2>. DEFINE t == [s EXCEPT !.seq = @ + 1]
    <2>1. t = Stamped(s, r)
      BY <1>2 DEF Stamped
    <2>3. Typed(t)
      BY DEF Typed, Fields
    <2>4. /\ Same(s, t)
          /\ t.windowID = s.windowID /\ t.anchorFrom = s.anchorFrom
          /\ t.written = s.written /\ t.seq = s.seq + 1
          /\ t.chain = s.chain /\ t.restartPending = s.restartPending
      BY DEF Typed, Fields, Same
    <2>. HIDE DEF t
    <2>. QED
      BY <1>2, <2>1, <2>3, <2>4
  <1>. QED
    BY <1>1, <1>2

\* What the output does to the state.
LEMMA OutputShape ==
    ASSUME NEW s, Typed(s), NEW r \in Records, s.algorithm # NoAlg
    PROVE  LET t == Output(s, r) IN
           /\ Typed(t) /\ Same(s, t)
           /\ t.windowID = s.windowID /\ t.anchorFrom = s.anchorFrom
           /\ t.seq = s.seq /\ t.chain = s.chain /\ t.restartPending = s.restartPending
           /\ t.written = IF r.seq \in s.lost THEN s.written ELSE Append(s.written, r)
  <1>1. CASE r.seq \in s.lost
    BY <1>1 DEF Output, Same
  <1>2. CASE r.seq \notin s.lost
    <2>. DEFINE w == Append(s.written, r)
                t == [s EXCEPT !.written = w]
    <2>1. t = Output(s, r)
      BY <1>2 DEF Output
    <2>2. w \in Seq(Records)
      BY DEF Typed
    <2>. HIDE DEF w
    <2>3. Typed(t)
      BY <2>2 DEF Typed, Fields
    <2>4. /\ Same(s, t)
          /\ t.windowID = s.windowID /\ t.anchorFrom = s.anchorFrom
          /\ t.seq = s.seq /\ t.chain = s.chain /\ t.restartPending = s.restartPending
          /\ t.written = w
      BY DEF Typed, Fields, Same
    <2>. HIDE DEF t
    <2>. QED
      BY <1>2, <2>1, <2>3, <2>4 DEF w
  <1>. QED
    BY <1>1, <1>2

\* Without an algorithm nothing is written.
LEMMA WriteNothing ==
    ASSUME NEW s, NEW body, s.algorithm = NoAlg
    PROVE  writeRecord(s, body) = s
  BY DEF writeRecord, Stamped, Output

\* A record that is no anchor.
LEMMA WriteRecordShape ==
    ASSUME NEW s, Typed(s), NEW body \in Bodies, s.algorithm # NoAlg
    PROVE  LET r == stamp(s, body)
               t == writeRecord(s, body)
           IN  Wrote(s, t, r) /\ Plain(s, t, r) /\ r.body = body
  <1>. DEFINE r == stamp(s, body)
              u == Stamped(s, r)
              t == Output(u, r)
  <1>1. /\ r \in Records
        /\ r.seq = s.seq /\ r.algorithm = s.algorithm /\ r.body = body /\ r.anchor = NoAnchor
        /\ chainingEnabled(s) =>
             /\ r.chained
             /\ r.window = s.windowID /\ r.segment = s.segmentID
             /\ r.prev = s.chain /\ r.chain = Append(s.chain, <<s.seq, body>>)
             /\ r.restart <=> s.restartPending
        /\ ~chainingEnabled(s) => ~r.chained /\ ~r.restart /\ r.window = 0
    BY StampShape
  <1>2. t = writeRecord(s, body)
    BY DEF writeRecord
  <1>. HIDE DEF r
  <1>3. /\ Typed(u) /\ Same(s, u)
        /\ u.windowID = s.windowID /\ u.anchorFrom = s.anchorFrom
        /\ u.written = s.written /\ u.seq = s.seq + 1
        /\ r.chained => u.chain = r.chain /\ ~u.restartPending
        /\ ~r.chained => u.chain = s.chain /\ u.restartPending = s.restartPending
    BY <1>1, StampedShape
  <1>. HIDE DEF u
  <1>4. u.algorithm # NoAlg /\ u.lost = s.lost
    BY <1>3 DEF Same
  <1>5. /\ Typed(t) /\ Same(u, t)
        /\ t.windowID = u.windowID /\ t.anchorFrom = u.anchorFrom
        /\ t.seq = u.seq /\ t.chain = u.chain /\ t.restartPending = u.restartPending
        /\ t.written = IF r.seq \in u.lost THEN u.written ELSE Append(u.written, r)
    BY <1>1, <1>3, <1>4, OutputShape
  <1>. HIDE DEF t
  <1>6. Wrote(s, t, r)
    BY <1>1, <1>3, <1>4, <1>5 DEF Wrote, Same
  <1>7. Plain(s, t, r)
    BY <1>1, <1>3, <1>5 DEF Plain
  <1>. QED
    BY <1>1, <1>2, <1>6, <1>7 DEF r

\* An anchor.
LEMMA WriteAnchorShape ==
    ASSUME NEW s, Typed(s), NEW out, chainingEnabled(s)
    PROVE  LET t == writeAnchor(s, out) IN
           \E r \in Records : /\ Wrote(s, t, r) /\ Anchored(s, t, r)
                              /\ Signed(r) <=> SigningKey(s, out) \notin {NoKey, BadSign}
  <1>. DEFINE bare == stamp(s, AnchorBody)
              key == SigningKey(s, out)
              statement == IF key \in {NoKey, BadSign} THEN <<>>
                           ELSE Statement(bare, s.anchorFrom, s.seq)
              anchor == [from |-> s.anchorFrom, to |-> s.seq, key |-> key, statement |-> statement]
              r == [bare EXCEPT !.anchor = anchor]
              u == Stamped(s, r)
              v == [u EXCEPT !.anchorFrom = NextAnchorFrom(s)]
              w == Output(v, r)
              t == [w EXCEPT !.sinceAnchor = 0, !.windowID = @ + 1]
  <1>1. t = writeAnchor(s, out)
    BY DEF writeAnchor, signAnchor, finishAnchor
  <1>2. AnchorBody \in Bodies /\ AnchorBody.kind = "anchor"
    BY DEF AnchorBody, Bodies, Keys
  <1>3. /\ bare \in Records
        /\ bare.seq = s.seq /\ bare.algorithm = s.algorithm /\ bare.body = AnchorBody
        /\ bare.chained
        /\ bare.window = s.windowID /\ bare.segment = s.segmentID
        /\ bare.prev = s.chain /\ bare.chain = Append(s.chain, <<s.seq, AnchorBody>>)
        /\ bare.restart <=> s.restartPending
    BY <1>2, StampShape
  <1>. HIDE DEF bare
  <1>4. s.seq \in Nat /\ s.anchorFrom \in Nat /\ s.algorithm \in Algorithms
        /\ s.signer \in Certs \cup {NoCert} /\ s.algorithm # NoAlg
        /\ s.segmentID \in Nat /\ s.windowID \in Nat /\ s.chain \in Seq(Items)
    BY DEF Typed, chainingEnabled
  <1>5. /\ key \in Keys
        /\ key \notin {NoKey, BadSign} => s.signer # NoCert /\ key = KeyOf[s.signer]
    BY <1>4 DEF SigningKey, Keys
  <1>. HIDE DEF key
  <1>6. statement \in Statements
    <2>1. bare.chain \in Seq(Items) /\ bare.prev \in Seq(Items)
      BY <1>3 DEF Records
    <2>2. Statement(bare, s.anchorFrom, s.seq)
            \in Algorithms \X Nat \X Nat \X Nat \X Nat \X Seq(Items) \X Seq(Items)
      BY <1>3, <1>4, <2>1 DEF Statement
    <2>. QED
      BY <2>2 DEF Statements
  <1>7. key \notin {NoKey, BadSign} => statement = Statement(bare, s.anchorFrom, s.seq)
    OBVIOUS
  <1>. HIDE DEF statement
  <1>8. anchor \in Anchors
    BY <1>4, <1>5, <1>6 DEF Anchors
  <1>9. /\ anchor.from = s.anchorFrom /\ anchor.to = s.seq /\ anchor.key = key
        /\ anchor.statement = statement
    OBVIOUS
  <1>. HIDE DEF anchor
  <1>10. /\ r \in Records /\ r.anchor = anchor
         /\ r.seq = bare.seq /\ r.algorithm = bare.algorithm /\ r.body = bare.body
         /\ (r.chained <=> bare.chained) /\ r.window = bare.window /\ r.segment = bare.segment
         /\ r.prev = bare.prev /\ r.chain = bare.chain /\ (r.restart <=> bare.restart)
    BY <1>3, <1>8 DEF Records
  <1>. HIDE DEF r
  <1>11. Signed(r) <=> key \notin {NoKey, BadSign}
    BY <1>9, <1>10 DEF Signed
  <1>12. Statement(r, s.anchorFrom, s.seq) = Statement(bare, s.anchorFrom, s.seq)
    BY <1>10 DEF Statement
  <1>13. /\ Typed(u) /\ Same(s, u)
         /\ u.windowID = s.windowID
         /\ u.written = s.written /\ u.seq = s.seq + 1
         /\ u.chain = r.chain /\ ~u.restartPending
    BY <1>3, <1>4, <1>10, StampedShape
  <1>. HIDE DEF u
  <1>14. /\ Typed(v) /\ Same(u, v)
         /\ v.windowID = u.windowID /\ v.anchorFrom = s.seq + 1
         /\ v.written = u.written /\ v.seq = u.seq
         /\ v.chain = u.chain /\ v.restartPending = u.restartPending
    BY <1>4, <1>13 DEF Typed, Fields, Same, NextAnchorFrom
  <1>. HIDE DEF v
  <1>15. v.algorithm # NoAlg /\ v.lost = s.lost
    BY <1>4, <1>13, <1>14 DEF Same
  <1>16. /\ Typed(w) /\ Same(v, w)
         /\ w.windowID = v.windowID /\ w.anchorFrom = v.anchorFrom
         /\ w.seq = v.seq /\ w.chain = v.chain /\ w.restartPending = v.restartPending
         /\ w.written = IF r.seq \in v.lost THEN v.written ELSE Append(v.written, r)
    BY <1>10, <1>14, <1>15, OutputShape
  <1>. HIDE DEF w
  <1>typed. Typed(w)
    BY <1>16
  <1>17. /\ Typed(t) /\ Same(w, t)
         /\ t.windowID = w.windowID + 1 /\ t.anchorFrom = w.anchorFrom
         /\ t.seq = w.seq /\ t.chain = w.chain /\ t.restartPending = w.restartPending
         /\ t.written = w.written
    BY <1>typed DEF Typed, Fields, Same
  <1>. HIDE DEF t
  <1>18. Same(s, t)
    BY <1>13, <1>14, <1>16, <1>17 DEF Same
  <1>19. t.written = IF s.seq \in s.lost THEN s.written ELSE Append(s.written, r)
    BY <1>3, <1>10, <1>13, <1>14, <1>15, <1>16, <1>17
  <1>20. t.chain = r.chain /\ ~t.restartPending /\ t.seq = s.seq + 1
         /\ t.windowID = s.windowID + 1 /\ t.anchorFrom = s.seq + 1
    BY <1>13, <1>14, <1>16, <1>17
  <1>21. Wrote(s, t, r)
    BY <1>3, <1>4, <1>10, <1>17, <1>18, <1>19, <1>20 DEF Wrote, Same
  <1>22. Anchored(s, t, r)
    BY <1>2, <1>3, <1>5, <1>7, <1>9, <1>10, <1>11, <1>12, <1>20 DEF Anchored
  <1>. QED
    BY <1>1, <1>10, <1>11, <1>21, <1>22 DEF key

-----------------------------------------------------------------------------
(* What a record does to the invariant.                                    *)

Grown(s, t, r, n) ==
    /\ DOMAIN s.written = 1 .. n
    /\ \A i \in 1 .. n : t.written[i] = s.written[i]
    /\ \/ s.seq \in s.lost /\ DOMAIN t.written = 1 .. n
       \/ s.seq \notin s.lost /\ DOMAIN t.written = 1 .. n + 1 /\ t.written[n + 1] = r

\* The output grows by the record, or not at all.
LEMMA Grows ==
    ASSUME NEW s, NEW t, NEW r, Wrote(s, t, r)
    PROVE  \E n \in Nat : Grown(s, t, r, n)
  <1>1. s.written \in Seq(Records) /\ r \in Records
        /\ t.written = IF s.seq \in s.lost THEN s.written ELSE Append(s.written, r)
    BY DEF Wrote, Typed
  <1>2. Len(s.written) \in Nat /\ DOMAIN s.written = 1 .. Len(s.written)
    BY <1>1
  <1>3. CASE s.seq \in s.lost
    BY <1>1, <1>2, <1>3 DEF Grown
  <1>4. CASE s.seq \notin s.lost
    <2>1. t.written = Append(s.written, r)
      BY <1>1, <1>4
    <2>2. /\ DOMAIN Append(s.written, r) = 1 .. Len(s.written) + 1
          /\ \A i \in 1 .. Len(s.written) : Append(s.written, r)[i] = s.written[i]
          /\ Append(s.written, r)[Len(s.written) + 1] = r
      BY <1>1, <1>2
    <2>. QED
      BY <1>2, <1>4, <2>1, <2>2 DEF Grown
  <1>. QED
    BY <1>3, <1>4

\* The types of what is written.
LEMMA WrittenTyped ==
    ASSUME NEW s, Typed(s), NEW i \in DOMAIN s.written
    PROVE  /\ s.written[i] \in Records
           /\ i \in Nat /\ i >= 1
           /\ s.written[i].seq \in Nat /\ s.written[i].window \in Nat
           /\ s.written[i].anchor.from \in Nat /\ s.written[i].anchor.to \in Nat
  <1>1. s.written \in Seq(Records)
    BY DEF Typed
  <1>2. i \in 1 .. Len(s.written) /\ Len(s.written) \in Nat
    BY <1>1
  <1>3. s.written[i] \in Records
    BY <1>1, <1>2
  <1>4. /\ s.written[i].seq \in Nat /\ s.written[i].window \in Nat
        /\ s.written[i].anchor \in Anchors
    BY <1>3 DEF Records
  <1>5. s.written[i].anchor.from \in Nat /\ s.written[i].anchor.to \in Nat
    BY <1>4 DEF Anchors
  <1>. QED
    BY <1>2, <1>3, <1>4, <1>5

LEMMA OrderedKept ==
    ASSUME NEW s, NEW t, NEW r, Wrote(s, t, r), Ordered(s)
    PROVE  Ordered(t)
  <1>0. PICK n \in Nat : Grown(s, t, r, n)
    BY Grows
  <1>1. /\ DOMAIN s.written = 1 .. n
        /\ \A i \in 1 .. n : t.written[i] = s.written[i]
        /\ \/ s.seq \in s.lost /\ DOMAIN t.written = 1 .. n
           \/ s.seq \notin s.lost /\ DOMAIN t.written = 1 .. n + 1 /\ t.written[n + 1] = r
    BY <1>0 DEF Grown
  <1>2. s.seq \in Nat /\ t.seq = s.seq + 1 /\ t.lost = s.lost /\ r.seq = s.seq /\ Typed(s)
    BY DEF Wrote, Typed
  <1>3. \A i \in 1 .. n : s.written[i].seq \in Nat
    BY <1>1, <1>2, WrittenTyped
  <1>4. /\ \A i \in 1 .. n : s.written[i].seq < s.seq /\ s.written[i].seq \notin s.lost
        /\ \A i, j \in 1 .. n : i < j => s.written[i].seq < s.written[j].seq
    BY <1>1 DEF Ordered
  <1>5. ASSUME NEW i \in DOMAIN t.written
        PROVE  t.written[i].seq < t.seq /\ t.written[i].seq \notin t.lost
    <2>1. CASE i \in 1 .. n
      BY <1>1, <1>2, <1>3, <1>4, <2>1
    <2>2. CASE i \notin 1 .. n
      <3>1. i = n + 1 /\ s.seq \notin s.lost /\ t.written[i] = r
        BY <1>1, <2>2
      <3>. QED
        BY <1>2, <3>1
    <2>. QED
      BY <2>1, <2>2
  <1>6. ASSUME NEW i \in DOMAIN t.written, NEW j \in DOMAIN t.written, i < j
        PROVE  t.written[i].seq < t.written[j].seq
    <2>1. CASE j \in 1 .. n
      <3>1. i \in 1 .. n
        BY <1>1, <1>6, <2>1
      <3>. QED
        BY <1>1, <1>4, <1>6, <2>1, <3>1
    <2>2. CASE j \notin 1 .. n
      <3>1. j = n + 1 /\ t.written[j] = r /\ i \in 1 .. n
        BY <1>1, <1>6, <2>2
      <3>. QED
        BY <1>1, <1>2, <1>4, <3>1
    <2>. QED
      BY <2>1, <2>2
  <1>. QED
    BY <1>5, <1>6 DEF Ordered

\* The window of a record that is not an anchor stays, that of an anchor is over.
LEMMA WindowGrows ==
    ASSUME NEW s, NEW t, NEW r, Wrote(s, t, r), Plain(s, t, r) \/ Anchored(s, t, r)
    PROVE  t.windowID \in Nat /\ s.windowID \in Nat /\ s.windowID <= t.windowID
  BY DEF Wrote, Typed, Plain, Anchored

\* Records without an anchor are not signed.
LEMMA NoAnchorUnsigned ==
    ASSUME NEW r, r.anchor = NoAnchor
    PROVE  ~Signed(r)
  BY DEF Signed, NoAnchor

LEMMA RecordsFormedKept ==
    ASSUME NEW s, NEW t, NEW r, Wrote(s, t, r), Plain(s, t, r) \/ Anchored(s, t, r),
           RecordsFormed(s), StateFormed(s)
    PROVE  RecordsFormed(t)
  <1>0. PICK n \in Nat : Grown(s, t, r, n)
    BY Grows
  <1>1. /\ DOMAIN s.written = 1 .. n
        /\ \A i \in 1 .. n : t.written[i] = s.written[i]
        /\ \/ s.seq \in s.lost /\ DOMAIN t.written = 1 .. n
           \/ s.seq \notin s.lost /\ DOMAIN t.written = 1 .. n + 1 /\ t.written[n + 1] = r
    BY <1>0 DEF Grown
  <1>2. t.windowID \in Nat /\ s.windowID \in Nat /\ s.windowID <= t.windowID
    BY WindowGrows
  <1>. DEFINE Formed(q, w) ==
                /\ q.chained => /\ q.window \in 1 .. w
                                /\ Len(q.prev) >= 2
                                /\ q.chain = Append(q.prev, <<q.seq, q.body>>)
                /\ ~q.chained => q.window = 0 /\ ~Signed(q) /\ ~q.restart
  <1>3. ASSUME NEW i \in 1 .. n
        PROVE  Formed(t.written[i], t.windowID)
    <2>1. Formed(s.written[i], s.windowID)
      BY <1>1 DEF RecordsFormed
    <2>. DEFINE q == s.written[i]
    <2>. HIDE DEF q
    <2>2. Formed(q, s.windowID)
      BY <2>1 DEF q
    <2>3. Formed(q, t.windowID)
      BY <1>2, <2>2
    <2>. QED
      BY <1>1, <2>3 DEF q
  <1>4. Formed(r, t.windowID)
    <2>1. CASE chainingEnabled(s)
      <3>1. s.windowID >= 1 /\ Len(s.chain) >= 2
        BY <2>1 DEF StateFormed, chainingEnabled
      <3>2. /\ r.chained /\ r.window = s.windowID /\ r.prev = s.chain /\ r.seq = s.seq
            /\ r.chain = Append(s.chain, <<s.seq, r.body>>)
        BY <2>1 DEF Wrote
      <3>. QED
        BY <1>2, <3>1, <3>2
    <2>2. CASE ~chainingEnabled(s)
      <3>1. ~r.chained /\ ~r.restart /\ r.window = 0 /\ r.anchor = NoAnchor
        BY <2>2 DEF Wrote
      <3>. QED
        BY <3>1, NoAnchorUnsigned
    <2>. QED
      BY <2>1, <2>2
  <1>5. \A i \in DOMAIN t.written : Formed(t.written[i], t.windowID)
    <2>. TAKE i \in DOMAIN t.written
    <2>. HIDE DEF Formed
    <2>1. CASE i \in 1 .. n
      BY <1>3, <2>1
    <2>2. CASE i \notin 1 .. n
      <3>1. t.written[i] = r
        BY <1>1, <2>2
      <3>. QED
        BY <1>4, <3>1
    <2>. QED
      BY <2>1, <2>2
  <1>. QED
    BY <1>5 DEF RecordsFormed

LEMMA StateFormedKept ==
    ASSUME NEW s, NEW t, NEW r, Wrote(s, t, r), Plain(s, t, r) \/ Anchored(s, t, r),
           StateFormed(s)
    PROVE  StateFormed(t)
  <1>1. s.anchorFrom \in Nat /\ s.seq \in Nat /\ t.seq = s.seq + 1 /\ s.chain \in Seq(Items)
        /\ t.algorithm = s.algorithm /\ t.chainLen = s.chainLen /\ s.algorithm # NoAlg
    BY DEF Wrote, Typed
  <1>2. t.windowID \in Nat /\ s.windowID \in Nat /\ s.windowID <= t.windowID
    BY WindowGrows
  <1>3. t.anchorFrom <= t.seq
    <2>1. CASE Plain(s, t, r)
      BY <1>1, <2>1 DEF Plain, StateFormed
    <2>2. CASE Anchored(s, t, r)
      BY <1>1, <2>2 DEF Anchored
    <2>. QED
      BY <2>1, <2>2
  <1>4. chainingEnabled(t) <=> chainingEnabled(s)
    BY <1>1 DEF chainingEnabled
  <1>5. chainingEnabled(t) => t.windowID >= 1
    BY <1>2, <1>4 DEF StateFormed
  <1>6. CASE chainingEnabled(s)
    <2>1. t.chain = Append(s.chain, <<s.seq, r.body>>) /\ ~t.restartPending
      BY <1>6 DEF Wrote
    <2>2. Len(s.chain) >= 2 /\ Len(s.chain) \in Nat
      BY <1>1 DEF StateFormed
    <2>3. Len(t.chain) = Len(s.chain) + 1
      BY <1>1, <1>6, <2>1, NextHash DEF Wrote, Records
    <2>4. Len(t.chain) >= 2
      BY <2>2, <2>3
    <2>5. t.chainLen # 0
      BY <1>1, <1>6 DEF chainingEnabled
    <2>. QED
      BY <1>3, <1>5, <2>1, <2>4, <2>5 DEF StateFormed
  <1>7. CASE ~chainingEnabled(s)
    <2>1. t.chain = s.chain /\ t.restartPending = s.restartPending
      BY <1>7 DEF Wrote
    <2>. QED
      BY <1>1, <1>3, <1>5, <2>1 DEF StateFormed
  <1>. QED
    BY <1>6, <1>7

\* The window of a record in the output.
LEMMA FormedWindow ==
    ASSUME NEW s, RecordsFormed(s), NEW i \in DOMAIN s.written
    PROVE  s.written[i].window \in 1 .. s.windowID \/ s.written[i].window = 0
  <1>1. s.written[i].chained => s.written[i].window \in 1 .. s.windowID
    BY DEF RecordsFormed
  <1>2. ~s.written[i].chained => s.written[i].window = 0
    BY DEF RecordsFormed
  <1>. QED
    BY <1>1, <1>2

LEMMA OpenWindowKept ==
    ASSUME NEW s, NEW t, NEW r, Wrote(s, t, r), Plain(s, t, r) \/ Anchored(s, t, r),
           Ordered(s), RecordsFormed(s), StateFormed(s), OpenWindow(s)
    PROVE  OpenWindow(t)
  <1>. SUFFICES ASSUME chainingEnabled(t) PROVE OpenWindow(t)
    BY DEF OpenWindow
  <1>0. PICK n \in Nat : Grown(s, t, r, n)
    BY Grows
  <1>1. /\ DOMAIN s.written = 1 .. n
        /\ \A i \in 1 .. n : t.written[i] = s.written[i]
        /\ \/ s.seq \in s.lost /\ DOMAIN t.written = 1 .. n
           \/ s.seq \notin s.lost /\ DOMAIN t.written = 1 .. n + 1 /\ t.written[n + 1] = r
    BY <1>0 DEF Grown
  <1>2. /\ s.seq \in Nat /\ s.anchorFrom \in Nat /\ t.seq = s.seq + 1 /\ t.lost = s.lost
        /\ Typed(s) /\ s.windowID \in Nat
        /\ t.segmentID = s.segmentID /\ t.algorithm = s.algorithm /\ t.chainLen = s.chainLen
    BY DEF Wrote, Typed
  <1>3. chainingEnabled(s)
    BY <1>2 DEF chainingEnabled
  <1>4. /\ r.seq = s.seq /\ r.algorithm = s.algorithm
        /\ r.window = s.windowID /\ r.segment = s.segmentID /\ t.chain = r.chain
    BY <1>3 DEF Wrote
  <1>5. \A i \in 1 .. n : s.written[i].seq \in Nat /\ s.written[i].seq < s.seq
    BY <1>1, <1>2, WrittenTyped DEF Ordered
  <1>6. s.windowID >= 1 /\ s.anchorFrom <= s.seq
    BY <1>3 DEF StateFormed
  <1>7. \A i \in 1 .. n : s.written[i].window \in Nat /\ s.written[i].window <= s.windowID
    <2>. TAKE i \in 1 .. n
    <2>1. s.written[i].window \in Nat
      BY <1>1, <1>2, WrittenTyped
    <2>2. s.written[i].window \in 1 .. s.windowID \/ s.written[i].window = 0
      BY <1>1, FormedWindow
    <2>. QED
      BY <1>2, <2>1, <2>2
  <1>8. \A i \in DOMAIN t.written : i \in 1 .. n \/ (i = n + 1 /\ t.written[i] = r)
    BY <1>1
  <1>9. CASE Anchored(s, t, r)
    <2>1. t.windowID = s.windowID + 1 /\ t.anchorFrom = t.seq
      BY <1>9 DEF Anchored
    <2>2. \A i \in DOMAIN t.written : t.written[i].window # t.windowID
      BY <1>1, <1>2, <1>4, <1>7, <1>8, <2>1
    <2>3. t.anchorFrom .. t.seq - 1 = {}
      BY <1>2, <2>1
    <2>. QED
      BY <2>2, <2>3 DEF OpenWindow
  <1>10. CASE Plain(s, t, r)
    <2>1. t.windowID = s.windowID /\ t.anchorFrom = s.anchorFrom
      BY <1>10 DEF Plain
    <2>2. ASSUME NEW i \in DOMAIN t.written, t.written[i].window = t.windowID
          PROVE  /\ t.anchorFrom <= t.written[i].seq
                 /\ t.written[i].segment = t.segmentID
                 /\ t.written[i].algorithm = t.algorithm
                 /\ t.written[i].seq + 1 = t.seq => t.written[i].chain = t.chain
      <3>1. CASE i \in 1 .. n
        <4>1. t.written[i] = s.written[i] /\ s.written[i].window = s.windowID
          BY <1>1, <2>1, <2>2, <3>1
        <4>2. /\ s.anchorFrom <= s.written[i].seq
              /\ s.written[i].segment = s.segmentID
              /\ s.written[i].algorithm = s.algorithm
          BY <1>1, <1>3, <3>1, <4>1 DEF OpenWindow
        <4>3. s.written[i].seq + 1 # t.seq
          BY <1>2, <1>5, <3>1
        <4>. QED
          BY <1>2, <2>1, <4>1, <4>2, <4>3
      <3>2. CASE i = n + 1 /\ t.written[i] = r
        BY <1>2, <1>4, <1>6, <2>1, <3>2
      <3>. QED
        BY <1>8, <3>1, <3>2
    <2>3. ASSUME NEW q \in t.anchorFrom .. t.seq - 1
          PROVE  \/ q \in t.lost
                 \/ \E i \in DOMAIN t.written :
                      t.written[i].seq = q /\ t.written[i].window = t.windowID
      <3>1. CASE q = s.seq
        <4>1. CASE q \notin s.lost
          <5>1. n + 1 \in DOMAIN t.written /\ t.written[n + 1] = r
            BY <1>1, <3>1, <4>1
          <5>. QED
            BY <1>4, <2>1, <3>1, <5>1
        <4>. QED
          BY <1>2, <4>1
      <3>2. CASE q # s.seq
        <4>1. q \in s.anchorFrom .. s.seq - 1
          BY <1>2, <2>1, <3>2
        <4>2. \/ q \in s.lost
              \/ \E i \in DOMAIN s.written :
                   s.written[i].seq = q /\ s.written[i].window = s.windowID
          BY <1>3, <4>1 DEF OpenWindow
        <4>3. \A i \in DOMAIN s.written : i \in DOMAIN t.written /\ t.written[i] = s.written[i]
          BY <1>1
        <4>. QED
          BY <1>2, <2>1, <4>2, <4>3
      <3>. QED
        BY <3>1, <3>2
    <2>. QED
      BY <2>2, <2>3 DEF OpenWindow
  <1>. QED
    BY <1>9, <1>10

LEMMA LinkedKept ==
    ASSUME NEW s, NEW t, NEW r, Wrote(s, t, r),
           Ordered(s), RecordsFormed(s), StateFormed(s), OpenWindow(s), Linked(s)
    PROVE  Linked(t)
  <1>0. PICK n \in Nat : Grown(s, t, r, n)
    BY Grows
  <1>1. /\ DOMAIN s.written = 1 .. n
        /\ \A i \in 1 .. n : t.written[i] = s.written[i]
        /\ \/ s.seq \in s.lost /\ DOMAIN t.written = 1 .. n
           \/ s.seq \notin s.lost /\ DOMAIN t.written = 1 .. n + 1 /\ t.written[n + 1] = r
    BY <1>0 DEF Grown
  <1>2. s.seq \in Nat /\ Typed(s) /\ r.seq = s.seq
    BY DEF Wrote, Typed
  <1>3. \A i \in 1 .. n : s.written[i].seq \in Nat /\ s.written[i].seq < s.seq
    BY <1>1, <1>2, WrittenTyped DEF Ordered
  <1>4. \A i \in DOMAIN t.written : i \in 1 .. n \/ (i = n + 1 /\ t.written[i] = r)
    BY <1>1
  <1>5. SUFFICES ASSUME NEW i \in DOMAIN t.written, NEW j \in DOMAIN t.written,
                        t.written[i].chained, t.written[i].window = t.written[j].window,
                        t.written[j].seq = t.written[i].seq + 1
                 PROVE  t.written[j].prev = t.written[i].chain
    BY DEF Linked
  <1>6. CASE i \notin 1 .. n
    <2>1. t.written[i].seq = s.seq
      BY <1>2, <1>4, <1>6
    <2>2. t.written[j].seq = s.seq \/ t.written[j].seq < s.seq
      BY <1>1, <1>2, <1>3, <1>4
    <2>3. FALSE
      BY <1>2, <1>5, <2>1, <2>2
    <2>. QED
      BY <2>3
  <1>7. CASE i \in 1 .. n /\ j \in 1 .. n
    BY <1>1, <1>5, <1>7 DEF Linked
  <1>8. CASE i \in 1 .. n /\ j \notin 1 .. n
    <2>1. t.written[j] = r /\ t.written[i] = s.written[i]
      BY <1>1, <1>4, <1>8
    <2>2. s.written[i].window \in 1 .. s.windowID
      BY <1>1, <1>5, <1>8, <2>1 DEF RecordsFormed
    <2>3. chainingEnabled(s)
      <3>1. ~chainingEnabled(s) => r.window = 0
        BY DEF Wrote
      <3>2. r.window # 0
        BY <1>5, <2>1, <2>2
      <3>. QED
        BY <3>1, <3>2
    <2>4. r.window = s.windowID /\ r.prev = s.chain
      BY <2>3 DEF Wrote
    <2>5. s.written[i].window = s.windowID /\ s.written[i].seq + 1 = s.seq
      BY <1>2, <1>5, <2>1, <2>4
    <2>6. s.written[i].chain = s.chain
      BY <1>1, <1>8, <2>3, <2>5 DEF OpenWindow
    <2>. QED
      BY <2>1, <2>4, <2>6
  <1>. QED
    BY <1>6, <1>7, <1>8

LEMMA ClosedWindowsKept ==
    ASSUME NEW s, NEW t, NEW r, Wrote(s, t, r), Plain(s, t, r) \/ Anchored(s, t, r),
           Ordered(s), RecordsFormed(s), StateFormed(s), OpenWindow(s), ClosedWindows(s)
    PROVE  ClosedWindows(t)
  <1>0. PICK n \in Nat : Grown(s, t, r, n)
    BY Grows
  <1>1. /\ DOMAIN s.written = 1 .. n
        /\ \A i \in 1 .. n : t.written[i] = s.written[i]
        /\ \/ s.seq \in s.lost /\ DOMAIN t.written = 1 .. n
           \/ s.seq \notin s.lost /\ DOMAIN t.written = 1 .. n + 1 /\ t.written[n + 1] = r
    BY <1>0 DEF Grown
  <1>2. /\ s.seq \in Nat /\ s.anchorFrom \in Nat /\ Typed(s) /\ r.seq = s.seq
        /\ t.lost = s.lost /\ s.windowID \in Nat
    BY DEF Wrote, Typed
  <1>3. \A i \in 1 .. n : s.written[i].seq \in Nat /\ s.written[i].seq < s.seq
    BY <1>1, <1>2, WrittenTyped DEF Ordered
  <1>4. \A i \in DOMAIN t.written : i \in 1 .. n \/ (i = n + 1 /\ t.written[i] = r)
    BY <1>1
  <1>5. t.windowID \in Nat /\ s.windowID <= t.windowID
    BY WindowGrows
  <1>6. \A i \in DOMAIN s.written : i \in DOMAIN t.written /\ t.written[i] = s.written[i]
    BY <1>1
  <1>7. r.window \in {0, s.windowID}
    <2>1. chainingEnabled(s) => r.window = s.windowID
      BY DEF Wrote
    <2>2. ~chainingEnabled(s) => r.window = 0
      BY DEF Wrote
    <2>. QED
      BY <2>1, <2>2
  <1>8. ASSUME NEW i \in 1 .. n, Signed(s.written[i])
        PROVE  Closed(t, s.written[i])
    <2>. DEFINE a == s.written[i]
    <2>1. Closed(s, a)
      BY <1>1, <1>8 DEF ClosedWindows
    <2>2. a.chained => a.window \in 1 .. s.windowID
      BY <1>1 DEF RecordsFormed
    <2>. HIDE DEF a
    <2>3. a.chained /\ a.window < s.windowID /\ a.window \in 1 .. s.windowID
      BY <2>1, <2>2 DEF Closed
    <2>4. r.window # a.window
      BY <1>2, <1>7, <2>3
    <2>5. a.window < t.windowID
      BY <1>2, <1>5, <2>3
    <2>6. ASSUME NEW j \in DOMAIN t.written, t.written[j].window = a.window
          PROVE  /\ t.written[j].seq \in a.anchor.from .. a.anchor.to
                 /\ t.written[j].segment = a.segment
                 /\ t.written[j].algorithm = a.algorithm
      <3>1. j \in 1 .. n /\ t.written[j] = s.written[j]
        BY <1>1, <1>4, <2>4, <2>6
      <3>. QED
        BY <1>1, <2>1, <2>6, <3>1 DEF Closed
    <2>7. ASSUME NEW q \in a.anchor.from .. a.anchor.to
          PROVE  \/ q \in t.lost
                 \/ \E j \in DOMAIN t.written :
                      t.written[j].seq = q /\ t.written[j].window = a.window
      <3>1. \/ q \in s.lost
            \/ \E j \in DOMAIN s.written :
                 s.written[j].seq = q /\ s.written[j].window = a.window
        BY <2>1 DEF Closed
      <3>. QED
        BY <1>2, <1>6, <3>1
    <2>8. Closed(t, a)
      BY <2>1, <2>5, <2>6, <2>7 DEF Closed
    <2>. QED
      BY <2>8 DEF a
  <1>9. ASSUME Signed(r), n + 1 \in DOMAIN t.written, t.written[n + 1] = r
        PROVE  Closed(t, r)
    <2>1. Anchored(s, t, r)
      BY <1>9, NoAnchorUnsigned DEF Plain
    <2>2. /\ chainingEnabled(s)
          /\ r.body.kind = "anchor" /\ r.anchor.from = s.anchorFrom /\ r.anchor.to = s.seq
          /\ r.anchor.statement = Statement(r, s.anchorFrom, s.seq)
          /\ t.windowID = s.windowID + 1
      BY <1>9, <2>1 DEF Anchored
    <2>3. /\ r.chained /\ r.window = s.windowID /\ r.segment = s.segmentID
          /\ r.algorithm = s.algorithm
      BY <2>2 DEF Wrote
    <2>4. s.anchorFrom <= s.seq
      BY DEF StateFormed
    <2>5. ASSUME NEW j \in DOMAIN t.written, t.written[j].window = r.window
          PROVE  /\ t.written[j].seq \in r.anchor.from .. r.anchor.to
                 /\ t.written[j].segment = r.segment
                 /\ t.written[j].algorithm = r.algorithm
      <3>1. CASE j \in 1 .. n
        <4>1. t.written[j] = s.written[j] /\ s.written[j].window = s.windowID
          BY <1>1, <2>3, <2>5, <3>1
        <4>2. /\ s.anchorFrom <= s.written[j].seq
              /\ s.written[j].segment = s.segmentID
              /\ s.written[j].algorithm = s.algorithm
          BY <1>1, <2>2, <3>1, <4>1 DEF OpenWindow
        <4>3. s.written[j].seq \in s.anchorFrom .. s.seq
          BY <1>2, <1>3, <3>1, <4>2
        <4>. QED
          BY <2>2, <2>3, <4>1, <4>2, <4>3
      <3>2. CASE j = n + 1 /\ t.written[j] = r
        BY <1>2, <2>2, <2>4, <3>2
      <3>. QED
        BY <1>4, <3>1, <3>2
    <2>6. ASSUME NEW q \in r.anchor.from .. r.anchor.to
          PROVE  \/ q \in t.lost
                 \/ \E j \in DOMAIN t.written :
                      t.written[j].seq = q /\ t.written[j].window = r.window
      <3>1. CASE q = s.seq
        BY <1>2, <1>9, <3>1
      <3>2. CASE q # s.seq
        <4>1. q \in s.anchorFrom .. s.seq - 1
          BY <1>2, <2>2, <3>2
        <4>2. \/ q \in s.lost
              \/ \E j \in DOMAIN s.written :
                   s.written[j].seq = q /\ s.written[j].window = s.windowID
          BY <2>2, <4>1 DEF OpenWindow
        <4>. QED
          BY <1>2, <1>6, <2>3, <4>2
      <3>. QED
        BY <3>1, <3>2
    <2>7. r.window < t.windowID
      BY <1>2, <2>2, <2>3
    <2>8. r.anchor.from <= r.seq /\ r.anchor.to = r.seq
          /\ r.anchor.statement = Statement(r, r.anchor.from, r.anchor.to)
      BY <1>2, <2>2, <2>4
    <2>. QED
      BY <2>2, <2>3, <2>5, <2>6, <2>7, <2>8 DEF Closed
  <1>10. ASSUME NEW i \in DOMAIN t.written, Signed(t.written[i])
         PROVE  Closed(t, t.written[i])
    <2>1. CASE i \in 1 .. n
      BY <1>1, <1>8, <1>10, <2>1
    <2>2. CASE i = n + 1 /\ t.written[i] = r
      BY <1>9, <1>10, <2>2
    <2>. QED
      BY <1>4, <2>1, <2>2
  <1>. QED
    BY <1>10 DEF ClosedWindows

\* The hashes of records with different numbers are different, and a record's
\* hash is longer than what a chain begins with.
LEMMA DifferentHash ==
    ASSUME NEW g \in Seq(Items), NEW h \in Seq(Items), NEW x \in Items, NEW y \in Items
    PROVE  /\ Append(g, x) = Append(h, y) => x = y
           /\ Len(Append(g, x)) = Len(g) + 1
  <1>1. /\ Len(Append(g, x)) = Len(g) + 1 /\ Append(g, x)[Len(g) + 1] = x
        /\ Len(Append(h, y)) = Len(h) + 1 /\ Append(h, y)[Len(h) + 1] = y
        /\ Len(g) \in Nat /\ Len(h) \in Nat
    OBVIOUS
  <1>2. ASSUME Append(g, x) = Append(h, y)
        PROVE  x = y
    <2>1. Len(g) + 1 = Len(h) + 1
      BY <1>1, <1>2
    <2>. QED
      BY <1>1, <1>2, <2>1
  <1>. QED
    BY <1>1, <1>2

\* A chained record in the output.
LEMMA ChainedHash ==
    ASSUME NEW s, Typed(s), RecordsFormed(s), NEW i \in ChainedIn(s)
    PROVE  LET q == s.written[i] IN
           /\ i \in DOMAIN s.written /\ q.seq \in Nat
           /\ q.prev \in Seq(Items) /\ <<q.seq, q.body>> \in Items
           /\ q.chain = Append(q.prev, <<q.seq, q.body>>)
           /\ Len(q.chain) >= 3
  <1>. DEFINE q == s.written[i]
  <1>1. i \in DOMAIN s.written /\ q.chained
    BY DEF ChainedIn
  <1>2. q \in Records
    BY <1>1, WrittenTyped
  <1>3. Len(q.prev) >= 2 /\ q.chain = Append(q.prev, <<q.seq, q.body>>)
    BY <1>1 DEF RecordsFormed
  <1>. HIDE DEF q
  <1>4. q.seq \in Nat /\ q.body \in Bodies /\ q.prev \in Seq(Items)
    BY <1>2 DEF Records
  <1>5. <<q.seq, q.body>> \in Items
    BY <1>4 DEF Items
  <1>6. Len(q.chain) = Len(q.prev) + 1
    BY <1>3, <1>4, <1>5, DifferentHash
  <1>7. Len(q.prev) \in Nat
    BY <1>4
  <1>8. Len(q.chain) >= 3
    BY <1>3, <1>6, <1>7
  <1>. QED
    BY <1>1, <1>3, <1>4, <1>5, <1>8 DEF q

LEMMA BreaksKept ==
    ASSUME NEW s, NEW t, NEW r, Wrote(s, t, r),
           Ordered(s), RecordsFormed(s), StateFormed(s), BreaksInv(s)
    PROVE  BreaksInv(t)
  <1>0. PICK n \in Nat : Grown(s, t, r, n)
    BY Grows
  <1>1. /\ DOMAIN s.written = 1 .. n
        /\ \A i \in 1 .. n : t.written[i] = s.written[i]
        /\ \/ s.seq \in s.lost /\ DOMAIN t.written = 1 .. n
           \/ s.seq \notin s.lost /\ DOMAIN t.written = 1 .. n + 1 /\ t.written[n + 1] = r
    BY <1>0 DEF Grown
  <1>2. /\ s.seq \in Nat /\ Typed(s) /\ r.seq = s.seq /\ t.seq = s.seq + 1 /\ t.lost = s.lost
        /\ r \in Records /\ s.chain \in Seq(Items) /\ s.chainLen \in Nat /\ s.algorithm # NoAlg
    BY DEF Wrote, Typed
  <1>3. \A i \in 1 .. n : s.written[i].seq \in Nat /\ s.written[i].seq < s.seq
    BY <1>1, <1>2, WrittenTyped DEF Ordered
  <1>. DEFINE C == ChainedIn(s)
              D == ChainedIn(t)
  <1>4. C \subseteq 1 .. n /\ \A i \in C : t.written[i] = s.written[i] /\ i \in D
    BY <1>1 DEF ChainedIn
  <1>5. \A from, to : NoneLost(t, from, to) <=> NoneLost(s, from, to)
    BY <1>2 DEF NoneLost
  <1>6. <<s.seq, r.body>> \in Items
    BY <1>2 DEF Items, Records
  <1>7. ASSUME NEW i \in C
        PROVE  /\ s.written[i].seq < s.seq /\ s.written[i].seq \in Nat
               /\ Len(s.written[i].chain) >= 3
               /\ Append(s.chain, <<s.seq, r.body>>) # s.written[i].chain
    <2>. DEFINE q == s.written[i]
    <2>1. q.seq < s.seq /\ q.seq \in Nat
      BY <1>3, <1>4
    <2>2. /\ q.prev \in Seq(Items) /\ <<q.seq, q.body>> \in Items
          /\ q.chain = Append(q.prev, <<q.seq, q.body>>) /\ Len(q.chain) >= 3
      BY <1>2, ChainedHash
    <2>. HIDE DEF q
    <2>3. <<s.seq, r.body>> # <<q.seq, q.body>>
      BY <1>2, <2>1
    <2>4. Append(s.chain, <<s.seq, r.body>>) # q.chain
      BY <1>2, <1>6, <2>2, <2>3, DifferentHash
    <2>. QED
      BY <2>1, <2>2, <2>4 DEF q
  <1>8. CASE chainingEnabled(s) /\ s.seq \notin s.lost
    <2>1. /\ r.chained /\ r.prev = s.chain /\ r.chain = Append(s.chain, <<s.seq, r.body>>)
          /\ r.restart <=> s.restartPending
          /\ t.chain = r.chain /\ ~t.restartPending
      BY <1>8 DEF Wrote
    <2>2. n + 1 \in D /\ t.written[n + 1] = r /\ D = C \cup {n + 1}
      BY <1>1, <1>8, <2>1 DEF ChainedIn
    <2>3. ASSUME NEW i \in D, NEW j \in D, Follows(D, i, j)
          PROVE  Declared(t, t.written[i], t.written[j])
      <3>1. i < j /\ \A k \in D : k <= i \/ j <= k
        BY <2>3 DEF Follows
      <3>2. CASE j \in C
        <4>1. i \in C
          BY <1>4, <2>2, <3>1, <3>2
        <4>2. Follows(C, i, j)
          BY <2>2, <3>1, <3>2, <4>1 DEF Follows
        <4>3. Declared(s, s.written[i], s.written[j])
          BY <3>2, <4>1, <4>2 DEF BreaksInv
        <4>. QED
          BY <1>4, <1>5, <3>2, <4>1, <4>3 DEF Declared
      <3>3. CASE j = n + 1
        <4>1. i \in C
          BY <2>2, <3>1, <3>3
        <4>2. \A k \in C : k <= i
          BY <1>4, <2>2, <3>1, <3>3
        <4>. DEFINE q == s.written[i]
        <4>3. /\ q.seq < s.seq /\ Len(q.chain) >= 3
          BY <1>7, <4>1
        <4>4. ~s.restartPending => (s.chain = q.chain <=> NoneLost(s, q.seq + 1, s.seq - 1))
          BY <4>1, <4>2 DEF BreaksInv
        <4>. HIDE DEF q
        <4>5. s.restartPending => s.chain # q.chain
          <5>1. s.restartPending => Len(s.chain) <= 2
            BY DEF StateFormed
          <5>2. Len(s.chain) \in Nat
            BY <1>2
          <5>. QED
            BY <4>3, <5>1, <5>2
        <4>6. Declared(t, q, r)
          BY <1>2, <1>5, <2>1, <4>3, <4>4, <4>5 DEF Declared
        <4>. QED
          BY <1>4, <2>2, <3>3, <4>1, <4>6 DEF q
      <3>. QED
        BY <2>2, <3>2, <3>3
    <2>4. ASSUME NEW i \in D, \A k \in D : k <= i
          PROVE  t.chain = t.written[i].chain <=> NoneLost(t, t.written[i].seq + 1, t.seq - 1)
      <3>1. i = n + 1
        BY <1>4, <2>2, <2>4
      <3>2. t.chain = t.written[i].chain
        BY <2>1, <2>2, <3>1
      <3>3. (t.written[i].seq + 1) .. (t.seq - 1) = {}
        BY <1>2, <2>2, <3>1
      <3>. QED
        BY <3>2, <3>3 DEF NoneLost
    <2>. QED
      BY <2>3, <2>4 DEF BreaksInv
  <1>9. CASE ~chainingEnabled(s) \/ s.seq \in s.lost
    <2>1. D = C
      <3>1. ~chainingEnabled(s) => ~r.chained
        BY DEF Wrote
      <3>. QED
        BY <1>1, <1>9, <3>1 DEF ChainedIn
    <2>2. ASSUME NEW i \in D, NEW j \in D, Follows(D, i, j)
          PROVE  Declared(t, t.written[i], t.written[j])
      <3>1. Declared(s, s.written[i], s.written[j])
        BY <2>1, <2>2 DEF BreaksInv
      <3>. QED
        BY <1>4, <1>5, <2>1, <3>1 DEF Declared
    <2>3. ASSUME NEW i \in D, ~t.restartPending
          PROVE  t.chain = t.written[i].chain <=> NoneLost(t, t.written[i].seq + 1, t.seq - 1)
      <3>1. chainingEnabled(s)
        <4>1. ~chainingEnabled(s) => t.restartPending = s.restartPending
          BY DEF Wrote
        <4>2. ~chainingEnabled(s) => s.chainLen = 0
          BY <1>2 DEF chainingEnabled
        <4>3. s.chainLen = 0 => s.restartPending
          BY <1>2 DEF StateFormed
        <4>. QED
          BY <2>3, <4>1, <4>2, <4>3
      <3>2. s.seq \in s.lost /\ t.chain = Append(s.chain, <<s.seq, r.body>>)
        BY <1>9, <3>1 DEF Wrote
      <3>3. t.written[i] = s.written[i] /\ i \in C
        BY <1>4, <2>1
      <3>4. t.chain # t.written[i].chain
        BY <1>7, <3>2, <3>3
      <3>5. s.seq \in (t.written[i].seq + 1) .. (t.seq - 1)
        BY <1>2, <1>7, <3>3
      <3>. QED
        BY <1>2, <3>2, <3>4, <3>5 DEF NoneLost
    <2>. QED
      BY <2>2, <2>3 DEF BreaksInv
  <1>. QED
    BY <1>8, <1>9

\* What was announced stays announced.
LEMMA AnnouncedGrows ==
    ASSUME NEW s, NEW t, t.lost = s.lost,
           \A i \in DOMAIN s.written : i \in DOMAIN t.written /\ t.written[i] = s.written[i],
           NEW a, NEW key, NEW x \in Int, NEW y \in Int, x <= y, a.anchor.from \in Nat,
           Announced(s, a, key, x)
    PROVE  Announced(t, a, key, y)
  <1>1. ~NoneLost(s, a.anchor.from, x) => ~NoneLost(t, a.anchor.from, y)
    BY DEF NoneLost
  <1>. QED
    BY <1>1 DEF Announced

LEMMA KeysKept ==
    ASSUME NEW s, NEW t, NEW r, Wrote(s, t, r), Plain(s, t, r) \/ Anchored(s, t, r),
           NEW at, KeysInv(s, at)
    PROVE  KeysInv(t, at)
  <1>0. PICK n \in Nat : Grown(s, t, r, n)
    BY Grows
  <1>1. /\ DOMAIN s.written = 1 .. n
        /\ \A i \in 1 .. n : t.written[i] = s.written[i]
        /\ \/ s.seq \in s.lost /\ DOMAIN t.written = 1 .. n
           \/ s.seq \notin s.lost /\ DOMAIN t.written = 1 .. n + 1 /\ t.written[n + 1] = r
    BY <1>0 DEF Grown
  <1>2. /\ s.seq \in Nat /\ Typed(s) /\ r.seq = s.seq /\ t.seq = s.seq + 1 /\ t.lost = s.lost
        /\ t.signer = s.signer
    BY DEF Wrote, Typed
  <1>. DEFINE C == SignedIn(s)
              D == SignedIn(t)
  <1>3. C \subseteq 1 .. n /\ \A i \in C : t.written[i] = s.written[i] /\ i \in D
    BY <1>1 DEF SignedIn
  <1>4. D \subseteq C \cup {n + 1} /\ (n + 1 \in D => t.written[n + 1] = r /\ Signed(r))
    BY <1>1 DEF SignedIn
  <1>5. Signed(r) => s.signer # NoCert /\ r.anchor.key = KeyOf[s.signer]
    BY NoAnchorUnsigned DEF Plain, Anchored
  <1>6. \A i \in DOMAIN s.written : i \in DOMAIN t.written /\ t.written[i] = s.written[i]
    BY <1>1
  <1>7. \A i \in C : s.written[i].anchor.from \in Nat /\ s.written[i].seq \in Nat
    BY <1>1, <1>2, <1>3, WrittenTyped
  <1>8. t.signer = NoCert => D = {}
    BY <1>2, <1>4, <1>5 DEF KeysInv
  <1>9. ASSUME at # NotStarted, NEW i \in D, NEW j \in D, Follows(D, i, j),
               t.written[i].seq >= at
        PROVE  Announced(t, t.written[i], t.written[j].anchor.key, t.written[j].seq)
    <2>1. i < j /\ \A k \in D : k <= i \/ j <= k
      BY <1>9 DEF Follows
    <2>2. i \in C
      BY <1>3, <1>4, <2>1
    <2>3. CASE j \in C
      <3>1. Follows(C, i, j)
        BY <1>3, <2>1, <2>2, <2>3 DEF Follows
      <3>2. Announced(s, s.written[i], s.written[j].anchor.key, s.written[j].seq)
        BY <1>3, <1>9, <2>2, <2>3, <3>1 DEF KeysInv
      <3>3. Announced(t, s.written[i], s.written[j].anchor.key, s.written[j].seq)
        BY <1>2, <1>6, <1>7, <2>2, <2>3, <3>2, AnnouncedGrows
      <3>. QED
        BY <1>3, <2>2, <2>3, <3>3
    <2>4. CASE j \notin C
      <3>1. j = n + 1 /\ t.written[j] = r /\ Signed(r)
        BY <1>4, <2>4
      <3>2. \A k \in C : k <= i
        BY <1>3, <2>1, <3>1
      <3>3. Announced(s, s.written[i], KeyOf[s.signer], s.seq - 1)
        BY <1>3, <1>9, <2>2, <3>2 DEF KeysInv
      <3>4. Announced(t, s.written[i], KeyOf[s.signer], s.seq)
        BY <1>2, <1>6, <1>7, <2>2, <3>3, AnnouncedGrows
      <3>. QED
        BY <1>2, <1>3, <1>5, <2>2, <3>1, <3>4
    <2>. QED
      BY <2>3, <2>4
  <1>10. ASSUME at # NotStarted, NEW i \in D, \A k \in D : k <= i, t.written[i].seq >= at
         PROVE  Announced(t, t.written[i], KeyOf[t.signer], t.seq - 1)
    <2>1. CASE i \in C
      <3>1. \A k \in C : k <= i
        BY <1>3, <1>10
      <3>2. Announced(s, s.written[i], KeyOf[s.signer], s.seq - 1)
        BY <1>3, <1>10, <2>1, <3>1 DEF KeysInv
      <3>3. s.seq - 1 \in Int /\ t.seq - 1 \in Int /\ s.seq - 1 <= t.seq - 1
        BY <1>2
      <3>4. Announced(t, s.written[i], KeyOf[s.signer], t.seq - 1)
        BY <1>2, <1>6, <1>7, <2>1, <3>2, <3>3, AnnouncedGrows
      <3>. QED
        BY <1>2, <1>3, <2>1, <3>4
    <2>2. CASE i \notin C
      <3>1. t.written[i] = r /\ Signed(r)
        BY <1>4, <1>10, <2>2
      <3>. QED
        BY <1>2, <1>5, <3>1 DEF Announced
    <2>. QED
      BY <2>1, <2>2
  <1>. QED
    BY <1>8, <1>9, <1>10 DEF KeysInv

-----------------------------------------------------------------------------
(* Writing any number of records.                                          *)

\* t is a state that s may lead to without being reconfigured.
Carried(s, t, at) ==
    /\ ChainInv(t) /\ KeysInv(t, at)
    /\ t.algorithm = s.algorithm /\ t.chainLen = s.chainLen /\ t.signer = s.signer

\* One record, whether it closes the window or not.
LEMMA RecordCarries ==
    ASSUME NEW s, NEW t, NEW r, NEW at, ChainInv(s), KeysInv(s, at),
           Wrote(s, t, r), Plain(s, t, r) \/ Anchored(s, t, r)
    PROVE  Carried(s, t, at)
  <1>1. /\ Typed(s)
        /\ Ordered(s) /\ RecordsFormed(s) /\ StateFormed(s)
        /\ OpenWindow(s) /\ Linked(s) /\ ClosedWindows(s)
        /\ BreaksInv(s)
    BY DEF ChainInv
  <1>2. Typed(t) /\ t.algorithm = s.algorithm /\ t.chainLen = s.chainLen /\ t.signer = s.signer
    BY DEF Wrote
  <1>3. Ordered(t) /\ RecordsFormed(t) /\ StateFormed(t)
    BY <1>1, OrderedKept, RecordsFormedKept, StateFormedKept
  <1>4. OpenWindow(t) /\ Linked(t) /\ ClosedWindows(t)
    BY <1>1, OpenWindowKept, LinkedKept, ClosedWindowsKept
  <1>5. BreaksInv(t)
    BY <1>1, BreaksKept
  <1>6. KeysInv(t, at)
    BY KeysKept
  <1>. QED
    BY <1>2, <1>3, <1>4, <1>5, <1>6 DEF Carried, ChainInv

LEMMA WriteRecordCarries ==
    ASSUME NEW s, NEW at, ChainInv(s), KeysInv(s, at), NEW body \in Bodies
    PROVE  Carried(s, writeRecord(s, body), at)
  <1>1. CASE s.algorithm = NoAlg
    BY <1>1, WriteNothing DEF Carried
  <1>2. CASE s.algorithm # NoAlg
    <2>. DEFINE r == stamp(s, body)
                t == writeRecord(s, body)
    <2>1. Typed(s)
      BY DEF ChainInv
    <2>2. Wrote(s, t, r) /\ Plain(s, t, r)
      BY <1>2, <2>1, WriteRecordShape
    <2>. HIDE DEF r, t
    <2>3. Carried(s, t, at)
      BY <2>2, RecordCarries
    <2>. QED
      BY <2>3 DEF t
  <1>. QED
    BY <1>1, <1>2

LEMMA WriteAnchorCarries ==
    ASSUME NEW s, NEW at, ChainInv(s), KeysInv(s, at), NEW out, chainingEnabled(s)
    PROVE  Carried(s, writeAnchor(s, out), at)
  <1>. DEFINE t == writeAnchor(s, out)
  <1>1. Typed(s)
    BY DEF ChainInv
  <1>2. PICK r \in Records : Wrote(s, t, r) /\ Anchored(s, t, r)
    BY <1>1, WriteAnchorShape
  <1>. HIDE DEF t
  <1>3. Carried(s, t, at)
    BY <1>2, RecordCarries
  <1>. QED
    BY <1>3 DEF t

LEMMA WriteEventCarries ==
    ASSUME NEW s, NEW at, ChainInv(s), KeysInv(s, at), NEW out
    PROVE  Carried(s, writeEvent(s, out), at)
  <1>. DEFINE u == writeRecord(s, Event)
  <1>1. Event \in Bodies
    BY DEF Event, Bodies, Keys
  <1>2. Carried(s, u, at)
    BY <1>1, WriteRecordCarries
  <1>3. writeEvent(s, out) = IF anchorDue(u) THEN writeAnchor(u, out) ELSE u
    BY DEF writeEvent
  <1>. HIDE DEF u
  <1>4. ChainInv(u) /\ KeysInv(u, at)
    BY <1>2 DEF Carried
  <1>5. CASE anchorDue(u)
    <2>1. chainingEnabled(u)
      BY <1>5 DEF anchorDue
    <2>2. Carried(u, writeAnchor(u, out), at)
      BY <1>4, <2>1, WriteAnchorCarries
    <2>3. Carried(s, writeAnchor(u, out), at)
      BY <1>2, <2>2 DEF Carried
    <2>. QED
      BY <1>3, <1>5, <2>3
  <1>6. CASE ~anchorDue(u)
    BY <1>2, <1>3, <1>6
  <1>. QED
    BY <1>5, <1>6

\* The states after each of n records.
Steps(s, out, n, g) ==
    g = [i \in 0 .. n |-> IF i = 0 THEN s ELSE writeEvent(g[i - 1], out)]

\* There are such states for every number of records: otherwise take the
\* smallest number for which there are none, and add one to those before it.
LEMMA StatesExist ==
    ASSUME NEW s, NEW out, NEW n \in Nat
    PROVE  \E g : Steps(s, out, n, g)
  <1>. DEFINE S == {k \in Nat : ~\E g : Steps(s, out, k, g)}
  <1>1. SUFFICES ASSUME S # {} PROVE FALSE
    OBVIOUS
  <1>2. PICK k \in S : \A e \in S : k <= e
    <2>1. S \subseteq Nat
      OBVIOUS
    <2>. HIDE DEF S
    <2>. QED
      BY <1>1, <2>1, SmallestNumber
  <1>3. k \in Nat /\ ~\E g : Steps(s, out, k, g)
    OBVIOUS
  <1>4. CASE k = 0
    <2>. DEFINE g == [i \in 0 .. 0 |-> s]
    <2>1. g = [i \in 0 .. 0 |-> IF i = 0 THEN s ELSE writeEvent(g[i - 1], out)]
      OBVIOUS
    <2>. QED
      BY <1>3, <1>4, <2>1 DEF Steps
  <1>5. CASE k # 0
    <2>1. k - 1 \in Nat
      BY <1>3, <1>5
    <2>2. k - 1 \notin S
      BY <1>2, <1>3, <2>1
    <2>3. PICK g : Steps(s, out, k - 1, g)
      BY <2>1, <2>2
    <2>. DEFINE h == [i \in 0 .. k |-> IF i = k THEN writeEvent(g[k - 1], out) ELSE g[i]]
    <2>4. g = [i \in 0 .. k - 1 |-> IF i = 0 THEN s ELSE writeEvent(g[i - 1], out)]
      BY <2>3 DEF Steps
    <2>5. ASSUME NEW i \in 0 .. k
          PROVE  h[i] = IF i = 0 THEN s ELSE writeEvent(h[i - 1], out)
      <3>1. CASE i = 0
        <4>1. 0 \in 0 .. k - 1 /\ i # k
          BY <1>3, <1>5, <2>1, <3>1
        <4>2. g[0] = s
          BY <2>4, <4>1
        <4>. QED
          BY <3>1, <4>1, <4>2
      <3>2. CASE i # 0 /\ i # k
        <4>1. i \in 0 .. k - 1 /\ i - 1 \in 0 .. k /\ i - 1 # k
          BY <1>3, <3>2
        <4>2. g[i] = writeEvent(g[i - 1], out)
          BY <2>4, <3>2, <4>1
        <4>3. h[i] = g[i] /\ h[i - 1] = g[i - 1]
          BY <3>2, <4>1
        <4>. QED
          BY <3>2, <4>2, <4>3
      <3>3. CASE i = k
        <4>1. i - 1 \in 0 .. k /\ i - 1 # k
          BY <1>3, <1>5, <3>3
        <4>2. h[i - 1] = g[k - 1] /\ h[i] = writeEvent(g[k - 1], out)
          BY <3>3, <4>1
        <4>. QED
          BY <1>5, <3>3, <4>2
      <3>. QED
        BY <3>1, <3>2, <3>3
    <2>6. h = [i \in 0 .. k |-> h[i]]
      OBVIOUS
    <2>. HIDE DEF h
    <2>7. [i \in 0 .. k |-> h[i]]
            = [i \in 0 .. k |-> IF i = 0 THEN s ELSE writeEvent(h[i - 1], out)]
      BY <2>5
    <2>8. Steps(s, out, k, h)
      BY <2>6, <2>7 DEF Steps
    <2>. QED
      BY <1>3, <2>8
  <1>. QED
    BY <1>4, <1>5

\* The invariant holds after each of them: take the first after which it does not.
LEMMA StatesCarried ==
    ASSUME NEW s, NEW at, ChainInv(s), KeysInv(s, at), NEW out, NEW n \in Nat,
           NEW f, Steps(s, out, n, f)
    PROVE  \A k \in 0 .. n : Carried(s, f[k], at)
  <1>. DEFINE S == {k \in 0 .. n : ~Carried(s, f[k], at)}
  <1>1. SUFFICES ASSUME S # {} PROVE FALSE
    OBVIOUS
  <1>2. PICK k \in S : \A e \in S : k <= e
    <2>1. S \subseteq Nat
      OBVIOUS
    <2>. HIDE DEF S
    <2>. QED
      BY <1>1, <2>1, SmallestNumber
  <1>3. k \in 0 .. n /\ ~Carried(s, f[k], at)
    OBVIOUS
  <1>4. f[k] = IF k = 0 THEN s ELSE writeEvent(f[k - 1], out)
    BY <1>3 DEF Steps
  <1>5. CASE k = 0
    BY <1>3, <1>4, <1>5 DEF Carried
  <1>6. CASE k # 0
    <2>1. k - 1 \in 0 .. n /\ ~(k <= k - 1)
      BY <1>3, <1>6
    <2>2. Carried(s, f[k - 1], at)
      BY <1>2, <2>1
    <2>3. Carried(f[k - 1], writeEvent(f[k - 1], out), at)
      BY <2>2, WriteEventCarries DEF Carried
    <2>4. Carried(s, f[k], at)
      BY <1>4, <1>6, <2>2, <2>3 DEF Carried
    <2>. QED
      BY <1>3, <2>4
  <1>. QED
    BY <1>5, <1>6

\* What writeEvents computes is the last of such states.
LEMMA WriteEventsShape ==
    ASSUME NEW s, NEW out, NEW n \in Nat
    PROVE  \E f : Steps(s, out, n, f) /\ writeEvents(s, out, n) = f[n]
  <1>. DEFINE f == CHOOSE g : Steps(s, out, n, g)
  <1>1. Steps(s, out, n, f)
    BY StatesExist
  <1>2. writeEvents(s, out, n) = f[n]
    BY DEF writeEvents, Steps
  <1>. QED
    BY <1>1, <1>2

LEMMA WriteEventsCarries ==
    ASSUME NEW s, NEW at, ChainInv(s), KeysInv(s, at), NEW out, NEW n \in Nat
    PROVE  Carried(s, writeEvents(s, out, n), at)
  <1>1. PICK f : Steps(s, out, n, f) /\ writeEvents(s, out, n) = f[n]
    BY WriteEventsShape
  <1>2. \A k \in 0 .. n : Carried(s, f[k], at)
    BY <1>1, StatesCarried
  <1>. QED
    BY <1>1, <1>2

-----------------------------------------------------------------------------
(* What reconfiguration does to the invariant.                             *)

\* t is s with the chain started again.
Restarted(s, t) ==
    /\ Typed(t)
    /\ t.seq = s.seq /\ t.written = s.written /\ t.lost = s.lost /\ t.signer = s.signer
    /\ t.windowID = s.windowID + 1 /\ t.anchorFrom = s.seq
    /\ t.restartPending
    /\ Len(t.chain) <= 2 /\ (t.algorithm # NoAlg => Len(t.chain) >= 2)

\* What a chain begins with.
LEMMA Beginning ==
    ASSUME NEW alg \in Algorithms
    PROVE  LET g == IF alg = NoAlg THEN <<>> ELSE <<"genesis", alg>> IN
           g \in Seq(Items) /\ Len(g) <= 2 /\ (alg # NoAlg => Len(g) >= 2)
  <1>1. "genesis" \in Items /\ alg \in Items
    BY DEF Items
  <1>. HIDE DEF Items
  <1>2. <<"genesis", alg>> \in Seq(Items) /\ Len(<<"genesis", alg>>) = 2
    BY <1>1
  <1>3. <<>> \in Seq(Items) /\ Len(<<>>) = 0
    OBVIOUS
  <1>. QED
    BY <1>2, <1>3

LEMMA ResetRestarts ==
    ASSUME NEW s, Typed(s)
    PROVE  Restarted(s, resetChain(s))
  <1>. DEFINE g == IF s.algorithm = NoAlg THEN <<>> ELSE <<"genesis", s.algorithm>>
              t == [s EXCEPT !.sinceAnchor = 0, !.anchorFrom = s.seq, !.restartPending = TRUE,
                             !.segmentID = @ + 1, !.windowID = @ + 1, !.chain = g]
  <1>1. t = resetChain(s)
    BY DEF resetChain
  <1>2. s.algorithm \in Algorithms
    BY DEF Typed
  <1>3. g \in Seq(Items) /\ Len(g) <= 2 /\ (s.algorithm # NoAlg => Len(g) >= 2)
    BY <1>2, Beginning
  <1>. HIDE DEF g
  <1>4. g \in Seq(Items)
    BY <1>3
  <1>5. Typed(t)
    BY <1>4 DEF Typed, Fields
  <1>6. /\ t.seq = s.seq /\ t.written = s.written /\ t.lost = s.lost /\ t.signer = s.signer
        /\ t.windowID = s.windowID + 1 /\ t.anchorFrom = s.seq
        /\ t.restartPending /\ t.chain = g /\ t.algorithm = s.algorithm
    BY DEF Typed, Fields
  <1>. HIDE DEF t
  <1>7. Restarted(s, t)
    BY <1>3, <1>5, <1>6 DEF Restarted
  <1>. QED
    BY <1>1, <1>7

\* The restart keeps what is in the output, and opens a window for what is not.
LEMMA RestartKeeps ==
    ASSUME NEW s, NEW t, NEW at, ChainInv(s), KeysInv(s, at), Restarted(s, t)
    PROVE  ChainInv(t) /\ KeysInv(t, at)
  <1>1. /\ Typed(s)
        /\ Ordered(s) /\ RecordsFormed(s) /\ StateFormed(s)
        /\ OpenWindow(s) /\ Linked(s) /\ ClosedWindows(s)
        /\ BreaksInv(s)
    BY DEF ChainInv
  <1>2. /\ Typed(t)
        /\ t.seq = s.seq /\ t.written = s.written /\ t.lost = s.lost /\ t.signer = s.signer
        /\ t.windowID = s.windowID + 1 /\ t.anchorFrom = s.seq
        /\ t.restartPending
        /\ Len(t.chain) <= 2 /\ (t.algorithm # NoAlg => Len(t.chain) >= 2)
    BY DEF Restarted
  <1>3. s.windowID \in Nat /\ s.seq \in Nat
    BY <1>1 DEF Typed
  <1>4. Ordered(t) /\ Linked(t)
    BY <1>1, <1>2 DEF Ordered, Linked
  <1>5. RecordsFormed(t)
    <2>1. ASSUME NEW i \in DOMAIN t.written
          PROVE  LET r == t.written[i] IN
                 /\ r.chained => /\ r.window \in 1 .. t.windowID
                                 /\ Len(r.prev) >= 2
                                 /\ r.chain = Append(r.prev, <<r.seq, r.body>>)
                 /\ ~r.chained => r.window = 0 /\ ~Signed(r) /\ ~r.restart
      <3>. DEFINE r == s.written[i]
      <3>1. i \in DOMAIN s.written /\ t.written[i] = r
        BY <1>2
      <3>2. r.chained => /\ r.window \in 1 .. s.windowID
                         /\ Len(r.prev) >= 2
                         /\ r.chain = Append(r.prev, <<r.seq, r.body>>)
        BY <1>1, <3>1 DEF RecordsFormed
      <3>3. ~r.chained => r.window = 0 /\ ~Signed(r) /\ ~r.restart
        BY <1>1, <3>1 DEF RecordsFormed
      <3>. HIDE DEF r
      <3>4. r.window \in 1 .. s.windowID => r.window \in 1 .. t.windowID
        BY <1>2, <1>3
      <3>. QED
        BY <3>1, <3>2, <3>3, <3>4
    <2>. QED
      BY <2>1 DEF RecordsFormed
  <1>6. StateFormed(t)
    BY <1>2, <1>3 DEF StateFormed
  <1>7. OpenWindow(t)
    <2>1. ASSUME NEW i \in DOMAIN t.written
          PROVE  t.written[i].window # t.windowID
      <3>1. i \in DOMAIN s.written /\ t.written[i] = s.written[i]
        BY <1>2
      <3>2. s.written[i].window \in 1 .. s.windowID \/ s.written[i].window = 0
        BY <1>1, <3>1, FormedWindow
      <3>. QED
        BY <1>2, <1>3, <3>1, <3>2
    <2>2. t.anchorFrom .. t.seq - 1 = {}
      BY <1>2, <1>3
    <2>. QED
      BY <2>1, <2>2 DEF OpenWindow
  <1>8. ClosedWindows(t)
    <2>1. ASSUME NEW i \in DOMAIN t.written, Signed(t.written[i])
          PROVE  Closed(t, t.written[i])
      <3>1. Closed(s, s.written[i]) /\ i \in DOMAIN s.written
        BY <1>1, <1>2, <2>1 DEF ClosedWindows
      <3>2. s.written[i].window \in Nat
        BY <1>1, <3>1, WrittenTyped
      <3>3. s.written[i].window < s.windowID => s.written[i].window < t.windowID
        BY <1>2, <1>3, <3>2
      <3>. QED
        BY <1>2, <3>1, <3>3 DEF Closed
    <2>. QED
      BY <2>1 DEF ClosedWindows
  <1>9. BreaksInv(t)
    BY <1>1, <1>2 DEF BreaksInv, ChainedIn, Declared, NoneLost
  <1>10. KeysInv(t, at)
    BY <1>2 DEF KeysInv, SignedIn, Announced, NoneLost
  <1>. QED
    BY <1>2, <1>4, <1>5, <1>6, <1>7, <1>8, <1>9, <1>10 DEF ChainInv

\* t is s without hashing.
LEMMA DisabledKeeps ==
    ASSUME NEW s, NEW t, NEW at, ChainInv(s), KeysInv(s, at), Typed(t), t.algorithm = NoAlg,
           t.seq = s.seq, t.written = s.written, t.lost = s.lost, t.signer = s.signer,
           t.windowID = s.windowID, t.anchorFrom = s.anchorFrom,
           t.restartPending = s.restartPending, t.chain = s.chain
    PROVE  ChainInv(t) /\ KeysInv(t, at)
  <1>1. /\ Typed(s)
        /\ Ordered(s) /\ RecordsFormed(s) /\ StateFormed(s)
        /\ OpenWindow(s) /\ Linked(s) /\ ClosedWindows(s)
        /\ BreaksInv(s)
    BY DEF ChainInv
  <1>2. Ordered(t) /\ Linked(t)
    BY <1>1 DEF Ordered, Linked
  <1>3. RecordsFormed(t)
    BY <1>1 DEF RecordsFormed
  <1>4. StateFormed(t) /\ OpenWindow(t)
    BY <1>1 DEF StateFormed, OpenWindow, chainingEnabled
  <1>5. ClosedWindows(t)
    BY <1>1 DEF ClosedWindows, Closed
  <1>6. BreaksInv(t)
    BY <1>1 DEF BreaksInv, ChainedIn, Declared, NoneLost
  <1>7. KeysInv(t, at)
    BY DEF KeysInv, SignedIn, Announced, NoneLost
  <1>. QED
    BY <1>2, <1>3, <1>4, <1>5, <1>6, <1>7 DEF ChainInv

LEMMA ConfigureIntegrityKeeps ==
    ASSUME NEW s, NEW at, ChainInv(s), KeysInv(s, at), NEW alg \in Algorithms
    PROVE  ChainInv(configureIntegrity(s, alg)) /\ KeysInv(configureIntegrity(s, alg), at)
  <1>. DEFINE u == [s EXCEPT !.algorithm = alg]
  <1>1. Typed(s)
    BY DEF ChainInv
  <1>2. Typed(u)
    BY <1>1 DEF Typed, Fields
  <1>3. /\ u.seq = s.seq /\ u.written = s.written /\ u.lost = s.lost /\ u.signer = s.signer
        /\ u.windowID = s.windowID /\ u.anchorFrom = s.anchorFrom /\ u.algorithm = alg
        /\ u.restartPending = s.restartPending /\ u.chain = s.chain
    BY <1>1 DEF Typed, Fields
  <1>4. configureIntegrity(s, alg) = IF alg = NoAlg THEN u ELSE resetChain(u)
    BY DEF configureIntegrity
  <1>. HIDE DEF u
  <1>5. CASE alg = NoAlg
    <2>1. ChainInv(u) /\ KeysInv(u, at)
      BY <1>2, <1>3, <1>5, DisabledKeeps
    <2>. QED
      BY <1>4, <1>5, <2>1
  <1>6. CASE alg # NoAlg
    <2>. DEFINE t == resetChain(u)
    <2>1. Restarted(u, t)
      BY <1>2, ResetRestarts
    <2>. HIDE DEF t
    <2>2. Restarted(s, t)
      BY <1>3, <2>1 DEF Restarted
    <2>3. ChainInv(t) /\ KeysInv(t, at)
      BY <2>2, RestartKeeps
    <2>. QED
      BY <1>4, <1>6, <2>3 DEF t
  <1>. QED
    BY <1>5, <1>6

LEMMA ConfigureChainLengthKeeps ==
    ASSUME NEW s, NEW at, ChainInv(s), KeysInv(s, at), NEW length \in Nat
    PROVE  ChainInv(configureChainLength(s, length)) /\ KeysInv(configureChainLength(s, length), at)
  <1>. DEFINE u == [s EXCEPT !.chainLen = length]
              t == resetChain(u)
  <1>1. Typed(s)
    BY DEF ChainInv
  <1>2. Typed(u)
    BY <1>1 DEF Typed, Fields
  <1>3. /\ u.seq = s.seq /\ u.written = s.written /\ u.lost = s.lost /\ u.signer = s.signer
        /\ u.windowID = s.windowID
    BY <1>1 DEF Typed, Fields
  <1>4. configureChainLength(s, length) = t
    BY DEF configureChainLength
  <1>. HIDE DEF u
  <1>5. Restarted(u, t)
    BY <1>2, ResetRestarts
  <1>. HIDE DEF t
  <1>6. Restarted(s, t)
    BY <1>3, <1>5 DEF Restarted
  <1>7. ChainInv(t) /\ KeysInv(t, at)
    BY <1>6, RestartKeeps
  <1>. QED
    BY <1>4, <1>7

-----------------------------------------------------------------------------
(* What a new certificate does to the invariant.                           *)

\* t is s with the certificate c.
Resigned(s, t, c) ==
    /\ Typed(t) /\ t.signer = c
    /\ t.algorithm = s.algorithm /\ t.chainLen = s.chainLen /\ t.segmentID = s.segmentID
    /\ t.seq = s.seq /\ t.written = s.written /\ t.lost = s.lost
    /\ t.windowID = s.windowID /\ t.anchorFrom = s.anchorFrom
    /\ t.restartPending = s.restartPending /\ t.chain = s.chain

LEMMA SignerShape ==
    ASSUME NEW s, Typed(s), NEW c \in Certs
    PROVE  Resigned(s, [s EXCEPT !.signer = c], c)
  <1>. DEFINE t == [s EXCEPT !.signer = c]
  <1>1. Typed(t)
    BY DEF Typed, Fields
  <1>2. /\ t.algorithm = s.algorithm /\ t.chainLen = s.chainLen /\ t.segmentID = s.segmentID
        /\ t.seq = s.seq /\ t.written = s.written /\ t.lost = s.lost
        /\ t.windowID = s.windowID /\ t.anchorFrom = s.anchorFrom
        /\ t.restartPending = s.restartPending /\ t.chain = s.chain /\ t.signer = c
    BY DEF Typed, Fields
  <1>. HIDE DEF t
  <1>3. Resigned(s, t, c)
    BY <1>1, <1>2 DEF Resigned
  <1>. QED
    BY <1>3 DEF t

\* The chain does not depend on the certificate.
LEMMA SignerKeepsChain ==
    ASSUME NEW s, NEW t, NEW c, ChainInv(s), Resigned(s, t, c)
    PROVE  ChainInv(t)
  <1>1. /\ Typed(s)
        /\ Ordered(s) /\ RecordsFormed(s) /\ StateFormed(s)
        /\ OpenWindow(s) /\ Linked(s) /\ ClosedWindows(s)
        /\ BreaksInv(s)
    BY DEF ChainInv
  <1>2. /\ Typed(t)
        /\ t.algorithm = s.algorithm /\ t.chainLen = s.chainLen /\ t.segmentID = s.segmentID
        /\ t.seq = s.seq /\ t.written = s.written /\ t.lost = s.lost
        /\ t.windowID = s.windowID /\ t.anchorFrom = s.anchorFrom
        /\ t.restartPending = s.restartPending /\ t.chain = s.chain
    BY DEF Resigned
  <1>3. Ordered(t) /\ Linked(t)
    BY <1>1, <1>2 DEF Ordered, Linked
  <1>4. RecordsFormed(t)
    BY <1>1, <1>2 DEF RecordsFormed
  <1>5. StateFormed(t)
    BY <1>1, <1>2 DEF StateFormed, chainingEnabled
  <1>6. OpenWindow(t)
    BY <1>1, <1>2 DEF OpenWindow, chainingEnabled
  <1>7. ClosedWindows(t)
    BY <1>1, <1>2 DEF ClosedWindows, Closed
  <1>8. BreaksInv(t)
    BY <1>1, <1>2 DEF BreaksInv, ChainedIn, Declared, NoneLost
  <1>. QED
    BY <1>2, <1>3, <1>4, <1>5, <1>6, <1>7, <1>8 DEF ChainInv

\* During start-up, and before anything was signed, any certificate may come.
LEMMA SignerKeepsKeys ==
    ASSUME NEW s, NEW t, NEW at, NEW c \in Certs, KeysInv(s, at), Resigned(s, t, c),
           at = NotStarted \/ s.signer = NoCert
    PROVE  KeysInv(t, at)
  <1>1. t.signer # NoCert /\ t.written = s.written
    BY CertsAssumption DEF Resigned
  <1>2. s.signer = NoCert => SignedIn(t) = {}
    BY <1>1 DEF KeysInv, SignedIn
  <1>. QED
    BY <1>1, <1>2 DEF KeysInv

\* The end of start-up: nothing was written since.
LEMMA StartKeepsKeys ==
    ASSUME NEW s, NEW at, ChainInv(s), KeysInv(s, at)
    PROVE  KeysInv(s, s.seq)
  <1>1. Typed(s) /\ Ordered(s)
    BY DEF ChainInv
  <1>2. ASSUME NEW i \in SignedIn(s)
        PROVE  ~(s.written[i].seq >= s.seq)
    <2>1. i \in DOMAIN s.written
      BY DEF SignedIn
    <2>2. s.written[i].seq < s.seq /\ s.seq \in Nat
      BY <1>1, <2>1 DEF Ordered, Typed
    <2>3. s.written[i].seq \in Nat
      BY <1>1, <2>1, WrittenTyped
    <2>. QED
      BY <2>2, <2>3
  <1>. QED
    BY <1>2 DEF KeysInv

\* A key that is no error is the signer's.
LEMMA SigningKeys ==
    ASSUME NEW s, NEW out, s.signer \in Certs
    PROVE  SigningKey(s, out) # BadSign => SigningKey(s, out) \notin {NoKey, BadSign}
  BY CertsAssumption DEF SigningKey

\* An announcement and its anchor account for the new key, in the output or by
\* what is missing from it.
LEMMA AnnouncementAccounts ==
    ASSUME NEW s, NEW u, NEW v, NEW p, NEW r, NEW c \in Certs,
           ChainInv(s), ChainInv(u),
           Wrote(s, u, p), Plain(s, u, p), p.body = Announcement(c), chainingEnabled(s),
           Wrote(u, v, r), Anchored(u, v, r), Signed(r),
           NEW i \in SignedIn(v), \A k \in SignedIn(v) : k <= i
    PROVE  Announced(v, v.written[i], KeyOf[c], v.seq - 1)
  <1>0. PICK n \in Nat : Grown(u, v, r, n)
    BY Grows
  <1>1. /\ DOMAIN u.written = 1 .. n
        /\ \A k \in 1 .. n : v.written[k] = u.written[k]
        /\ \/ u.seq \in u.lost /\ DOMAIN v.written = 1 .. n
           \/ u.seq \notin u.lost /\ DOMAIN v.written = 1 .. n + 1 /\ v.written[n + 1] = r
    BY <1>0 DEF Grown
  <1>2. /\ s.seq \in Nat /\ u.seq = s.seq + 1 /\ v.seq = u.seq + 1
        /\ u.lost = s.lost /\ v.lost = s.lost /\ s.anchorFrom \in Nat
    BY DEF Wrote, Typed
  <1>3. i \in DOMAIN v.written /\ Signed(v.written[i])
    BY DEF SignedIn
  <1>4. CASE u.seq \in u.lost
    <2>1. i \in DOMAIN u.written /\ v.written[i] = u.written[i]
      BY <1>1, <1>3, <1>4
    <2>2. Typed(u) /\ Ordered(u) /\ Closed(u, u.written[i])
      BY <1>3, <2>1 DEF ChainInv, ClosedWindows
    <2>3. /\ u.written[i].anchor.from <= u.written[i].seq /\ u.written[i].seq < u.seq
          /\ u.written[i].anchor.from \in Nat /\ u.written[i].seq \in Nat
      BY <2>1, <2>2, WrittenTyped DEF Closed, Ordered
    <2>4. u.seq \in u.written[i].anchor.from .. v.seq - 1
      BY <1>2, <2>3
    <2>5. ~NoneLost(v, v.written[i].anchor.from, v.seq - 1)
      BY <1>2, <1>4, <2>1, <2>4 DEF NoneLost
    <2>. QED
      BY <2>5 DEF Announced
  <1>5. CASE u.seq \notin u.lost
    <2>1. n + 1 \in SignedIn(v) /\ v.written[n + 1] = r
      BY <1>1, <1>5 DEF SignedIn
    <2>2. i = n + 1
      BY <1>1, <1>3, <1>5, <2>1
    <2>3. r.anchor.from = s.anchorFrom /\ r.window = s.windowID
      BY DEF Anchored, Plain, Wrote, chainingEnabled
    <2>4. s.anchorFrom <= s.seq
      BY DEF ChainInv, StateFormed
    <2>5. CASE s.seq \in s.lost
      <3>1. s.seq \in r.anchor.from .. v.seq - 1
        BY <1>2, <2>3, <2>4
      <3>2. ~NoneLost(v, r.anchor.from, v.seq - 1)
        BY <1>2, <2>5, <3>1 DEF NoneLost
      <3>. QED
        BY <2>1, <2>2, <3>2 DEF Announced
    <2>6. CASE s.seq \notin s.lost
      <3>1. PICK m \in Nat : Grown(s, u, p, m)
        BY Grows
      <3>2. m + 1 \in DOMAIN u.written /\ u.written[m + 1] = p
        BY <2>6, <3>1 DEF Grown
      <3>3. m + 1 \in DOMAIN v.written /\ v.written[m + 1] = p
        BY <1>1, <3>2
      <3>4. p.window = s.windowID /\ p.body = [kind |-> "announcement", key |-> KeyOf[c]]
        BY DEF Wrote, Announcement
      <3>. QED
        BY <2>1, <2>2, <2>3, <3>3, <3>4 DEF Announced
    <2>. QED
      BY <2>5, <2>6
  <1>. QED
    BY <1>4, <1>5

\* The change of certificates while the program runs.
LEMMA AuthenticateKeeps ==
    ASSUME NEW s, NEW at, ChainInv(s), KeysInv(s, at), NEW out, NEW c \in Certs,
           chainingEnabled(s), s.signer \in Certs
    PROVE  LET t == Authenticate(s, out, c) IN ChainInv(t) /\ KeysInv(t, at)
  <1>. DEFINE p == stamp(s, Announcement(c))
              u == writeRecord(s, Announcement(c))
              v == writeAnchor(u, out)
              t == [v EXCEPT !.signer = c]
  <1>1. Announcement(c) \in Bodies
    BY DEF Announcement, Bodies, Keys
  <1>2. Typed(s) /\ s.algorithm # NoAlg
    BY DEF ChainInv, chainingEnabled
  <1>3. Wrote(s, u, p) /\ Plain(s, u, p) /\ p.body = Announcement(c)
    BY <1>1, <1>2, WriteRecordShape
  <1>4. Authenticate(s, out, c) = IF SigningKey(s, out) = BadSign THEN v ELSE t
    BY DEF Authenticate
  <1>. HIDE DEF p, u
  <1>5. Carried(s, u, at)
    BY <1>3, RecordCarries
  <1>6. /\ ChainInv(u) /\ KeysInv(u, at) /\ Typed(u) /\ chainingEnabled(u)
        /\ u.signer = s.signer
    BY <1>5 DEF Carried, ChainInv, chainingEnabled
  <1>7. PICK r \in Records :
           /\ Wrote(u, v, r) /\ Anchored(u, v, r)
           /\ Signed(r) <=> SigningKey(u, out) \notin {NoKey, BadSign}
    BY <1>6, WriteAnchorShape
  <1>8. SigningKey(u, out) = SigningKey(s, out)
    BY <1>6 DEF SigningKey
  <1>. HIDE DEF v
  <1>9. Carried(u, v, at)
    BY <1>6, <1>7, RecordCarries
  <1>10. ChainInv(v) /\ KeysInv(v, at)
    BY <1>9 DEF Carried
  <1>11. CASE SigningKey(s, out) = BadSign
    BY <1>4, <1>10, <1>11
  <1>12. CASE SigningKey(s, out) # BadSign
    <2>1. Signed(r)
      BY <1>7, <1>8, <1>12, SigningKeys
    <2>2. Resigned(v, t, c)
      BY <1>10, SignerShape DEF ChainInv
    <2>. HIDE DEF t
    <2>3. ChainInv(t)
      BY <1>10, <2>2, SignerKeepsChain
    <2>4. /\ t.signer = c /\ t.signer # NoCert /\ t.written = v.written /\ t.lost = v.lost
          /\ t.seq = v.seq
      BY <2>2, CertsAssumption DEF Resigned
    <2>5. SignedIn(t) = SignedIn(v)
      BY <2>4 DEF SignedIn
    <2>6. \A a, key, to : Announced(t, a, key, to) <=> Announced(v, a, key, to)
      BY <2>4 DEF Announced, NoneLost
    <2>7. ASSUME NEW i \in SignedIn(v), \A k \in SignedIn(v) : k <= i
          PROVE  Announced(v, v.written[i], KeyOf[c], v.seq - 1)
      BY <1>3, <1>6, <1>7, <2>1, <2>7, AnnouncementAccounts
    <2>8. KeysInv(t, at)
      BY <1>10, <2>4, <2>5, <2>6, <2>7 DEF KeysInv
    <2>. QED
      BY <1>4, <1>12, <2>3, <2>8
  <1>. QED
    BY <1>11, <1>12

-----------------------------------------------------------------------------
(* The invariant of the output, action by action.                          *)

LEMMA NewOutput ==
    ASSUME NEW lost
    PROVE  ChainInv(NewIntegrity(lost)) /\ KeysInv(NewIntegrity(lost), NotStarted)
  <1>. DEFINE s == NewIntegrity(lost)
  <1>1. /\ s.written = <<>> /\ s.algorithm = NoAlg /\ ~s.restartPending /\ s.signer = NoCert
        /\ s.seq = 0 /\ s.anchorFrom = 0
    BY DEF NewIntegrity
  <1>2. Typed(s)
    BY RepetitionAssumption DEF NewIntegrity, Typed, Fields
  <1>. HIDE DEF s
  <1>3. DOMAIN s.written = {}
    BY <1>1
  <1>4. Ordered(s) /\ RecordsFormed(s) /\ Linked(s) /\ ClosedWindows(s)
    BY <1>3 DEF Ordered, RecordsFormed, Linked, ClosedWindows
  <1>5. StateFormed(s) /\ OpenWindow(s)
    BY <1>1 DEF StateFormed, OpenWindow, chainingEnabled
  <1>6. ChainedIn(s) = {} /\ SignedIn(s) = {}
    BY <1>3 DEF ChainedIn, SignedIn
  <1>7. BreaksInv(s) /\ KeysInv(s, NotStarted)
    BY <1>6 DEF BreaksInv, KeysInv
  <1>8. ChainInv(s)
    BY <1>2, <1>4, <1>5, <1>7 DEF ChainInv
  <1>. QED
    BY <1>7, <1>8 DEF s

LEMMA LogInit == Init => LogInv
  <1>. SUFFICES ASSUME Init PROVE LogInv
    OBVIOUS
  <1>1. PICK lost \in Lost : integrity = NewIntegrity(lost)
    BY DEF Init
  <1>2. startedAt = NotStarted
    BY DEF Init
  <1>3. ChainInv(integrity) /\ KeysInv(integrity, startedAt)
    BY <1>1, <1>2, NewOutput
  <1>. QED
    BY <1>2, <1>3, CacheInit DEF LogInv

\* A step writes as many summaries as there are messages to report.
LEMMA SummariesCount ==
    ASSUME LogInv, NEW K
    PROVE  Cardinality(ToFlush(repetitions, K)) \in Nat
  <1>1. ToFlush(repetitions, K) \subseteq DOMAIN repetitions
    BY DEF ToFlush
  <1>2. IsFiniteSet(DOMAIN repetitions)
    BY DEF LogInv, CacheInv, CacheType
  <1>3. IsFiniteSet(ToFlush(repetitions, K))
    BY <1>1, <1>2, FS_Subset
  <1>. QED
    BY <1>3, FS_CardinalityType

\* What a step that writes records has to show.
LEMMA WritingKeeps ==
    ASSUME LogInv, CacheInv', NEW n \in Nat, integrity' = writeEvents(integrity, expired, n),
           startedAt' = startedAt, phase' # "starting" \/ phase' = phase
    PROVE  LogInv'
  <1>1. ChainInv(integrity) /\ KeysInv(integrity, startedAt)
    BY DEF LogInv
  <1>2. Carried(integrity, writeEvents(integrity, expired, n), startedAt)
    BY <1>1, WriteEventsCarries
  <1>3. ChainInv(integrity') /\ KeysInv(integrity', startedAt')
    BY <1>2 DEF Carried
  <1>. QED
    BY <1>3 DEF LogInv

LEMMA ResetCarries ==
    ASSUME LogInv, NEW n \in Nat
    PROVE  /\ Carried(integrity, AfterReset(n), startedAt)
           /\ \E k \in Nat : AfterReset(n) = writeEvents(integrity, expired, k)
  <1>. DEFINE k == Cardinality(Flushed(repetitions, DOMAIN repetitions)) + n
  <1>1. k \in Nat
    BY SummariesCount DEF Flushed
  <1>2. AfterReset(n) = writeEvents(integrity, expired, k)
    BY DEF AfterReset
  <1>. HIDE DEF k
  <1>3. ChainInv(integrity) /\ KeysInv(integrity, startedAt)
    BY DEF LogInv
  <1>. QED
    BY <1>1, <1>2, <1>3, WriteEventsCarries

LEMMA LoggingKeeps ==
    ASSUME LogInv, CacheInv', NEW m \in Messages,
           Repeated(m) \/ First(m) \/ Unsuppressed(m) \/ Fatal(m)
    PROVE  LogInv'
  <1>1. CASE Repeated(m)
    <2>. DEFINE K == IF now - repetitions[m].lastEmitted >= interval THEN {m} ELSE {}
    <2>1. integrity' = writeEvents(integrity, expired, Cardinality(K))
      BY <1>1 DEF Repeated
    <2>2. Cardinality(K) \in Nat
      <3>1. IsFiniteSet({m}) /\ IsFiniteSet({})
        BY FS_Singleton, FS_EmptySet
      <3>2. Cardinality({m}) \in Nat /\ Cardinality({}) \in Nat
        BY <3>1, FS_CardinalityType
      <3>. QED
        BY <3>2
    <2>. HIDE DEF K
    <2>3. startedAt' = startedAt /\ phase' = phase
      BY <1>1 DEF Repeated, process
    <2>. QED
      BY <2>1, <2>2, <2>3, WritingKeeps
  <1>2. CASE First(m)
    <2>1. \E gone : integrity'
                      = writeEvents(integrity, expired, Cardinality(Flushed(repetitions, gone)) + 1)
      BY <1>2 DEF First
    <2>2. \A gone : Cardinality(Flushed(repetitions, gone)) + 1 \in Nat
      BY SummariesCount DEF Flushed
    <2>3. startedAt' = startedAt /\ phase' = phase
      BY <1>2 DEF First, process
    <2>. QED
      BY <2>1, <2>2, <2>3, WritingKeeps
  <1>3. CASE Unsuppressed(m) \/ Fatal(m)
    <2>1. integrity' = AfterReset(1)
      BY <1>3 DEF Unsuppressed, Fatal
    <2>2. startedAt' = startedAt /\ (phase' = phase \/ phase' # "starting")
      BY <1>3 DEF Unsuppressed, Fatal, process
    <2>. QED
      BY <2>1, <2>2, ResetCarries, WritingKeeps
  <1>. QED
    BY <1>1, <1>2, <1>3

LEMMA OptionKeeps ==
    ASSUME LogInv, CacheInv', Option,
           \/ \E alg \in Algorithms : SetHashAlgorithm(alg)
           \/ \E length \in ChainLengths : SetHashChainLength(length)
           \/ \E c \in Certs : SetSigningCertificate(c)
           \/ SetFormat
    PROVE  LogInv'
  <1>1. startedAt' = startedAt /\ phase' = phase /\ startedAt = NotStarted
    BY DEF Option, LogInv
  <1>. DEFINE s == AfterReset(0)
  <1>2. Carried(integrity, s, startedAt)
    BY ResetCarries
  <1>. HIDE DEF s
  <1>3. ChainInv(s) /\ KeysInv(s, startedAt)
    BY <1>2 DEF Carried
  <1>4. CASE \E alg \in Algorithms : SetHashAlgorithm(alg)
    <2>1. PICK alg \in Algorithms : integrity' = configureIntegrity(s, alg)
      BY <1>4 DEF SetHashAlgorithm, s
    <2>2. ChainInv(integrity') /\ KeysInv(integrity', startedAt)
      BY <1>3, <2>1, ConfigureIntegrityKeeps
    <2>. QED
      BY <1>1, <2>2 DEF LogInv
  <1>5. CASE \E length \in ChainLengths : SetHashChainLength(length)
    <2>1. PICK length \in ChainLengths : integrity' = configureChainLength(s, length)
      BY <1>5 DEF SetHashChainLength, s
    <2>2. length \in Nat
      BY RepetitionAssumption
    <2>3. ChainInv(integrity') /\ KeysInv(integrity', startedAt)
      BY <1>3, <2>1, <2>2, ConfigureChainLengthKeeps
    <2>. QED
      BY <1>1, <2>3 DEF LogInv
  <1>6. CASE \E c \in Certs : SetSigningCertificate(c)
    <2>1. PICK c \in Certs : integrity' = [integrity EXCEPT !.signer = c]
      BY <1>6 DEF SetSigningCertificate
    <2>2. ChainInv(integrity) /\ KeysInv(integrity, startedAt)
      BY DEF LogInv
    <2>3. Resigned(integrity, integrity', c)
      BY <2>1, <2>2, SignerShape DEF ChainInv
    <2>4. ChainInv(integrity') /\ KeysInv(integrity', startedAt)
      BY <1>1, <2>2, <2>3, SignerKeepsChain, SignerKeepsKeys
    <2>. QED
      BY <1>1, <2>4 DEF LogInv
  <1>7. CASE SetFormat
    BY <1>1, <1>3, <1>7 DEF SetFormat, LogInv, s
  <1>. QED
    BY <1>4, <1>5, <1>6, <1>7

LEMMA RotationKeeps ==
    ASSUME LogInv, CacheInv', NEW c \in Certs \cup {NoCert}, RotateSigningCertificate(c)
    PROVE  LogInv'
  <1>1. startedAt' = startedAt /\ phase' = phase
    BY DEF RotateSigningCertificate, Outside, process
  <1>2. ChainInv(integrity) /\ KeysInv(integrity, startedAt)
    BY DEF LogInv
  <1>3. integrity.signer \in Certs \cup {NoCert} /\ Typed(integrity)
    BY <1>2 DEF ChainInv, Typed
  <1>4. CASE MustAuthenticate(integrity, expired, c)
    <2>. DEFINE s == AfterReset(0)
    <2>1. Carried(integrity, s, startedAt)
      BY ResetCarries
    <2>2. integrity' = Authenticate(s, expired, c)
      BY <1>4 DEF RotateSigningCertificate
    <2>. HIDE DEF s
    <2>3. c \in Certs /\ integrity.signer \in Certs /\ chainingEnabled(integrity)
      BY <1>3, <1>4 DEF MustAuthenticate, loadLogSigner
    <2>4. ChainInv(s) /\ KeysInv(s, startedAt) /\ s.signer \in Certs /\ chainingEnabled(s)
      BY <2>1, <2>3 DEF Carried, chainingEnabled
    <2>5. ChainInv(integrity') /\ KeysInv(integrity', startedAt)
      BY <2>2, <2>3, <2>4, AuthenticateKeeps
    <2>. QED
      BY <1>1, <2>5 DEF LogInv
  <1>5. CASE ~MustAuthenticate(integrity, expired, c)
    <2>1. integrity' = RotateQuietly(integrity, expired, c)
      BY <1>5 DEF RotateSigningCertificate
    <2>2. CASE c \in Certs /\ integrity.signer = NoCert
               /\ integrity' = [integrity EXCEPT !.signer = c]
      <3>1. Resigned(integrity, integrity', c)
        BY <1>3, <2>2, SignerShape
      <3>2. ChainInv(integrity') /\ KeysInv(integrity', startedAt)
        BY <1>2, <2>2, <3>1, SignerKeepsChain, SignerKeepsKeys
      <3>. QED
        BY <1>1, <3>2 DEF LogInv
    <2>3. CASE integrity' = integrity
      BY <1>1, <1>2, <2>3 DEF LogInv
    <2>. QED
      BY <2>1, <2>2, <2>3 DEF RotateQuietly, loadLogSigner
  <1>. QED
    BY <1>4, <1>5

LEMMA LogNext ==
    ASSUME LogInv, [Next]_vars
    PROVE  LogInv'
  <1>0. CacheInv'
    BY CacheNext DEF LogInv
  <1>1. CASE \E m \in Messages : Repeated(m) \/ First(m) \/ Unsuppressed(m) \/ Fatal(m)
    BY <1>0, <1>1, LoggingKeeps
  <1>2. CASE TimerFires
    <2>1. \E K : integrity' = writeEvents(integrity, expired, Cardinality(ToFlush(repetitions, K)))
      BY <1>2 DEF TimerFires
    <2>2. startedAt' = startedAt /\ phase' = phase
      BY <1>2 DEF TimerFires, process
    <2>. QED
      BY <1>0, <2>1, <2>2, SummariesCount, WritingKeeps
  <1>3. CASE UNCHANGED <<integrity, startedAt, phase>>
    BY <1>0, <1>3 DEF LogInv
  <1>4. CASE Tick \/ (\E c \in Certs : Expire(c)) \/ UNCHANGED vars
    BY <1>3, <1>4 DEF Tick, Expire, Outside, process, vars
  <1>5. CASE \/ \E alg \in Algorithms : SetHashAlgorithm(alg)
             \/ \E length \in ChainLengths : SetHashChainLength(length)
             \/ \E c \in Certs : SetSigningCertificate(c)
             \/ SetFormat
    <2>1. Option
      BY <1>5 DEF SetHashAlgorithm, SetHashChainLength, SetSigningCertificate, SetFormat
    <2>. QED
      BY <1>0, <1>5, <2>1, OptionKeeps
  <1>6. CASE Started
    <2>1. startedAt' = integrity.seq /\ integrity' = integrity /\ phase' = "running"
      BY <1>6 DEF Started
    <2>2. ChainInv(integrity') /\ KeysInv(integrity', startedAt')
      BY <2>1, StartKeepsKeys DEF LogInv
    <2>. QED
      BY <1>0, <2>1, <2>2 DEF LogInv
  <1>7. CASE SetLogFile \/ ProductionWarning
    <2>1. integrity' = AfterReset(0) \/ integrity' = AfterReset(1)
      BY <1>7 DEF SetLogFile, ProductionWarning
    <2>2. startedAt' = startedAt /\ phase' = phase
      BY <1>7 DEF SetLogFile, ProductionWarning, Outside, process
    <2>. QED
      BY <1>0, <2>1, <2>2, ResetCarries, WritingKeeps
  <1>8. CASE \E c \in Certs \cup {NoCert} : RotateSigningCertificate(c)
    BY <1>0, <1>8, RotationKeeps
  <1>. QED
    BY <1>1, <1>2, <1>4, <1>5, <1>6, <1>7, <1>8 DEF Next

-----------------------------------------------------------------------------
(* What a verifier of the output relies on.                                *)

\* The window of a signed anchor verifies unless a record of it is missing.
LEMMA ClosedWindowVerifies ==
    ASSUME NEW s, ChainInv(s), NEW i \in DOMAIN s.written, Signed(s.written[i])
    PROVE  LET a == s.written[i] IN
           verifyWindow(s.written, SignedWindow(s.written, a), a)
             <=> NoneLost(s, a.anchor.from, a.anchor.to)
  <1>. DEFINE a == s.written[i]
              W == SignedWindow(s.written, a)
              from == a.anchor.from
              to == a.anchor.to
  <1>1. Typed(s) /\ Ordered(s) /\ RecordsFormed(s) /\ Linked(s) /\ Closed(s, a)
    BY DEF ChainInv, ClosedWindows
  <1>2. /\ a.chained /\ a.body.kind = "anchor"
        /\ to = a.seq /\ a.anchor.statement = Statement(a, from, to)
    BY <1>1 DEF Closed
  <1>3. \A j \in W : j \in DOMAIN s.written /\ s.written[j].window = a.window
    BY DEF SignedWindow
  <1>4. \A j \in DOMAIN s.written : s.written[j].window = a.window => j \in W
    BY DEF SignedWindow
  <1>5. a.window # 0
    <2>1. a.window \in 1 .. s.windowID
      BY <1>1, <1>2 DEF RecordsFormed
    <2>. QED
      BY <2>1
  <1>6. \A j \in W : s.written[j].seq \in from .. to /\ s.written[j].seq \notin s.lost
    BY <1>1, <1>3 DEF Closed, Ordered
  <1>7. ASSUME NEW j \in DOMAIN s.written, NEW k \in DOMAIN s.written,
               s.written[j].seq = s.written[k].seq
        PROVE  j = k
    <2>1. j \in Nat /\ k \in Nat /\ s.written[j].seq \in Nat /\ s.written[k].seq \in Nat
      BY <1>1, WrittenTyped
    <2>2. j < k => s.written[j].seq < s.written[k].seq
      BY <1>1 DEF Ordered
    <2>3. k < j => s.written[k].seq < s.written[j].seq
      BY <1>1 DEF Ordered
    <2>. QED
      BY <1>7, <2>1, <2>2, <2>3
  <1>8. ASSUME NEW j \in W
        PROVE  /\ s.written[j].chained
               /\ s.written[j].algorithm = a.algorithm
               /\ s.written[j].segment = a.segment
               /\ s.written[j].chain
                    = advanceChain(s.written[j].prev, s.written[j].seq, s.written[j].body)
               /\ s.written[j].seq = to => s.written[j].body.kind = "anchor"
    <2>1. j \in DOMAIN s.written /\ s.written[j].window = a.window
      BY <1>3
    <2>2. s.written[j].chained
      BY <1>1, <1>5, <2>1 DEF RecordsFormed
    <2>3. s.written[j].algorithm = a.algorithm /\ s.written[j].segment = a.segment
      BY <1>1, <2>1 DEF Closed
    <2>4. s.written[j].chain
            = advanceChain(s.written[j].prev, s.written[j].seq, s.written[j].body)
      BY <1>1, <2>1, <2>2 DEF RecordsFormed, advanceChain
    <2>5. s.written[j].seq = to => j = i
      BY <1>2, <1>7, <2>1
    <2>. QED
      BY <1>2, <2>2, <2>3, <2>4, <2>5
  <1>9. ASSUME NEW j \in W, NEW k \in W, s.written[j].seq = s.written[k].seq + 1
        PROVE  s.written[j].prev = s.written[k].chain
    BY <1>1, <1>3, <1>8, <1>9 DEF Linked
  <1>10. ASSUME NoneLost(s, from, to)
         PROVE  {s.written[j].seq : j \in W} = from .. to
    <2>1. ASSUME NEW q \in from .. to
          PROVE  q \in {s.written[j].seq : j \in W}
      <3>1. q \notin s.lost
        BY <1>10 DEF NoneLost
      <3>2. PICK j \in DOMAIN s.written : s.written[j].seq = q /\ s.written[j].window = a.window
        BY <1>1, <3>1 DEF Closed
      <3>. QED
        BY <1>4, <3>2
    <2>2. {s.written[j].seq : j \in W} \subseteq from .. to
      BY <1>6
    <2>. QED
      BY <2>1, <2>2
  <1>11. ASSUME {s.written[j].seq : j \in W} = from .. to
         PROVE  NoneLost(s, from, to)
    BY <1>6, <1>11 DEF NoneLost
  <1>12. \A j, k \in W : s.written[j].seq = s.written[k].seq => j = k
    BY <1>3, <1>7
  <1>. HIDE DEF W
  <1>13. verifyWindow(s.written, W, a) <=> {s.written[j].seq : j \in W} = from .. to
    BY <1>2, <1>8, <1>9, <1>12 DEF verifyWindow
  <1>. QED
    BY <1>10, <1>11, <1>13 DEF W

\* Every signed anchor verifies together with its window, unless a record of it
\* could not be written, for every anchor interval, number of records, set of
\* lost records and sequence of reconfigurations (anchorAttributes, resetChain,
\* verifyWindow).
THEOREM SignedWindowsAreVerifiable == Spec => []SignedWindowsVerify
  <1>1. LogInv => SignedWindowsVerify
    <2>. SUFFICES ASSUME LogInv, NEW i \in DOMAIN integrity.written,
                         Signed(integrity.written[i])
                  PROVE  LET a == integrity.written[i] IN
                         verifyWindow(integrity.written, SignedWindow(integrity.written, a), a)
                           <=> a.anchor.from .. a.anchor.to \cap integrity.lost = {}
      BY DEF SignedWindowsVerify
    <2>1. ChainInv(integrity)
      BY DEF LogInv
    <2>. QED
      BY <2>1, ClosedWindowVerifies DEF NoneLost
  <1>. QED
    BY <1>1, LogInit, LogNext, PTL DEF Spec

\* The chain in the output is broken exactly where a restart is declared or a
\* record was lost, for every such sequence (stampChain, AttrChainRestart).
THEOREM EveryBreakIsDeclared == Spec => []BreaksAreDeclared
  <1>1. LogInv => BreaksAreDeclared
    <2>. SUFFICES ASSUME LogInv PROVE BreaksAreDeclared
      OBVIOUS
    <2>1. \A i, j \in ChainedIn(integrity) :
            Follows(ChainedIn(integrity), i, j)
              => Declared(integrity, integrity.written[i], integrity.written[j])
      BY DEF LogInv, ChainInv, BreaksInv
    <2>. QED
      BY <2>1 DEF BreaksAreDeclared, ChainedIn, Declared, NoneLost
  <1>. QED
    BY <1>1, LogInit, LogNext, PTL DEF Spec

\* A verifier that trusts the first key after start-up can follow every change of
\* it, or sees that a record is missing, for every set of certificates, of expiries
\* and of lost records (RotateSigningCertificate).
THEOREM EveryKeyIsAuthenticated == Spec => []KeysAuthenticated
  <1>1. LogInv => KeysAuthenticated
    <2>. SUFFICES ASSUME LogInv PROVE KeysAuthenticated
      OBVIOUS
    <2>. DEFINE s == integrity
                C == SignedIn(integrity)
    <2>1. ASSUME NEW i \in C, NEW j \in C, Follows(C, i, j),
                 startedAt # NotStarted, s.written[i].seq >= startedAt
          PROVE  Announced(s, s.written[i], s.written[j].anchor.key, s.written[j].anchor.to)
      <3>1. Announced(s, s.written[i], s.written[j].anchor.key, s.written[j].seq)
        BY <2>1 DEF LogInv, KeysInv
      <3>2. Closed(s, s.written[j])
        BY DEF LogInv, ChainInv, ClosedWindows, SignedIn
      <3>3. s.written[j].anchor.to = s.written[j].seq
        BY <3>2 DEF Closed
      <3>. QED
        BY <3>1, <3>3
    <2>. QED
      BY <2>1 DEF KeysAuthenticated, SignedIn, Announced, NoneLost
  <1>. QED
    BY <1>1, LogInit, LogNext, PTL DEF Spec

-----------------------------------------------------------------------------
(* Types and limits: the cache is never larger than its limit, and no anchor *)
(* is ever overdue.                                                         *)

\* Between two operations no anchor is due.
InTime(s) ==
    /\ s.chainLen \in ChainLengths \cup {0}
    /\ chainingEnabled(s) => s.sinceAnchor < s.chainLen

\* What TypeOK says beyond LogInv.
Bounded ==
    /\ InTime(integrity)
    /\ Cardinality(DOMAIN repetitions) <= maxRepeatEntries
    /\ interval \in Intervals /\ now \in 0 .. MaxTime
    /\ phase \in {"starting", "running", "exited"}
    /\ startedAt \in Nat \cup {NotStarted}
    /\ expired \subseteq Certs

\* After an anchor the next one is an interval away.
LEMMA AnchorInTime ==
    ASSUME NEW s, Typed(s), s.chainLen \in ChainLengths \cup {0}, NEW out, chainingEnabled(s)
    PROVE  InTime(writeAnchor(s, out))
  <1>. DEFINE bare == stamp(s, AnchorBody)
              record == [bare EXCEPT !.anchor = signAnchor(s, out, bare)]
              w == Output([Stamped(s, record) EXCEPT !.anchorFrom = NextAnchorFrom(s)], record)
              t == [w EXCEPT !.sinceAnchor = 0, !.windowID = @ + 1]
  <1>1. t = writeAnchor(s, out)
    BY DEF writeAnchor, finishAnchor
  <1>2. PICK r \in Records : Wrote(s, writeAnchor(s, out), r)
    BY WriteAnchorShape
  <1>. HIDE DEF w
  <1>3. DOMAIN t = Fields /\ t.chainLen = s.chainLen
    BY <1>1, <1>2 DEF Wrote, Typed
  <1>4. t.sinceAnchor = 0
    BY <1>3 DEF Fields
  <1>. HIDE DEF t
  <1>5. t.chainLen > 0
    BY <1>3 DEF chainingEnabled
  <1>6. InTime(t)
    BY <1>3, <1>4, <1>5 DEF InTime
  <1>. QED
    BY <1>1, <1>6

LEMMA EventInTime ==
    ASSUME NEW s, NEW at, ChainInv(s), KeysInv(s, at), s.chainLen \in ChainLengths \cup {0},
           NEW out
    PROVE  InTime(writeEvent(s, out))
  <1>. DEFINE u == writeRecord(s, Event)
  <1>1. Event \in Bodies
    BY DEF Event, Bodies, Keys
  <1>2. Carried(s, u, at)
    BY <1>1, WriteRecordCarries
  <1>3. writeEvent(s, out) = IF anchorDue(u) THEN writeAnchor(u, out) ELSE u
    BY DEF writeEvent
  <1>. HIDE DEF u
  <1>4. Typed(u) /\ u.chainLen = s.chainLen /\ u.sinceAnchor \in Nat /\ u.chainLen \in Nat
    BY <1>2 DEF Carried, ChainInv, Typed
  <1>5. CASE anchorDue(u)
    BY <1>3, <1>4, <1>5, AnchorInTime DEF anchorDue
  <1>6. CASE ~anchorDue(u)
    BY <1>3, <1>4, <1>6 DEF anchorDue, InTime
  <1>. QED
    BY <1>5, <1>6

LEMMA EventsInTime ==
    ASSUME NEW s, NEW at, ChainInv(s), KeysInv(s, at), InTime(s), NEW out, NEW n \in Nat
    PROVE  InTime(writeEvents(s, out, n))
  <1>1. PICK f : Steps(s, out, n, f) /\ writeEvents(s, out, n) = f[n]
    BY WriteEventsShape
  <1>2. f[n] = IF n = 0 THEN s ELSE writeEvent(f[n - 1], out)
    BY <1>1 DEF Steps
  <1>3. CASE n = 0
    BY <1>1, <1>2, <1>3
  <1>4. CASE n # 0
    <2>1. n - 1 \in 0 .. n
      BY <1>4
    <2>2. Carried(s, f[n - 1], at)
      BY <1>1, <2>1, StatesCarried
    <2>3. InTime(writeEvent(f[n - 1], out))
      BY <2>2, EventInTime DEF Carried, InTime
    <2>. QED
      BY <1>1, <1>2, <1>4, <2>3
  <1>. QED
    BY <1>3, <1>4

\* A chain that starts again has no anchor due.
LEMMA RestartInTime ==
    ASSUME NEW s, Typed(s), s.chainLen \in ChainLengths \cup {0}
    PROVE  InTime(resetChain(s))
  <1>. DEFINE g == IF s.algorithm = NoAlg THEN <<>> ELSE <<"genesis", s.algorithm>>
              t == [s EXCEPT !.sinceAnchor = 0, !.anchorFrom = s.seq, !.restartPending = TRUE,
                             !.segmentID = @ + 1, !.windowID = @ + 1, !.chain = g]
  <1>1. t = resetChain(s)
    BY DEF resetChain
  <1>. HIDE DEF g
  <1>2. t.sinceAnchor = 0 /\ t.chainLen = s.chainLen
    BY DEF Typed, Fields
  <1>. HIDE DEF t
  <1>3. s.chainLen \in Nat
    BY DEF Typed
  <1>4. InTime(t)
    BY <1>2, <1>3 DEF InTime, chainingEnabled
  <1>. QED
    BY <1>1, <1>4

LEMMA AuthenticateInTime ==
    ASSUME NEW s, NEW at, ChainInv(s), KeysInv(s, at), InTime(s), NEW out, NEW c \in Certs,
           chainingEnabled(s)
    PROVE  InTime(Authenticate(s, out, c))
  <1>. DEFINE u == writeRecord(s, Announcement(c))
              v == writeAnchor(u, out)
              t == [v EXCEPT !.signer = c]
  <1>1. Announcement(c) \in Bodies
    BY DEF Announcement, Bodies, Keys
  <1>2. Carried(s, u, at)
    BY <1>1, WriteRecordCarries
  <1>3. Authenticate(s, out, c) = IF SigningKey(s, out) = BadSign THEN v ELSE t
    BY DEF Authenticate
  <1>. HIDE DEF u
  <1>4. /\ ChainInv(u) /\ KeysInv(u, at) /\ Typed(u) /\ chainingEnabled(u)
        /\ u.chainLen \in ChainLengths \cup {0}
    BY <1>2 DEF Carried, ChainInv, chainingEnabled, InTime
  <1>5. InTime(v)
    BY <1>4, AnchorInTime
  <1>6. Typed(v)
    BY <1>4, WriteAnchorCarries DEF Carried, ChainInv
  <1>. HIDE DEF v
  <1>7. t.algorithm = v.algorithm /\ t.chainLen = v.chainLen /\ t.sinceAnchor = v.sinceAnchor
    BY <1>6 DEF Typed, Fields
  <1>. HIDE DEF t
  <1>8. InTime(t)
    BY <1>5, <1>7 DEF InTime, chainingEnabled
  <1>. QED
    BY <1>3, <1>5, <1>8

LEMMA BoundedInit == Init => Bounded
  <1>. SUFFICES ASSUME Init PROVE Bounded
    OBVIOUS
  <1>1. integrity.chainLen = 0
    BY DEF Init, NewIntegrity
  <1>2. InTime(integrity)
    BY <1>1 DEF InTime, chainingEnabled
  <1>3. DOMAIN repetitions = {}
    BY DEF Init
  <1>4. Cardinality(DOMAIN repetitions) <= maxRepeatEntries
    BY <1>3, FS_EmptySet, RepetitionAssumption
  <1>. QED
    BY <1>2, <1>4, RepetitionAssumption DEF Init, Bounded

\* Whatever a step writes, its anchors are written with it.
LEMMA StepInTime ==
    ASSUME LogInv, Bounded, [Next]_vars
    PROVE  InTime(integrity')
  <1>1. ChainInv(integrity) /\ KeysInv(integrity, startedAt) /\ InTime(integrity)
    BY DEF LogInv, Bounded
  <1>2. \A n \in Nat : InTime(writeEvents(integrity, expired, n))
    BY <1>1, EventsInTime
  <1>3. \A n \in Nat : InTime(AfterReset(n))
    BY <1>2, ResetCarries
  <1>. DEFINE s == AfterReset(0)
  <1>4. Carried(integrity, s, startedAt) /\ InTime(s)
    BY <1>3, ResetCarries
  <1>5. CASE \E m \in Messages : Repeated(m) \/ First(m) \/ Unsuppressed(m) \/ Fatal(m)
    <2>1. PICK m \in Messages : Repeated(m) \/ First(m) \/ Unsuppressed(m) \/ Fatal(m)
      BY <1>5
    <2>2. CASE Repeated(m)
      <3>. DEFINE K == IF now - repetitions[m].lastEmitted >= interval THEN {m} ELSE {}
      <3>1. integrity' = writeEvents(integrity, expired, Cardinality(K))
        BY <2>2 DEF Repeated
      <3>2. IsFiniteSet({m}) /\ IsFiniteSet({})
        BY FS_Singleton, FS_EmptySet
      <3>3. Cardinality({m}) \in Nat /\ Cardinality({}) \in Nat
        BY <3>2, FS_CardinalityType
      <3>4. Cardinality(K) \in Nat
        BY <3>3
      <3>. QED
        BY <1>2, <3>1, <3>4
    <2>3. CASE First(m)
      <3>1. \E gone : integrity'
                        = writeEvents(integrity, expired, Cardinality(Flushed(repetitions, gone)) + 1)
        BY <2>3 DEF First
      <3>2. \A gone : Cardinality(Flushed(repetitions, gone)) + 1 \in Nat
        BY SummariesCount DEF Flushed
      <3>. QED
        BY <1>2, <3>1, <3>2
    <2>4. CASE Unsuppressed(m) \/ Fatal(m)
      BY <1>3, <2>4 DEF Unsuppressed, Fatal
    <2>. QED
      BY <2>1, <2>2, <2>3, <2>4
  <1>6. CASE TimerFires
    <2>1. \E K : integrity' = writeEvents(integrity, expired, Cardinality(ToFlush(repetitions, K)))
      BY <1>6 DEF TimerFires
    <2>. QED
      BY <1>2, <2>1, SummariesCount
  <1>7. CASE SetFormat \/ SetLogFile \/ ProductionWarning
    BY <1>3, <1>7 DEF SetFormat, SetLogFile, ProductionWarning
  <1>8. CASE \/ \E alg \in Algorithms : SetHashAlgorithm(alg)
             \/ \E length \in ChainLengths : SetHashChainLength(length)
    <2>. HIDE DEF s
    <2>1. Typed(s) /\ s.chainLen \in ChainLengths \cup {0}
      BY <1>4 DEF Carried, ChainInv, InTime
    <2>2. CASE \E alg \in Algorithms : SetHashAlgorithm(alg)
      <3>1. PICK alg \in Algorithms : integrity' = configureIntegrity(s, alg)
        BY <2>2 DEF SetHashAlgorithm, s
      <3>. DEFINE u == [s EXCEPT !.algorithm = alg]
      <3>2. Typed(u)
        BY <2>1 DEF Typed, Fields
      <3>3. u.chainLen = s.chainLen /\ u.algorithm = alg
        BY <2>1 DEF Typed, Fields
      <3>4. integrity' = IF alg = NoAlg THEN u ELSE resetChain(u)
        BY <3>1 DEF configureIntegrity
      <3>. HIDE DEF u
      <3>5. alg = NoAlg => InTime(u)
        BY <2>1, <3>3 DEF InTime, chainingEnabled
      <3>6. InTime(resetChain(u))
        BY <2>1, <3>2, <3>3, RestartInTime
      <3>. QED
        BY <3>4, <3>5, <3>6
    <2>3. CASE \E length \in ChainLengths : SetHashChainLength(length)
      <3>1. PICK length \in ChainLengths : integrity' = configureChainLength(s, length)
        BY <2>3 DEF SetHashChainLength, s
      <3>. DEFINE u == [s EXCEPT !.chainLen = length]
      <3>2. length \in Nat
        BY RepetitionAssumption
      <3>3. Typed(u) /\ u.chainLen = length
        BY <2>1, <3>2 DEF Typed, Fields
      <3>4. integrity' = resetChain(u)
        BY <3>1 DEF configureChainLength
      <3>. HIDE DEF u
      <3>. QED
        BY <3>3, <3>4, RestartInTime
    <2>. QED
      BY <1>8, <2>2, <2>3
  <1>9. ASSUME NEW c, integrity' = [integrity EXCEPT !.signer = c]
        PROVE  InTime(integrity')
    <2>1. Typed(integrity)
      BY <1>1 DEF ChainInv
    <2>2. /\ integrity'.algorithm = integrity.algorithm
          /\ integrity'.chainLen = integrity.chainLen
          /\ integrity'.sinceAnchor = integrity.sinceAnchor
      BY <1>9, <2>1 DEF Typed, Fields
    <2>. QED
      BY <1>1, <2>2 DEF InTime, chainingEnabled
  <1>10. CASE \E c \in Certs : SetSigningCertificate(c)
    BY <1>9, <1>10 DEF SetSigningCertificate
  <1>11. CASE \E c \in Certs \cup {NoCert} : RotateSigningCertificate(c)
    <2>1. PICK c \in Certs \cup {NoCert} : RotateSigningCertificate(c)
      BY <1>11
    <2>2. CASE MustAuthenticate(integrity, expired, c)
      <3>1. integrity' = Authenticate(s, expired, c)
        BY <2>1, <2>2 DEF RotateSigningCertificate
      <3>. HIDE DEF s
      <3>2. c \in Certs /\ chainingEnabled(integrity)
        BY <2>2 DEF MustAuthenticate, loadLogSigner
      <3>3. ChainInv(s) /\ KeysInv(s, startedAt) /\ chainingEnabled(s)
        BY <1>4, <3>2 DEF Carried, chainingEnabled
      <3>. QED
        BY <1>4, <3>1, <3>2, <3>3, AuthenticateInTime
    <2>3. CASE ~MustAuthenticate(integrity, expired, c)
      <3>1. integrity' = RotateQuietly(integrity, expired, c)
        BY <2>1, <2>3 DEF RotateSigningCertificate
      <3>. QED
        BY <1>1, <1>9, <3>1 DEF RotateQuietly
    <2>. QED
      BY <2>2, <2>3
  <1>12. CASE Tick \/ Started \/ (\E c \in Certs : Expire(c)) \/ UNCHANGED vars
    BY <1>1, <1>12 DEF Tick, Started, Expire, vars
  <1>. QED
    BY <1>5, <1>6, <1>7, <1>8, <1>10, <1>11, <1>12 DEF Next

\* An entry that comes into a full cache replaces one.
LEMMA FirstFits ==
    ASSUME LogInv, Bounded, NEW m \in Messages, First(m)
    PROVE  Cardinality(DOMAIN repetitions') <= maxRepeatEntries
  <1>. DEFINE D == DOMAIN repetitions
              entry == [count |-> 0, lastEmitted |-> now, lastSeen |-> now]
              gone(evicted) == evicted \cup ({m} \cap DOMAIN repetitions)
  <1>1. PICK evicted \in Evicted(m) :
          repetitions' = With(Without(repetitions, gone(evicted)), m, entry)
    BY DEF First
  <1>2. DOMAIN repetitions' = (D \ evicted) \cup {m}
    BY <1>1 DEF With, Without
  <1>3. IsFiniteSet(D) /\ Cardinality(D) \in Nat /\ Cardinality(D) <= maxRepeatEntries
        /\ maxRepeatEntries \in Nat
    BY FS_CardinalityType, RepetitionAssumption DEF LogInv, CacheInv, CacheType, Bounded
  <1>4. IF m \notin D /\ Cardinality(D) >= maxRepeatEntries
        THEN \E k \in D : evicted = {k}
        ELSE evicted = {}
    BY DEF Evicted, Oldest
  <1>. HIDE DEF D
  <1>5. CASE m \in D
    <2>1. (D \ evicted) \cup {m} = D
      BY <1>4, <1>5
    <2>. QED
      BY <1>2, <1>3, <2>1
  <1>6. CASE m \notin D /\ ~(Cardinality(D) >= maxRepeatEntries)
    <2>1. (D \ evicted) \cup {m} = D \cup {m}
      BY <1>4, <1>6
    <2>2. Cardinality(D \cup {m}) = Cardinality(D) + 1
      BY <1>3, <1>6, FS_AddElement
    <2>. QED
      BY <1>2, <1>3, <1>6, <2>1, <2>2
  <1>7. CASE m \notin D /\ Cardinality(D) >= maxRepeatEntries
    <2>1. PICK k \in D : evicted = {k}
      BY <1>4, <1>7
    <2>2. IsFiniteSet(D \ {k}) /\ Cardinality(D \ {k}) = Cardinality(D) - 1
      BY <1>3, FS_RemoveElement
    <2>3. m \notin D \ {k}
      BY <1>7
    <2>4. Cardinality((D \ {k}) \cup {m}) = Cardinality(D \ {k}) + 1
      BY <2>2, <2>3, FS_AddElement
    <2>. QED
      BY <1>2, <1>3, <2>1, <2>2, <2>4
  <1>. QED
    BY <1>5, <1>6, <1>7

LEMMA StepFits ==
    ASSUME LogInv, Bounded, [Next]_vars
    PROVE  Cardinality(DOMAIN repetitions') <= maxRepeatEntries
  <1>1. /\ IsFiniteSet(DOMAIN repetitions) /\ maxRepeatEntries \in Nat
        /\ Cardinality(DOMAIN repetitions) <= maxRepeatEntries
    BY RepetitionAssumption DEF LogInv, CacheInv, CacheType, Bounded
  <1>2. CASE DOMAIN repetitions' \subseteq DOMAIN repetitions
    <2>1. /\ Cardinality(DOMAIN repetitions') <= Cardinality(DOMAIN repetitions)
          /\ IsFiniteSet(DOMAIN repetitions')
      BY <1>1, <1>2, FS_Subset
    <2>2. Cardinality(DOMAIN repetitions') \in Nat /\ Cardinality(DOMAIN repetitions) \in Nat
      BY <1>1, <2>1, FS_CardinalityType
    <2>. QED
      BY <1>1, <2>1, <2>2
  <1>3. CASE \E m \in Messages : Repeated(m)
    <2>1. PICK m \in Messages : Repeated(m)
      BY <1>3
    <2>. DEFINE counted == [repetitions EXCEPT ![m].count = @ + 1, ![m].lastSeen = now]
    <2>2. PICK K : repetitions' = flushRepetition(counted, K)
      BY <2>1 DEF Repeated
    <2>3. DOMAIN repetitions' = DOMAIN counted
      BY <2>2 DEF flushRepetition
    <2>4. DOMAIN counted = DOMAIN repetitions
      OBVIOUS
    <2>. QED
      BY <1>2, <2>3, <2>4
  <1>4. CASE \E m \in Messages : First(m)
    BY <1>4, FirstFits
  <1>5. CASE TimerFires
    <2>1. DOMAIN repetitions' \subseteq DOMAIN repetitions
      BY <1>5 DEF TimerFires, Without, flushRepetition
    <2>. QED
      BY <1>2, <2>1
  <1>6. CASE resetRepetition \/ repetitions' = repetitions
    <2>1. DOMAIN repetitions' \subseteq DOMAIN repetitions
      BY <1>6 DEF resetRepetition
    <2>. QED
      BY <1>2, <2>1
  <1>7. CASE \/ \E m \in Messages : Unsuppressed(m) \/ Fatal(m)
             \/ \E alg \in Algorithms : SetHashAlgorithm(alg)
             \/ \E length \in ChainLengths : SetHashChainLength(length)
             \/ \E c \in Certs : SetSigningCertificate(c)
             \/ SetFormat \/ SetLogFile \/ ProductionWarning
    <2>1. resetRepetition \/ repetitions' = repetitions
      BY <1>7 DEF Unsuppressed, Fatal, SetHashAlgorithm, SetHashChainLength, Reconfigure,
                  SetSigningCertificate, SetFormat, SetLogFile, ProductionWarning
    <2>. QED
      BY <1>6, <2>1
  <1>8. CASE \/ \E c \in Certs \cup {NoCert} : RotateSigningCertificate(c)
             \/ \E c \in Certs : Expire(c)
             \/ Tick \/ Started \/ UNCHANGED vars
    <2>1. resetRepetition \/ repetitions' = repetitions
      BY <1>8 DEF RotateSigningCertificate, Reconfigure, Expire, Tick, Started, vars
    <2>. QED
      BY <1>6, <2>1
  <1>. QED
    BY <1>3, <1>4, <1>5, <1>7, <1>8 DEF Next

LEMMA BoundedNext ==
    ASSUME LogInv, Bounded, [Next]_vars
    PROVE  Bounded'
  <1>1. InTime(integrity') /\ Cardinality(DOMAIN repetitions') <= maxRepeatEntries
    BY StepInTime, StepFits
  <1>2. interval' \in Intervals
    BY DEF Bounded, Next, vars, Repeated, First, Unsuppressed, Fatal, TimerFires, Tick,
           SetHashAlgorithm, SetHashChainLength, SetSigningCertificate, SetFormat, Started,
           SetLogFile, ProductionWarning, RotateSigningCertificate, Expire, Reconfigure
  <1>3. now' \in 0 .. MaxTime
    <2>1. now' = now \/ Tick
      BY Zenon DEF Next, vars, Repeated, First, Unsuppressed, Fatal, TimerFires,
             SetHashAlgorithm, SetHashChainLength, SetSigningCertificate, SetFormat, Started,
             SetLogFile, ProductionWarning, RotateSigningCertificate, Expire, Reconfigure
    <2>2. now \in 0 .. MaxTime /\ MaxTime \in Nat
      BY RepetitionAssumption DEF Bounded
    <2>. QED
      BY <2>1, <2>2 DEF Tick
  <1>4. /\ phase' \in {phase, "running", "exited"}
        /\ startedAt' \in {startedAt, integrity.seq}
        /\ expired' = expired \/ \E c \in Certs : expired' = expired \cup {c}
    BY DEF Next, vars, process, outside, Repeated, First, Unsuppressed, Fatal, TimerFires, Tick,
           SetHashAlgorithm, SetHashChainLength, SetSigningCertificate, SetFormat, Started,
           SetLogFile, ProductionWarning, RotateSigningCertificate, Expire, Option, Outside
  <1>5. integrity.seq \in Nat
    BY DEF LogInv, ChainInv, Typed
  <1>. QED
    BY <1>1, <1>2, <1>3, <1>4, <1>5 DEF Bounded, InTime, chainingEnabled

\* The types of the log's variables, for every value of the constants; with them
\* the cache never exceeds maxRepeatEntries and no anchor is ever overdue
\* (suppressLocked, anchorDueLocked).
THEOREM LogTypeCorrect == Spec => []TypeOK
  <1>1. LogInv /\ Bounded => TypeOK
    <2>. SUFFICES ASSUME LogInv, Bounded PROVE TypeOK
      OBVIOUS
    <2>1. /\ integrity.algorithm \in Algorithms /\ integrity.signer \in Certs \cup {NoCert}
          /\ integrity.sinceAnchor \in Nat /\ integrity.chainLen \in Nat
      BY DEF LogInv, ChainInv, Typed
    <2>2. integrity.chainLen \in ChainLengths \cup {0}
      BY DEF Bounded, InTime
    <2>3. chainingEnabled(integrity) => ~anchorDue(integrity)
      BY <2>1 DEF Bounded, InTime, anchorDue
    <2>4. ASSUME NEW m \in DOMAIN repetitions
          PROVE  repetitions[m] \in [count : Nat, lastEmitted : 0 .. now, lastSeen : 0 .. now]
      <3>1. repetitions[m] \in Entries /\ now \in Nat
        BY DEF LogInv, CacheInv, CacheType
      <3>2. repetitions[m].lastSeen <= now /\ repetitions[m].lastEmitted <= now
        BY DEF LogInv, CacheInv, SeenWhenReported
      <3>. QED
        BY <3>1, <3>2 DEF Entries
    <2>5. /\ DOMAIN repetitions \subseteq Messages /\ timer \in Nat \cup {NoTimer}
          /\ calls \in [Messages -> Nat] /\ reported \in [Messages -> Nat]
      BY DEF LogInv, CacheInv, CacheType
    <2>. QED
      BY <2>1, <2>2, <2>3, <2>4, <2>5 DEF TypeOK, Bounded
  <1>. QED
    BY <1>1, LogInit, LogNext, BoundedInit, BoundedNext, PTL DEF Spec

=============================================================================
