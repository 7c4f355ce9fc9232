---------------------------- MODULE LogRepetition ----------------------------
(***************************************************************************)
(* The application log of one process: the suppression of repeated         *)
(* messages (logging/repetition.go) in front of the chained and signed     *)
(* output of LogIntegrity, and the operations that reconfigure them.       *)
(* Every action holds emitMu from beginning to end.  The callback of a     *)
(* timer that was stopped returns without effect, so only the running      *)
(* timer is modelled.                                                      *)
(***************************************************************************)
EXTENDS LogIntegrity

CONSTANTS
    Messages,          \* the repeat keys: body, level, attributes, template
    maxRepeatEntries,  \* the size of the cache
    Intervals,         \* the values of AIRGAP_LOG_REPEAT_INTERVAL
    Algorithms,        \* the hash algorithms configured
    ChainLengths,      \* the anchor intervals configured
    Lost,              \* the sets of records whose write may fail
    MaxCalls,          \* bound: calls of the logger
    MaxTime,           \* bound: how far the clock goes
    MaxOptions,        \* bound: options applied at start-up
    MaxReloads         \* bound: reloads and certificates that expire

ASSUME RepetitionAssumption ==
    /\ maxRepeatEntries \in Nat \ {0}
    /\ Intervals \subseteq Nat
    /\ ChainLengths \subseteq Nat
    /\ NoAlg \in Algorithms
    /\ MaxTime \in Nat

NoTimer == -1
NotStarted == -1

VARIABLES
    integrity,    \* the integrity state and the output (LogIntegrity)
    repetitions,  \* the cache: how often each message waits to be reported, when
                  \* it was last written and last seen
    timer,        \* when repeatTimer fires, or NoTimer
    interval,     \* repeatInterval, read once
    now,          \* the clock
    phase,        \* "starting", "running" or, after Fatal, "exited"
    startedAt,    \* history: the next sequence number when start-up was over,
                  \* NotStarted until then
    expired,      \* the certificates outside their validity
    options,      \* options applied, against the bound
    reloads,      \* reloads and expiries, against the bound
    calls,        \* history: the calls with each message
    reported      \* history: the calls that records handed to the output account for

process == <<phase, startedAt, options>>
outside == <<expired, reloads>>
vars == <<integrity, repetitions, timer, interval, now, process, outside, calls, reported>>

\* The types of the variables (the package variables of logging).
TypeOK ==
    /\ integrity.algorithm \in Algorithms
    /\ integrity.chainLen \in ChainLengths \cup {0}
    /\ integrity.signer \in Certs \cup {NoCert}
    /\ integrity.sinceAnchor \in Nat /\ (chainingEnabled(integrity) => ~anchorDue(integrity))
    /\ DOMAIN repetitions \subseteq Messages
    /\ Cardinality(DOMAIN repetitions) <= maxRepeatEntries
    /\ \A m \in DOMAIN repetitions :
         repetitions[m] \in [count : Nat, lastEmitted : 0 .. now, lastSeen : 0 .. now]
    /\ timer \in Nat \cup {NoTimer}
    /\ interval \in Intervals
    /\ now \in 0 .. MaxTime
    /\ phase \in {"starting", "running", "exited"}
    /\ startedAt \in Nat \cup {NotStarted}
    /\ expired \subseteq Certs
    /\ calls \in [Messages -> Nat] /\ reported \in [Messages -> Nat]

Init ==
    /\ \E lost \in Lost : integrity = NewIntegrity(lost)
    /\ repetitions = <<>>
    /\ timer = NoTimer
    /\ interval \in Intervals
    /\ now = 0
    /\ phase = "starting" /\ startedAt = NotStarted /\ options = 0
    /\ expired = {} /\ reloads = 0
    /\ calls = [m \in Messages |-> 0]
    /\ reported = [m \in Messages |-> 0]

-----------------------------------------------------------------------------
(* The cache.                                                              *)

Waiting(r, m) == IF m \in DOMAIN r THEN r[m].count ELSE 0

\* The messages among K that get a summary when they are flushed.
ToFlush(r, K) == {m \in K \cap DOMAIN r : r[m].count > 0}

flushRepetition(r, K) ==
    [m \in DOMAIN r |->
        IF m \in ToFlush(r, K) THEN [r[m] EXCEPT !.count = 0, !.lastEmitted = now] ELSE r[m]]

Without(r, K) == [m \in DOMAIN r \ K |-> r[m]]

With(r, m, entry) == [k \in DOMAIN r \cup {m} |-> IF k = m THEN entry ELSE r[k]]

\* The calls accounted for by summaries of the messages K, written or not: the count
\* of a summary whose write fails is cleared all the same.
Summarised(r, K) == [m \in Messages |-> reported[m] + IF m \in K THEN Waiting(r, m) ELSE 0]

MutantDue(entry) == entry.lastSeen + interval

\* When an entry needs the timer: to be summarised, or to be dropped.
Due(entry) == (IF entry.count > 0 THEN entry.lastEmitted ELSE entry.lastSeen) + interval

\* A timer that runs is left alone.
scheduleRepeatTimer(t, r) ==
    IF t # NoTimer \/ DOMAIN r = {} THEN t
    ELSE LET dues == {Due(r[m]) : m \in DOMAIN r} \cup {now + interval}
         IN  CHOOSE d \in dues : \A e \in dues : d <= e

\* The messages the cache may make room with: the least recently seen, any of
\* them when several are.
Oldest(r) == {m \in DOMAIN r : \A k \in DOMAIN r : r[m].lastSeen <= r[k].lastSeen}

Idle(entry) == now - entry.lastSeen >= interval

\* The messages that are reported and forgotten to make room for m.
Evicted(m) ==
    IF m \notin DOMAIN repetitions /\ Cardinality(DOMAIN repetitions) >= maxRepeatEntries
      THEN {{k} : k \in Oldest(repetitions)}
      ELSE {{}}

MutantFlushed(r, K) == {}

\* The summaries written when the entries K leave the cache.
Flushed(r, K) == ToFlush(r, K)

-----------------------------------------------------------------------------
(* Logging.                                                                *)

Alive == phase # "exited"

Call(m) ==
    /\ Alive /\ FoldFunction(+, 0, calls) < MaxCalls
    /\ calls' = [calls EXCEPT ![m] = @ + 1]

\* A repeat within the interval is counted, and reported when the last report
\* is an interval ago.
Repeated(m) ==
    /\ interval > 0 /\ m \in DOMAIN repetitions /\ ~Idle(repetitions[m])
    /\ Call(m)
    /\ LET entry == repetitions[m]
           counted == [repetitions EXCEPT ![m].count = @ + 1, ![m].lastSeen = now]
           K == IF now - entry.lastEmitted >= interval THEN {m} ELSE {}
       IN  /\ repetitions' = flushRepetition(counted, K)
           /\ reported' = Summarised(counted, K)
           /\ integrity' = writeEvents(integrity, expired, Cardinality(K))
           /\ timer' = scheduleRepeatTimer(timer, repetitions')
    /\ UNCHANGED <<interval, now, process, outside>>

\* Any other call is written at once, after the summary of what it replaces.
First(m) ==
    /\ interval > 0 /\ (m \in DOMAIN repetitions => Idle(repetitions[m]))
    /\ Call(m)
    /\ \E evicted \in Evicted(m) :
         LET gone == evicted \cup ({m} \cap DOMAIN repetitions)
             entry == [count |-> 0, lastEmitted |-> now, lastSeen |-> now]
             summaries == Flushed(repetitions, gone)
         IN  /\ repetitions' = With(Without(repetitions, gone), m, entry)
             /\ reported' = [Summarised(repetitions, summaries) EXCEPT ![m] = @ + 1]
             /\ integrity' = writeEvents(integrity, expired, Cardinality(summaries) + 1)
    /\ timer' = scheduleRepeatTimer(timer, repetitions')
    /\ UNCHANGED <<interval, now, process, outside>>

\* resetRepetitionLocked: every waiting summary is written, the cache and its
\* timer are gone.
resetRepetition ==
    /\ repetitions' = <<>>
    /\ timer' = NoTimer

\* The output after a reset that writes n more records.
AfterReset(n) ==
    writeEvents(integrity, expired, Cardinality(Flushed(repetitions, DOMAIN repetitions)) + n)

AllReported == Summarised(repetitions, Flushed(repetitions, DOMAIN repetitions))

\* Suppression is off (the interval is zero): every call is written.
Unsuppressed(m) ==
    /\ interval = 0
    /\ Call(m)
    /\ resetRepetition
    /\ integrity' = AfterReset(1)
    /\ reported' = [AllReported EXCEPT ![m] = @ + 1]
    /\ UNCHANGED <<interval, now, process, outside>>

\* Fatal, Panicf: written like that, and then the process exits.
Fatal(m) ==
    /\ Call(m)
    /\ resetRepetition
    /\ integrity' = AfterReset(1)
    /\ reported' = [AllReported EXCEPT ![m] = @ + 1]
    /\ phase' = "exited"
    /\ UNCHANGED <<interval, now, startedAt, options, outside>>

\* The timer fires, perhaps late.
TimerFires ==
    /\ Alive /\ timer # NoTimer /\ now >= timer
    /\ LET K == {m \in DOMAIN repetitions : now - repetitions[m].lastEmitted >= interval}
           flushed == flushRepetition(repetitions, K)
           gone == {m \in DOMAIN flushed : flushed[m].count = 0 /\ Idle(flushed[m])}
       IN  /\ repetitions' = Without(flushed, gone)
           /\ reported' = Summarised(repetitions, K)
           /\ integrity' = writeEvents(integrity, expired, Cardinality(ToFlush(repetitions, K)))
    /\ timer' = scheduleRepeatTimer(NoTimer, repetitions')
    /\ UNCHANGED <<interval, now, process, outside, calls>>

\* Only the cache looks at the clock.
Tick ==
    /\ Alive /\ interval > 0 /\ now < MaxTime
    /\ now' = now + 1
    /\ UNCHANGED <<integrity, repetitions, timer, interval, process, outside, calls, reported>>

-----------------------------------------------------------------------------
(* Reconfiguration.                                                        *)

\* What waits is written under the settings it was logged with.
Reconfigure ==
    /\ resetRepetition
    /\ reported' = AllReported
    /\ UNCHANGED <<interval, now, calls>>

Option ==
    /\ phase = "starting" /\ options < MaxOptions
    /\ options' = options + 1
    /\ UNCHANGED <<phase, startedAt, outside>>

SetHashAlgorithm(alg) ==
    /\ Option /\ Reconfigure
    /\ integrity' = configureIntegrity(AfterReset(0), alg)

SetHashChainLength(length) ==
    /\ Option /\ Reconfigure
    /\ integrity' = configureChainLength(AfterReset(0), length)

SetFormat ==
    /\ Option /\ Reconfigure
    /\ integrity' = AfterReset(0)

\* At start-up a later option replaces the signer without an announcement.
SetSigningCertificate(c) ==
    /\ Option
    /\ c \in loadLogSigner(expired)
    /\ integrity' = [integrity EXCEPT !.signer = c]
    /\ UNCHANGED <<repetitions, timer, interval, now, calls, reported>>

Started ==
    /\ phase = "starting"
    /\ phase' = "running" /\ startedAt' = integrity.seq
    /\ UNCHANGED <<integrity, repetitions, timer, interval, now, options, outside, calls, reported>>

Outside ==
    /\ phase = "running" /\ reloads < MaxReloads
    /\ reloads' = reloads + 1
    /\ UNCHANGED process

\* SIGHUP: the log file is opened again.
SetLogFile ==
    /\ Outside /\ Reconfigure
    /\ integrity' = AfterReset(0)
    /\ UNCHANGED expired

\* A warning that is never suppressed.
ProductionWarning ==
    /\ Outside /\ Reconfigure
    /\ integrity' = AfterReset(1)
    /\ UNCHANGED expired

\* SIGHUP: the signing options are read again.
RotateSigningCertificate(c) ==
    /\ Outside
    /\ IF MustAuthenticate(integrity, expired, c)
         THEN /\ Reconfigure
              /\ integrity' = Authenticate(AfterReset(0), expired, c)
         ELSE /\ integrity' = RotateQuietly(integrity, expired, c)
              /\ UNCHANGED <<repetitions, timer, interval, now, calls, reported>>
    /\ UNCHANGED expired

Expire(c) ==
    /\ Outside
    /\ c \notin expired
    /\ expired' = expired \cup {c}
    /\ UNCHANGED <<integrity, repetitions, timer, interval, now, calls, reported>>

Next ==
    \/ \E m \in Messages : Repeated(m) \/ First(m) \/ Unsuppressed(m) \/ Fatal(m)
    \/ TimerFires
    \/ Tick
    \/ \E alg \in Algorithms : SetHashAlgorithm(alg)
    \/ \E length \in ChainLengths : SetHashChainLength(length)
    \/ \E c \in Certs : SetSigningCertificate(c)
    \/ SetFormat
    \/ Started
    \/ SetLogFile
    \/ ProductionWarning
    \/ \E c \in Certs \cup {NoCert} : RotateSigningCertificate(c)
    \/ \E c \in Certs : Expire(c)

Spec == Init /\ [][Next]_vars

-----------------------------------------------------------------------------
(* Properties.                                                             *)

\* j is the next after i among the positions P.
Follows(P, i, j) == i \in P /\ j \in P /\ i < j /\ \A k \in P : k <= i \/ j <= k

\* Every anchor that carries a signature verifies together with the records of
\* its window in the output, across reconfigurations, rotations and forced
\* anchors, and fails to verify exactly when a record of its window was not
\* written (anchorAttributes, resetChain, verifyWindow).
SignedWindowsVerify ==
    \A i \in DOMAIN integrity.written :
       LET a == integrity.written[i] IN
       Signed(a) =>
         (verifyWindow(integrity.written, SignedWindow(integrity.written, a), a)
            <=> a.anchor.from .. a.anchor.to \cap integrity.lost = {})

\* Two chained records that follow each other in the output are linked, or the
\* second declares a restart, and never both; a record that was lost between
\* them breaks the link (AttrChainRestart).
BreaksAreDeclared ==
    LET chained == {i \in DOMAIN integrity.written : integrity.written[i].chained} IN
    \A i, j \in chained :
       LET r == integrity.written[i]
           s == integrity.written[j]
           none == (r.seq + 1) .. (s.seq - 1) \cap integrity.lost = {}
       IN  Follows(chained, i, j) =>
             /\ r.seq < s.seq
             /\ s.restart => s.prev # r.chain
             /\ ~s.restart => (s.prev = r.chain <=> none)

\* Once the program runs, the signing key changes from one signed anchor to the
\* next only if the new key was announced in a window the old key signed, or a
\* record between them was not written (RotateSigningCertificate).
KeysAuthenticated ==
    LET signed == {i \in DOMAIN integrity.written : Signed(integrity.written[i])} IN
    \A i, j \in signed :
       LET a == integrity.written[i]
           b == integrity.written[j]
       IN  /\ Follows(signed, i, j)
           /\ startedAt # NotStarted /\ a.seq >= startedAt
           /\ a.anchor.key # b.anchor.key
           => \/ (a.anchor.from .. b.anchor.to) \cap integrity.lost # {}
              \/ \E k \in DOMAIN integrity.written :
                   /\ integrity.written[k].body = [kind |-> "announcement", key |-> b.anchor.key]
                   /\ integrity.written[k].window = a.window

\* Every call of the logger was handed to the output, as a record or in the count of
\* a summary, or waits in the cache for one; after Fatal nothing waits
\* (suppressLocked, resetRepetitionLocked, the eviction of an entry).  A record whose
\* write fails is lost with what it counts (flushRepetitionLocked).
RepeatsConserved ==
    \A m \in Messages :
       /\ calls[m] = reported[m] + Waiting(repetitions, m)
       /\ ~Alive => Waiting(repetitions, m) = 0

\* A message that waits to be summarised has a timer that fires no later than
\* an interval after its last report, although a running timer is never
\* brought forward (scheduleRepeatTimerLocked).
SummaryInTime ==
    \A m \in DOMAIN repetitions :
       repetitions[m].count > 0 =>
         timer # NoTimer /\ timer <= repetitions[m].lastEmitted + interval

=============================================================================
