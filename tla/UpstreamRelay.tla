---------------------------- MODULE UpstreamRelay ----------------------------
(***************************************************************************)
(* One sending thread of upstream: the consumer group session with a claim  *)
(* per partition (Consumer.ConsumeClaim), the handler that each claim calls *)
(* for a record (kafkaHandlerWithContext) with its filters, its lost-event  *)
(* guard and its retries, SIGTERM, and a crash between any two steps.       *)
(*                                                                         *)
(* A record is a partition and an offset; its traits are what the handler   *)
(* branches on.  `times' says how often SendMessages sent a record          *)
(* completely, as its payload, empty or as a lost-event guard; the packets  *)
(* of an attempt that failed half-way are no message to the receiver.  The  *)
(* consumer group of sarama and the broker are external: a session starts   *)
(* at the committed offsets, ends as soon as one claim returns or the group *)
(* rebalances, waits for all its claims and then commits what they marked.  *)
(***************************************************************************)
EXTENDS DeliverFilter

CONSTANTS Partitions,
          LogEnd,          \* Partitions -> number of records in the topic
          Traits,          \* Records -> subset of TraitNames
          LostEventGuard,  \* config.lostEventGuard
          Encryption,      \* config.encryption: Encrypt may fail
          DeliverNumbers,  \* config.filter, <<>> for none
          RetryLimits,     \* values of tcpRetryTimes (0 = no limit; 30 for UDP)
          MaxCrashes,      \* bound: crashes
          MaxLostCommits,  \* bound: commits that fail
          MaxStops         \* bound: SIGTERMs

TraitNames == {"beforeFrom", "denied", "tooLarge"}

Records == UNION {{p} \X (0 .. LogEnd[p] - 1) : p \in Partitions}

ASSUME RelayAssumption ==
    /\ LogEnd \in [Partitions -> Nat]
    /\ Traits \in [Records -> SUBSET TraitNames]
    /\ LostEventGuard \in BOOLEAN
    /\ Encryption \in BOOLEAN
    /\ RetryLimits \subseteq Nat
    /\ MaxCrashes \in Nat
    /\ MaxLostCommits \in Nat
    /\ MaxStops \in Nat

ASSUME FilterAssumption == DeliverNumbers = <<>> \/ NewFilter(DeliverNumbers)

VARIABLES process,    \* "starting" (no consumer group yet), "running", "stopping" (ctx
                      \* cancelled), "exited", "crashed"
          session,    \* "none", "open", "ending" (its context is cancelled)
          claim,      \* per partition: "returned", "ready", "sending", "backoff"
          position,   \* per partition: next record of the claim
          attempt,    \* per partition: attempts of SendMessages that failed
          marked,     \* per partition: offset that the session will commit
          committed,  \* per partition: offset of the group at the broker
          times,      \* per record: how often it was sent (history)
          retries,    \* tcpRetryTimes of this configuration
          crashes, lostCommits, stops

vars == <<process, session, claim, position, attempt, marked, committed, times,
          retries, crashes, lostCommits, stops>>

consumerVars == <<claim, position, attempt, marked>>
faults == <<retries, crashes, lostCommits, stops>>
-----------------------------------------------------------------------------
\* The handler, up to its retry loop.

\* recordLostEvent: the guard takes the place of the record, or the record is
\* discarded.
LostEvent == IF LostEventGuard THEN "guard" ELSE "skip"

\* encodeForTransport: when Encrypt fails the lost-event guard is tried, and when
\* that fails too the handler returns false.
Encoded(form) ==
    {form} \cup (IF Encryption THEN {LostEvent} ELSE {})
           \cup (IF Encryption /\ LostEventGuard THEN {"retry"} ELSE {})

\* Mutant: a record over the limit is dropped silently.
MutantWithinLimit(r, form) ==
    IF form = "payload" /\ "tooLarge" \in Traits[r] THEN "skip" ELSE form

WithinLimit(r, form) ==
    IF form = "payload" /\ "tooLarge" \in Traits[r] THEN LostEvent ELSE form

\* ShouldFilterOut: the first rule that matches decides, or the default action,
\* unless a rule takes longer than the timeout.
ShouldFilterOut(r) == {IF "denied" \in Traits[r] THEN "deny" ELSE "pass", "error"}

\* A denied record is sent empty; if the filter fails it is sent as it is.
InputFiltered(r) ==
    {IF outcome = "deny" THEN "empty" ELSE "payload" : outcome \in ShouldFilterOut(r)}

\* The share of this upstream.
Ours(r) == DeliverNumbers = <<>> \/ Check(DeliverNumbers, r[2])

\* What the handler may do with record r: skip it, try it again later, or send
\* it in one of three forms.
Prepared(r) ==
    IF "beforeFrom" \in Traits[r] \/ ~Ours(r) THEN {"skip"}
    ELSE UNION {IF form = "skip" THEN {form} ELSE Encoded(form) :
                    form \in {WithinLimit(r, f) : f \in InputFiltered(r)}}

Record(p) == <<p, position[p]>>
-----------------------------------------------------------------------------
\* A claim.

\* The handler ends, and with it its local variables.
HandlerReturns(p) == attempt' = [attempt EXCEPT ![p] = 0]

\* Mutant: the claim goes on after a record that could not be sent.
MutantGiveUp(p) ==
    /\ claim' = [claim EXCEPT ![p] = "ready"]
    /\ position' = [position EXCEPT ![p] = @ + 1]
    /\ HandlerReturns(p)
    /\ UNCHANGED <<marked, session>>

\* The callback returned false: the record is not marked, the claim returns and
\* the session is cancelled with it.
GiveUp(p) ==
    /\ claim' = [claim EXCEPT ![p] = "returned"]
    /\ session' = "ending"
    /\ HandlerReturns(p)
    /\ UNCHANGED <<position, marked>>

\* The callback returned true.
MarkMessage(p) ==
    /\ claim' = [claim EXCEPT ![p] = "ready"]
    /\ position' = [position EXCEPT ![p] = @ + 1]
    /\ marked' = [marked EXCEPT ![p] = position[p] + 1]
    /\ HandlerReturns(p)
    /\ UNCHANGED session

\* The claim takes its next record.  It may do so although the session is
\* ending: the select of ConsumeClaim has both cases ready.
Take(p, form) ==
    /\ claim[p] = "ready"
    /\ position[p] < LogEnd[p]
    /\ form \in Prepared(Record(p))
    /\ \/ form = "skip" /\ MarkMessage(p)
       \/ form = "retry" /\ GiveUp(p)
       \/ /\ form \notin {"skip", "retry"}
          /\ claim' = [claim EXCEPT ![p] = "sending"]
          /\ attempt' = [attempt EXCEPT ![p] = 0]
          /\ UNCHANGED <<position, marked, session>>
    /\ UNCHANGED <<process, committed, times, faults>>

\* The select of ConsumeClaim sees the end of the session, or beforeMessage
\* does, or beforeMessage fails to sample the memory.
ReturnFromClaim(p) ==
    /\ claim[p] = "ready"
    /\ claim' = [claim EXCEPT ![p] = "returned"]
    /\ session' = "ending"
    /\ UNCHANGED <<process, position, attempt, marked, committed, times, faults>>

\* Mutant: a record sent during the shutdown is not marked.
MutantSendSucceeds(p) ==
    /\ claim[p] = "sending"
    /\ times' = [times EXCEPT ![Record(p)] = @ + 1]
    /\ IF process = "stopping" THEN GiveUp(p) ELSE MarkMessage(p)
    /\ UNCHANGED <<process, committed, faults>>

SendSucceeds(p) ==
    /\ claim[p] = "sending"
    /\ times' = [times EXCEPT ![Record(p)] = @ + 1]
    /\ MarkMessage(p)
    /\ UNCHANGED <<process, committed, faults>>

SendFails(p) ==
    /\ claim[p] = "sending"
    /\ claim' = [claim EXCEPT ![p] = "backoff"]
    /\ attempt' = [attempt EXCEPT ![p] = IF retries = 0 THEN 0 ELSE @ + 1]
    /\ UNCHANGED <<process, session, position, marked, committed, times, faults>>

\* The retry interval is over.
RetryOrGiveUp(p) ==
    /\ claim[p] = "backoff"
    /\ IF retries = 0 \/ attempt[p] < retries
       THEN /\ claim' = [claim EXCEPT ![p] = "sending"]
            /\ UNCHANGED <<position, attempt, marked, session>>
       ELSE GiveUp(p)
    /\ UNCHANGED <<process, committed, times, faults>>

\* Mutant: the backoff watches the limit instead of ctx.
MutantCancelled(p) ==
    /\ claim[p] = "backoff"
    /\ process = "stopping" /\ retries > 0
    /\ GiveUp(p)
    /\ UNCHANGED <<process, committed, times, faults>>

\* ctx is done during the backoff.
Cancelled(p) ==
    /\ claim[p] = "backoff"
    /\ process = "stopping"
    /\ GiveUp(p)
    /\ UNCHANGED <<process, committed, times, faults>>
-----------------------------------------------------------------------------
\* The session, by sarama and the loop around Consume.

StartSession ==
    /\ process = "running"
    /\ session = "none"
    /\ session' = "open"
    /\ claim' = [p \in Partitions |-> "ready"]
    /\ position' = committed
    /\ marked' = committed
    /\ UNCHANGED <<process, attempt, committed, times, faults>>

AutoCommit ==
    /\ session # "none"
    /\ committed # marked
    /\ committed' = marked
    /\ UNCHANGED <<process, session, consumerVars, times, faults>>

Rebalance ==
    /\ session = "open"
    /\ session' = "ending"
    /\ UNCHANGED <<process, consumerVars, committed, times, faults>>

AllReturned == \A p \in Partitions : claim[p] = "returned"

EndSession ==
    /\ session = "ending"
    /\ AllReturned
    /\ session' = "none"
    /\ committed' = marked
    /\ UNCHANGED <<process, consumerVars, times, faults>>

\* The last commit of a session does not reach the broker.
EndSessionUncommitted ==
    /\ session = "ending"
    /\ AllReturned
    /\ lostCommits < MaxLostCommits
    /\ committed # marked
    /\ lostCommits' = lostCommits + 1
    /\ session' = "none"
    /\ position' = committed
    /\ marked' = committed
    /\ UNCHANGED <<process, claim, attempt, committed, times, retries, crashes,
                   stops>>
-----------------------------------------------------------------------------
\* The process.

\* The consumer group is created; until Kafka answers this is tried again and
\* again, and an error that does not pass ends the process (Crash).
Connect ==
    /\ process = "starting"
    /\ process' = "running"
    /\ UNCHANGED <<session, consumerVars, committed, times, faults>>

\* SIGTERM: cancelRun.
Sigterm ==
    /\ process \in {"starting", "running"}
    /\ stops < MaxStops
    /\ stops' = stops + 1
    /\ process' = "stopping"
    /\ session' = IF session = "open" THEN "ending" ELSE session
    /\ UNCHANGED <<consumerVars, committed, times, retries, crashes, lostCommits>>

\* Every reader has returned: the status Close and the end of main.
Exit ==
    /\ process = "stopping"
    /\ session = "none"
    /\ process' = "exited"
    /\ UNCHANGED <<session, consumerVars, committed, times, faults>>

Crash ==
    /\ process \in {"starting", "running", "stopping"}
    /\ crashes < MaxCrashes
    /\ crashes' = crashes + 1
    /\ process' = "crashed"
    /\ session' = "none"
    /\ claim' = [p \in Partitions |-> "returned"]
    /\ position' = committed
    /\ marked' = committed
    /\ attempt' = [p \in Partitions |-> 0]
    /\ UNCHANGED <<committed, times, retries, lostCommits, stops>>

\* By systemd after a crash, by the operator after an exit.
Restart ==
    /\ process \in {"exited", "crashed"}
    /\ process' = "starting"
    /\ UNCHANGED <<session, consumerVars, committed, times, faults>>
-----------------------------------------------------------------------------
Init ==
    /\ process = "starting"
    /\ session = "none"
    /\ claim = [p \in Partitions |-> "returned"]
    /\ position = [p \in Partitions |-> 0]
    /\ attempt = [p \in Partitions |-> 0]
    /\ marked = [p \in Partitions |-> 0]
    /\ committed = [p \in Partitions |-> 0]
    /\ times = [r \in Records |-> 0]
    /\ retries \in RetryLimits
    /\ crashes = 0 /\ lostCommits = 0 /\ stops = 0

Forms == {"payload", "empty", "guard"}

ClaimStep(p) ==
    \/ \E form \in Forms \cup {"skip", "retry"} : Take(p, form)
    \/ ReturnFromClaim(p)
    \/ SendSucceeds(p) \/ SendFails(p)
    \/ RetryOrGiveUp(p) \/ Cancelled(p)

SessionStep ==
    StartSession \/ AutoCommit \/ Rebalance \/ EndSession \/ EndSessionUncommitted

ProcessStep == Connect \/ Sigterm \/ Exit \/ Crash \/ Restart

Next == (\E p \in Partitions : ClaimStep(p)) \/ SessionStep \/ ProcessStep

Spec == Init /\ [][Next]_vars

\* Every goroutine runs on, but for one in a send: conn.Write has no deadline.  A
\* claim whose session has ended sees it: the select of ConsumeClaim chooses among
\* its ready cases at random, and the one of the backoff has ctx.Done ready before
\* its timer.
StopSpec ==
    /\ Spec
    /\ \A p \in Partitions :
         /\ WF_vars(session = "ending" /\ ReturnFromClaim(p))
         /\ SF_vars(Cancelled(p))
         /\ WF_vars(RetryOrGiveUp(p))
    /\ WF_vars(EndSession)
    /\ WF_vars(Exit)

\* A receiver that is connected goes on reading, or its connection breaks.
SendsReturn == \A p \in Partitions : WF_vars(SendSucceeds(p) \/ SendFails(p))

\* The transport works again and again, encryption and memory sampling do not fail
\* for ever, the broker can be reached and somebody restarts a process that is
\* down.
SurroundingsWork ==
    /\ \A p \in Partitions :
         /\ SF_vars(\E form \in Forms \cup {"skip"} : Take(p, form))
         /\ SF_vars(SendSucceeds(p))
    /\ WF_vars(Connect)
    /\ WF_vars(StartSession)
    /\ WF_vars(AutoCommit)
    /\ WF_vars(Restart)
-----------------------------------------------------------------------------
\* Properties.

\* Types; a claim is never behind what it marked, the group is never ahead of
\* it, and a record that is being sent has attempts left.
TypeOK ==
    /\ process \in {"starting", "running", "stopping", "exited", "crashed"}
    /\ session \in {"none", "open", "ending"}
    /\ claim \in [Partitions -> {"returned", "ready", "sending", "backoff"}]
    /\ position \in [Partitions -> Nat]
    /\ retries \in RetryLimits
    /\ attempt \in [Partitions -> 0 .. retries]
    /\ marked \in [Partitions -> Nat]
    /\ committed \in [Partitions -> Nat]
    /\ times \in [Records -> Nat]
    /\ crashes \in 0 .. MaxCrashes
    /\ lostCommits \in 0 .. MaxLostCommits
    /\ stops \in 0 .. MaxStops
    /\ \A p \in Partitions :
         /\ position[p] <= LogEnd[p]
         /\ marked[p] <= position[p]
         /\ committed[p] <= marked[p]
         /\ claim[p] \in {"sending", "backoff"} => position[p] < LogEnd[p]
         /\ claim[p] = "sending" => retries = 0 \/ attempt[p] < retries

\* The configuration lets record r go unsent.
MayBeSkipped(r) ==
    \/ "beforeFrom" \in Traits[r]
    \/ ~Ours(r)
    \/ ~LostEventGuard /\ (Encryption \/ "tooLarge" \in Traits[r])

DealtWith(r) == times[r] > 0 \/ MayBeSkipped(r)

\* No crash, failed send, failed commit, rebalance or shutdown makes the group
\* pass a record that was not sent: what the committed offset says is done has
\* been on the wire, at least as an empty message or a lost-event guard, unless
\* the configuration asked for less.
NoRecordSkipped ==
    \A r \in Records : r[2] < committed[r[1]] => DealtWith(r)

\* The records of a partition first come on the wire in the order of their
\* offsets, however often sending fails and sessions end.
SentInOrder ==
    \A r, s \in Records :
        r[1] = s[1] /\ r[2] < s[2] /\ times[s] > 0 => DealtWith(r)

\* A record is sent again only because of a crash or a lost commit: failed sends,
\* rebalances and SIGTERM (TC-2, graceful variant) cause no duplicate.
DuplicatesNeedFault ==
    \A r \in Records : times[r] <= 1 + crashes + lostCommits

\* SIGTERM ends the process, also with tcpRetryTimes = 0 and a receiver that is
\* never there, unless one is connected and does not read: main waits for the claim
\* that writes to it, and closes the connection only then.
SigtermEndsProcess == SendsReturn => (process = "stopping" ~> process # "stopping")

\* If the surroundings work again and again, every record is committed in the end,
\* whatever was given up, rebalanced or restarted before.
AllCommitted ==
    SurroundingsWork => <>(\A p \in Partitions : committed[p] = LogEnd[p])
=============================================================================
