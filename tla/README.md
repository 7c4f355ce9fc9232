# air-gap: a TLA+ verification project

air-gap copies Kafka topics over a one-way link. This directory holds TLA+
models of the parts of it that carry its guarantees, TLC configurations that
check them on small instances, and proofs, checked by TLAPS, of the properties
that matter most. `PROJECT.json` maps every definition to the source lines it
stands for and lists components, runs, hazards, findings and theorems.

## 1. The system

```
 Kafka  -> upstream ==UDP or TCP, one way==> downstream -> transfer topic
                                                               |
                                       clean topic  <-  deduplicator -> gap topic
                                                                            |
 Kafka  -> resend  ==one way==> downstream              bundle file  <-  create
              ^--------------- carried by hand ---------------'
```

Nothing flows back over the link. What it loses is found by the deduplicator,
which knows that the offsets of a source partition are consecutive, written to a
file by `create`, carried to the sending side, and sent again by `resend`.

| Part | State | Operations | Talks to |
|---|---|---|---|
| upstream (`src/upstream`, `kafka/getkafka.go`) | group offset, claims, retries | consume, filter, encode, send, mark, commit, SIGTERM | Kafka, the link, downstream's pins |
| wire protocol (`src/protocol`) | message cache | `FormatMessage`, `ParseMessage`, `CleanList` | upstream, resend and downstream |
| key exchange (`upstream/encryption.go`, `downstream/communication.go`) | symmetric key, private keys in memory | `sendNewKey`, rate limit, read key files, install | upstream, resend and downstream |
| pinned TLS (`internal/pinnedtls`) | active pins, sessions, journal, trusted directory, recovery file | admit, reload, age, rotate | upstream and downstream |
| downstream (`src/downstream`, `src/udp`, `kafka/putkafka.go`) | packet channel, batching cache, producer | start with retries, receive, parse, decrypt, batch, flush, SIGTERM | the link, Kafka |
| TCP transport (`upstream/adapters.go`, `downstream/adapters.go`) | shared connection and its generation; slots, handlers | dial, send, reconnect, reload, close; accept, serve, close | upstream and downstream |
| lost events (`upstream/ale.go`) | directory of payloads | write, delete, compress, evict | upstream's handler, the file system |
| log integrity and repetition (`src/logging`) | hash chain, open window, signer; cache of repeated messages and its timer | log, anchor, rotate, reconfigure, summarise | every program; a verifier of the log |
| deduplicator (`java-streams`) | windows with bitmaps, state store | process, emit gaps, persist, restore | transfer, clean and gap topics |
| create (`src/create`) | latest record per window | read the gap topic to its end, write the bundle | gap topic |
| resend (`src/resend`) | bundle | read partitions, send the missing offsets | Kafka, the link |
| deliver filter (`src/filter`) | list of numbers | self-test, check | upstream's handler |
| gaps, memory controller, configuration, log formats | see `PROJECT.json` | | |

### What is hard about it

* **Two worlds, no acknowledgement.** Upstream commits an offset when it has
  sent a record; whether it arrived is only ever found out by the deduplicator.
  Upstream must never commit past a record it did not send, through retries,
  rebalances, SIGTERM and crashes (UpstreamRelay).
* **Packets in any order.** Parts of records are reassembled in a cache that is
  shared by workers, bounded, and cleaned by a timer (Reassembly).
* **Memory behind a transaction.** The detector of the deduplicator lives in
  memory and reaches the store at a timer, while topics and positions are
  committed by another one (DedupProcessor).
* **A reader of a moving topic.** `create` reads a compacted, transactional
  topic to its end while it is being written (CreateBundle).
* **A replay that takes silence for the end.** `resend` reads partitions in
  parallel, under one rate limiter, up to offsets that were looked up before, and
  nobody sees its errors (ResendJob).
* **Unsynchronised state.** Downstream's workers share a key, and the list of
  private keys that they splice, append to and index, without a lock
  (KeyExchange).
* **Two disks that must agree.** A rotation of a pinned key writes to the disk
  of both sides and may be cut off between any two writes (PinnedRotation).
* **A shutdown that drains.** After SIGTERM the receiver, the workers, the
  batching cache, its background thread and the producer are stopped one after
  the other, while each may be waiting for the next (DownstreamWriter).
* **A lock that is released to dial.** Upstream's threads share one TCP
  connection, and any of them may replace it, while certificates are reloaded and
  either side closes (TcpLink).
* **A directory without a lock.** Threads delete, compress and evict the same
  files, and any call may fail (LostEventStore).
* **A chain that is restarted.** Log records are hashed into a chain whose
  settings and keys change while the program runs, and what reaches the file must
  still verify (LogIntegrity, LogRepetition).

`PROJECT.json` lists these at their lines under `hazards`, with the properties
that would notice each.

## 2. The modules

Each module models one component; an `MC...` module gives it small constants,
and a `...Proofs` module holds its theorems. Histories (variables that no code
has, marked in the modules) exist only so that a property can refer to the past.

### DedupProcessor

`GapDetector.java` and the processor of `PartitionDedupApp.java`, for one
partition. A window is named by its first offset; the bitmaps are one set of
absolute offsets. `Process` takes the next record of the raw topic through every
way `check()` can go (empty record, below the range, known window, new window
with or without a purge, and the retry after an OutOfMemoryError). `EmitGaps`
and `Persist` are the two punctuations that change state. `Commit` is the
exactly-once transaction of Kafka Streams: store, outputs and input position
become durable together; `Restart` goes back to it, for a crash, a rebalance or
a replaced thread. Purging sends tombstones for the current and the legacy key.

### Reassembly

`FormatMessage` cuts a record into numbered parts, `ParseMessage` and the
`MessageCache` put them together. The wire is the set of all packets ever sent,
of which a worker receives any, any number of times: loss, duplication and
reordering in one. `Assemble` is separate from `Receive` because the code
assembles from a snapshot after it has released the cache's lock. The content of
a part is what can go wrong with it: which slice of which ciphertext it is. Part
counts keep their 16 bits. A packet that fails a header check or its checksum is
dropped without effect and therefore is a lost packet.

### UpstreamRelay

The consumer group session of sarama (external), one claim per partition, and
the handler with every branch that decides about a record: the start time, the
input filter with its fail-open timeout, the deliver filter, the size limit, the
lost-event guard, encryption that may fail, the retry loop with its back-off,
marking. Before that, `Connect` is the wait for Kafka at the start. SIGTERM
cancels the context that all of them watch; a crash may come between any two
steps. A record that is denied is sent empty, one that is lost is replaced by a
guard: for the receiver's gap detection all forms count as sent, and `times`
counts them. `retries` is chosen at the start among the limits of the
configuration, 0 being no limit.

### DeliverFilter

The share of the offsets that one of several upstreams sends, as operators: Go's
remainder, `posMod`, the groups and the period of a list of numbers, `Check` and
the self-test with which `NewFilter` refuses a mistyped list. UpstreamRelay
decides with `Check`. Lists with a period of zero, with which the program panics
when it starts, and lists that go down are not accepted by the model's
`NewFilter`.

### KeyExchange

Upstream and a resend job each create a symmetric key when they start and send
it, encrypted for downstream's public key. Downstream's workers check the rate
limit, store the time (`Accept`, with the listing of the key files), and then work
on the one list `keyInfos`, which nothing protects: they look at it index by index
for keys whose file is gone (`Scan`), remove indices from the back, each by a read
of the list and a later write (`BeginSplice`, `Splice`), read the files and append
what is new in the same two steps (`ReadFile`, `AddKey`), and try the keys in turn,
as many as there were when the loop began (`Search`, `TryKey`). Between any two
steps another worker may have replaced the list: an entry is lost or comes back, or
an index lies beyond the end, which ends the process (`Panic`), as does the nil
private key of a file that holds none. A key is installed in two steps (`Announce`,
`InstallKey`), between which a reader of `config.key` sees either value.

Two things are coarser than the code. The search for a loaded key and the read of
the list that is appended to are one step, and the removal of an index moves the
elements of the shared array before the shorter list is stored; between these a
reader could only see a key twice or one that another worker is about to drop. All
files that hold no RSA key count as having the same content.

The documentation promises that every key file is tried. That does not hold of two
exchanges side by side, nor beside a file without an RSA key (section 6), so the
properties say it of an exchange that is `Undisturbed`: no other worker and no change
of a file interfered with it, its private key is on disk and no key in memory is nil.
The history variable `alone` is cleared whenever another worker accepts an exchange or
a file changes. `KeyOnDiskIsFound` says that such an exchange succeeds on whatever list
the others left, which no race before it and no lost entry may prevent, and
`ExchangedKeyDecrypts` that its key (`granted`) decrypts until another one is
installed.

### CreateBundle

The gap topic as partitions with offsets, compaction, tombstones that expire and
transaction markers that take an offset but are never delivered; the
deduplicator writes and purges meanwhile. `create` opens a partition, reads it
until the offset that was newest when it was opened or until its stall timer
expires, keeps the latest entry per key, lets the current key of a window take
precedence over the legacy one, and writes the ranges, all or only the first
run. `OnTopic` says what the topic states of a window at an instant; it is the
reference that the bundle is compared with. Definitions have other names than those
of DedupProcessor (`CreateSpec`, `DeliverRecord`, `Deleted`), so that one module can
hold the theorems about both.

### ResendJob

The configuration and the bundle are chosen at the start: the partitions of
several clusters, the range of this one, and what is asked for. Each result has a
reader that goes through the stages of `ReadToEndPartition`: lookup, consume,
read; inside the callback a message that is selected passes the limiter and the
send. The topic grows, gets markers and expires meanwhile. `Requested` says what
was asked for in terms of the bundle alone and is the reference for what is sent.
`finished`, `isLast` and the result of the callback are left out: nothing but log
lines depends on them, since the call of `cancel` is commented out and the
adapter does not look at the result.

`BundleFormed` says which bundles there are: an entry per partition with gaps that
begin in ascending order, as `create` writes them (it groups by partition and sorts
the windows), or the one entry and range of the command line. A bundle edited by hand
with two entries for one partition would be sent twice; the code does not look for it.
The results that are kept have the place in `results` that they have in the bundle;
the code moves them together, which changes nothing but their numbers.
Definitions have other names than those of KeyExchange (`JobSpec`, `JobInit`), so
that one module can prove about both.

### PinnedRotation

One upstream, downstream and an administrator. Upstream's part is
`reloadPinned`: save the recovery file, dial with the old key, begin, request,
clear the recovery file, activate. Downstream's is `HandleRotation` and
`CommitRotation`: checks, intent, entry, validation, commit record, activation;
`commit` is the lock it holds meanwhile, so admission, reload and aging wait, and
the administrator's edits of the directory do not. Either process may stop after
any write. Signatures and nonces bind a request to its connection and are
modelled by that; all keys belong to one peer. A connection takes the first free
slot.

### Outbox and DownstreamWriter

`Outbox` is the abstract specification of what downstream promises for the
messages it has taken in: each is handed to the producer at most once, what was
taken in before the process was told to end is handed over before it ends, and
what comes later may be lost. `DownstreamWriter` is the process over UDP, from
the socket to the producer: `connectToKafka` with its retries, socket readers,
`packetChan`, workers, the cache of `putkafka.go`, its background thread and the
producer's bounded input, and the branch of Main that ends all of them.
`ImplementsOutbox` is the refinement, with a message's place in the writer
(`Where`) as its state in Outbox.

### TcpLink

Both TCP adapters. A thread of upstream goes through `ensureConnected` (which
releases the mutex to dial, and looks again afterwards whether it was overtaken),
writes, and on an error reconnects and tries once more; the relay repeats what
failed. Downstream accepts, counts and rejects, registers, hands over to a
handler, reads frames, and closes. A connection is two ends and a stream of whole
and broken frames; bytes written before a close are delivered, a lost connection
delivers a prefix.

### LogIntegrity and LogRepetition

`LogIntegrity` has the integrity state of the log as a record and the operations
on it as operators: append a record, close a window with an anchor, restart the
chain, announce and activate another signing certificate, fail to write; and the
verifier of a signed window, taken from the repository's acceptance test, which
looks at the positions in the output that carry the window's id. A hash is the
sequence of what was hashed. `LogRepetition` composes it with the cache of
repeated messages and its timer, and has the actions: a call of the logger, Fatal,
the timer, the options at start-up, reloads, certificates that expire. The record
numbers whose write fails are chosen at the start. The history variable `startedAt`
is the next number at the end of start-up and `NotStarted` before: until then an
option replaces the certificate without an announcement, as in the code.

### LostEventStore

The directory of undeliverable payloads. Every thread that loses an event makes a
pass over it (delete, compress through a temporary file and a rename, evict) and
writes its own. Each call of the file system is a step; it may fail, or the
process may die between two. Its definitions have other names than those of
UpstreamRelay (`StoreSpec`, `ProcessDies`), so that one module can prove about both.

## 3. The runs

Every run is in `PROJECT.json`. `tlc -config <cfg> <module>` runs one; the longest
take about two minutes. The run marked *violation* shows where the code does
something that a document of the repository denies.

| Run | Shows |
|---|---|
| dedup | Nothing consumed is lost (`NoRecordLost`); within the detection range nothing is forwarded twice (`AtMostOnceInRange`); live gap records belong to tracked windows (`GapTopicBounded`, `LegacyRecordsTracked`); what an emission writes is what the raw topic says (`EmitReportsTheGaps`) |
| reassembly | What reaches Kafka is whole (`StoredIntact`); a record whose parts all arrived is stored, unless the cache gave it up or two encryptions of it met (`ArrivedIsStored`); no entry stays in the cache (`EntriesGo`) |
| reassembly_exact | *violation*: a record that fills its packets exactly is never stored |
| upstream_relay | The group offset passes no record that was not sent (`NoRecordSkipped`), first transmissions are in order (`SentInOrder`), every duplicate has a crash or a lost commit to answer for it (`DuplicatesNeedFault`); SIGTERM ends the process, with unlimited retries of sends that fail for ever, provided that each of them returns (`SigtermEndsProcess`); every record is committed, if the surroundings work again and again (`AllCommitted`) |
| key_exchange | An exchange that ran undisturbed found its private key if a file held it, whatever list racing workers had left (`KeyOnDiskIsFound`), and its key decrypts until another one is installed or the process ends (`ExchangedKeyDecrypts`) |
| create_bundle | The bundle holds, for each window, something the topic said during the run (`BundleFresh`), in ranges that are exactly its gaps, all or the first run of them (`BundleExact`), and `create` ends although markers are never delivered (`CreateFinishes`) |
| resend_job | Nothing is sent that was not asked for, or twice, or under the id of another cluster (`OnlyRequestedSent`); what was asked for and is still there is sent (`AllRequestedSent`); the job ends, by SIGTERM also while readers queue for the limiter or find nothing to read (`JobEnds`) |
| pinned_rotation | No session without an active pin (`SessionsAuthorized`), no entry written twice (`InstalledOnce`), no identity in use that downstream does not trust (`IdentityTrusted`); a rotation that is asked for again completes (`RotationCompletes`) or is in a state that the code leaves to an operator (`NeedsOperator`) |
| downstream_writer | Batches do not overtake one another (`OrderKept`); the writer implements Outbox, SIGTERM at any moment included (`ImplementsOutbox`), and ends (`SigtermEndsDownstream`) |
| tcp_link | No frame is delivered twice (`DeliveredOnce`), none is lost by what upstream does itself (`NoneLostByUpstream`), no connection and no slot is left over (`ConnectionsAccounted`), and nothing can keep downstream's `Close` waiting (`NothingOutlivesClose`) |
| log_chain | A signed window verifies unless a record of it was not written (`SignedWindowsVerify`), breaks of the chain are declared restarts or lost records (`BreaksAreDeclared`), a change of key was announced under the old one (`KeysAuthenticated`), no call of the logger is forgotten (`RepeatsConserved`) or reported late (`SummaryInTime`) |
| lost_events | A payload that was stored is there, complete, until its removal is reported (`PayloadsKept`), and compression does not extend the retention (`RetentionHolds`) |

`TypeOK` of a module documents the values of its variables; it is an invariant of
dedup, where it bounds the detector, and a theorem of every module with proofs of
its own state.

Each property of a passing run has a mutant: a definition changed as a slip in
the code would change it (`Mutant...` in the modules), under which TLC finds the
property violated.

### Bounds

The bounds are constants whose names begin with `Max`, and `NrIdentities`. The limits
of the code itself (`MaxWindows`, `MaxEntries`, `MaxNrMessages`, `MaxPins`,
`MaxRotationRecords`, `MaxConnections`) are set small so that they are reached, all but
`MaxRotationRecords`.

* dedup: windows of two offsets, room for two windows, three windows' worth of
  records, four arrivals, one restart. The third window forces a purge, the
  fourth arrival can come back to what was purged, and a restart can fall on
  either side of each timer.
* reassembly: two workers, since a race needs two; one record encrypted and sent
  twice, cut to two sizes, so that parts of two ciphertexts meet, and one in
  cleartext; a cache of one entry, since the second id then meets the cap; six
  receptions, which is every part of two transmissions of three.
* upstream_relay: three and one records, so that one claim ends the session
  while the other is in the middle; one record is another upstream's share; two
  attempts or no limit; one crash, one lost commit, one SIGTERM, which is every
  pair of faults. `FilterAgrees` compares the deliver filter with its meaning for
  all lists of three numbers up to 6, and of six up to 5.
* key_exchange: two workers that take each message any number of times, without a rate
  limit (`MinInterval = 0`: a positive one only takes behaviours away), so that the
  list gets into every state that two can leave; two files with any contents, of
  either key pair, without a key or missing; and two events from outside (`MaxEvents`)
  of any kind: a key of upstream, a change of a file, a restart of downstream, a tick.
  So there are two keys that race, or one whose exchange is repeated before, while and
  after a file changes. Restarts after a panic are not counted.
* create_bundle: two partitions, with the keys of one window in both, and three
  offsets in each: a record, its replacement or tombstone, and a marker.
  `BundleExact` also speaks of values that the deduplicator of this instance does not
  write. `ReadInit` in MCCreateBundle therefore adds the states at the end of a read of
  every topic with no record, a tombstone or any set of positions under each key of two
  adjacent windows of three: windows without gaps, runs of one to three offsets, at the
  beginning and the end of a window, two in one window, and runs that go on in the next.
* resend_job: two upstream partitions shifted by one, bundles of every type for
  one or two of them, with a range that ends between them; two offsets, of which
  one may be a marker or outside the interval of time; two changes of the topic
  during the job, so that the end that was looked up is overtaken or the start
  expires. Two readers are what the limiter needs.
* pinned_rotation: two changes of the identity files among three keys, so that another
  replacement can be asked for while one is pending or after it; two connections (data
  and rotation); two faults of any kind (crash, broken connection, failing write), so
  that the retry after a fault meets a second one; one of them may be an administrator's
  edit instead. The directory has room for three pins and the journal for three records,
  so that these limits (the code's are 2000) hide no other way in which a rotation gets
  stuck: the journal is never full, and only the fourth key, which none but the
  administrator pins, fills the directory or makes it too large to load. `RotationCompletes` makes no claim once aging or the
  administrator has moved, as either may undo a rotation at any time.
* downstream_writer: three datagrams, two workers, channels and batches of one:
  everything is full as soon as one thing waits.
* tcp_link: two threads with a frame each, two connections, one slot, two events
  (lost or refused connections, reloads, the end of either process): one that
  makes a thread reconnect and one that overtakes it.
* log_chain: three calls with two messages through a cache of one entry, anchors
  after one or two records, two certificates, four options at start-up (algorithm,
  anchor interval and two certificates one after the other), two reloads or
  expiries, and possibly the second record not written. Certificates are exchanged
  together with their keys.
* lost_events: two threads and two new payloads beside an old one, compression
  after one day and deletion after two, over four days, and two failing calls or
  crashes.

Symmetry is used for workers, threads, messages and key pairs, which are only
compared, and never in a run with a temporal property that is not an action
property.

### Fairness

* reassembly: weak fairness of time passing and of the cleaning goroutine, whose
  ticker is never stopped. Workers need none: an entry whose worker never
  finishes goes all the same.
* upstream_relay: weak fairness of each goroutine's next step; strong fairness
  only for seeing a cancelled context, because the back-off's `select` has
  `ctx.Done()` ready before its timer. A send may fail for ever. That it returns
  at all is the premise `SendsReturn` of `SigtermEndsProcess`, and not a consequence
  of the code: `conn.Write` of the TCP transport has no deadline
  (`upstream/adapters.go:713`, `:727`), so a receiver that stays connected and stops
  reading blocks the claim; main waits for the claim at `upstream.go:1003`, and
  closes the adapter, which would end the write, only afterwards
  (`upstream.go:1008`). A send over UDP returns. `AllCommitted`
  has its own premise, `SurroundingsWork`: a send that is possible again and
  again succeeds at some time, the broker can be reached, and a process that is
  down is restarted. That is an assumption on the environment: without it
  nothing can be delivered.
* create_bundle: weak fairness of its own steps. SIGTERM and faults are not
  fair. A partition of which only a marker is left is exempt (section 6).
* resend_job: weak fairness of the job as a whole: some goroutine takes a step as
  long as one can. No fairness among the readers is needed, since each has a
  bounded number of steps.
* pinned_rotation: weak fairness of both programs' steps. `SavePending` is one of
  them: the operator repeats SIGHUP while the identity files differ from the
  active identity, which is what `doc/PinnedRotation.md` asks for.
* downstream_writer: weak fairness of every goroutine's next step and of the
  producer's results; none for SIGTERM to be sent, datagrams to arrive or Kafka to
  be there. FlushCache ends because arrivals are finite.

tcp_link, log_chain and lost_events check safety only. In tcp_link two threads can
in principle close each other's fresh connection for ever, so no progress is
claimed.

Runs say `CHECK_DEADLOCK FALSE` where the system really may come to rest: when
all input is consumed and nothing is left to do, when `create` has ended, or when
the bounds on faults are used up.

## 4. The proofs

TLC looks at small instances; these theorems hold for every value of the
constants that satisfies the named assumption of the module (naturals where the
code has counts, a positive window size, a function where it has a table).

**DedupProcessorProofs**, from `DedupAssumption`:

* `DedupTypeCorrect`: `Spec => []TypeOK`. `TypeOK` bounds the detector in memory
  and in the store by `MAX_WINDOWS`. A restart brings back the committed store,
  so the inductive invariant `TypeInv` adds that `committed` has its type too.
  One lemma per detector operator (`RemoveFirstDetector`, `AddWindowDetector`,
  `OutOfMemoryDetectorOK`...) says that it maps detectors to detectors.
* `NoRecordIsLost`: every consumed record is in the clean topic, unless a copy of
  it was empty. Not inductive, because a restart rewinds position, detector and
  topics together: `LossInv` says the same of the committed snapshot, and that
  whatever a detector has marked, in memory, in the store or in the snapshot, is
  accounted for. `AccountedMonotonic` carries it over new records.
* `GapTopicStaysBounded` and `LegacyRecordsStayTracked`: `GapInv` relates the gap
  topic to the windows of the detector, and does it a second time for the
  committed pair. `amnesia` (a restart between commit and persist, section 6)
  is an exception of the first; the second holds without one.
* `ForwardedAtMostOnce` (`AtMostOnceInRange`): that an offset is forwarded once
  says nothing about the next step, so `Agrees` says what the detector knows: its
  windows are aligned and ascend, and from the first of them on its bits are the
  offsets that were read. A purge moves the range up, never down, because the
  windows ascend; that is what `NoLate` (no window is created behind another) is
  for. `AgreeInv` has it for the running detector and for the committed one, to
  which a restart returns.
* `GapsReportedAreTheGaps` (`EmitReportsTheGaps`): by the same agreement the gaps
  of the bitmap are those of the topic (`GapsOfTheTopic`). A window without gaps is
  written only once; `ClearedInv` says that it still reads so in the gap topic.

The same module has the theorem about CreateBundle, which reads what DedupProcessor
writes, from `CreateAssumption` (the windows are a finite set of naturals, the topic
has a partition):

* `BundleIsFresh` (`BundleFresh`): the property speaks of the end only, so `View`
  says what `create` will know of a key if nothing is written from now on: the
  latest record of a partition it has not opened, the last record still to be read
  in the one it reads, and what it has read of the others. `ViewInv` is that the two
  views of a window together say something the topic has said of it. A write changes
  a view only ahead of the pass: either of the current key, whose new record then
  decides, or of both keys with tombstones, and a legacy key is never written
  otherwise. Compaction changes no view, because what it drops is superseded by a
  record that is left to read. The case that needs an invariant of its own is the
  record read beyond `expectedFinalOffset`, when the expected one is a marker or was
  compacted away: `NewInv` says that such a record was the topic's word when it was
  written, since the read ends with it. The proof uses that tombstones do not expire
  during the run, which the model states as the assumption on
  `delete.retention.ms`.

**ReassemblyProofs**, from `ReassemblyAssumption` and, as a hypothesis of the
theorems, `Fits`: no record needs more than 65535 packets, the limit that
`formatter.go:35` names. Beyond it the 16-bit part count wraps and the statements
are false.

* `RecordsStoredIntact` (`StoredIntact`): `Came` says that the parts in an entry,
  or in the snapshot that a worker took of it, were sent, and that their number was
  declared by a packet of the same record. `WholeIsIntact`: if the bodies agree and
  no number is missing, they are one whole transmission. Two cleartext packets of
  the same size agree (`CleartextUnambiguous`); for others the authenticated
  decryption decides. The arithmetic is in `PartsOfRecord`: the loop of
  FormatMessage emits the numbers up to the declared one, the last one excepted
  exactly when the record fills its packets (the finding of section 6).
* `ArrivedRecordsStored` (`ArrivedIsStored`): `HeldInv` says that the parts that
  arrived are stored, with a worker, or all in an entry that is not complete.
  It rests on `CountTells`: parts with numbers from 1 to n are complete when there
  are n of them, which is how the cache decides.
* `ReassemblyTypeCorrect`: `TypeOK`, with the bound of the cache.

**KeyExchangeProofs**, from `KeyAssumption`, with one invariant, `KeyInv`:

* `HeldInv` holds whatever the workers do to one another: the indices that a worker
  wants removed are of entries it has looked at, and the list it read is long enough
  for the one it removes, so `Splice` never fails. What else a worker has in hand may
  be stale.
* `AloneInv`: a worker that is `alone` is the only one that is busy, so it is
  `Undeceived`: the list it read is the list, its indices are below its length
  (`LargestIndex` picks the last, so the others stay so), the keys of the files it
  has read are in the list (`ReadIn`; a removal keeps this true, because all
  removals come before the first file), no entry before its place in the list is the
  key's, and the key it has installed is the one in use.
* `KeyOnDiskFound` (`KeyOnDiskIsFound`, an action property): `UndisturbedFinds`. When
  the loop is over every file has been read, so the key on disk is in the list, at a
  place the loop has passed; and no index is beyond the list.
* `InstalledKeyDecrypts` (`ExchangedKeyDecrypts`): `GrantInv` says that while a key is
  granted it is the only one an unsynchronised read can return. A worker that
  installs another key withdraws the grant first; one that installs the same key, from
  a repeated exchange, does not.

The same module has the theorems about ResendJob, whose program begins with such an
exchange, from `ResendAssumption`:

* `OnlyRequestedIsSent` and `AllRequestedIsSent` from one invariant, `JobInv`. What the
  filter computes and what was asked for are brought together once, for all four
  types of bundle (`FilterIsRequested`, with `Shift` for the mapping of partitions
  there and back, `InRange` for the selection), and so is the offset at which a reader
  starts (`StartIsEarly`). `SentInv`: what was sent lies behind its reader, which never
  goes back, so a message that is sent is new; entries for different partitions keep
  the readers apart. `HandledInv`: what a reader has passed is sent, refused, or was
  not asked for. `ReaderInv`: it is never ahead of the topic, so what is written
  meanwhile cannot fall behind it, and the offset it ends on is at least the one that
  was looked up at the start.

**PinnedRotationProofs**, from `RotationAssumption`:

* `SessionsStayAuthorized`, `ReplacementInstalledOnce` and `ActiveIdentityTrusted`
  from one inductive invariant. `ClientInv` and `ConnInv` tie upstream's stage to
  its connections; `CommitInv` says that the lock is held for a connection in stage
  "commit", that downstream has no pins while it is down, and that what it is about
  to activate includes what is active, so no session loses its pin unseen;
  `JournalInv`, that an entry is written only for an exchange on record and not
  again; `GrantInv` and `TrustInv`, that a replacement is trusted before upstream is
  told, and that until then upstream can go back to the key it has.

**DownstreamWriterProofs**, from `SizesAssumption`, `StatusAssumption` and
`MarksAssumption`:

* `WriterKeepsOrder` (`OrderKept`): `OrderInv` is the same from the start of the
  process on.
* `WriterImplementsOutbox` (`ImplementsOutbox`), the refinement: the initial state
  maps to Outbox's, and each action to one step of it or to none. `HomeInv` says
  that a message that was written is in exactly one of the cache, a batch, the
  flushed ones, the producer and the lost, and there once, so that `Where` is
  unambiguous (`HomesArePlaces`); `ReceiverInv`, that a datagram has one place before
  that; `StageInv`, what the threads know of one another during the shutdown;
  `EarlyInv`, that nothing written before SIGTERM is in the cache once FlushCache
  has returned. `Outbox` itself has no fairness, so the refinement is a safety
  statement. `Where` has a value for a message that was handed over twice, which
  Outbox does not know: without it the mapping would hide a duplicate.

**TcpLinkProofs**, from `ConnsAssumption` and `WorkAssumption` (each frame is one
thread's, once):

* `FramesDeliveredOnce`, `UpstreamLosesNothing`, `EveryConnectionAccounted` and
  `CloseIsNotOutlived` from one inductive invariant. `FrameInv`: a frame waits with
  one thread, is whole in one place of one stream, or was delivered, and no two of
  these. `StreamInv`: nothing follows a broken frame, because upstream closes a
  connection on which a write failed before it writes again. `SharedInv`: an open
  connection is the shared one or in the hands of the thread that dialled it.
  `AcceptInv`: a connection waits, is being accepted or is served, and whatever is
  served while Close works is on its list. `CallInv`: a thread that writes has a
  frame and a connection.

**UpstreamRelayProofs**, from `RelayAssumption` and `FilterAssumption`:

* `RelayTypeCorrect`, with the order committed, marked, position.
* `RelaySkipsNothing` and `RelaySendsInOrder`: `SkipInv` says that all records
  below a claim's position were sent or are exempt; the committed offset is never
  above a position that some claim had, so nothing below it was skipped.
* `RelayDuplicatesBounded`: a record is sent once, plus once per crash or lost
  commit. `DupInv` counts per record: what lies below the marked offset may have
  been sent once more than faults explain, what lies above it may not. It needs
  that a claim marks every record it passes, so that an orderly end of a session
  commits its position.

The same module has the theorems about DeliverFilter, which UpstreamRelay uses;
they need no assumption on constants:

* `SelfTestDecides`: a list that passes the self-test and reaches over one period
  lets exactly those offsets through whose place in the period is in the list. The
  self-test looks at finitely many numbers; `PositionInPeriod` and
  `PositionOfPosition` carry its result to every offset, 0 included.
* `EveryOffsetHasOneSender`: if every place of the period is in the list of exactly
  one upstream, every offset is sent by exactly one.

and those about LostEventStore, whose state is apart from the relay's, from
`StoreAssumption`:

* `StoredPayloadsStay` from `StoreInv`. `PayloadsKept` alone is not inductive: a
  compression must not put something incomplete in the place of a payload.
  `NumbersFresh` says that the number of a payload is in no file and no compression
  until the payload is written; so every file and archive with the number of a
  stored payload is complete, and so is what is copied (`FilesComplete`), and a
  thread about to remove a source has left its archive (`PayloadsThere`). Threads
  never share a temporary file, but they do delete each other's.
* `RetentionIsKept` from `AgeInv`: complete files, archives and what is being
  copied have the day of their payload (`AgesKept`), and while a thread is
  undisturbed it has listed every file, and after the deletion none is old
  (`Undisturbed`).

**LogRepetitionProofs**, from `CertsAssumption` and `RepetitionAssumption`:

* `NoCallForgotten` and `ReportsAreInTime` from `CacheInv`. `SummaryInTime` is not
  inductive: a timer that was set for an entry with nothing to report, and is then
  left alone, must also suit the entry's next report. `SeenWhenReported` (such an
  entry was seen no later than it was reported) and `TimerSuits` (of every entry,
  not only those that wait) say why it does.
* `SignedWindowsAreVerifiable`, `EveryBreakIsDeclared` and `EveryKeyIsAuthenticated`
  from `ChainInv` and `KeysInv`. `Ordered`: the output is in the order of the numbers.
  `OpenWindow`: the records of the open window are the numbers given out since it was
  opened, without the lost ones. `Closed`: the same of the window of every signed
  anchor, which is over. `Linked`: successive records of a window are linked.
  `BreaksInv`: the value that the next record will be chained to is that of the last
  chained record exactly if neither a loss nor a restart lies between; that it
  differs otherwise rests on hashes of different numbers being different
  (`DifferentHash`). `KeysInv`: the key in use is that of the last signed anchor or
  its change is accounted for already.
  An operation that writes records is described once (`Wrote`, with `Plain` or
  `Anchored`), and each part of the invariant is carried over such a step.
  One step of the log writes any number of records, through a recursive function:
  `StatesExist` and `StatesCarried` take the smallest number of records that fails
  (`SmallestNumber`), which needs no induction schema.
* `LogTypeCorrect`: the types, with the limit of the cache and that no anchor is
  overdue between two operations.

The attempt to prove `KeysAuthenticated` found that `startedAt` began at 0, so that
the property spoke of start-up too and was false there with a fourth option, which
the bound of the run had hidden. The sentinel and the bound are the correction.

Every inductive invariant was checked with TLC on the instance of its run before it
was proved.

What stays with TLC:

* all liveness properties (`EntriesGo`, `SigtermEndsProcess`, `AllCommitted`,
  `CreateFinishes`, `JobEnds`, `RotationCompletes`, `SigtermEndsDownstream`): the
  prover does not reason about fairness;
* what needs an induction over data: `BundleExact`, about ranges that are folded
  from a bitmap.

## 5. What the models leave out

* Records with a key of another form than `topic_partition_offset` (forwarded
  unchanged by the deduplicator), counters, JMX and periodic reports.
* Header layout, checksums and compression. Encryption is its two properties:
  fresh per transmission, and authenticated.
* The delay of the late sending threads of upstream, rate limiting and
  statistics. The memory controller's pause is a claim that takes no step.
* Key updates of several parts, and failures of the glob itself.
* In CreateBundle: the tombstones of one purge are written in one step, records
  of aborted transactions are not told from others, records that do not parse are
  absent, and there is one source partition. The conversion of offsets to
  floating-point numbers and back (`create.go:535`) is the identity, as it is below
  2^53.
* In ResendJob: status messages, SIGHUP, a failing encryption (its packets are
  sent empty), payloads, bundles with two results for one partition or an unknown
  type.
* In PinnedRotation: other peers in the directory, upstream's pins for
  downstream's certificate, changes of files while a process is down, and
  `tcpTLSRotationEnabled=false`.
* In DownstreamWriter: TCP (TcpLink), the meaning of a datagram (Reassembly,
  KeyExchange), and the broker's refusal of a message, which the code only logs.
* In TcpLink: the contents of TLS configurations, and what a frame means.
  `Init` is the state after the first dial has failed; a successful one is a later
  `Dial`. A frame that arrives so slowly that the rest of it takes more than five
  seconds ends the connection in the code; in the model the rest of a frame comes at
  once or, after a break, never.
* In LogIntegrity and LogRepetition: log formats, the change of the log file, and
  three functions that no program calls (`SetRepeatInterval`, `FlushRepeated`,
  `ClearSigningCertificate`). `SetInstanceID` and `SetServiceName` (`otel.go:84-105`)
  report the waiting counts too, and the first restarts the chain: what an option
  that sets the length of the hash to the value it has does in the model.
* In LostEventStore: the text of guards and reports, and free space in bytes: a
  check of it may go either way.
* Components that are not modelled at all are listed with their reason in
  `PROJECT.json`.

## 6. Where code and documents disagree

One disagreement is a run; `PROJECT.json` quotes the sentence it contradicts.

* reassembly_exact: a record whose length is a multiple of the payload size is
  announced with one part too many and is never stored.

Others were met while modelling. They are behaviours of the models, and the
properties are stated around them; no run is kept for them.

* Keys, workers side by side: "Multiple private key files are tried in sequence, so key
  rotation on downstream does not cause gaps" (`doc/Encryption.md:27`). Two workers that
  pass the rate limit together (`downstream.go:291`) read, splice and append to
  `config.keyInfos` without a lock (`communication.go:107-123`, `:153-172`, `:235`).
  Both compute that index 0 is to go, say, and the second removes the key after it,
  which is still on disk; or a loop is left with an index beyond the end, with which
  downstream panics. A key on disk is then not tried (`alone` in `Undisturbed`).
* Keys, a file of the glob without an RSA key: it is reported and added to the list with
  a nil private key (`communication.go:231`), which ends the process when it is tried, at
  every exchange anew; the files after it are not tried (`Readable` in `Undisturbed`).
* Dedup, the end of a window: an offset lost there counts as tail for ever, also
  when later windows have been received, and is never reported
  (`GapDetector.java:416`), although `doc/Deduplication.md:198` explains the tail
  as "events not yet received at emit time".
* Keys, a resend job: downstream keeps a single symmetric key, so the key of a job
  replaces that of the running upstream, whose payloads no longer decrypt until it
  restarts (`communication.go:119`; `granted` in `ExchangedKeyDecrypts`).
* Dedup, a window that is created late: windows are appended and purged in the
  order of their creation (`GapDetector.java:217`), so the purge may remove a
  newer one, and offsets above the oldest window are forwarded twice
  (`NoLateWindow` in `AtMostOnceInRange`).
* Dedup, a commit between two persists, then a restart: gap records of the
  forgotten windows stay in the topic (`amnesia` in `GapTopicBounded`), which
  `doc/Deduplication.md:228` bounds by `MAX_WINDOWS`.
* Keys: `nextKeyGeneration` is set and never read, so the symmetric key is not
  rotated (`README.md:128`); over TCP none is made (`upstream.go:341`); a
  private key file that is replaced leaves its old key in memory
  (`communication.go:155`).
* Create: a partition of which only a transaction marker is left is waited for
  without end, because the stall timer starts with the first message
  (`getkafka.go:1068`; `[]NothingToRead` in `CreateFinishes`); a fetch slower than
  the stall timeout, or a failed offset lookup (`getkafka.go:1123`, `:1033`),
  leaves windows out of the bundle without an error (`cut` in `BundleFresh`).
* Resend: an id is split at underscores and needs three parts
  (`resend.go:494`), so nothing is sent for a topic such as `my_topic`, which
  `create` handles (`legacy_gaps_test.go:44`; `config.plain` in
  `AllRequestedSent`). The stall timer runs while the callback waits for the rate
  limiter, so a job whose partitions get less than one message in two seconds may
  leave some of them early (`getkafka.go:1123`; `cut`). "Cancels all readers when
  every partition has reached its recorded LastOffset" (`resend.go:333`) is not
  what happens, and a time range without a partition ends the process
  (`adapters.go:59`), although `resend.go:207` provides for -1.
* Pinned TLS: a rotation back to a key that an administrator removed writes its
  entry again (`rotation_store.go:252`); a restart between the replacement of the
  identity files and SIGHUP uses a key that was not accepted
  (`files = "used"` in `IdentityTrusted`); once a key is on record with one
  replacement, which upstream has not come to use because clearing its recovery file
  reported an error, and the identity files name another, every request is refused
  (`rotation_store.go:208`; `NeedsOperator` in `RotationCompletes`).
* Deliver filter: an id is split at underscores and the filter is applied only if
  there are three parts (`upstream.go:527`), so every upstream sends all records of
  a topic such as `my_topic`. A list such as `1,1,1` has a period of zero and
  panics.
* Downstream writer: messages accepted after `FlushCache` are discarded by
  `StopBackgroundThread` when more than a batch of them is left (`lost` in
  `ImplementsOutbox`), and batches of the two senders may overtake each other.
* TCP: a `Write` on a connection that is dead may succeed, and a connection beyond
  `maxTCPConnections` is closed after it was accepted; what was written is lost and
  found by gap detection only (`fault` in `NoneLostByUpstream`).
* Logging: at start-up a signing certificate may be replaced without an
  announcement (`KeysAuthenticated` begins when the program runs); a certificate
  that has expired cannot be replaced without a restart; the records of a window
  that is open at a reconfiguration never get an anchor; counts that wait are lost
  at a normal exit (`doc/Logging.md` says so). A certificate and key from the
  environment cannot both override those of a configuration file, because each
  option is validated by itself (`options.go:76`, against the comment at line 139).
* Shutdown of upstream over TCP: a receiver that is connected and does not read
  keeps a `Write` and with it the process from ending (section 3, Fairness).
* Log repetition: the count of a summary whose write fails is cleared all the same
  (`repetition.go:111-113`), so what it counted is in no record; `RepeatsConserved`
  speaks of what was handed to the output.
* Lost events: "so a message never claims the original payload was kept when it was
  not" (`ale.go:47`), but the default text of the guard names the directory also
  when the payload could not be written; a payload whose encryption fails after it
  was compressed or replaced is stored as such, not as the original.

## 7. The plan

Done, in this order: DedupProcessor and its proofs, Reassembly, UpstreamRelay and
its proofs, KeyExchange, CreateBundle, PinnedRotation, ResendJob; Outbox and
DownstreamWriter, TcpLink, LogIntegrity and LogRepetition, LostEventStore,
DeliverFilter and its proofs; then the proofs of DownstreamWriter with the refinement
of Outbox, of PinnedRotation, TcpLink, KeyExchange and Reassembly, the second
part of those of DedupProcessor, and those of LogRepetition, LostEventStore,
ResendJob and CreateBundle.

Next modules, by weight:

1. **ResendLoop**: composes the sending side, a lossy link, the detector's view
   and ResendJob, with an abstract specification of the whole (a set of offsets
   that grows to the topic) as a refinement target. Every gap is closed in the
   end if rounds are repeated.
2. **MemoryGate**: pause and resume of the fetchers on samples that are out of
   date.
3. The gaps tool as a second implementation of gap detection, against the same
   reference.

Every safety property of a run but `BundleExact` has a theorem; the next ones are
those of the modules above.
