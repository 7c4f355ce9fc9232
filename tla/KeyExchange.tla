---------------------------- MODULE KeyExchange ----------------------------
(***************************************************************************)
(* The symmetric keys of payload encryption: upstream and resend jobs       *)
(* create one when they start and send it to downstream (sendNewKey);       *)
(* downstream's workers accept KEY_EXCHANGE messages, at most one per       *)
(* keyExchangeMinIntervalSecs, bring the list of private keys in line with  *)
(* the key files, try them in turn, and install the key in the one variable *)
(* config.key that all of them decrypt with.                                *)
(*                                                                         *)
(* Nothing protects config.key, the list keyInfos or the check of           *)
(* lastKeyExchangeNano between workers.  A worker looks at the list index   *)
(* by index, and reads and replaces it in separate steps, so that it        *)
(* overwrites what another one did since, removes an index that is stale,   *)
(* or indexes a list that has become shorter, which ends the process.  A    *)
(* reader of config.key sees the key before or after an installation that   *)
(* is under way.                                                            *)
(*                                                                         *)
(* Keys are numbered as they are created, 0 is the nil key.  A payload is   *)
(* no more than the key it is encrypted with; Decrypt authenticates.  As in *)
(* Reassembly the wire may lose, repeat and reorder what is sent.           *)
(***************************************************************************)
EXTENDS Integers, Sequences, SequencesExt

CONSTANTS Senders,         \* subset of {"upstream", "resend"}
          Transports,      \* of upstream: subset of {"udp", "tcp"}
          MinInterval,     \* keyExchangeMinIntervalSecs
          Workers,         \* worker goroutines of downstream
          Pairs,           \* RSA key pairs
          Absent,          \* no file
          Unreadable,      \* no RSA key: the private key in memory is nil
          Contents,        \* what a key file may be
          NrFiles,         \* private key files are 1 .. NrFiles, in glob order
          MaxKeys,         \* bound: symmetric keys
          MaxTime,         \* bound: clock
          MaxDiskChanges,  \* bound: changes to the private key files
          MaxCrashes,      \* bound: restarts of downstream, but for those after a panic
          MaxEvents        \* bound: all of these together

ASSUME KeyAssumption ==
    /\ Senders \subseteq {"upstream", "resend"}
    /\ Transports \subseteq {"udp", "tcp"}
    /\ Absent \notin Pairs /\ Unreadable \notin Pairs \cup {Absent}
    /\ Contents \subseteq Pairs \cup {Absent, Unreadable}
    /\ {MinInterval, NrFiles, MaxKeys, MaxTime, MaxDiskChanges, MaxCrashes,
        MaxEvents} \subseteq Nat

Files == 1 .. NrFiles

VARIABLES clock,
          sender,      \* per sender: [up, key]
          generated,   \* number of symmetric keys so far
          wire,        \* messages sent: [type, key, pair]
          disk,        \* per file: the pair of the private key in it, Absent or Unreadable
          diskChanges,
          keyInfos,    \* downstream: private keys in memory, a sequence of [file, pair]
          key,         \* downstream: config.key
          last,        \* downstream: lastKeyExchangeNano
          job,         \* per worker: its KEY_EXCHANGE message, see Idle
          granted,     \* the key that payloads must decrypt with, or 0 (history)
          failed,      \* keys of payloads that did not, although granted (history)
          crashes

vars == <<clock, sender, generated, wire, disk, diskChanges, keyInfos, key, last, job,
          granted, failed, crashes>>

\* Something may still happen that does not follow from what happened before.
Event == generated + clock + diskChanges + crashes < MaxEvents

senderVars == <<sender, generated, wire>>
diskVars == <<disk, diskChanges>>
exchangeVars == <<keyInfos, key, last, granted>>

\* A worker that handles no exchange.  The others have in hand the files that are
\* to be loaded, the indices to be purged, what they read of the list and of a
\* file, and their place in the list; alone as long as no other worker has begun
\* and no file has changed since they began (history).
Idle == [stage |-> "idle", key |-> 0, pair |-> Absent, now |-> 0, names |-> {}, purge |-> {},
         infos |-> <<>>, read |-> Absent, index |-> 0, count |-> 0, alone |-> FALSE]

LongAgo == -MinInterval
-----------------------------------------------------------------------------
\* Upstream and resend.

Exchange(k, pair) == [type |-> "exchange", key |-> k, pair |-> pair]
Payload(k) == [type |-> "payload", key |-> k, pair |-> Absent]

\* The time of the next key generation is set as well, but no code reads it.
Started(k) == [up |-> TRUE, key |-> k]

\* sendNewKey, when the program starts.
SendNewKey(s, pair) ==
    /\ s = "upstream" => "udp" \in Transports
    /\ ~sender[s].up
    /\ Event /\ generated < MaxKeys
    /\ generated' = generated + 1
    /\ sender' = [sender EXCEPT ![s] = Started(generated')]
    /\ wire' = wire \cup {Exchange(generated', pair)}
    /\ UNCHANGED <<clock, diskVars, exchangeVars, job, failed, crashes>>

\* SendMessages fails: upstream uses the key nevertheless (resend exits).
SendNewKeyFails ==
    /\ "upstream" \in Senders /\ "udp" \in Transports
    /\ ~sender["upstream"].up
    /\ Event /\ generated < MaxKeys
    /\ generated' = generated + 1
    /\ sender' = [sender EXCEPT !["upstream"] = Started(generated')]
    /\ UNCHANGED <<clock, wire, diskVars, exchangeVars, job, failed, crashes>>

\* The transport of upstream is no UDPAdapter: an error is logged, no key is made.
StartWithoutKey ==
    /\ "upstream" \in Senders /\ "tcp" \in Transports
    /\ ~sender["upstream"].up
    /\ sender' = [sender EXCEPT !["upstream"] = Started(0)]
    /\ UNCHANGED <<clock, generated, wire, diskVars, exchangeVars, job, failed, crashes>>

\* Encrypt refuses the nil key.
SendPayload(s) ==
    /\ sender[s].up
    /\ sender[s].key # 0
    /\ wire' = wire \cup {Payload(sender[s].key)}
    /\ UNCHANGED <<clock, sender, generated, diskVars, exchangeVars, job, failed, crashes>>

Stop(s) ==
    /\ sender[s].up
    /\ sender' = [sender EXCEPT ![s] = [up |-> FALSE, key |-> 0]]
    /\ UNCHANGED <<clock, generated, wire, diskVars, exchangeVars, job, failed, crashes>>
-----------------------------------------------------------------------------
\* The private key files.

PairsOnDisk == {disk[f] : f \in Files} \cap Pairs

\* The operator writes, replaces or removes a private key file.
ChangeFile(f, content) ==
    /\ Event /\ diskChanges < MaxDiskChanges
    /\ content # disk[f]
    /\ disk' = [disk EXCEPT ![f] = content]
    /\ diskChanges' = diskChanges + 1
    /\ job' = [w \in Workers |-> [job[w] EXCEPT !.alone = FALSE]]
    /\ UNCHANGED <<clock, senderVars, exchangeVars, failed, crashes>>
-----------------------------------------------------------------------------
\* Downstream: handleUdpMessage in the workers.

RateLimited == MinInterval > 0 /\ clock - last < MinInterval

\* A KEY_EXCHANGE message within the interval is dropped, without effect; any
\* other one passes.
PassRateLimit(w, m) ==
    /\ job[w].stage = "idle"
    /\ m.type = "exchange"
    /\ ~RateLimited
    /\ job' = [job EXCEPT ![w] = [Idle EXCEPT !.stage = "passed", !.key = m.key,
                                             !.pair = m.pair, !.now = clock]]
    /\ UNCHANGED <<clock, senderVars, diskVars, exchangeVars, failed, crashes>>

\* Workers that have accepted an exchange.
Busy == {w \in Workers : job[w].stage \notin {"idle", "passed"}}

\* lastKeyExchangeNano is stored, readNewKey begins, and the files are listed.
Accept(w) ==
    /\ job[w].stage = "passed"
    /\ last' = job[w].now
    /\ job' = [v \in Workers |->
                 IF v = w
                 THEN [job[w] EXCEPT !.stage = "scan", !.index = 1, !.alone = (Busy = {}),
                                     !.names = {f \in Files : disk[f] # Absent}]
                 ELSE [job[v] EXCEPT !.alone = FALSE]]
    /\ UNCHANGED <<clock, senderVars, diskVars, keyInfos, key, granted, failed, crashes>>

\* A step of w in readPrivateKeys or readNewKey.
Step(w, new) ==
    /\ job' = [job EXCEPT ![w] = new]
    /\ UNCHANGED <<clock, senderVars, diskVars, last, failed, crashes>>

\* readPrivateKeys: one turn of the loop that looks for keys whose file is gone.
Scan(w) ==
    /\ job[w].stage = "scan"
    /\ Step(w, IF job[w].index > Len(keyInfos)
               THEN [job[w] EXCEPT !.stage = "update"]
               ELSE [job[w] EXCEPT !.index = @ + 1,
                       !.purge = IF keyInfos[job[w].index].file \in job[w].names
                                 THEN @ ELSE @ \cup {job[w].index}])
    /\ UNCHANGED <<keyInfos, key, granted>>

Largest(indices) == CHOOSE i \in indices : \A j \in indices : j <= i
First(files) == CHOOSE f \in files : \A e \in files : f <= e

\* The indices are removed from the back: the list is read ...
BeginSplice(w) ==
    /\ job[w].stage = "update"
    /\ job[w].purge # {}
    /\ Largest(job[w].purge) <= Len(keyInfos)
    /\ Step(w, [job[w] EXCEPT !.stage = "splice", !.infos = keyInfos])
    /\ UNCHANGED <<keyInfos, key, granted>>

\* ... and replaced.
Splice(w) ==
    LET i == Largest(job[w].purge) IN
    /\ job[w].stage = "splice"
    /\ Step(w, [job[w] EXCEPT !.stage = "update", !.infos = <<>>, !.purge = @ \ {i}])
    /\ keyInfos' = RemoveAt(job[w].infos, i)
    /\ UNCHANGED <<key, granted>>

\* A file that cannot be opened, because it is gone by now, is like one without a
\* key: an error is sent, and its private key is nil.
Content(f) == IF disk[f] = Absent THEN Unreadable ELSE disk[f]

\* Mutant: a key counts as loaded when one was loaded from its file.
MutantLoaded(f) == \E i \in DOMAIN keyInfos : keyInfos[i].file = f

\* The hash of the file is that of a key in memory.
Loaded(f) == \E i \in DOMAIN keyInfos : keyInfos[i].pair = Content(f)

\* The next file is read; unless its key is loaded already, the list is read (apart
\* from this, the read could only let a key be listed twice) ...
ReadFile(w) ==
    LET f == First(job[w].names) IN
    /\ job[w].stage = "update"
    /\ job[w].purge = {} /\ job[w].names # {}
    /\ Step(w, IF Loaded(f)
               THEN [job[w] EXCEPT !.names = @ \ {f}]
               ELSE [job[w] EXCEPT !.stage = "append", !.infos = keyInfos, !.read = Content(f)])
    /\ UNCHANGED <<keyInfos, key, granted>>

\* ... and replaced by one with the key at its end.
AddKey(w) ==
    LET f == First(job[w].names) IN
    /\ job[w].stage = "append"
    /\ Step(w, [job[w] EXCEPT !.stage = "update", !.infos = <<>>, !.read = Absent,
                              !.names = @ \ {f}])
    /\ keyInfos' = Append(job[w].infos, [file |-> f, pair |-> job[w].read])
    /\ UNCHANGED <<key, granted>>

\* readNewKey: the number of keys is fixed when the loop over them begins.
Search(w) ==
    /\ job[w].stage = "update"
    /\ job[w].purge = {} /\ job[w].names = {}
    /\ Step(w, [job[w] EXCEPT !.stage = "try", !.index = 1, !.count = Len(keyInfos)])
    /\ UNCHANGED <<keyInfos, key, granted>>

InList(w) == job[w].index <= Len(keyInfos)

\* Mutant: the old key is dropped while the new one is looked for.
MutantTryKey(w) ==
    /\ job[w].stage = "try"
    /\ job[w].index <= job[w].count /\ InList(w)
    /\ keyInfos[job[w].index].pair # Unreadable
    /\ Step(w, IF keyInfos[job[w].index].pair = job[w].pair
               THEN [job[w] EXCEPT !.stage = "found"]
               ELSE [job[w] EXCEPT !.index = @ + 1])
    /\ key' = 0
    /\ UNCHANGED <<keyInfos, granted>>

\* A private key decrypts what was encrypted with the public key of its pair.
TryKey(w) ==
    /\ job[w].stage = "try"
    /\ job[w].index <= job[w].count /\ InList(w)
    /\ keyInfos[job[w].index].pair # Unreadable
    /\ Step(w, IF keyInfos[job[w].index].pair = job[w].pair
               THEN [job[w] EXCEPT !.stage = "found"]
               ELSE [job[w] EXCEPT !.index = @ + 1])
    /\ UNCHANGED <<keyInfos, key, granted>>

\* The status is sent, with the file name at the index, and config.key assigned.
Announce(w) ==
    /\ job[w].stage = "found"
    /\ InList(w)
    /\ Step(w, [job[w] EXCEPT !.stage = "installing"])
    /\ granted' = IF granted = job[w].key THEN granted ELSE 0
    /\ UNCHANGED <<keyInfos, key>>

\* The assignment is complete.
InstallKey(w) ==
    /\ job[w].stage = "installing"
    /\ Step(w, [job[w] EXCEPT !.stage = "installed"])
    /\ key' = job[w].key
    /\ UNCHANGED <<keyInfos, granted>>

\* All private keys in memory can be used.
Readable == \A i \in DOMAIN keyInfos : keyInfos[i].pair # Unreadable

\* An exchange that nothing interfered with, and whose private key is on disk.
Undisturbed(w) == job[w].alone /\ job[w].pair \in PairsOnDisk /\ Readable

\* An undisturbed exchange obliges downstream to decrypt with its key, until
\* another one is installed or the process ends.
End(w) ==
    /\ granted' = IF Undisturbed(w) THEN job[w].key ELSE granted
    /\ UNCHANGED <<keyInfos, key>>

\* readNewKey returns the file name at the index.
ReturnName(w) ==
    /\ job[w].stage = "installed"
    /\ InList(w)
    /\ Step(w, Idle)
    /\ End(w)

\* None of the keys decrypts the message.
Refuse(w) ==
    /\ job[w].stage = "try"
    /\ job[w].index > job[w].count
    /\ Step(w, Idle)
    /\ End(w)

\* Everything but the files is in memory only.
Restart ==
    /\ key' = 0 /\ keyInfos' = <<>> /\ last' = LongAgo /\ granted' = 0
    /\ job' = [w \in Workers |-> Idle]
    /\ UNCHANGED <<clock, senderVars, diskVars, failed>>

RestartDownstream ==
    /\ Event /\ crashes < MaxCrashes
    /\ crashes' = crashes + 1
    /\ Restart

\* An index beyond the list, or a nil private key: the process ends, and is
\* started again.
Panic(w) ==
    /\ \/ /\ job[w].stage = "update" /\ job[w].purge # {}
          /\ Largest(job[w].purge) > Len(keyInfos)
       \/ /\ job[w].stage = "try" /\ job[w].index <= job[w].count
          /\ InList(w) => keyInfos[job[w].index].pair = Unreadable
       \/ job[w].stage \in {"found", "installed"} /\ ~InList(w)
    /\ Restart
    /\ UNCHANGED crashes

\* What an unsynchronised read of config.key may return.
ReadableKeys == {key} \cup {job[w].key : w \in {v \in Workers : job[v].stage = "installing"}}

\* TYPE_MESSAGE: the payload is handed to the Kafka writer, or a decrypt error is
\* sent.
HandlePayload(w, m, k) ==
    /\ job[w].stage = "idle"
    /\ m.type = "payload"
    /\ k \in ReadableKeys
    /\ failed' = IF k = m.key THEN failed ELSE failed \cup ({m.key} \cap {granted})
    /\ UNCHANGED <<clock, senderVars, diskVars, exchangeVars, job, crashes>>
-----------------------------------------------------------------------------
Init ==
    /\ clock = 0
    /\ sender = [s \in Senders |-> [up |-> FALSE, key |-> 0]]
    /\ generated = 0
    /\ wire = {}
    /\ disk \in [Files -> Contents]
    /\ diskChanges = 0
    /\ key = 0 /\ keyInfos = <<>> /\ last = LongAgo
    /\ job = [w \in Workers |-> Idle]
    /\ granted = 0 /\ failed = {}
    /\ crashes = 0

Tick ==
    /\ Event /\ clock < MaxTime
    /\ clock' = clock + 1
    /\ UNCHANGED <<senderVars, diskVars, exchangeVars, job, failed, crashes>>

WorkerStep(w) ==
    \/ Accept(w) \/ Scan(w) \/ BeginSplice(w) \/ Splice(w) \/ ReadFile(w) \/ AddKey(w)
    \/ Search(w) \/ TryKey(w) \/ Announce(w) \/ InstallKey(w) \/ ReturnName(w) \/ Refuse(w)
    \/ Panic(w)

Next ==
    \/ Tick
    \/ \E s \in Senders : \/ \E pair \in Pairs : SendNewKey(s, pair)
                          \/ SendPayload(s) \/ Stop(s)
    \/ SendNewKeyFails \/ StartWithoutKey
    \/ \E f \in Files, content \in Contents : ChangeFile(f, content)
    \/ \E w \in Workers :
         \/ \E m \in wire : PassRateLimit(w, m)
         \/ \E m \in wire, k \in ReadableKeys : HandlePayload(w, m, k)
         \/ WorkerStep(w)
    \/ RestartDownstream

Spec == Init /\ [][Next]_vars
-----------------------------------------------------------------------------
\* Properties.

Infos == [file : Files, pair : Pairs \cup {Unreadable}]
JobStages == {"idle", "passed", "scan", "update", "splice", "append", "try", "found",
              "installing", "installed"}

\* Types; downstream never has a key that no sender made.
TypeOK ==
    /\ clock \in 0 .. MaxTime
    /\ generated \in 0 .. MaxKeys
    /\ sender \in [Senders -> [up : BOOLEAN, key : 0 .. generated]]
    /\ wire \subseteq [type : {"exchange", "payload"}, key : 1 .. generated,
                       pair : Pairs \cup {Absent}]
    /\ disk \in [Files -> Contents]
    /\ diskChanges \in 0 .. MaxDiskChanges
    /\ keyInfos \in Seq(Infos)
    /\ key \in 0 .. generated /\ granted \in 0 .. generated
    /\ last \in LongAgo .. clock
    /\ job \in [Workers -> [stage : JobStages, key : 0 .. generated, pair : Pairs \cup {Absent},
                            now : 0 .. clock, names : SUBSET Files, purge : SUBSET Nat,
                            infos : Seq(Infos), read : Pairs \cup {Unreadable, Absent},
                            index : Nat, count : Nat, alone : BOOLEAN]]
    /\ failed \subseteq 1 .. generated
    /\ crashes \in 0 .. MaxCrashes

\* Once an exchange whose private key is on disk has run without interference, the
\* payloads under its key decrypt until another key is installed, or the process
\* ends: exchanges that are repeated, late, refused or race with one another, and
\* changes of the key files, take nothing away (readNewKey; Encryption.md:
\* "Downstream decrypts the key with its private key and uses it to decrypt
\* subsequent payloads").
ExchangedKeyDecrypts == failed = {}

\* An exchange that runs without interference finds its private key if a file holds
\* it, whatever other workers did to the list before, and however files were
\* renamed, replaced, copied and removed (readPrivateKeys; "Multiple private key
\* files are tried in sequence, so key rotation on downstream does not cause
\* gaps").
KeyOnDiskIsFound ==
    [][\A w \in Workers : Refuse(w) \/ Panic(w) => ~Undisturbed(w)]_vars
=============================================================================
