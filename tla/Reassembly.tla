----------------------------- MODULE Reassembly -----------------------------
(***************************************************************************)
(* Fragmentation and reassembly: protocol.FormatMessage on the sending      *)
(* side; the workers of the downstream UDP listener, protocol.ParseMessage  *)
(* and the MessageCache they share on the receiving side.                   *)
(*                                                                         *)
(* The wire loses, duplicates and reorders packets: `sent' is everything    *)
(* ever sent, and a worker may receive any of it any number of times or     *)
(* never.  A packet that fails a check of ParseMessage or its checksum is   *)
(* discarded without effect, so it is a lost packet here.                   *)
(*                                                                         *)
(* The bytes of a part are what the properties tell apart: which slice it   *)
(* is, out of how large slices, of which ciphertext.  Encrypt draws a       *)
(* fresh nonce per transmission; in cleartext all transmissions of a record *)
(* are the same bytes.                                                      *)
(***************************************************************************)
EXTENDS Naturals, FiniteSets

CONSTANTS Ids,            \* message ids
          Length,         \* Ids -> bytes to send
          PartSizes,      \* payload bytes per packet, one value per sender
          Encrypted,      \* ids sent as TYPE_MESSAGE instead of TYPE_CLEARTEXT
          Workers,        \* worker goroutines of the listener
          MaxEntries,     \* maxCacheEntries
          MaxNrMessages,  \* maxNrMessages
          MaxSends,       \* bound: transmissions
          MaxReceives     \* bound: packets received

ASSUME ReassemblyAssumption ==
    /\ Length \in [Ids -> Nat]
    /\ PartSizes \subseteq Nat \ {0}
    /\ Encrypted \subseteq Ids
    /\ MaxEntries \in Nat
    /\ MaxNrMessages \in Nat
    /\ MaxSends \in Nat
    /\ MaxReceives \in Nat

VARIABLES sent,      \* packets on the wire
          sends,
          receives,
          entries,   \* the cache: id -> [len, val, expired]
          job,       \* busy worker -> the complete snapshot it assembles
          stored,    \* [id, parts] written to Kafka
          rejected,  \* ids reported as decrypt errors
          arrived,   \* packets ParseMessage accepted (history)
          forgone    \* ids that lost a part to the TTL or the cap (history)

vars == <<sent, sends, receives, entries, job, stored, rejected, arrived, forgone>>

\* f with k mapped to v, and f without the keys K.
Put(f, k, v) == [x \in DOMAIN f \cup {k} |-> IF x = k THEN v ELSE f[x]]
Without(f, K) == [x \in DOMAIN f \ K |-> f[x]]
-----------------------------------------------------------------------------
\* The sender.

NrMessages(len, size) == (1 + len \div size) % 65536

\* The part numbers the loop of FormatMessage emits; an empty message is one
\* packet.
PartNumbers(len, size) ==
    IF len = 0 THEN {1} ELSE {n \in 1 .. len : (n - 1) * size < len}

NrDeclared(len, size) == IF len = 0 THEN 1 ELSE NrMessages(len, size)

\* What distinguishes the bytes of a part: two parts with the same number and
\* the same body are the same bytes.
Body(id, transmission, size) ==
    [nonce |-> IF id \in Encrypted THEN transmission ELSE 0, size |-> size]

FormatMessage(id, transmission, size) ==
    {[id |-> id, num |-> n, nr |-> NrDeclared(Length[id], size),
      body |-> Body(id, transmission, size)] : n \in PartNumbers(Length[id], size)}

\* upstream, or resend for the same record later, sends all packets of a message.
Transmit(id, size) ==
    /\ sends < MaxSends
    /\ sends' = sends + 1
    /\ sent' = sent \cup FormatMessage(id, sends + 1, size)
    /\ UNCHANGED <<receives, entries, job, stored, rejected, arrived, forgone>>
-----------------------------------------------------------------------------
\* The receiver.

\* The parts are those of one whole transmission.  Decrypt, which
\* authenticates, accepts nothing else.
Intact(id, parts) ==
    \E n \in DOMAIN parts :
        /\ \A m \in DOMAIN parts : parts[m] = parts[n]
        /\ DOMAIN parts = PartNumbers(Length[id], parts[n].size)

\* Mutant: a message that does not decrypt is written as it is.
MutantHandleMessage(id, parts) ==
    stored' = stored \cup {[id |-> id, parts |-> parts]} /\ UNCHANGED rejected

\* handleUdpMessage with a whole message.
HandleMessage(id, parts) ==
    IF id \in Encrypted /\ ~Intact(id, parts)
    THEN rejected' = rejected \cup {id} /\ UNCHANGED stored
    ELSE stored' = stored \cup {[id |-> id, parts |-> parts]} /\ UNCHANGED rejected

Take(w, p) ==
    /\ w \notin DOMAIN job
    /\ p.nr <= MaxNrMessages
    /\ receives < MaxReceives
    /\ receives' = receives + 1
    /\ arrived' = arrived \cup {p}
    /\ UNCHANGED <<sent, sends>>

\* nrMessages <= 1: the cache is not involved.
ReceiveSingle(w, p) ==
    /\ Take(w, p)
    /\ p.nr <= 1
    /\ HandleMessage(p.id, [n \in {1} |-> p.body])
    /\ UNCHANGED <<entries, job, forgone>>

\* The entry of p's message with p added; len is that of its first packet.
WithPart(p) ==
    LET e == IF p.id \in DOMAIN entries THEN entries[p.id]
             ELSE [len |-> p.nr, val |-> [n \in {} |-> 0], expired |-> FALSE]
    IN  [e EXCEPT !.val = Put(@, p.num, p.body)]

CacheFull(id) == id \notin DOMAIN entries /\ Cardinality(DOMAIN entries) >= MaxEntries

\* Mutant: a message is complete when it has more parts than it should.
MutantIsComplete(e) == e.len > 0 /\ Cardinality(DOMAIN e.val) > e.len

IsComplete(e) == e.len > 0 /\ Cardinality(DOMAIN e.val) >= e.len

\* AddPartAndSnapshot is one critical section; a complete snapshot is assembled
\* outside of it, in the next step of the worker.
AddPart(w, p) ==
    /\ Take(w, p)
    /\ p.nr > 1
    /\ ~CacheFull(p.id)
    /\ entries' = Put(entries, p.id, WithPart(p))
    /\ job' = IF IsComplete(WithPart(p))
              THEN Put(job, w, [id |-> p.id, len |-> WithPart(p).len,
                                val |-> WithPart(p).val])
              ELSE job
    /\ UNCHANGED <<stored, rejected, forgone>>

\* The cache is full: the first part of a new message is dropped.
DropPart(w, p) ==
    /\ Take(w, p)
    /\ p.nr > 1
    /\ CacheFull(p.id)
    /\ forgone' = forgone \cup {p.id}
    /\ UNCHANGED <<entries, job, stored, rejected>>

AllPartsPresent(s) == 1 .. s.len \subseteq DOMAIN s.val

\* assembleMessage succeeded: RemoveEntry, whatever the entry holds by now, and
\* the message goes on.
Assemble(w) ==
    /\ w \in DOMAIN job
    /\ AllPartsPresent(job[w])
    /\ entries' = Without(entries, {job[w].id})
    /\ HandleMessage(job[w].id, [n \in 1 .. job[w].len |-> job[w].val[n]])
    /\ job' = Without(job, {w})
    /\ UNCHANGED <<sent, sends, receives, arrived, forgone>>

\* assembleMessage missed a part: the entry stays.
AssembleFails(w) ==
    /\ w \in DOMAIN job
    /\ ~AllPartsPresent(job[w])
    /\ job' = Without(job, {w})
    /\ UNCHANGED <<sent, sends, receives, entries, stored, rejected, arrived, forgone>>

\* The TTL of an entry, counted from its first part, runs out.
Expire(id) ==
    /\ id \in DOMAIN entries
    /\ ~entries[id].expired
    /\ entries' = [entries EXCEPT ![id].expired = TRUE]
    /\ UNCHANGED <<sent, sends, receives, job, stored, rejected, arrived, forgone>>

Expired == {i \in DOMAIN entries : entries[i].expired}

\* Mutant: complete entries are left to the workers that assemble them.
MutantCleanList ==
    LET gone == {i \in Expired : ~IsComplete(entries[i])} IN
    /\ gone # {}
    /\ entries' = Without(entries, gone)
    /\ forgone' = forgone \cup gone
    /\ UNCHANGED <<sent, sends, receives, job, stored, rejected, arrived>>

\* The cleaning goroutine.
CleanList ==
    /\ Expired # {}
    /\ entries' = Without(entries, Expired)
    /\ forgone' = forgone \cup Expired
    /\ UNCHANGED <<sent, sends, receives, job, stored, rejected, arrived>>
-----------------------------------------------------------------------------
Init ==
    /\ sent = {} /\ sends = 0
    /\ receives = 0
    /\ entries = [i \in {} |-> 0]
    /\ job = [w \in {} |-> 0]
    /\ stored = {} /\ rejected = {}
    /\ arrived = {} /\ forgone = {}

Receive(w, p) == ReceiveSingle(w, p) \/ AddPart(w, p) \/ DropPart(w, p)

Next ==
    \/ \E id \in Ids, size \in PartSizes : Transmit(id, size)
    \/ \E w \in Workers, p \in sent : Receive(w, p)
    \/ \E w \in Workers : Assemble(w) \/ AssembleFails(w)
    \/ \E id \in Ids : Expire(id)
    \/ CleanList

Spec == Init /\ [][Next]_vars

\* Time passes and the cleaning goroutine's ticker keeps firing.
FairSpec ==
    /\ Spec
    /\ \A id \in Ids : WF_vars(Expire(id))
    /\ WF_vars(CleanList)
-----------------------------------------------------------------------------
\* Properties.

Bodies == [nonce : Nat, size : PartSizes]
PartsOf(f) == DOMAIN f \subseteq Nat /\ \A n \in DOMAIN f : f[n] \in Bodies

\* Types; the cache never holds more than maxCacheEntries messages.
TypeOK ==
    /\ sent \subseteq [id : Ids, num : Nat, nr : Nat, body : Bodies]
    /\ arrived \subseteq sent
    /\ sends \in 0 .. MaxSends
    /\ receives \in 0 .. MaxReceives
    /\ DOMAIN entries \subseteq Ids
    /\ Cardinality(DOMAIN entries) <= MaxEntries
    /\ \A i \in DOMAIN entries :
         /\ DOMAIN entries[i] = {"len", "val", "expired"}
         /\ entries[i].len \in Nat
         /\ PartsOf(entries[i].val)
         /\ entries[i].expired \in BOOLEAN
    /\ DOMAIN job \subseteq Workers
    /\ \A w \in DOMAIN job :
         job[w].id \in Ids /\ job[w].len \in Nat /\ PartsOf(job[w].val)
    /\ \A m \in stored : m.id \in Ids /\ PartsOf(m.parts)
    /\ rejected \subseteq Ids
    /\ forgone \subseteq Ids

\* All senders of record id cut it alike.
OneSize(id) ==
    \A p, q \in sent : p.id = id /\ q.id = id => p.body.size = q.body.size

\* Moreover no two transmissions of it were encrypted.
Unambiguous(id) ==
    \A p, q \in sent : p.id = id /\ q.id = id => p.body = q.body

\* What is written to Kafka is a whole record, never a mixture of parts of
\* different transmissions and never a record with a hole, unless two senders
\* cut the same cleartext differently.
StoredIntact ==
    \A m \in stored : m.id \in Encrypted \/ OneSize(m.id) => Intact(m.id, m.parts)

\* All packets of a transmission of id were received.
FullyArrived(id) ==
    \E p \in arrived : p.id = id /\
        \A q \in sent : q.id = id /\ q.body = p.body => q \in arrived

Stored(id) == \E m \in stored : m.id = id

Pending(id) == \E w \in DOMAIN job : job[w].id = id

\* A multiple of the payload size (formatter.go counts one part more than it
\* sends).
ExactMultiple(id) ==
    Length[id] > 0 /\ \E size \in PartSizes : Length[id] % size = 0

\* Once all packets of a record are there it reaches Kafka, however the workers
\* interleave and in whatever order and number the packets come, unless the
\* cache gave up the record (TTL, cap) or two different encryptions of it met.
ArrivedIsStored ==
    \A id \in Ids :
        /\ ~ExactMultiple(id) /\ Unambiguous(id)
        /\ FullyArrived(id) /\ id \notin forgone
        /\ ~Pending(id)
        => Stored(id)

\* A reassembly entry does not stay in the cache for ever, complete or not.
EntriesGo ==
    \A id \in Ids : id \in DOMAIN entries ~> id \notin DOMAIN entries
-----------------------------------------------------------------------------
\* What the requirements and comments say and the code does not do.

\* REQ-19: large log entries are handled so that the full entry is stored;
\* formatter.go: the exact number of packets is known before they are sent.
FullEntryStored ==
    \A id \in Ids :
        Unambiguous(id) /\ FullyArrived(id) /\ id \notin forgone /\ ~Pending(id)
            => Stored(id)
=============================================================================
