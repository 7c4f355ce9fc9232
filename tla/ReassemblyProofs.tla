-------------------------- MODULE ReassemblyProofs --------------------------
(***************************************************************************)
(* Theorems about Reassembly, for all records, packet sizes, workers and    *)
(* bounds of the cache, as long as no record needs more than the 65535      *)
(* packets that FormatMessage can number.                                   *)
(*                                                                         *)
(* The argument: every part in the cache, and every snapshot that a worker  *)
(* took of it, is a part that was sent, and the number of parts it waits    *)
(* for is one that was declared with them.  Packets that agree in their     *)
(* body also agree in that number, so a snapshot without a hole is a whole  *)
(* transmission.                                                            *)
(***************************************************************************)
EXTENDS Reassembly, FiniteSetTheorems, TLAPS

\* "Max 65535 parts are allowed for each message" (formatter.go).
Fits == \A id \in Ids, size \in PartSizes : Length[id] \div size < 65535

Numbers(p) == PartNumbers(Length[p.id], p.body.size)

\* A packet is a part of its record, and with it all others were sent.
SentInv ==
    /\ \A p \in sent :
         /\ p.id \in Ids /\ p.body \in Bodies
         /\ p.nr = NrDeclared(Length[p.id], p.body.size)
         /\ p.num \in Numbers(p)
         /\ p.id \notin Encrypted => p.body.nonce = 0
         /\ \A n \in Numbers(p) : \E q \in sent : q.id = p.id /\ q.body = p.body /\ q.num = n
    /\ arrived \subseteq sent
    /\ sends \in Nat

\* Parts of record id, of which len are expected, came with the packets S.
Came(S, id, len, val) ==
    /\ \A n \in DOMAIN val : \E p \in S : p.id = id /\ p.num = n /\ p.body = val[n]
    /\ \E p \in S : p.id = id /\ p.nr = len

CacheInv ==
    \A i \in DOMAIN entries :
        /\ entries[i] = [len |-> entries[i].len, val |-> entries[i].val,
                         expired |-> entries[i].expired]
        /\ Came(sent, i, entries[i].len, entries[i].val)

\* A worker assembles only what was complete.
JobInv ==
    \A w \in DOMAIN job :
        Came(sent, job[w].id, job[w].len, job[w].val) /\ IsComplete(job[w])

\* The parts of id that were received are in the cache, which waits for others.
Waiting(id) ==
    /\ \A p \in arrived : p.id = id =>
         id \in DOMAIN entries /\ p.num \in DOMAIN entries[id].val
    /\ id \in DOMAIN entries => ~IsComplete(entries[id])

\* What was received of a record is stored, in the hands of a worker, or waits.
HeldInv ==
    \A id \in Ids :
        ~ExactMultiple(id) /\ Unambiguous(id) /\ id \notin forgone
            => Stored(id) \/ Pending(id) \/ Waiting(id)

Inv == Fits /\ SentInv /\ CacheInv /\ JobInv /\ StoredIntact /\ HeldInv

-----------------------------------------------------------------------------
(* The numbers of parts.                                                   *)

\* The next multiple of W is at least W away.
LEMMA Multiples ==
    ASSUME NEW W \in Nat, NEW a \in Nat, NEW b \in Nat, a < b
    PROVE  W * a + W <= W * b
<1>1. PICK k \in Nat : b = a + 1 + k
  <2>1. b - a - 1 \in Nat /\ b = a + 1 + (b - a - 1)
    OBVIOUS
  <2> QED BY <2>1
<1>2. W * k \in Nat
  BY <1>1
<1>3. W * b = W * a + W + W * k
  BY <1>1, Z3
<1> QED BY <1>2, <1>3, Z3

\* The loop of FormatMessage emits no part number above the declared number of
\* parts, and all of them unless the record fills its packets exactly.
LEMMA PartsOfRecord ==
    ASSUME Fits, NEW id \in Ids, NEW size \in PartSizes
    PROVE  LET nr == NrDeclared(Length[id], size)
               numbers == PartNumbers(Length[id], size)
           IN  /\ nr \in Nat /\ nr >= 1
               /\ 1 \in numbers
               /\ numbers \subseteq 1 .. nr
               /\ nr \in numbers => numbers = 1 .. nr
               /\ ~(Length[id] > 0 /\ Length[id] % size = 0) => numbers = 1 .. nr
<1> DEFINE L == Length[id]
           nr == NrDeclared(L, size)
           numbers == PartNumbers(L, size)
<1>1. L \in Nat /\ size \in Nat /\ size >= 1 /\ L \div size < 65535
  BY ReassemblyAssumption DEF Fits
<1>2. CASE L = 0
  <2>1. nr = 1 /\ numbers = {1}
    BY <1>2 DEF NrDeclared, PartNumbers
  <2> QED BY <2>1
<1>3. CASE L > 0
  <2> DEFINE k == L \div size
             r == L % size
  <2>1. k \in Nat /\ r \in 0 .. size - 1 /\ L = size * k + r
    BY <1>1, Z3
  <2>2. size * k \in Nat
    BY <1>1, <2>1
  <2>3. (1 + k) % 65536 = 1 + k
    <3>1. k \in Nat /\ k < 65535
      BY <1>1, <2>1
    <3> HIDE DEF k
    <3> QED BY <3>1
  <2>4. nr = 1 + k
    BY <1>3, <2>3 DEF NrDeclared, NrMessages
  <2>5. numbers = {n \in 1 .. L : (n - 1) * size < L}
    BY <1>3 DEF PartNumbers
  <2> HIDE DEF k, r, L, nr, numbers
  <2>6. ASSUME NEW n \in Nat, n >= 1
        PROVE  /\ n <= k => (n - 1) * size + size <= size * k
               /\ n = k + 1 => (n - 1) * size = size * k
               /\ n > k + 1 => (n - 1) * size >= size * k + size
               /\ (n - 1) * size \in Nat
               /\ n - 1 <= (n - 1) * size
    <3> DEFINE m == n - 1
    <3>1. m \in Nat /\ n = m + 1
      BY <2>6
    <3> HIDE DEF m
    <3>2. m * size = size * m /\ size * m \in Nat
      BY <1>1, <3>1, Z3
    <3>3. n <= k => size * m + size <= size * k
      BY <1>1, <2>1, <3>1, Multiples
    <3>4. n = k + 1 => size * m = size * k
      BY <2>1, <3>1
    <3>5. n > k + 1 => size * k + size <= size * m
      BY <1>1, <2>1, <3>1, Multiples
    <3>6. m <= size * m
      <4>1. CASE m = 0
        BY <3>2, <4>1
      <4>2. CASE m > 0
        <5>1. m * 0 + m <= m * size
          BY <1>1, <3>1, Multiples
        <5> QED BY <1>1, <3>1, <3>2, <5>1
      <4> QED BY <3>1, <4>1, <4>2
    <3> QED BY <1>1, <2>1, <2>2, <3>1, <3>2, <3>3, <3>4, <3>5, <3>6 DEF m
  <2>7. \A n \in numbers : n \in 1 .. nr
    <3> SUFFICES ASSUME NEW n \in numbers PROVE n \in 1 .. nr
      OBVIOUS
    <3>1. n \in Nat /\ n >= 1 /\ (n - 1) * size < L
      BY <1>1, <2>5
    <3>2. ~(n > k + 1)
      BY <1>1, <2>1, <2>2, <2>6, <3>1
    <3> QED BY <2>1, <2>4, <3>1, <3>2
  <2>8. \A n \in 1 .. nr : r > 0 => n \in numbers
    <3> SUFFICES ASSUME NEW n \in 1 .. nr, r > 0 PROVE n \in numbers
      OBVIOUS
    <3>1. n \in Nat /\ n >= 1 /\ (n <= k \/ n = k + 1)
      BY <2>1, <2>4
    <3>2. (n - 1) * size < L
      BY <1>1, <2>1, <2>2, <2>6, <3>1
    <3>3. n \in 1 .. L
      BY <1>1, <2>6, <3>1, <3>2
    <3> QED BY <2>5, <3>2, <3>3
  <2>9. 1 \in numbers
    <3>1. (1 - 1) * size = 0
      BY <1>1
    <3> QED BY <1>1, <1>3, <2>5, <3>1
  <2>10. r = 0 => nr \notin numbers
    <3>1. nr \in Nat /\ nr >= 1 /\ nr = k + 1
      BY <2>1, <2>4
    <3> QED BY <1>1, <2>1, <2>2, <2>5, <2>6, <3>1
  <2>11. r = L % size
    BY DEF r
  <2>12. nr \in Nat /\ nr >= 1
    BY <2>1, <2>4
  <2>13. r > 0 => numbers = 1 .. nr
    BY <2>7, <2>8
  <2>14. nr \in numbers => r > 0
    BY <1>1, <2>1, <2>10
  <2>15. ~(L > 0 /\ L % size = 0) => r > 0
    BY <1>1, <1>3, <2>1, <2>11
  <2>16. /\ nr \in Nat /\ nr >= 1 /\ 1 \in numbers /\ numbers \subseteq 1 .. nr
         /\ nr \in numbers => numbers = 1 .. nr
         /\ ~(L > 0 /\ L % size = 0) => numbers = 1 .. nr
    BY <2>7, <2>9, <2>12, <2>13, <2>14, <2>15
  <2> QED BY <2>16 DEF L, nr, numbers
<1> QED BY <1>1, <1>2, <1>3

\* The same for a packet that was sent.
LEMMA PartsOfPacket ==
    ASSUME Fits, SentInv, NEW p \in sent
    PROVE  /\ p.id \in Ids /\ p.body.size \in PartSizes
           /\ p.nr \in Nat /\ p.nr >= 1
           /\ 1 \in Numbers(p) /\ p.num \in Numbers(p) /\ Numbers(p) \subseteq 1 .. p.nr
           /\ p.nr \in Numbers(p) => Numbers(p) = 1 .. p.nr
           /\ ~ExactMultiple(p.id) => Numbers(p) = 1 .. p.nr
<1>1. /\ p.id \in Ids /\ p.body \in Bodies
      /\ p.nr = NrDeclared(Length[p.id], p.body.size) /\ p.num \in Numbers(p)
  BY DEF SentInv
<1>2. p.body.size \in PartSizes
  BY <1>1 DEF Bodies
<1>3. ~ExactMultiple(p.id) => ~(Length[p.id] > 0 /\ Length[p.id] % p.body.size = 0)
  BY <1>2 DEF ExactMultiple
<1> QED BY <1>1, <1>2, <1>3, PartsOfRecord DEF Numbers

-----------------------------------------------------------------------------
(* A snapshot without a hole is a whole transmission.                      *)

\* In cleartext the packets of senders that cut the record alike are the same.
LEMMA CleartextUnambiguous ==
    ASSUME SentInv, NEW id \in Ids, id \notin Encrypted, OneSize(id)
    PROVE  Unambiguous(id)
<1> SUFFICES ASSUME NEW p \in sent, NEW q \in sent, p.id = id, q.id = id
             PROVE  p.body = q.body
  BY DEF Unambiguous
<1>1. p.body.size = q.body.size
  BY DEF OneSize
<1>2. p.body.nonce = 0 /\ q.body.nonce = 0 /\ p.body \in Bodies /\ q.body \in Bodies
  BY DEF SentInv
<1> QED BY <1>1, <1>2 DEF Bodies

LEMMA WholeIsIntact ==
    ASSUME Fits, SentInv, NEW id \in Ids, Unambiguous(id),
           NEW len, NEW val, Came(sent, id, len, val), 1 .. len \subseteq DOMAIN val
    PROVE  Intact(id, [n \in 1 .. len |-> val[n]])
<1> DEFINE parts == [n \in 1 .. len |-> val[n]]
<1>1. PICK p \in sent : p.id = id /\ p.nr = len
  BY DEF Came
<1>2. /\ p.body.size \in PartSizes /\ len \in Nat /\ len >= 1
      /\ len \in Numbers(p) => Numbers(p) = 1 .. len
  BY <1>1, PartsOfPacket
<1>3. \A n \in 1 .. len : \E q \in sent : q.id = id /\ q.num = n /\ q.body = val[n]
  BY DEF Came
<1>4. \A n \in 1 .. len : val[n] = p.body
  BY <1>1, <1>3 DEF Unambiguous
<1>5. len \in Numbers(p)
  <2>1. PICK q \in sent : q.id = id /\ q.num = len
    BY <1>2, <1>3
  <2>2. q.num \in Numbers(q) /\ q.body = p.body
    BY <1>1, <2>1, PartsOfPacket DEF Unambiguous
  <2> QED BY <1>1, <2>1, <2>2 DEF Numbers
<1>6. 1 .. len = PartNumbers(Length[id], p.body.size)
  BY <1>1, <1>2, <1>5 DEF Numbers
<1>7. 1 \in 1 .. len /\ DOMAIN parts = 1 .. len /\ \A n \in 1 .. len : parts[n] = p.body
  BY <1>2, <1>4
<1> HIDE DEF parts
<1>8. Intact(id, parts)
  BY <1>6, <1>7 DEF Intact
<1> QED BY <1>8 DEF parts

\* The parts of a record that is not ambiguous are among those it should have.
LEMMA PartsAmong ==
    ASSUME Fits, SentInv, NEW id \in Ids, Unambiguous(id), NEW len, NEW val, Came(sent, id, len, val)
    PROVE  len \in Nat /\ len >= 1 /\ DOMAIN val \subseteq 1 .. len
<1>1. PICK p \in sent : p.id = id /\ p.nr = len
  BY DEF Came
<1>2. len \in Nat /\ len >= 1 /\ Numbers(p) \subseteq 1 .. len
  BY <1>1, PartsOfPacket
<1>3. ASSUME NEW n \in DOMAIN val PROVE n \in 1 .. len
  <2>1. PICK q \in sent : q.id = id /\ q.num = n
    BY DEF Came
  <2>2. q.num \in Numbers(q) /\ q.body = p.body
    BY <1>1, <2>1, PartsOfPacket DEF Unambiguous
  <2> QED BY <1>1, <1>2, <2>1, <2>2 DEF Numbers
<1> QED BY <1>2, <1>3

\* So the count of the parts tells whether there is a hole.
LEMMA CountTells ==
    ASSUME NEW len \in Nat, NEW S \in SUBSET (1 .. len)
    PROVE  Cardinality(S) >= len <=> S = 1 .. len
<1>1. IsFiniteSet(1 .. len) /\ Cardinality(1 .. len) = len
  BY FS_Interval
<1>2. IsFiniteSet(S) /\ Cardinality(S) <= len /\ (Cardinality(S) = len => S = 1 .. len)
  BY <1>1, FS_Subset
<1>3. Cardinality(S) \in Nat
  BY <1>2, FS_CardinalityType
<1> QED BY <1>1, <1>2, <1>3

LEMMA CompleteHasAll ==
    ASSUME Fits, SentInv, NEW e, NEW id \in Ids, Unambiguous(id), Came(sent, id, e.len, e.val)
    PROVE  IsComplete(e) <=> DOMAIN e.val = 1 .. e.len
<1>1. e.len \in Nat /\ e.len >= 1 /\ DOMAIN e.val \subseteq 1 .. e.len
  BY PartsAmong
<1>2. Cardinality(DOMAIN e.val) >= e.len <=> DOMAIN e.val = 1 .. e.len
  BY <1>1, CountTells
<1> QED BY <1>1, <1>2 DEF IsComplete

-----------------------------------------------------------------------------
(* The steps.                                                              *)

LEMMA InitInv == Fits /\ Init => Inv
<1> SUFFICES ASSUME Fits, Init PROVE Inv
  OBVIOUS
<1>1. SentInv
  BY DEF Init, SentInv
<1>2. CacheInv
  BY DEF Init, CacheInv
<1>3. JobInv
  BY DEF Init, JobInv
<1>4. StoredIntact
  BY DEF Init, StoredIntact
<1>5. \A id \in Ids : Waiting(id)
  BY DEF Init, Waiting
<1> QED BY <1>1, <1>2, <1>3, <1>4, <1>5 DEF Inv, HeldInv

LEMMA CameGrows ==
    ASSUME NEW S, NEW T, S \subseteq T, NEW id, NEW len, NEW val, Came(S, id, len, val)
    PROVE  Came(T, id, len, val)
BY DEF Came

\* Packets that are sent later can only make a record ambiguous.
LEMMA AmbiguityStays ==
    ASSUME sent \subseteq sent', NEW id
    PROVE  /\ OneSize(id)' => OneSize(id)
           /\ Unambiguous(id)' => Unambiguous(id)
BY DEF OneSize, Unambiguous

LEMMA TransmitSentInv ==
    ASSUME SentInv, NEW id \in Ids, NEW size \in PartSizes, Transmit(id, size)
    PROVE  SentInv' /\ sent \subseteq sent'
<1> DEFINE new == FormatMessage(id, sends + 1, size)
           body == Body(id, sends + 1, size)
           nr == NrDeclared(Length[id], size)
           numbers == PartNumbers(Length[id], size)
<1>1. sent' = sent \cup new /\ arrived' = arrived
  BY DEF Transmit
<1>2. new = {[id |-> id, num |-> n, nr |-> nr, body |-> body] : n \in numbers}
  BY DEF FormatMessage
<1>3. body \in Bodies /\ body.size = size /\ (id \notin Encrypted => body.nonce = 0)
  BY DEF Body, Bodies, SentInv
<1> HIDE DEF new, body, nr, numbers
<1>4. \A p \in new : /\ p.id = id /\ p.nr = nr /\ p.body = body /\ p.num \in numbers
  BY <1>2
<1>5. \A n \in numbers : \E q \in new : q.id = id /\ q.body = body /\ q.num = n
  <2> TAKE n \in numbers
  <2>1. [id |-> id, num |-> n, nr |-> nr, body |-> body] \in new
    BY <1>2
  <2> QED BY <2>1
<1>6. \A p \in new : /\ Numbers(p) = numbers /\ nr = NrDeclared(Length[p.id], p.body.size)
  BY <1>3, <1>4 DEF Numbers, numbers, nr
<1>7. ASSUME NEW p \in sent'
      PROVE  /\ p.id \in Ids /\ p.body \in Bodies
             /\ p.nr = NrDeclared(Length[p.id], p.body.size)
             /\ p.num \in Numbers(p)
             /\ p.id \notin Encrypted => p.body.nonce = 0
             /\ \A n \in Numbers(p) :
                  \E q \in sent' : q.id = p.id /\ q.body = p.body /\ q.num = n
  <2>1. CASE p \in sent
    BY <1>1, <2>1 DEF SentInv
  <2>2. CASE p \in new
    BY <1>1, <1>3, <1>4, <1>5, <1>6, <2>2
  <2> QED BY <1>1, <1>7, <2>1, <2>2
<1>8. arrived' \subseteq sent' /\ sends' \in Nat
  BY <1>1 DEF SentInv, Transmit
<1> QED BY <1>1, <1>7, <1>8 DEF SentInv, Numbers

LEMMA TransmitInv ==
    ASSUME Inv, NEW id \in Ids, NEW size \in PartSizes, Transmit(id, size)
    PROVE  Inv'
<1>1. SentInv' /\ sent \subseteq sent'
  BY TransmitSentInv DEF Inv
<1>2. UNCHANGED <<receives, entries, job, stored, rejected, arrived, forgone>>
  BY DEF Transmit
<1>3. CacheInv'
  BY <1>1, <1>2, CameGrows DEF Inv, CacheInv
<1>4. JobInv'
  BY <1>1, <1>2, CameGrows DEF Inv, JobInv, IsComplete
<1>5. StoredIntact'
  BY <1>1, <1>2, AmbiguityStays DEF Inv, StoredIntact, Intact
<1>6. HeldInv'
  <2> SUFFICES ASSUME NEW i \in Ids, ~ExactMultiple(i), Unambiguous(i)', i \notin forgone
               PROVE  (Stored(i) \/ Pending(i) \/ Waiting(i))'
    BY <1>2 DEF HeldInv, ExactMultiple
  <2>1. Unambiguous(i)
    BY <1>1, AmbiguityStays
  <2>2. Stored(i) \/ Pending(i) \/ Waiting(i)
    BY <2>1 DEF Inv, HeldInv
  <2> QED BY <1>2, <2>2 DEF Stored, Pending, Waiting, IsComplete
<1> QED BY <1>1, <1>3, <1>4, <1>5, <1>6 DEF Inv, Fits

\* handleUdpMessage writes whole records, and refuses none that is not ambiguous.
LEMMA HandleWhole ==
    ASSUME Fits, SentInv, StoredIntact, UNCHANGED sent,
           NEW id \in Ids, NEW len, NEW val, Came(sent, id, len, val),
           1 .. len \subseteq DOMAIN val,
           HandleMessage(id, [n \in 1 .. len |-> val[n]])
    PROVE  /\ StoredIntact'
           /\ stored \subseteq stored'
           /\ Unambiguous(id) => \E m \in stored' : m.id = id
<1> DEFINE parts == [n \in 1 .. len |-> val[n]]
           new == [id |-> id, parts |-> parts]
<1>1. Unambiguous(id) => Intact(id, parts)
  BY WholeIsIntact
<1>2. id \notin Encrypted /\ OneSize(id) => Intact(id, parts)
  BY <1>1, CleartextUnambiguous
<1>3. \/ stored' = stored /\ ~Intact(id, parts)
      \/ stored' = stored \cup {new} /\ (id \in Encrypted => Intact(id, parts))
  BY DEF HandleMessage
<1>4. new.id = id /\ new.parts = parts
  OBVIOUS
<1> HIDE DEF parts, new
<1>5. stored \subseteq stored' /\ (Unambiguous(id) => \E m \in stored' : m.id = id)
  BY <1>1, <1>3, <1>4
<1>6. ASSUME NEW m \in stored', m.id \in Encrypted \/ OneSize(m.id)
      PROVE  Intact(m.id, m.parts)
  <2>1. CASE m \in stored
    BY <1>6, <2>1 DEF StoredIntact
  <2>2. CASE m = new /\ (id \in Encrypted => Intact(id, parts))
    BY <1>2, <1>4, <1>6, <2>2
  <2> QED BY <1>3, <2>1, <2>2
<1>7. StoredIntact'
  <2>1. \A i : OneSize(i)' <=> OneSize(i)
    BY DEF OneSize
  <2> QED BY <1>6, <2>1 DEF StoredIntact, Intact
<1> QED BY <1>5, <1>7

\* A worker takes a packet that was sent.
LEMMA TakeSent ==
    ASSUME SentInv, NEW w, NEW p \in sent, Take(w, p)
    PROVE  /\ SentInv' /\ UNCHANGED sent /\ arrived' = arrived \cup {p}
           /\ w \notin DOMAIN job
BY DEF SentInv, Take, Numbers

LEMMA ReceiveSingleInv ==
    ASSUME Inv, NEW w \in Workers, NEW p \in sent, ReceiveSingle(w, p)
    PROVE  Inv'
<1>1. /\ SentInv' /\ UNCHANGED <<sent, entries, job, forgone>> /\ arrived' = arrived \cup {p}
      /\ p.nr <= 1 /\ HandleMessage(p.id, [n \in {1} |-> p.body])
  BY TakeSent DEF Inv, ReceiveSingle
<1>2. p.id \in Ids /\ p.nr = 1 /\ p.num = 1
  BY <1>1, PartsOfPacket DEF Inv
<1> DEFINE val == [n \in {1} |-> p.body]
<1>3. Came(sent, p.id, 1, val)
  <2>1. p.body = val[1]
    OBVIOUS
  <2> QED BY <1>2, <2>1 DEF Came
<1>4. [n \in 1 .. 1 |-> val[n]] = val /\ 1 .. 1 \subseteq DOMAIN val
  OBVIOUS
<1> HIDE DEF val
<1>5. HandleMessage(p.id, [n \in 1 .. 1 |-> val[n]])
  BY <1>1, <1>4 DEF val
<1>6. /\ StoredIntact' /\ stored \subseteq stored'
      /\ Unambiguous(p.id) => \E m \in stored' : m.id = p.id
  BY <1>1, <1>2, <1>3, <1>4, <1>5, HandleWhole DEF Inv
<1>7. CacheInv' /\ JobInv'
  BY <1>1 DEF Inv, CacheInv, JobInv, IsComplete
<1>8. HeldInv'
  <2> SUFFICES ASSUME NEW i \in Ids, ~ExactMultiple(i), Unambiguous(i), i \notin forgone
               PROVE  (Stored(i) \/ Pending(i) \/ Waiting(i))'
    BY <1>1 DEF HeldInv, ExactMultiple, Unambiguous
  <2>1. CASE i = p.id
    BY <1>6, <2>1 DEF Stored
  <2>2. CASE i # p.id
    <3>1. Stored(i) \/ Pending(i) \/ Waiting(i)
      BY DEF Inv, HeldInv
    <3> QED BY <1>1, <1>6, <2>2, <3>1 DEF Stored, Pending, Waiting, IsComplete
  <2> QED BY <2>1, <2>2
<1> QED BY <1>1, <1>6, <1>7, <1>8 DEF Inv, Fits

LEMMA DropPartInv ==
    ASSUME Inv, NEW w \in Workers, NEW p \in sent, DropPart(w, p)
    PROVE  Inv'
<1>1. /\ SentInv' /\ UNCHANGED <<sent, entries, job, stored>> /\ arrived' = arrived \cup {p}
      /\ forgone' = forgone \cup {p.id}
  BY TakeSent DEF Inv, DropPart
<1>2. CacheInv' /\ JobInv'
  BY <1>1 DEF Inv, CacheInv, JobInv, IsComplete
<1>3. StoredIntact'
  BY <1>1 DEF Inv, StoredIntact, Intact, OneSize
<1>4. HeldInv'
  <2> SUFFICES ASSUME NEW i \in Ids, ~ExactMultiple(i), Unambiguous(i), i \notin forgone, i # p.id
               PROVE  (Stored(i) \/ Pending(i) \/ Waiting(i))'
    BY <1>1 DEF HeldInv, ExactMultiple, Unambiguous
  <2>1. Stored(i) \/ Pending(i) \/ Waiting(i)
    BY DEF Inv, HeldInv
  <2> QED BY <1>1, <2>1 DEF Stored, Pending, Waiting, IsComplete
<1> QED BY <1>1, <1>2, <1>3, <1>4 DEF Inv, Fits

\* The entry with the part that came: nothing but that part is new in it.
LEMMA WithPartCame ==
    ASSUME Inv, NEW p \in sent
    PROVE  LET e == WithPart(p)
           IN  /\ e = [len |-> e.len, val |-> e.val, expired |-> e.expired]
               /\ Came(sent, p.id, e.len, e.val)
               /\ p.num \in DOMAIN e.val
               /\ p.id \in DOMAIN entries => DOMAIN entries[p.id].val \subseteq DOMAIN e.val
<1> DEFINE empty == [len |-> p.nr, val |-> [n \in {} |-> 0], expired |-> FALSE]
           b == IF p.id \in DOMAIN entries THEN entries[p.id] ELSE empty
           e == WithPart(p)
<1>1. b = [len |-> b.len, val |-> b.val, expired |-> b.expired]
  BY DEF Inv, CacheInv
<1>2. Came(sent, p.id, b.len, b.val)
  <2>1. CASE p.id \in DOMAIN entries
    BY <2>1 DEF Inv, CacheInv
  <2>2. CASE p.id \notin DOMAIN entries
    <3>1. b.len = p.nr /\ DOMAIN b.val = {}
      BY <2>2
    <3> QED BY <3>1 DEF Came
  <2> QED BY <2>1, <2>2
<1>3. e = [b EXCEPT !.val = Put(@, p.num, p.body)]
  BY DEF WithPart
<1> HIDE DEF b, e
<1>4. e = [len |-> b.len, val |-> Put(b.val, p.num, p.body), expired |-> b.expired]
  BY <1>1, <1>3
<1>5. e = [len |-> e.len, val |-> e.val, expired |-> e.expired]
  BY <1>4
<1>6. e.len = b.len /\ e.val = Put(b.val, p.num, p.body)
  BY <1>4
<1>7. /\ DOMAIN e.val = DOMAIN b.val \cup {p.num}
      /\ \A n \in DOMAIN e.val : e.val[n] = IF n = p.num THEN p.body ELSE b.val[n]
  BY <1>6 DEF Put
<1>8. Came(sent, p.id, e.len, e.val)
  BY <1>2, <1>6, <1>7 DEF Came
<1>9. p.id \in DOMAIN entries => DOMAIN entries[p.id].val \subseteq DOMAIN e.val
  BY <1>7 DEF b
<1> QED BY <1>5, <1>7, <1>8, <1>9 DEF e

LEMMA AddPartInv ==
    ASSUME Inv, NEW w \in Workers, NEW p \in sent, AddPart(w, p)
    PROVE  Inv'
<1> DEFINE e == WithPart(p)
           snapshot == [id |-> p.id, len |-> e.len, val |-> e.val]
<1>1. /\ SentInv' /\ UNCHANGED <<sent, stored, forgone>> /\ arrived' = arrived \cup {p}
      /\ w \notin DOMAIN job
      /\ entries' = Put(entries, p.id, e)
      /\ job' = IF IsComplete(e) THEN Put(job, w, snapshot) ELSE job
  BY TakeSent DEF Inv, AddPart
<1>2. /\ e = [len |-> e.len, val |-> e.val, expired |-> e.expired]
      /\ Came(sent, p.id, e.len, e.val) /\ p.num \in DOMAIN e.val
      /\ p.id \in DOMAIN entries => DOMAIN entries[p.id].val \subseteq DOMAIN e.val
  BY WithPartCame
<1>3. p.id \in Ids
  BY PartsOfPacket DEF Inv
<1>4. snapshot.id = p.id /\ snapshot.len = e.len /\ snapshot.val = e.val
  OBVIOUS
<1> HIDE DEF e, snapshot
<1>5. /\ DOMAIN entries' = DOMAIN entries \cup {p.id} /\ entries'[p.id] = e
      /\ \A i \in DOMAIN entries : i # p.id => entries'[i] = entries[i]
  BY <1>1 DEF Put
<1>6. CacheInv'
  <2> SUFFICES ASSUME NEW i \in DOMAIN entries'
               PROVE  /\ entries'[i] = [len |-> entries'[i].len, val |-> entries'[i].val,
                                        expired |-> entries'[i].expired]
                      /\ Came(sent, i, entries'[i].len, entries'[i].val)
    BY <1>1 DEF CacheInv
  <2>1. CASE i = p.id
    BY <1>2, <1>5, <2>1
  <2>2. CASE i # p.id
    BY <1>5, <2>2 DEF Inv, CacheInv
  <2> QED BY <2>1, <2>2
<1>7. ASSUME IsComplete(e)
      PROVE  /\ DOMAIN job' = DOMAIN job \cup {w} /\ job'[w] = snapshot
             /\ \A v \in DOMAIN job : job'[v] = job[v]
  BY <1>1, <1>7 DEF Put
<1>8. JobInv'
  <2>1. CASE IsComplete(e)
    <3>1. IsComplete(snapshot)
      BY <1>4, <2>1 DEF IsComplete
    <3>2. ASSUME NEW v \in DOMAIN job'
          PROVE  Came(sent, job'[v].id, job'[v].len, job'[v].val) /\ IsComplete(job'[v])
      <4>1. CASE v = w
        BY <1>2, <1>4, <1>7, <2>1, <3>1, <4>1
      <4>2. CASE v # w
        BY <1>7, <2>1, <4>2 DEF Inv, JobInv
      <4> QED BY <4>1, <4>2
    <3> QED BY <1>1, <3>2 DEF JobInv, IsComplete
  <2>2. CASE ~IsComplete(e)
    BY <1>1, <2>2 DEF Inv, JobInv, IsComplete
  <2> QED BY <2>1, <2>2
<1>9. StoredIntact'
  BY <1>1 DEF Inv, StoredIntact, Intact, OneSize
<1>10. HeldInv'
  <2> SUFFICES ASSUME NEW i \in Ids, ~ExactMultiple(i), Unambiguous(i), i \notin forgone
               PROVE  (Stored(i) \/ Pending(i) \/ Waiting(i))'
    BY <1>1 DEF HeldInv, ExactMultiple, Unambiguous
  <2>1. Stored(i) \/ Pending(i) \/ Waiting(i)
    BY DEF Inv, HeldInv
  <2>2. Stored(i) => Stored(i)'
    BY <1>1 DEF Stored
  <2>3. Pending(i) => Pending(i)'
    <3>1. \A v \in DOMAIN job : v \in DOMAIN job' /\ job'[v] = job[v]
      BY <1>1, <1>7
    <3> QED BY <3>1 DEF Pending
  <2>4. CASE Waiting(i) /\ i # p.id
    BY <1>1, <1>5, <2>4 DEF Waiting, IsComplete
  <2>5. CASE Waiting(i) /\ i = p.id /\ IsComplete(e)
    BY <1>4, <1>7, <2>5 DEF Pending
  <2>6. CASE Waiting(i) /\ i = p.id /\ ~IsComplete(e)
    <3>1. \A q \in arrived : q.id = i => q.num \in DOMAIN e.val
      BY <1>2, <2>6 DEF Waiting
    <3> QED BY <1>1, <1>2, <1>5, <2>6, <3>1 DEF Waiting, IsComplete
  <2> QED BY <2>1, <2>2, <2>3, <2>4, <2>5, <2>6
<1> QED BY <1>1, <1>6, <1>8, <1>9, <1>10 DEF Inv, Fits

LEMMA AssembleInv ==
    ASSUME Inv, NEW w \in Workers, Assemble(w)
    PROVE  Inv'
<1> DEFINE id == job[w].id
           len == job[w].len
           val == job[w].val
<1>1. /\ w \in DOMAIN job /\ 1 .. len \subseteq DOMAIN val
      /\ entries' = Without(entries, {id}) /\ job' = Without(job, {w})
      /\ HandleMessage(id, [n \in 1 .. len |-> val[n]])
      /\ UNCHANGED <<sent, sends, receives, arrived, forgone>>
  BY DEF Assemble, AllPartsPresent
<1>2. Came(sent, id, len, val)
  BY <1>1 DEF Inv, JobInv
<1>3. id \in Ids
  BY <1>2, PartsOfPacket DEF Came, Inv
<1> HIDE DEF id, len, val
<1>4. /\ StoredIntact' /\ stored \subseteq stored'
      /\ Unambiguous(id) => \E m \in stored' : m.id = id
  BY <1>1, <1>2, <1>3, HandleWhole DEF Inv
<1>5. /\ DOMAIN entries' = DOMAIN entries \ {id}
      /\ \A i \in DOMAIN entries' : entries'[i] = entries[i]
      /\ DOMAIN job' = DOMAIN job \ {w}
      /\ \A v \in DOMAIN job' : job'[v] = job[v]
  BY <1>1 DEF Without
<1>6. SentInv'
  BY <1>1 DEF Inv, SentInv, Numbers
<1>7. CacheInv' /\ JobInv'
  BY <1>1, <1>5 DEF Inv, CacheInv, JobInv, IsComplete
<1>8. HeldInv'
  <2> SUFFICES ASSUME NEW i \in Ids, ~ExactMultiple(i), Unambiguous(i), i \notin forgone
               PROVE  (Stored(i) \/ Pending(i) \/ Waiting(i))'
    BY <1>1 DEF HeldInv, ExactMultiple, Unambiguous
  <2>1. CASE i = id
    BY <1>4, <2>1 DEF Stored
  <2>2. CASE i # id
    <3>1. Stored(i) \/ Pending(i) \/ Waiting(i)
      BY DEF Inv, HeldInv
    <3>2. Pending(i) => Pending(i)'
      BY <1>5, <2>2 DEF Pending, id
    <3>3. Stored(i) => Stored(i)'
      BY <1>4 DEF Stored
    <3>4. Waiting(i) => Waiting(i)'
      BY <1>1, <1>5, <2>2 DEF Waiting, IsComplete
    <3> QED BY <3>1, <3>2, <3>3, <3>4
  <2> QED BY <2>1, <2>2
<1> QED BY <1>4, <1>6, <1>7, <1>8 DEF Inv, Fits

\* What a worker cannot assemble was ambiguous.
LEMMA AssembleFailsInv ==
    ASSUME Inv, NEW w \in Workers, AssembleFails(w)
    PROVE  Inv'
<1> DEFINE id == job[w].id
<1>1. /\ w \in DOMAIN job /\ ~(1 .. job[w].len \subseteq DOMAIN job[w].val)
      /\ job' = Without(job, {w})
      /\ UNCHANGED <<sent, sends, receives, entries, stored, rejected, arrived, forgone>>
  BY DEF AssembleFails, AllPartsPresent
<1>2. Came(sent, id, job[w].len, job[w].val) /\ IsComplete(job[w])
  BY <1>1 DEF Inv, JobInv
<1>3. id \in Ids
  BY <1>2, PartsOfPacket DEF Came, Inv
<1>4. ~Unambiguous(id)
  BY <1>1, <1>2, <1>3, CompleteHasAll DEF Inv
<1>5. /\ DOMAIN job' = DOMAIN job \ {w}
      /\ \A v \in DOMAIN job' : job'[v] = job[v]
  BY <1>1 DEF Without
<1>6. SentInv' /\ CacheInv' /\ JobInv'
  BY <1>1, <1>5 DEF Inv, SentInv, Numbers, CacheInv, JobInv, IsComplete
<1>7. StoredIntact'
  BY <1>1 DEF Inv, StoredIntact, Intact, OneSize
<1>8. HeldInv'
  <2> SUFFICES ASSUME NEW i \in Ids, ~ExactMultiple(i), Unambiguous(i), i \notin forgone
               PROVE  (Stored(i) \/ Pending(i) \/ Waiting(i))'
    BY <1>1 DEF HeldInv, ExactMultiple, Unambiguous
  <2>1. Stored(i) \/ Pending(i) \/ Waiting(i)
    BY DEF Inv, HeldInv
  <2>2. Pending(i) => Pending(i)'
    BY <1>4, <1>5 DEF Pending
  <2> QED BY <1>1, <2>1, <2>2 DEF Stored, Waiting, IsComplete
<1> QED BY <1>6, <1>7, <1>8 DEF Inv, Fits

LEMMA ExpireInv ==
    ASSUME Inv, NEW id \in Ids, Expire(id)
    PROVE  Inv'
<1>1. /\ id \in DOMAIN entries /\ entries' = [entries EXCEPT ![id].expired = TRUE]
      /\ UNCHANGED <<sent, sends, receives, job, stored, rejected, arrived, forgone>>
  BY DEF Expire
<1>2. /\ DOMAIN entries' = DOMAIN entries
      /\ \A i \in DOMAIN entries : i # id => entries'[i] = entries[i]
      /\ entries'[id] = [len |-> entries[id].len, val |-> entries[id].val, expired |-> TRUE]
  <2>1. entries[id] = [len |-> entries[id].len, val |-> entries[id].val,
                       expired |-> entries[id].expired]
    BY <1>1 DEF Inv, CacheInv
  <2> QED BY <1>1, <2>1
<1>3. \A i \in DOMAIN entries : entries'[i].len = entries[i].len /\ entries'[i].val = entries[i].val
  BY <1>2
<1>4. CacheInv'
  <2> SUFFICES ASSUME NEW i \in DOMAIN entries
               PROVE  /\ entries'[i] = [len |-> entries'[i].len, val |-> entries'[i].val,
                                        expired |-> entries'[i].expired]
                      /\ Came(sent, i, entries'[i].len, entries'[i].val)
    BY <1>1, <1>2 DEF CacheInv
  <2>1. entries'[i] = [len |-> entries'[i].len, val |-> entries'[i].val,
                       expired |-> entries'[i].expired]
    BY <1>2 DEF Inv, CacheInv
  <2> QED BY <1>3, <2>1 DEF Inv, CacheInv
<1>5. SentInv' /\ JobInv' /\ StoredIntact'
  BY <1>1 DEF Inv, SentInv, Numbers, JobInv, IsComplete, StoredIntact, Intact, OneSize
<1>6. HeldInv'
  <2> SUFFICES ASSUME NEW i \in Ids, ~ExactMultiple(i), Unambiguous(i), i \notin forgone
               PROVE  (Stored(i) \/ Pending(i) \/ Waiting(i))'
    BY <1>1 DEF HeldInv, ExactMultiple, Unambiguous
  <2>1. Stored(i) \/ Pending(i) \/ Waiting(i)
    BY DEF Inv, HeldInv
  <2> QED BY <1>1, <1>2, <1>3, <2>1 DEF Stored, Pending, Waiting, IsComplete
<1> QED BY <1>4, <1>5, <1>6 DEF Inv, Fits

LEMMA CleanListInv ==
    ASSUME Inv, CleanList
    PROVE  Inv'
<1>1. /\ entries' = Without(entries, Expired) /\ forgone' = forgone \cup Expired
      /\ UNCHANGED <<sent, sends, receives, job, stored, rejected, arrived>>
  BY DEF CleanList
<1>2. /\ DOMAIN entries' = DOMAIN entries \ Expired
      /\ \A i \in DOMAIN entries' : entries'[i] = entries[i]
  BY <1>1 DEF Without
<1>3. SentInv' /\ JobInv' /\ StoredIntact'
  BY <1>1 DEF Inv, SentInv, Numbers, JobInv, IsComplete, StoredIntact, Intact, OneSize
<1>4. CacheInv'
  BY <1>1, <1>2 DEF Inv, CacheInv
<1>5. HeldInv'
  <2> SUFFICES ASSUME NEW i \in Ids, ~ExactMultiple(i), Unambiguous(i), i \notin forgone,
                      i \notin Expired
               PROVE  (Stored(i) \/ Pending(i) \/ Waiting(i))'
    BY <1>1 DEF HeldInv, ExactMultiple, Unambiguous
  <2>1. Stored(i) \/ Pending(i) \/ Waiting(i)
    BY DEF Inv, HeldInv
  <2> QED BY <1>1, <1>2, <2>1 DEF Stored, Pending, Waiting, IsComplete
<1> QED BY <1>3, <1>4, <1>5 DEF Inv, Fits

LEMMA NextInv == Inv /\ [Next]_vars => Inv'
<1> SUFFICES ASSUME Inv, [Next]_vars PROVE Inv'
  OBVIOUS
<1>1. CASE UNCHANGED vars
  <2>1. UNCHANGED <<sent, sends, entries, job, stored, arrived, forgone>>
    BY <1>1 DEF vars
  <2>2. SentInv' /\ CacheInv' /\ JobInv' /\ StoredIntact'
    BY <2>1 DEF Inv, SentInv, Numbers, CacheInv, JobInv, IsComplete, StoredIntact, Intact, OneSize
  <2>3. HeldInv'
    BY <2>1 DEF Inv, HeldInv, ExactMultiple, Unambiguous, Stored, Pending, Waiting, IsComplete
  <2> QED BY <2>2, <2>3 DEF Inv, Fits
<1> QED BY <1>1, TransmitInv, ReceiveSingleInv, AddPartInv, DropPartInv, AssembleInv,
           AssembleFailsInv, ExpireInv, CleanListInv DEF Next, Receive

-----------------------------------------------------------------------------
(* The theorems.                                                           *)

\* The invariant of sender, cache and workers together.
THEOREM ReassemblyInvariant == Fits /\ Spec => []Inv
<1>1. Inv /\ [Next]_vars => Inv'
  BY NextInv
<1> QED BY <1>1, InitInv, PTL DEF Spec

\* assembleMessage and handleUdpMessage write whole records to Kafka, never a
\* mixture of transmissions and never one with a hole, however packets are lost,
\* repeated and reordered and the workers interleave, unless two senders cut the
\* same cleartext differently.
THEOREM RecordsStoredIntact == Fits /\ Spec => []StoredIntact
<1>1. Inv => StoredIntact
  BY DEF Inv
<1> QED BY <1>1, ReassemblyInvariant, PTL

\* A record all of whose packets were accepted reaches Kafka: no interleaving of
\* AddPartAndSnapshot, assembleMessage and RemoveEntry loses it.
THEOREM ArrivedRecordsStored == Fits /\ Spec => []ArrivedIsStored
<1>1. Inv => ArrivedIsStored
  <2> SUFFICES ASSUME Inv, NEW id \in Ids, ~ExactMultiple(id), Unambiguous(id),
                      FullyArrived(id), id \notin forgone, ~Pending(id), ~Stored(id)
               PROVE  FALSE
    BY DEF ArrivedIsStored
  <2>1. Fits /\ SentInv /\ Waiting(id)
    BY DEF Inv, HeldInv
  <2>2. PICK p \in arrived : /\ p.id = id
                             /\ \A q \in sent : q.id = id /\ q.body = p.body => q \in arrived
    BY DEF FullyArrived
  <2>3. p \in sent /\ id \in DOMAIN entries /\ ~IsComplete(entries[id])
    BY <2>1, <2>2 DEF SentInv, Waiting
  <2> DEFINE e == entries[id]
  <2>4. Came(sent, id, e.len, e.val)
    BY <2>3 DEF Inv, CacheInv
  <2>5. PICK r \in sent : r.id = id /\ r.nr = e.len
    BY <2>4 DEF Came
  <2>6. r.body = p.body /\ p.nr = r.nr
    BY <2>1, <2>2, <2>3, <2>5 DEF Unambiguous, SentInv
  <2>7. Numbers(p) = 1 .. e.len
    BY <2>1, <2>2, <2>3, <2>5, <2>6, PartsOfPacket
  <2>8. ASSUME NEW n \in 1 .. e.len PROVE n \in DOMAIN e.val
    <3>1. PICK q \in sent : q.id = id /\ q.body = p.body /\ q.num = n
      BY <2>1, <2>2, <2>3, <2>7 DEF SentInv
    <3>2. q \in arrived
      BY <2>2, <3>1
    <3> QED BY <2>1, <3>1, <3>2 DEF Waiting
  <2>9. DOMAIN e.val \subseteq 1 .. e.len
    BY <2>1, <2>4, PartsAmong
  <2>10. DOMAIN e.val = 1 .. e.len
    BY <2>8, <2>9
  <2>11. IsComplete(e)
    BY <2>1, <2>4, <2>10, CompleteHasAll
  <2> QED BY <2>3, <2>11
<1> QED BY <1>1, ReassemblyInvariant, PTL

-----------------------------------------------------------------------------
(* Types, and the bound of the cache.                                      *)

\* The cache is finite, and an entry is a record.
TypeInv ==
    /\ TypeOK
    /\ IsFiniteSet(DOMAIN entries)
    /\ \A i \in DOMAIN entries :
         entries[i] = [len |-> entries[i].len, val |-> entries[i].val,
                       expired |-> entries[i].expired]

LEMMA InitTypeInv == Init => TypeInv
<1> SUFFICES ASSUME Init PROVE TypeInv
  OBVIOUS
<1>1. DOMAIN entries = {} /\ DOMAIN job = {}
  BY DEF Init
<1>2. IsFiniteSet(DOMAIN entries) /\ Cardinality(DOMAIN entries) = 0
  BY <1>1, FS_EmptySet
<1>3. 0 <= MaxEntries /\ 0 \in 0 .. MaxSends /\ 0 \in 0 .. MaxReceives
  BY ReassemblyAssumption
<1> QED BY <1>1, <1>2, <1>3 DEF Init, TypeInv, TypeOK

LEMMA FormatType ==
    ASSUME NEW id \in Ids, NEW t \in Nat, NEW size \in PartSizes
    PROVE  FormatMessage(id, t, size) \subseteq [id : Ids, num : Nat, nr : Nat, body : Bodies]
<1>1. Length[id] \in Nat /\ size \in Nat /\ size > 0
  BY ReassemblyAssumption
<1>2. NrMessages(Length[id], size) \in Nat
  <2> DEFINE k == Length[id] \div size
  <2>1. k \in Nat
    BY <1>1
  <2> HIDE DEF k
  <2>2. (1 + k) % 65536 \in Nat
    BY <2>1
  <2> QED BY <2>2 DEF NrMessages, k
<1>3. NrDeclared(Length[id], size) \in Nat
  BY <1>2 DEF NrDeclared
<1>4. PartNumbers(Length[id], size) \subseteq Nat
  BY <1>1 DEF PartNumbers
<1>5. Body(id, t, size) \in Bodies
  BY DEF Body, Bodies
<1> QED BY <1>3, <1>4, <1>5 DEF FormatMessage

\* The parts with one more.
LEMMA PutType ==
    ASSUME NEW f, PartsOf(f), NEW n \in Nat, NEW b \in Bodies
    PROVE  PartsOf(Put(f, n, b))
BY DEF PartsOf, Put

LEMMA HandleType ==
    ASSUME NEW id \in Ids, NEW parts, PartsOf(parts), HandleMessage(id, parts),
           \A m \in stored : m.id \in Ids /\ PartsOf(m.parts), rejected \subseteq Ids
    PROVE  /\ \A m \in stored' : m.id \in Ids /\ PartsOf(m.parts)
           /\ rejected' \subseteq Ids
BY DEF HandleMessage

LEMMA WithPartType ==
    ASSUME TypeInv, NEW p \in sent
    PROVE  LET e == WithPart(p)
           IN  /\ e = [len |-> e.len, val |-> e.val, expired |-> e.expired]
               /\ e.len \in Nat /\ PartsOf(e.val) /\ e.expired \in BOOLEAN
<1> DEFINE empty == [len |-> p.nr, val |-> [n \in {} |-> 0], expired |-> FALSE]
           b == IF p.id \in DOMAIN entries THEN entries[p.id] ELSE empty
           e == WithPart(p)
<1>1. p.nr \in Nat /\ p.num \in Nat /\ p.body \in Bodies
  BY DEF TypeInv, TypeOK
<1>2. PartsOf([n \in {} |-> 0])
  BY DEF PartsOf
<1>3. b = [len |-> b.len, val |-> b.val, expired |-> b.expired]
  BY DEF TypeInv
<1>4. b.len \in Nat /\ PartsOf(b.val) /\ b.expired \in BOOLEAN
  BY <1>1, <1>2 DEF TypeInv, TypeOK
<1>5. e = [b EXCEPT !.val = Put(@, p.num, p.body)]
  BY DEF WithPart
<1> HIDE DEF b, e
<1>6. e = [len |-> b.len, val |-> Put(b.val, p.num, p.body), expired |-> b.expired]
  BY <1>3, <1>5
<1>7. PartsOf(Put(b.val, p.num, p.body))
  BY <1>1, <1>4, PutType
<1>8. /\ e = [len |-> e.len, val |-> e.val, expired |-> e.expired]
      /\ e.len = b.len /\ e.val = Put(b.val, p.num, p.body) /\ e.expired = b.expired
  BY <1>6
<1> QED BY <1>4, <1>7, <1>8 DEF e

\* An entry is added only below the bound.
LEMMA CacheBounded ==
    ASSUME TypeInv, NEW id \in Ids, ~CacheFull(id)
    PROVE  LET D == DOMAIN entries \cup {id}
           IN  IsFiniteSet(D) /\ Cardinality(D) <= MaxEntries /\ D \subseteq Ids
<1>1. /\ IsFiniteSet(DOMAIN entries) /\ Cardinality(DOMAIN entries) <= MaxEntries
      /\ DOMAIN entries \subseteq Ids
  BY DEF TypeInv, TypeOK
<1>2. Cardinality(DOMAIN entries) \in Nat /\ MaxEntries \in Nat
  BY <1>1, FS_CardinalityType, ReassemblyAssumption
<1>3. /\ IsFiniteSet(DOMAIN entries \cup {id})
      /\ Cardinality(DOMAIN entries \cup {id})
           = IF id \in DOMAIN entries THEN Cardinality(DOMAIN entries)
                                      ELSE Cardinality(DOMAIN entries) + 1
  BY <1>1, FS_AddElement
<1>4. id \notin DOMAIN entries => Cardinality(DOMAIN entries) < MaxEntries
  BY <1>2 DEF CacheFull
<1> QED BY <1>1, <1>2, <1>3, <1>4

\* Entries are removed.
LEMMA CacheShrinks ==
    ASSUME TypeInv, NEW K, entries' = Without(entries, K)
    PROVE  /\ IsFiniteSet(DOMAIN entries') /\ Cardinality(DOMAIN entries') <= MaxEntries
           /\ DOMAIN entries' \subseteq DOMAIN entries
           /\ \A i \in DOMAIN entries' : entries'[i] = entries[i]
<1>1. /\ DOMAIN entries' = DOMAIN entries \ K
      /\ \A i \in DOMAIN entries' : entries'[i] = entries[i]
  BY DEF Without
<1>2. DOMAIN entries' \in SUBSET (DOMAIN entries)
  BY <1>1
<1>3. IsFiniteSet(DOMAIN entries) /\ Cardinality(DOMAIN entries) <= MaxEntries
  BY DEF TypeInv, TypeOK
<1>4. IsFiniteSet(DOMAIN entries') /\ Cardinality(DOMAIN entries') <= Cardinality(DOMAIN entries)
  BY <1>2, <1>3, FS_Subset
<1>5. /\ Cardinality(DOMAIN entries) \in Nat /\ Cardinality(DOMAIN entries') \in Nat
      /\ MaxEntries \in Nat
  BY <1>3, <1>4, FS_CardinalityType, ReassemblyAssumption
<1> QED BY <1>1, <1>3, <1>4, <1>5

LEMMA NextTypeInv == TypeInv /\ [Next]_vars => TypeInv'
<1> SUFFICES ASSUME TypeInv, [Next]_vars PROVE TypeInv'
  OBVIOUS
<1>1. /\ sent \subseteq [id : Ids, num : Nat, nr : Nat, body : Bodies] /\ arrived \subseteq sent
      /\ sends \in 0 .. MaxSends /\ receives \in 0 .. MaxReceives
      /\ MaxSends \in Nat /\ MaxReceives \in Nat
      /\ DOMAIN entries \subseteq Ids
  BY ReassemblyAssumption DEF TypeInv, TypeOK
<1>2. \A i \in DOMAIN entries :
         /\ DOMAIN entries[i] = {"len", "val", "expired"}
         /\ entries[i] = [len |-> entries[i].len, val |-> entries[i].val,
                          expired |-> entries[i].expired]
         /\ entries[i].len \in Nat /\ PartsOf(entries[i].val) /\ entries[i].expired \in BOOLEAN
  BY DEF TypeInv, TypeOK
<1>3. /\ DOMAIN job \subseteq Workers
      /\ \A w \in DOMAIN job : job[w].id \in Ids /\ job[w].len \in Nat /\ PartsOf(job[w].val)
  BY DEF TypeInv, TypeOK
<1>4. /\ \A m \in stored : m.id \in Ids /\ PartsOf(m.parts)
      /\ rejected \subseteq Ids /\ forgone \subseteq Ids
  BY DEF TypeInv, TypeOK
<1>5. ASSUME NEW id \in Ids, NEW size \in PartSizes, Transmit(id, size) PROVE TypeInv'
  <2>1. FormatMessage(id, sends + 1, size) \subseteq [id : Ids, num : Nat, nr : Nat, body : Bodies]
    BY <1>1, FormatType
  <2>2. sends' \in 0 .. MaxSends
    BY <1>1, <1>5 DEF Transmit
  <2> QED BY <1>1, <1>5, <2>1, <2>2 DEF Transmit, TypeInv, TypeOK, PartsOf
<1>6. ASSUME NEW w, NEW p \in sent, Take(w, p)
      PROVE  /\ arrived' \subseteq sent' /\ UNCHANGED <<sent, sends>>
             /\ receives' \in 0 .. MaxReceives
             /\ p.id \in Ids /\ p.body \in Bodies
  BY <1>1, <1>6 DEF Take
<1>7. ASSUME NEW w \in Workers, NEW p \in sent, ReceiveSingle(w, p) PROVE TypeInv'
  <2>1. PartsOf([n \in {1} |-> p.body])
    BY <1>6, <1>7 DEF ReceiveSingle, PartsOf
  <2>2. /\ \A m \in stored' : m.id \in Ids /\ PartsOf(m.parts)
        /\ rejected' \subseteq Ids
    BY <1>4, <1>6, <1>7, <2>1, HandleType DEF ReceiveSingle
  <2>3. UNCHANGED <<entries, job, forgone>>
    BY <1>7 DEF ReceiveSingle
  <2> QED BY <1>1, <1>6, <1>7, <2>2, <2>3 DEF ReceiveSingle, TypeInv, TypeOK, PartsOf
<1>8. ASSUME NEW w \in Workers, NEW p \in sent, DropPart(w, p) PROVE TypeInv'
  <2>1. forgone' \subseteq Ids /\ UNCHANGED <<entries, job, stored, rejected>>
    BY <1>4, <1>6, <1>8 DEF DropPart
  <2> QED BY <1>1, <1>6, <1>8, <2>1 DEF DropPart, TypeInv, TypeOK, PartsOf
<1>9. ASSUME NEW w \in Workers, NEW p \in sent, AddPart(w, p) PROVE TypeInv'
  <2> DEFINE e == WithPart(p)
             snapshot == [id |-> p.id, len |-> e.len, val |-> e.val]
  <2>1. /\ entries' = Put(entries, p.id, e) /\ ~CacheFull(p.id) /\ p.id \in Ids
        /\ job' = IF IsComplete(e) THEN Put(job, w, snapshot) ELSE job
        /\ UNCHANGED <<stored, rejected, forgone>>
    BY <1>6, <1>9 DEF AddPart
  <2>2. /\ e = [len |-> e.len, val |-> e.val, expired |-> e.expired]
        /\ e.len \in Nat /\ PartsOf(e.val) /\ e.expired \in BOOLEAN
    BY WithPartType
  <2>3. snapshot.id = p.id /\ snapshot.len = e.len /\ snapshot.val = e.val
    OBVIOUS
  <2> HIDE DEF e, snapshot
  <2>4. /\ DOMAIN entries' = DOMAIN entries \cup {p.id} /\ entries'[p.id] = e
        /\ \A i \in DOMAIN entries : i # p.id => entries'[i] = entries[i]
    BY <2>1 DEF Put
  <2>5. /\ IsFiniteSet(DOMAIN entries') /\ Cardinality(DOMAIN entries') <= MaxEntries
        /\ DOMAIN entries' \subseteq Ids
    BY <2>1, <2>4, CacheBounded
  <2>6. DOMAIN e = {"len", "val", "expired"}
    BY <2>2
  <2>7. \A i \in DOMAIN entries' :
          /\ DOMAIN entries'[i] = {"len", "val", "expired"}
          /\ entries'[i] = [len |-> entries'[i].len, val |-> entries'[i].val,
                            expired |-> entries'[i].expired]
          /\ entries'[i].len \in Nat /\ PartsOf(entries'[i].val)
          /\ entries'[i].expired \in BOOLEAN
    BY <1>2, <2>2, <2>4, <2>6
  <2>8. /\ DOMAIN job' \subseteq Workers
        /\ \A v \in DOMAIN job' :
             job'[v].id \in Ids /\ job'[v].len \in Nat /\ PartsOf(job'[v].val)
    <3>1. CASE ~IsComplete(e)
      BY <1>3, <2>1, <3>1
    <3>2. CASE IsComplete(e)
      <4>1. /\ DOMAIN job' = DOMAIN job \cup {w} /\ job'[w] = snapshot
            /\ \A v \in DOMAIN job : v # w => job'[v] = job[v]
        BY <2>1, <3>2 DEF Put
      <4> QED BY <1>3, <2>1, <2>2, <2>3, <4>1
    <3> QED BY <3>1, <3>2
  <2>9. /\ arrived' \subseteq sent' /\ UNCHANGED <<sent, sends>> /\ receives' \in 0 .. MaxReceives
    BY <1>6, <1>9 DEF AddPart
  <2> QED BY <1>1, <1>4, <2>1, <2>5, <2>7, <2>8, <2>9 DEF TypeInv, TypeOK, PartsOf
<1>10. ASSUME NEW w \in Workers, Assemble(w) \/ AssembleFails(w) PROVE TypeInv'
  <2>1. /\ w \in DOMAIN job /\ job' = Without(job, {w})
        /\ UNCHANGED <<sent, sends, receives, arrived, forgone>>
    BY <1>10 DEF Assemble, AssembleFails
  <2>2. /\ DOMAIN job' \subseteq Workers
        /\ \A v \in DOMAIN job' :
             job'[v].id \in Ids /\ job'[v].len \in Nat /\ PartsOf(job'[v].val)
    BY <1>3, <2>1 DEF Without
  <2>3. CASE Assemble(w)
    <3> DEFINE parts == [n \in 1 .. job[w].len |-> job[w].val[n]]
    <3>1. PartsOf(parts)
      <4>1. 1 .. job[w].len \subseteq DOMAIN job[w].val /\ PartsOf(job[w].val)
        BY <1>3, <2>1, <2>3 DEF Assemble, AllPartsPresent
      <4>2. DOMAIN parts = 1 .. job[w].len
        OBVIOUS
      <4>3. \A n \in DOMAIN parts : parts[n] \in Bodies /\ n \in Nat
        BY <4>1, <4>2 DEF PartsOf
      <4> HIDE DEF parts
      <4> QED BY <4>3 DEF PartsOf
    <3>2. HandleMessage(job[w].id, parts) /\ entries' = Without(entries, {job[w].id})
      BY <2>3 DEF Assemble
    <3>3. job[w].id \in Ids
      BY <1>3, <2>1
    <3> HIDE DEF parts
    <3>4. /\ \A m \in stored' : m.id \in Ids /\ PartsOf(m.parts)
          /\ rejected' \subseteq Ids
      BY <1>4, <3>1, <3>2, <3>3, HandleType
    <3>5. /\ IsFiniteSet(DOMAIN entries') /\ Cardinality(DOMAIN entries') <= MaxEntries
          /\ DOMAIN entries' \subseteq DOMAIN entries
          /\ \A i \in DOMAIN entries' : entries'[i] = entries[i]
      BY <3>2, CacheShrinks
    <3> QED BY <1>1, <1>2, <1>4, <2>1, <2>2, <3>4, <3>5 DEF TypeInv, TypeOK, PartsOf
  <2>4. CASE AssembleFails(w)
    BY <2>1, <2>2, <2>4 DEF AssembleFails, TypeInv, TypeOK, PartsOf
  <2> QED BY <1>10, <2>3, <2>4
<1>11. ASSUME NEW id \in Ids, Expire(id) PROVE TypeInv'
  <2>1. /\ id \in DOMAIN entries /\ entries' = [entries EXCEPT ![id].expired = TRUE]
        /\ UNCHANGED <<sent, sends, receives, job, stored, rejected, arrived, forgone>>
    BY <1>11 DEF Expire
  <2>2. /\ DOMAIN entries' = DOMAIN entries
        /\ \A i \in DOMAIN entries : i # id => entries'[i] = entries[i]
        /\ entries'[id] = [len |-> entries[id].len, val |-> entries[id].val, expired |-> TRUE]
    BY <1>2, <2>1
  <2>3. \A i \in DOMAIN entries' :
          /\ DOMAIN entries'[i] = {"len", "val", "expired"}
          /\ entries'[i] = [len |-> entries'[i].len, val |-> entries'[i].val,
                            expired |-> entries'[i].expired]
          /\ entries'[i].len \in Nat /\ PartsOf(entries'[i].val)
          /\ entries'[i].expired \in BOOLEAN
    BY <1>2, <2>1, <2>2
  <2> QED BY <2>1, <2>2, <2>3 DEF TypeInv, TypeOK, PartsOf
<1>12. CASE CleanList
  <2>1. /\ entries' = Without(entries, Expired) /\ forgone' = forgone \cup Expired
        /\ UNCHANGED <<sent, sends, receives, job, stored, rejected, arrived>>
    BY <1>12 DEF CleanList
  <2>2. /\ IsFiniteSet(DOMAIN entries') /\ Cardinality(DOMAIN entries') <= MaxEntries
        /\ DOMAIN entries' \subseteq DOMAIN entries
        /\ \A i \in DOMAIN entries' : entries'[i] = entries[i]
    BY <2>1, CacheShrinks
  <2>3. forgone' \subseteq Ids
    BY <1>1, <1>4, <2>1 DEF Expired
  <2> QED BY <1>1, <1>2, <1>3, <1>4, <2>1, <2>2, <2>3 DEF TypeInv, TypeOK, PartsOf
<1>13. CASE UNCHANGED vars
  BY <1>13 DEF vars, TypeInv, TypeOK, PartsOf
<1> QED BY <1>5, <1>7, <1>8, <1>9, <1>10, <1>11, <1>12, <1>13 DEF Next, Receive

\* The types, and that the message cache never holds more than maxCacheEntries
\* records (AddPartAndSnapshot).
THEOREM ReassemblyTypeCorrect == Spec => []TypeOK
<1>1. TypeInv => TypeOK
  BY DEF TypeInv
<1> QED BY <1>1, InitTypeInv, NextTypeInv, PTL DEF Spec
=============================================================================
