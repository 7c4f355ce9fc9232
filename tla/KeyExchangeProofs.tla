------------------------- MODULE KeyExchangeProofs -------------------------
(***************************************************************************)
(* Theorems about KeyExchange, for any number of workers, key files, key    *)
(* pairs and exchanges, and about ResendJob, whose program starts with such *)
(* an exchange.                                                             *)
(***************************************************************************)
EXTENDS KeyExchange, ResendJob, WellFoundedInduction, TLAPS

-----------------------------------------------------------------------------
(* Types.                                                                  *)

\* What a worker may have in hand when g keys were made by the time c.
Jobs(g, c) == [stage : JobStages, key : 0 .. g, pair : Pairs \cup {Absent}, now : 0 .. c,
               names : SUBSET Files, purge : SUBSET Nat, infos : Seq(Infos),
               read : Pairs \cup {Unreadable, Absent}, index : Nat, count : Nat,
               alone : BOOLEAN]

\* The bounds are numbers.
LEMMA Bounds ==
    /\ MinInterval \in Nat /\ NrFiles \in Nat /\ MaxKeys \in Nat /\ MaxTime \in Nat
    /\ MaxDiskChanges \in Nat /\ MaxCrashes \in Nat
    /\ LongAgo \in Int /\ LongAgo <= 0
<1>1. /\ MinInterval \in Nat /\ NrFiles \in Nat /\ MaxKeys \in Nat /\ MaxTime \in Nat
      /\ MaxDiskChanges \in Nat /\ MaxCrashes \in Nat
  BY KeyAssumption
<1> QED BY <1>1 DEF LongAgo

\* Of some files, one comes first.
LEMMA FirstFile ==
    ASSUME NEW F \in SUBSET Files, F # {}
    PROVE  First(F) \in F
<1>1. F \subseteq Nat
  BY DEF Files
<1>2. PICK f \in F : \A e \in F : ~(<<e, f>> \in OpToRel(<, Nat))
  BY <1>1, NatLessThanWellFounded, WFMin
<1>3. ASSUME NEW e \in F, e < f PROVE FALSE
  <2>1. <<e, f>> \in OpToRel(<, Nat)
    BY <1>1, <1>3 DEF OpToRel
  <2> QED BY <1>2, <2>1
<1>4. \A e \in F : f <= e
  BY <1>1, <1>3
<1> QED BY <1>4 DEF First

\* Of some indices of a list, one is the largest.
LEMMA LargestIndex ==
    ASSUME NEW n \in Nat, NEW P \in SUBSET (1 .. n), P # {}
    PROVE  /\ Largest(P) \in P
           /\ \A i \in P : i <= Largest(P)
<1> DEFINE D == {n - i : i \in P}
<1>1. \A i \in P : n - i \in Nat /\ i \in Nat
  OBVIOUS
<1>2. D \in SUBSET Nat
  BY <1>1
<1>3. D # {}
  OBVIOUS
<1>4. PICK d \in D : \A e \in D : ~(<<e, d>> \in OpToRel(<, Nat))
  BY <1>2, <1>3, NatLessThanWellFounded, WFMin
<1>5. PICK i \in P : d = n - i
  OBVIOUS
<1>6. ASSUME NEW j \in P, i < j PROVE FALSE
  <2>1. n - j < n - i /\ n - j \in Nat /\ n - i \in Nat
    BY <1>1, <1>6
  <2>2. <<n - j, d>> \in OpToRel(<, Nat)
    BY <1>5, <2>1 DEF OpToRel
  <2>3. n - j \in D
    OBVIOUS
  <2> QED BY <1>4, <2>2, <2>3
<1>7. \A j \in P : j <= i
  BY <1>1, <1>6
<1> QED BY <1>7 DEF Largest

\* What is left of a list when an entry is removed.
LEMMA Removed ==
    ASSUME NEW s \in Seq(Infos), NEW i \in 1 .. Len(s)
    PROVE  /\ RemoveAt(s, i) \in Seq(Infos)
           /\ Len(RemoveAt(s, i)) = Len(s) - 1
<1>1. SubSeq(s, 1, i - 1) \in Seq(Infos) /\ Len(SubSeq(s, 1, i - 1)) = i - 1
  OBVIOUS
<1>2. SubSeq(s, i + 1, Len(s)) \in Seq(Infos) /\ Len(SubSeq(s, i + 1, Len(s))) = Len(s) - i
  OBVIOUS
<1>3. \A p, q \in Seq(Infos) : p \o q \in Seq(Infos) /\ Len(p \o q) = Len(p) + Len(q)
  OBVIOUS
<1>4. (i - 1) + (Len(s) - i) = Len(s) - 1
  OBVIOUS
<1> QED BY <1>1, <1>2, <1>3, <1>4 DEF RemoveAt

-----------------------------------------------------------------------------
(* Types, and what a worker holds whatever the others do.                  *)

\* The indices to purge are of entries that were looked at; the list that one of
\* them is removed from is long enough.
HeldInv ==
    \A w \in Workers :
       /\ job[w].stage = "passed" => job[w].purge = {}
       /\ job[w].stage \in {"scan", "update", "splice", "append"} =>
             job[w].index >= 1 /\ job[w].purge \subseteq 1 .. job[w].index - 1
       /\ job[w].stage = "splice" =>
             job[w].purge # {} /\ Largest(job[w].purge) <= Len(job[w].infos)
       /\ job[w].stage = "append" => job[w].names # {} /\ job[w].read # Absent

LEMMA IdleJob == ASSUME NEW g \in Nat, NEW c \in Nat PROVE Idle \in Jobs(g, c)
<1>1. <<>> \in Seq(Infos)
  OBVIOUS
<1> QED BY <1>1 DEF Idle, Jobs, JobStages

LEMMA InitTypeOK == Init => TypeOK /\ HeldInv
<1> SUFFICES ASSUME Init PROVE TypeOK /\ HeldInv
  OBVIOUS
<1>1. job \in [Workers -> Jobs(generated, clock)]
  BY IdleJob DEF Init
<1>2. TypeOK
  BY <1>1, Bounds DEF Init, TypeOK, Jobs
<1>3. HeldInv
  BY DEF Init, HeldInv, Idle
<1> QED BY <1>2, <1>3

\* Later keys and times only widen the types.
LEMMA Wider ==
    ASSUME NEW g \in Nat, NEW c \in Nat, NEW h \in Nat, NEW d \in Nat, g <= h, c <= d,
           NEW j \in Jobs(g, c)
    PROVE  j \in Jobs(h, d)
BY DEF Jobs

\* The types that a step of downstream's workers relies on.
LEMMA JobTypes ==
    ASSUME TypeOK
    PROVE  /\ generated \in Nat /\ clock \in Nat
           /\ job \in [Workers -> Jobs(generated, clock)]
           /\ keyInfos \in Seq(Infos)
           /\ disk \in [Files -> Contents]
           /\ \A f \in Files : disk[f] \in Pairs \cup {Absent, Unreadable}
           /\ \A m \in wire : m.key \in 1 .. generated /\ m.pair \in Pairs \cup {Absent}
BY Bounds, KeyAssumption DEF TypeOK, Jobs

LEMMA SendersTypeOK ==
    ASSUME TypeOK,
           \/ \E s \in Senders, pair \in Pairs : SendNewKey(s, pair)
           \/ SendNewKeyFails
           \/ StartWithoutKey
           \/ \E s \in Senders : SendPayload(s) \/ Stop(s)
    PROVE  TypeOK'
<1>1. /\ generated \in 0 .. MaxKeys /\ generated' \in 0 .. MaxKeys /\ generated <= generated'
      /\ generated \in Nat /\ generated' \in Nat
  BY Bounds DEF TypeOK, SendNewKey, SendNewKeyFails, StartWithoutKey, SendPayload, Stop
<1>2. UNCHANGED <<clock, diskVars, exchangeVars, job, failed, crashes>>
  BY DEF SendNewKey, SendNewKeyFails, StartWithoutKey, SendPayload, Stop
<1>3. sender' \in [Senders -> [up : BOOLEAN, key : 0 .. generated']]
  <2>1. sender \in [Senders -> [up : BOOLEAN, key : 0 .. generated']]
    BY <1>1 DEF TypeOK
  <2>2. Started(generated') \in [up : BOOLEAN, key : 0 .. generated']
    BY <1>1 DEF Started
  <2>3. Started(0) \in [up : BOOLEAN, key : 0 .. generated']
    BY <1>1 DEF Started
  <2>4. [up |-> FALSE, key |-> 0] \in [up : BOOLEAN, key : 0 .. generated']
    BY <1>1
  <2> QED BY <2>1, <2>2, <2>3, <2>4
          DEF SendNewKey, SendNewKeyFails, StartWithoutKey, SendPayload, Stop
<1>4. wire' \subseteq [type : {"exchange", "payload"}, key : 1 .. generated',
                       pair : Pairs \cup {Absent}]
  <2>1. wire \subseteq [type : {"exchange", "payload"}, key : 1 .. generated',
                        pair : Pairs \cup {Absent}]
    BY <1>1 DEF TypeOK
  <2>2. ASSUME NEW s \in Senders, NEW pair \in Pairs, SendNewKey(s, pair)
        PROVE  wire' \subseteq [type : {"exchange", "payload"}, key : 1 .. generated',
                                pair : Pairs \cup {Absent}]
    <3>1. generated' = generated + 1 /\ wire' = wire \cup {Exchange(generated', pair)}
      BY <2>2 DEF SendNewKey
    <3> QED BY <1>1, <2>1, <3>1 DEF Exchange
  <2>3. ASSUME NEW s \in Senders, SendPayload(s)
        PROVE  wire' \subseteq [type : {"exchange", "payload"}, key : 1 .. generated',
                                pair : Pairs \cup {Absent}]
    <3>1. /\ wire' = wire \cup {Payload(sender[s].key)} /\ sender[s].key # 0
          /\ sender[s].key \in 0 .. generated'
      BY <1>1, <2>3 DEF SendPayload, TypeOK
    <3> QED BY <1>1, <2>1, <3>1 DEF Payload
  <2> QED BY <2>1, <2>2, <2>3 DEF SendNewKeyFails, StartWithoutKey, Stop
<1>5. job \in [Workers -> Jobs(generated', clock)]
  BY <1>1, JobTypes, Wider
<1> QED BY <1>1, <1>2, <1>3, <1>4, <1>5
        DEF TypeOK, Jobs, diskVars, exchangeVars

\* A step by which one worker's job takes another value of its type.
LEMMA StepTypeOK ==
    ASSUME TypeOK, NEW w \in Workers, NEW new \in Jobs(generated, clock), Step(w, new),
           keyInfos' \in Seq(Infos), key' \in 0 .. generated, granted' \in 0 .. generated
    PROVE  TypeOK'
<1>1. job' \in [Workers -> Jobs(generated, clock)]
  BY JobTypes DEF Step
<1> QED BY <1>1 DEF Step, TypeOK, Jobs, diskVars, senderVars

\* The steps of a worker in readPrivateKeys and readNewKey.
LEMMA ReadingTypeOK ==
    ASSUME TypeOK, HeldInv, NEW w \in Workers,
           \/ Scan(w) \/ BeginSplice(w) \/ Splice(w) \/ ReadFile(w) \/ AddKey(w) \/ Search(w)
           \/ TryKey(w) \/ Announce(w) \/ InstallKey(w) \/ ReturnName(w) \/ Refuse(w)
    PROVE  TypeOK'
<1> DEFINE J == Jobs(generated, clock)
<1>1. /\ job[w] \in J /\ Idle \in J
      /\ keyInfos \in Seq(Infos)
      /\ key \in 0 .. generated /\ granted \in 0 .. generated
      /\ \A f \in Files : Content(f) \in Pairs \cup {Unreadable}
  BY JobTypes, IdleJob DEF TypeOK, Content
<1>2. /\ job[w].index \in Nat /\ job[w].key \in 0 .. generated
      /\ job[w].purge \in SUBSET Nat /\ job[w].names \in SUBSET Files
      /\ job[w].infos \in Seq(Infos)
      /\ job[w].read \in Pairs \cup {Unreadable, Absent}
  BY <1>1 DEF Jobs
<1>3. <<>> \in Seq(Infos) /\ Len(keyInfos) \in Nat /\ job[w].index + 1 \in Nat
  BY <1>1, <1>2
<1>4. CASE Scan(w)
  <2>1. [job[w] EXCEPT !.stage = "update"] \in J
    BY <1>1 DEF Jobs, JobStages
  <2>2. \A P \in SUBSET Nat : [job[w] EXCEPT !.index = @ + 1, !.purge = P] \in J
    BY <1>1, <1>3 DEF Jobs
  <2>3. job[w].purge \cup {job[w].index} \in SUBSET Nat
    BY <1>2
  <2>4. [job[w] EXCEPT !.index = @ + 1,
           !.purge = IF keyInfos[job[w].index].file \in job[w].names
                     THEN @ ELSE @ \cup {job[w].index}] \in J
    BY <1>2, <2>2, <2>3
  <2> QED BY <1>1, <1>4, <2>1, <2>4, StepTypeOK DEF Scan
<1>5. CASE BeginSplice(w)
  <2>1. [job[w] EXCEPT !.stage = "splice", !.infos = keyInfos] \in J
    BY <1>1 DEF Jobs, JobStages
  <2> QED BY <1>1, <1>5, <2>1, StepTypeOK DEF BeginSplice
<1>6. CASE Splice(w)
  <2>1. /\ job[w].purge # {} /\ job[w].purge \subseteq 1 .. job[w].index - 1
        /\ job[w].index - 1 \in Nat
        /\ Largest(job[w].purge) <= Len(job[w].infos)
    BY <1>2, <1>6 DEF Splice, HeldInv
  <2>2. Largest(job[w].purge) \in job[w].purge
    BY <2>1, LargestIndex
  <2>3. Largest(job[w].purge) \in 1 .. Len(job[w].infos)
    BY <1>2, <2>1, <2>2
  <2>4. RemoveAt(job[w].infos, Largest(job[w].purge)) \in Seq(Infos)
    BY <1>2, <2>3, Removed
  <2>5. [job[w] EXCEPT !.stage = "update", !.infos = <<>>,
                       !.purge = @ \ {Largest(job[w].purge)}] \in J
    BY <1>1, <1>2, <1>3 DEF Jobs, JobStages
  <2> QED BY <1>1, <1>6, <2>4, <2>5, StepTypeOK DEF Splice
<1>7. CASE ReadFile(w)
  <2> DEFINE f == First(job[w].names)
  <2>1. f \in Files
    BY <1>2, <1>7, FirstFile DEF ReadFile
  <2>2. [job[w] EXCEPT !.names = @ \ {f}] \in J
    BY <1>1, <1>2 DEF Jobs
  <2>3. [job[w] EXCEPT !.stage = "append", !.infos = keyInfos, !.read = Content(f)] \in J
    BY <1>1, <2>1 DEF Jobs, JobStages
  <2> QED BY <1>1, <1>7, <2>2, <2>3, StepTypeOK DEF ReadFile
<1>8. CASE AddKey(w)
  <2> DEFINE f == First(job[w].names)
  <2>1. job[w].names # {} /\ job[w].read # Absent
    BY <1>8 DEF AddKey, HeldInv
  <2>2. [file |-> f, pair |-> job[w].read] \in Infos
    BY <1>2, <2>1, FirstFile DEF Infos
  <2>3. Append(job[w].infos, [file |-> f, pair |-> job[w].read]) \in Seq(Infos)
    BY <1>2, <2>2
  <2>4. [job[w] EXCEPT !.stage = "update", !.infos = <<>>, !.read = Absent,
                       !.names = @ \ {f}] \in J
    BY <1>1, <1>2, <1>3 DEF Jobs, JobStages
  <2> QED BY <1>1, <1>8, <2>3, <2>4, StepTypeOK DEF AddKey
<1>9. CASE Search(w)
  <2>1. [job[w] EXCEPT !.stage = "try", !.index = 1, !.count = Len(keyInfos)] \in J
    BY <1>1, <1>3 DEF Jobs, JobStages
  <2> QED BY <1>1, <1>9, <2>1, StepTypeOK DEF Search
<1>10. CASE TryKey(w)
  <2>1. [job[w] EXCEPT !.stage = "found"] \in J
    BY <1>1 DEF Jobs, JobStages
  <2>2. [job[w] EXCEPT !.index = @ + 1] \in J
    BY <1>1, <1>3 DEF Jobs
  <2> QED BY <1>1, <1>10, <2>1, <2>2, StepTypeOK DEF TryKey
<1>11. CASE Announce(w)
  <2>1. [job[w] EXCEPT !.stage = "installing"] \in J
    BY <1>1 DEF Jobs, JobStages
  <2>2. granted' \in 0 .. generated
    BY <1>1, <1>11, JobTypes DEF Announce
  <2> QED BY <1>1, <1>11, <2>1, <2>2, StepTypeOK DEF Announce
<1>12. CASE InstallKey(w)
  <2>1. [job[w] EXCEPT !.stage = "installed"] \in J
    BY <1>1 DEF Jobs, JobStages
  <2> QED BY <1>1, <1>2, <1>12, <2>1, StepTypeOK DEF InstallKey
<1>13. CASE ReturnName(w) \/ Refuse(w)
  BY <1>1, <1>2, <1>13, StepTypeOK DEF ReturnName, Refuse, End
<1> QED BY <1>4, <1>5, <1>6, <1>7, <1>8, <1>9, <1>10, <1>11, <1>12, <1>13

LEMMA OthersTypeOK ==
    ASSUME TypeOK,
           \/ Tick
           \/ \E f \in Files, content \in Contents : ChangeFile(f, content)
           \/ \E w \in Workers :
                \/ \E m \in wire : PassRateLimit(w, m)
                \/ \E m \in wire, k \in ReadableKeys : HandlePayload(w, m, k)
                \/ Accept(w) \/ Panic(w)
           \/ RestartDownstream
           \/ UNCHANGED vars
    PROVE  TypeOK'
<1>1. /\ generated \in Nat /\ clock \in Nat
      /\ job \in [Workers -> Jobs(generated, clock)]
      /\ Idle \in Jobs(generated, clock)
      /\ \A m \in wire : m.key \in 1 .. generated /\ m.pair \in Pairs \cup {Absent}
  BY JobTypes, IdleJob
<1>2. CASE Tick
  <2>1. clock' = clock + 1 /\ clock' \in 0 .. MaxTime /\ clock' \in Nat /\ clock <= clock'
    BY <1>1, <1>2, Bounds DEF Tick
  <2>2. job \in [Workers -> Jobs(generated, clock')]
    BY <1>1, <2>1, Wider
  <2>3. last \in LongAgo .. clock'
    BY <1>1, <2>1, Bounds DEF TypeOK
  <2>4. UNCHANGED <<senderVars, diskVars, exchangeVars, job, failed, crashes>>
    BY <1>2 DEF Tick
  <2> QED BY <2>1, <2>2, <2>3, <2>4 DEF TypeOK, Jobs, senderVars, diskVars, exchangeVars
<1>3. ASSUME NEW f \in Files, NEW content \in Contents, ChangeFile(f, content)
      PROVE  TypeOK'
  <2>1. disk' \in [Files -> Contents]
    BY <1>3 DEF ChangeFile, TypeOK
  <2>2. diskChanges' \in 0 .. MaxDiskChanges
    <3>1. diskChanges \in 0 .. MaxDiskChanges
      BY DEF TypeOK
    <3>2. diskChanges < MaxDiskChanges /\ diskChanges' = diskChanges + 1
      BY <1>3 DEF ChangeFile
    <3> QED BY <3>1, <3>2, Bounds
  <2>3. job' \in [Workers -> Jobs(generated, clock)]
    <3>1. \A w \in Workers : [job[w] EXCEPT !.alone = FALSE] \in Jobs(generated, clock)
      BY <1>1 DEF Jobs
    <3> QED BY <1>3, <3>1 DEF ChangeFile
  <2>4. UNCHANGED <<clock, senderVars, exchangeVars, failed, crashes>>
    BY <1>3 DEF ChangeFile
  <2> QED BY <2>1, <2>2, <2>3, <2>4 DEF TypeOK, Jobs, senderVars, exchangeVars
<1>4. ASSUME NEW w \in Workers, NEW m \in wire, PassRateLimit(w, m)
      PROVE  TypeOK'
  <2>1. [Idle EXCEPT !.stage = "passed", !.key = m.key, !.pair = m.pair, !.now = clock]
          \in Jobs(generated, clock)
    <3>1. m.key \in 0 .. generated /\ clock \in 0 .. clock /\ m.pair \in Pairs \cup {Absent}
      BY <1>1
    <3> QED BY <1>1, <3>1 DEF Jobs, JobStages
  <2>2. job' \in [Workers -> Jobs(generated, clock)]
    BY <1>1, <1>4, <2>1 DEF PassRateLimit
  <2> QED BY <1>4, <2>2 DEF PassRateLimit, TypeOK, Jobs, diskVars, exchangeVars, senderVars
<1>5. ASSUME NEW w \in Workers, NEW m \in wire, NEW k \in ReadableKeys, HandlePayload(w, m, k)
      PROVE  TypeOK'
  <2>1. failed' \subseteq 1 .. generated
    BY <1>1, <1>5 DEF HandlePayload, TypeOK
  <2> QED BY <1>5, <2>1 DEF HandlePayload, TypeOK, diskVars, exchangeVars, senderVars
<1>6. ASSUME NEW w \in Workers, Accept(w) PROVE TypeOK'
  <2>1. [job[w] EXCEPT !.stage = "scan", !.index = 1, !.alone = (Busy = {}),
                       !.names = {f \in Files : disk[f] # Absent}] \in Jobs(generated, clock)
    <3>1. \A a \in BOOLEAN, N \in SUBSET Files :
             [job[w] EXCEPT !.stage = "scan", !.index = 1, !.alone = a, !.names = N]
               \in Jobs(generated, clock)
      BY <1>1 DEF Jobs, JobStages
    <3>2. (Busy = {}) \in BOOLEAN /\ {f \in Files : disk[f] # Absent} \in SUBSET Files
      OBVIOUS
    <3> QED BY <3>1, <3>2, Zenon
  <2>2. \A v \in Workers : [job[v] EXCEPT !.alone = FALSE] \in Jobs(generated, clock)
    BY <1>1 DEF Jobs
  <2>3. job' \in [Workers -> Jobs(generated, clock)]
    BY <1>6, <2>1, <2>2 DEF Accept
  <2>4. last' \in LongAgo .. clock
    <3>1. job[w].now \in 0 .. clock
      BY <1>1 DEF Jobs
    <3>2. last' = job[w].now
      BY <1>6 DEF Accept
    <3> QED BY <1>1, <3>1, <3>2, Bounds
  <2> QED BY <1>6, <2>3, <2>4 DEF Accept, TypeOK, Jobs, diskVars, senderVars
<1>7. ASSUME Restart, crashes' \in 0 .. MaxCrashes PROVE TypeOK'
  <2>1. job' \in [Workers -> Jobs(generated, clock)]
    BY <1>1, <1>7 DEF Restart
  <2>2. last' \in LongAgo .. clock
    BY <1>1, <1>7, Bounds DEF Restart
  <2>3. key' \in 0 .. generated /\ granted' \in 0 .. generated /\ keyInfos' \in Seq(Infos)
    BY <1>1, <1>7 DEF Restart
  <2> QED BY <1>7, <2>1, <2>2, <2>3 DEF Restart, TypeOK, Jobs, senderVars, diskVars
<1>8. CASE RestartDownstream
  <2>1. crashes' \in 0 .. MaxCrashes
    BY <1>8, Bounds DEF RestartDownstream, TypeOK
  <2> QED BY <1>7, <1>8, <2>1 DEF RestartDownstream
<1>9. ASSUME NEW w \in Workers, Panic(w) PROVE TypeOK'
  BY <1>7, <1>9 DEF Panic, TypeOK
<1>10. CASE UNCHANGED vars
  BY <1>10 DEF vars, TypeOK
<1> QED BY <1>2, <1>3, <1>4, <1>5, <1>6, <1>8, <1>9, <1>10

LEMMA NextTypeOK == TypeOK /\ HeldInv /\ [Next]_vars => TypeOK'
<1> SUFFICES ASSUME TypeOK, HeldInv, [Next]_vars PROVE TypeOK'
  OBVIOUS
<1> QED BY SendersTypeOK, ReadingTypeOK, OthersTypeOK DEF Next, WorkerStep

LEMMA NextHeldInv == TypeOK /\ HeldInv /\ [Next]_vars => HeldInv'
<1> SUFFICES ASSUME TypeOK, HeldInv, [Next]_vars PROVE HeldInv'
  OBVIOUS
<1> DEFINE Safe(j) == /\ j.stage = "passed" => j.purge = {}
                      /\ j.stage \in {"scan", "update", "splice", "append"} =>
                           j.index >= 1 /\ j.purge \subseteq 1 .. j.index - 1
                      /\ j.stage = "splice" =>
                           j.purge # {} /\ Largest(j.purge) <= Len(j.infos)
                      /\ j.stage = "append" => j.names # {} /\ j.read # Absent
<1>1. /\ job \in [Workers -> Jobs(generated, clock)]
      /\ \A w \in Workers : Safe(job[w]) /\ job[w] \in Jobs(generated, clock)
  BY JobTypes DEF HeldInv
<1>2. Safe(Idle)
  BY DEF Idle
<1>3. CASE UNCHANGED job
  BY <1>3 DEF HeldInv
<1>4. ASSUME NEW w \in Workers, NEW new, Safe(new), job' = [job EXCEPT ![w] = new]
      PROVE  HeldInv'
  <2>1. \A v \in Workers : job'[v] = IF v = w THEN new ELSE job[v]
    BY <1>1, <1>4
  <2>2. \A v \in Workers : Safe(job'[v])
    BY <1>1, <1>4, <2>1
  <2> QED BY <2>2 DEF HeldInv
<1>5. \A w \in Workers : Safe([job[w] EXCEPT !.alone = FALSE])
  BY <1>1 DEF Jobs
<1>6. ASSUME NEW f \in Files, NEW content \in Contents, ChangeFile(f, content)
      PROVE  HeldInv'
  <2>1. \A w \in Workers : job'[w] = [job[w] EXCEPT !.alone = FALSE]
    BY <1>6 DEF ChangeFile
  <2>2. \A w \in Workers : Safe(job'[w])
    BY <1>5, <2>1
  <2> QED BY <2>2 DEF HeldInv
<1>7. ASSUME NEW w \in Workers, NEW m \in wire, PassRateLimit(w, m)
      PROVE  HeldInv'
  <2>1. Safe([Idle EXCEPT !.stage = "passed", !.key = m.key, !.pair = m.pair, !.now = clock])
    BY DEF Idle
  <2> QED BY <1>4, <1>7, <2>1 DEF PassRateLimit
<1>8. ASSUME NEW w \in Workers, Accept(w)
      PROVE  HeldInv'
  <2> DEFINE new == [job[w] EXCEPT !.stage = "scan", !.index = 1, !.alone = (Busy = {}),
                                   !.names = {f \in Files : disk[f] # Absent}]
  <2>1. \A v \in Workers : job'[v] = IF v = w THEN new ELSE [job[v] EXCEPT !.alone = FALSE]
    BY <1>8 DEF Accept
  <2>2. Safe(new)
    <3>1. new.stage = "scan" /\ new.index = 1 /\ new.purge = job[w].purge
      BY <1>1 DEF Jobs
    <3>2. job[w].purge = {}
      BY <1>1, <1>8 DEF Accept
    <3> HIDE DEF new
    <3> QED BY <3>1, <3>2
  <2>3. \A v \in Workers : Safe(job'[v])
    BY <1>5, <2>1, <2>2
  <2> QED BY <2>3 DEF HeldInv
<1>9. ASSUME NEW w \in Workers, Scan(w)
      PROVE  HeldInv'
  <2>1. /\ job[w].stage = "scan" /\ job[w].index \in Nat /\ job[w].index >= 1
        /\ job[w].purge \subseteq 1 .. job[w].index - 1
    BY <1>1, <1>9 DEF Scan, Jobs
  <2>2. Safe([job[w] EXCEPT !.stage = "update"])
    BY <1>1, <2>1 DEF Jobs
  <2>3. \A P \in {job[w].purge, job[w].purge \cup {job[w].index}} :
           Safe([job[w] EXCEPT !.index = @ + 1, !.purge = P])
    <3> TAKE P \in {job[w].purge, job[w].purge \cup {job[w].index}}
    <3>1. job[w].index + 1 >= 1 /\ P \subseteq 1 .. (job[w].index + 1) - 1
      BY <2>1
    <3>2. /\ [job[w] EXCEPT !.index = @ + 1, !.purge = P].index = job[w].index + 1
          /\ [job[w] EXCEPT !.index = @ + 1, !.purge = P].purge = P
          /\ [job[w] EXCEPT !.index = @ + 1, !.purge = P].stage = "scan"
      BY <1>1, <2>1 DEF Jobs
    <3> QED BY <3>1, <3>2
  <2>4. Safe([job[w] EXCEPT !.index = @ + 1,
                !.purge = IF keyInfos[job[w].index].file \in job[w].names
                          THEN @ ELSE @ \cup {job[w].index}])
    BY <2>3
  <2> HIDE DEF Safe
  <2> QED BY <1>4, <1>9, <2>2, <2>4 DEF Scan, Step
<1>10. ASSUME NEW w \in Workers, BeginSplice(w)
       PROVE  HeldInv'
  <2>1. Safe([job[w] EXCEPT !.stage = "splice", !.infos = keyInfos])
    BY <1>1, <1>10 DEF BeginSplice, Jobs
  <2> HIDE DEF Safe
  <2> QED BY <1>4, <1>10, <2>1 DEF BeginSplice, Step
<1>11. ASSUME NEW w \in Workers, Splice(w)
       PROVE  HeldInv'
  <2>1. Safe([job[w] EXCEPT !.stage = "update", !.infos = <<>>,
                            !.purge = @ \ {Largest(job[w].purge)}])
    BY <1>1, <1>11 DEF Splice, Jobs
  <2> HIDE DEF Safe
  <2> QED BY <1>4, <1>11, <2>1 DEF Splice, Step
<1>12. ASSUME NEW w \in Workers, ReadFile(w)
       PROVE  HeldInv'
  <2> DEFINE f == First(job[w].names)
  <2>1. /\ job[w].stage = "update" /\ job[w].names # {}
        /\ job[w] \in Jobs(generated, clock) /\ Safe(job[w])
    BY <1>1, <1>12 DEF ReadFile
  <2>2. Content(f) # Absent
    BY KeyAssumption DEF Content
  <2>3. Safe([job[w] EXCEPT !.names = @ \ {f}])
    BY <2>1 DEF Jobs
  <2>4. Safe([job[w] EXCEPT !.stage = "append", !.infos = keyInfos, !.read = Content(f)])
    BY <2>1, <2>2 DEF Jobs
  <2> HIDE DEF Safe
  <2> QED BY <1>4, <1>12, <2>3, <2>4 DEF ReadFile, Step
<1>13. ASSUME NEW w \in Workers, AddKey(w)
       PROVE  HeldInv'
  <2>1. Safe([job[w] EXCEPT !.stage = "update", !.infos = <<>>, !.read = Absent,
                            !.names = @ \ {First(job[w].names)}])
    BY <1>1, <1>13 DEF AddKey, Jobs
  <2> HIDE DEF Safe
  <2> QED BY <1>4, <1>13, <2>1 DEF AddKey, Step
<1>14. ASSUME NEW w \in Workers, Search(w)
       PROVE  HeldInv'
  <2>1. Safe([job[w] EXCEPT !.stage = "try", !.index = 1, !.count = Len(keyInfos)])
    BY <1>1 DEF Jobs
  <2> HIDE DEF Safe
  <2> QED BY <1>4, <1>14, <2>1 DEF Search, Step
<1>15. ASSUME NEW w \in Workers, TryKey(w) \/ Announce(w) \/ InstallKey(w)
       PROVE  HeldInv'
  <2>1. \A s \in {"found", "installing", "installed"} : Safe([job[w] EXCEPT !.stage = s])
    BY <1>1 DEF Jobs
  <2>2. job[w].stage = "try" => Safe([job[w] EXCEPT !.index = @ + 1])
    BY <1>1 DEF Jobs
  <2> HIDE DEF Safe
  <2> QED BY <1>4, <1>15, <2>1, <2>2 DEF TryKey, Announce, InstallKey, Step
<1>16. ASSUME NEW w \in Workers, ReturnName(w) \/ Refuse(w)
       PROVE  HeldInv'
  BY <1>2, <1>4, <1>16 DEF ReturnName, Refuse, Step
<1>17. CASE Restart
  BY <1>2, <1>17 DEF Restart, HeldInv
<1> QED
  BY <1>3, <1>6, <1>7, <1>8, <1>9, <1>10, <1>11, <1>12, <1>13, <1>14, <1>15, <1>16, <1>17
     DEF Next, WorkerStep, Tick, SendNewKey, SendNewKeyFails, StartWithoutKey, SendPayload,
         Stop, HandlePayload, RestartDownstream, Panic, vars

-----------------------------------------------------------------------------
(* An exchange that runs alone.                                            *)

Listed == {f \in Files : disk[f] # Absent}

\* The keys of the files that were looked at are in memory.
ReadIn(w) ==
    \A f \in Files \ job[w].names :
       disk[f] # Absent => \E i \in DOMAIN keyInfos : keyInfos[i].pair = disk[f]

\* What the worker read of the list and the files is what they are, its indices are
\* those of the list, and the key that it installed is the one in use.
Undeceived(w) ==
    /\ job[w].stage = "scan" =>
          job[w].names = Listed /\ job[w].purge \subseteq 1 .. Len(keyInfos)
    /\ job[w].stage = "update" =>
          /\ job[w].purge \subseteq 1 .. Len(keyInfos)
          /\ job[w].purge # {} => job[w].names = Listed
          /\ ReadIn(w)
    /\ job[w].stage = "splice" =>
          /\ job[w].infos = keyInfos
          /\ job[w].purge \subseteq 1 .. Len(keyInfos)
          /\ job[w].names = Listed
    /\ job[w].stage = "append" =>
          /\ job[w].infos = keyInfos /\ job[w].purge = {}
          /\ job[w].read = Content(First(job[w].names))
          /\ ReadIn(w)
    /\ job[w].stage = "try" =>
          /\ job[w].names = {} /\ ReadIn(w)
          /\ job[w].index >= 1 /\ job[w].count = Len(keyInfos)
          /\ \A i \in DOMAIN keyInfos :
                i < job[w].index => keyInfos[i].pair # job[w].pair
    /\ job[w].stage \in {"found", "installing", "installed"} => InList(w)
    /\ job[w].stage = "installed" => key = job[w].key

\* As long as a worker is alone, no other one is between Accept and the end of
\* readNewKey, so nothing that it relies on changes.
AloneInv == \A w \in Workers : job[w].alone => Busy = {w} /\ Undeceived(w)

\* The key that was granted is the one that downstream decrypts with.
GrantInv ==
    /\ granted # 0 => ReadableKeys = {granted}
    /\ failed = {}

\* A worker that is busy and stays so may go on being alone; no other one can be.
LEMMA AloneStep ==
    ASSUME TypeOK, AloneInv, NEW w \in Workers, NEW new, w \in Busy,
           job' = [job EXCEPT ![w] = new],
           new.stage \notin {"idle", "passed"}, new.alone = job[w].alone,
           job[w].alone => Undeceived(w)'
    PROVE  AloneInv'
<1>1. \A v \in Workers : job'[v] = IF v = w THEN new ELSE job[v]
  BY JobTypes
<1>2. Busy' = Busy
  BY <1>1 DEF Busy
<1>3. ASSUME NEW v \in Workers, job'[v].alone PROVE Busy' = {v} /\ Undeceived(v)'
  <2>1. job[v].alone
    BY <1>1, <1>3
  <2>2. Busy = {v} /\ v = w
    BY <2>1 DEF AloneInv
  <2> QED BY <1>2, <2>1, <2>2
<1> QED BY <1>3 DEF AloneInv

\* The steps of readPrivateKeys.
LEMMA UpdateAlone ==
    ASSUME TypeOK, HeldInv, AloneInv, NEW w \in Workers,
           \/ Scan(w) \/ BeginSplice(w) \/ Splice(w) \/ ReadFile(w) \/ AddKey(w) \/ Search(w)
    PROVE  AloneInv'
<1>1. /\ job[w] \in Jobs(generated, clock)
      /\ job \in [Workers -> Jobs(generated, clock)]
      /\ keyInfos \in Seq(Infos) /\ Len(keyInfos) \in Nat
      /\ DOMAIN keyInfos = 1 .. Len(keyInfos)
  BY JobTypes
<1>2. /\ job[w].stage \in {"scan", "update", "splice", "append"}
      /\ w \in Busy
      /\ UNCHANGED <<disk, key>>
  BY DEF Scan, BeginSplice, Splice, ReadFile, AddKey, Search, Busy, Step, diskVars
<1>3. job[w].alone => Undeceived(w)
  BY DEF AloneInv
<1>4. CASE Scan(w)
  <2> DEFINE j == job[w]
             done == [j EXCEPT !.stage = "update"]
             next == [j EXCEPT !.index = @ + 1,
                         !.purge = IF keyInfos[j.index].file \in j.names
                                   THEN @ ELSE @ \cup {j.index}]
  <2>1. /\ j.stage = "scan" /\ UNCHANGED keyInfos
        /\ job' = [job EXCEPT ![w] = IF j.index > Len(keyInfos) THEN done ELSE next]
    BY <1>4 DEF Scan, Step
  <2>2. j.index \in Nat /\ j.index >= 1
    BY <1>1, <2>1 DEF Jobs, HeldInv
  <2>3. CASE j.index > Len(keyInfos)
    <3>1. job' = [job EXCEPT ![w] = done] /\ job'[w] = done
      BY <1>1, <2>1, <2>3
    <3>2. done.stage = "update" /\ done.alone = j.alone /\ done.names = j.names
          /\ done.purge = j.purge
      BY <1>1 DEF Jobs
    <3>3. j.alone => Undeceived(w)'
      BY <1>2, <1>3, <2>1, <3>1, <3>2 DEF Undeceived, ReadIn, Listed
    <3> QED BY <1>2, <3>1, <3>2, <3>3, AloneStep
  <2>4. CASE j.index <= Len(keyInfos)
    <3>0. ~(j.index > Len(keyInfos))
      BY <1>1, <2>2, <2>4
    <3>1. job' = [job EXCEPT ![w] = next] /\ job'[w] = next
      <4> HIDE DEF done, next
      <4> QED BY <1>1, <2>1, <3>0
    <3>2. next.stage = "scan" /\ next.alone = j.alone /\ next.names = j.names
          /\ next.purge \subseteq j.purge \cup {j.index}
      BY <1>1, <2>1 DEF Jobs
    <3>3. j.alone => Undeceived(w)'
      BY <1>1, <1>2, <1>3, <2>1, <2>2, <2>4, <3>1, <3>2 DEF Undeceived, Listed
    <3> QED BY <1>2, <3>1, <3>2, <3>3, AloneStep
  <2> QED BY <1>1, <2>2, <2>3, <2>4
<1>5. CASE BeginSplice(w)
  <2> DEFINE new == [job[w] EXCEPT !.stage = "splice", !.infos = keyInfos]
  <2>1. /\ job' = [job EXCEPT ![w] = new] /\ job'[w] = new /\ UNCHANGED keyInfos
        /\ job[w].stage = "update" /\ job[w].purge # {}
    BY <1>1, <1>5 DEF BeginSplice, Step
  <2>2. new.stage = "splice" /\ new.alone = job[w].alone /\ new.names = job[w].names
        /\ new.purge = job[w].purge /\ new.infos = keyInfos
    BY <1>1 DEF Jobs
  <2>3. job[w].alone => Undeceived(w)'
    BY <1>2, <1>3, <2>1, <2>2 DEF Undeceived, Listed
  <2> QED BY <1>2, <2>1, <2>2, <2>3, AloneStep
<1>6. CASE Splice(w)
  <2> DEFINE i == Largest(job[w].purge)
             new == [job[w] EXCEPT !.stage = "update", !.infos = <<>>, !.purge = @ \ {i}]
  <2>1. /\ job' = [job EXCEPT ![w] = new] /\ job'[w] = new
        /\ keyInfos' = RemoveAt(job[w].infos, i)
        /\ job[w].stage = "splice" /\ job[w].purge # {}
    BY <1>1, <1>6 DEF Splice, Step, HeldInv
  <2>2. new.stage = "update" /\ new.alone = job[w].alone /\ new.names = job[w].names
        /\ new.purge = job[w].purge \ {i}
    BY <1>1 DEF Jobs
  <2>3. ASSUME job[w].alone PROVE Undeceived(w)'
    <3>1. /\ job[w].infos = keyInfos /\ job[w].purge \subseteq 1 .. Len(keyInfos)
          /\ job[w].names = Listed
      BY <1>3, <2>1, <2>3 DEF Undeceived
    <3>2. i \in job[w].purge /\ \A k \in job[w].purge : k <= i
      BY <1>1, <2>1, <3>1, LargestIndex
    <3>3. Len(keyInfos') = Len(keyInfos) - 1
      BY <1>1, <2>1, <3>1, <3>2, Removed
    <3>4. \A k \in job[w].purge \ {i} : k \in 1 .. Len(keyInfos) - 1
      <4> TAKE k \in job[w].purge \ {i}
      <4>1. k \in 1 .. Len(keyInfos) /\ i \in 1 .. Len(keyInfos) /\ k <= i /\ k # i
        BY <3>1, <3>2
      <4> QED BY <1>1, <4>1
    <3>5. new.purge \subseteq 1 .. Len(keyInfos')
      BY <2>2, <3>3, <3>4
    <3>6. Listed' = Listed
      BY <1>2 DEF Listed
    <3>7. ReadIn(w)'
      BY <1>2, <2>1, <2>2, <3>1 DEF ReadIn, Listed
    <3> QED BY <2>1, <2>2, <3>1, <3>5, <3>6, <3>7 DEF Undeceived
  <2> QED BY <1>2, <2>1, <2>2, <2>3, AloneStep
<1>7. CASE ReadFile(w)
  <2> DEFINE f == First(job[w].names)
             skip == [job[w] EXCEPT !.names = @ \ {f}]
             add == [job[w] EXCEPT !.stage = "append", !.infos = keyInfos, !.read = Content(f)]
  <2>1. /\ job' = [job EXCEPT ![w] = IF Loaded(f) THEN skip ELSE add]
        /\ job[w].stage = "update" /\ job[w].purge = {} /\ UNCHANGED keyInfos
    BY <1>7 DEF ReadFile, Step
  <2>2. CASE Loaded(f)
    <3>1. job' = [job EXCEPT ![w] = skip] /\ job'[w] = skip
      BY <1>1, <2>1, <2>2
    <3>2. skip.stage = "update" /\ skip.alone = job[w].alone /\ skip.purge = {}
          /\ skip.names = job[w].names \ {f}
      BY <1>1, <2>1 DEF Jobs
    <3>3. ASSUME job[w].alone PROVE Undeceived(w)'
      <4>1. ReadIn(w)
        BY <1>3, <2>1, <3>3 DEF Undeceived
      <4>2. disk[f] # Absent => \E i \in DOMAIN keyInfos : keyInfos[i].pair = disk[f]
        BY <2>2 DEF Loaded, Content
      <4>3. ReadIn(w)'
        BY <1>2, <2>1, <3>1, <3>2, <4>1, <4>2 DEF ReadIn
      <4> QED BY <3>1, <3>2, <4>3 DEF Undeceived
    <3> QED BY <1>2, <3>1, <3>2, <3>3, AloneStep
  <2>3. CASE ~Loaded(f)
    <3>1. job' = [job EXCEPT ![w] = add] /\ job'[w] = add
      BY <1>1, <2>1, <2>3
    <3>2. add.stage = "append" /\ add.alone = job[w].alone /\ add.purge = {}
          /\ add.names = job[w].names /\ add.infos = keyInfos /\ add.read = Content(f)
      BY <1>1, <2>1 DEF Jobs
    <3>3. ASSUME job[w].alone PROVE Undeceived(w)'
      <4>1. ReadIn(w)
        BY <1>3, <2>1, <3>3 DEF Undeceived
      <4>2. ReadIn(w)' /\ Content(f)' = Content(f)
        BY <1>2, <2>1, <3>1, <3>2, <4>1 DEF ReadIn, Content
      <4> QED BY <2>1, <3>1, <3>2, <4>2 DEF Undeceived
    <3> QED BY <1>2, <3>1, <3>2, <3>3, AloneStep
  <2> QED BY <2>2, <2>3
<1>8. CASE AddKey(w)
  <2> DEFINE f == First(job[w].names)
             entry == [file |-> f, pair |-> job[w].read]
             new == [job[w] EXCEPT !.stage = "update", !.infos = <<>>, !.read = Absent,
                                   !.names = @ \ {f}]
  <2>1. /\ job' = [job EXCEPT ![w] = new] /\ job'[w] = new
        /\ keyInfos' = Append(job[w].infos, entry)
        /\ job[w].stage = "append"
    BY <1>1, <1>8 DEF AddKey, Step
  <2>2. new.stage = "update" /\ new.alone = job[w].alone /\ new.purge = job[w].purge
        /\ new.names = job[w].names \ {f}
    BY <1>1 DEF Jobs
  <2>3. ASSUME job[w].alone PROVE Undeceived(w)'
    <3>1. /\ job[w].infos = keyInfos /\ job[w].purge = {} /\ job[w].read = Content(f)
          /\ ReadIn(w)
      BY <1>3, <2>1, <2>3 DEF Undeceived
    <3>2. keyInfos' = Append(keyInfos, entry)
      BY <2>1, <3>1
    <3>3. /\ DOMAIN keyInfos' = 1 .. Len(keyInfos) + 1
          /\ \A i \in DOMAIN keyInfos : keyInfos'[i] = keyInfos[i]
          /\ keyInfos'[Len(keyInfos) + 1] = entry
      BY <1>1, <3>2
    <3>4. \A i \in DOMAIN keyInfos : i \in DOMAIN keyInfos'
      BY <1>1, <3>3
    <3>5. Len(keyInfos) + 1 \in DOMAIN keyInfos'
      BY <1>1, <3>3
    <3>6. disk[f] # Absent => keyInfos'[Len(keyInfos) + 1].pair = disk[f]
      BY <3>1, <3>3 DEF Content
    <3>7. ReadIn(w)'
      BY <1>2, <2>1, <2>2, <3>1, <3>3, <3>4, <3>5, <3>6 DEF ReadIn
    <3> QED BY <2>1, <2>2, <3>1, <3>7 DEF Undeceived
  <2> QED BY <1>2, <2>1, <2>2, <2>3, AloneStep
<1>9. CASE Search(w)
  <2> DEFINE new == [job[w] EXCEPT !.stage = "try", !.index = 1, !.count = Len(keyInfos)]
  <2>1. /\ job' = [job EXCEPT ![w] = new] /\ job'[w] = new /\ UNCHANGED keyInfos
        /\ job[w].stage = "update" /\ job[w].names = {}
    BY <1>1, <1>9 DEF Search, Step
  <2>2. new.stage = "try" /\ new.alone = job[w].alone /\ new.names = {}
        /\ new.index = 1 /\ new.index >= 1 /\ new.count = Len(keyInfos)
    BY <1>1, <2>1 DEF Jobs
  <2>3. ASSUME job[w].alone PROVE Undeceived(w)'
    <3>1. ReadIn(w)'
      BY <1>2, <1>3, <2>1, <2>2, <2>3 DEF Undeceived, ReadIn
    <3>2. \A i \in DOMAIN keyInfos : ~(i < 1)
      BY <1>1
    <3> QED BY <2>1, <2>2, <3>1, <3>2 DEF Undeceived
  <2> QED BY <1>2, <2>1, <2>2, <2>3, AloneStep
<1> QED BY <1>4, <1>5, <1>6, <1>7, <1>8, <1>9

\* The steps of readNewKey that leave the worker busy.
LEMMA TryAlone ==
    ASSUME TypeOK, AloneInv, NEW w \in Workers,
           TryKey(w) \/ Announce(w) \/ InstallKey(w)
    PROVE  AloneInv'
<1>1. /\ job[w] \in Jobs(generated, clock)
      /\ job \in [Workers -> Jobs(generated, clock)]
      /\ keyInfos \in Seq(Infos) /\ Len(keyInfos) \in Nat
      /\ DOMAIN keyInfos = 1 .. Len(keyInfos)
  BY JobTypes
<1>2. /\ job[w].stage \in {"try", "found", "installing"}
      /\ w \in Busy
      /\ UNCHANGED <<disk, keyInfos>>
  BY DEF TryKey, Announce, InstallKey, Busy, Step, diskVars
<1>3. job[w].alone => Undeceived(w)
  BY DEF AloneInv
<1>4. CASE TryKey(w)
  <2> DEFINE j == job[w]
             found == [j EXCEPT !.stage = "found"]
             next == [j EXCEPT !.index = @ + 1]
             hit == keyInfos[j.index].pair = j.pair
  <2>1. /\ j.stage = "try" /\ InList(w)
        /\ job' = [job EXCEPT ![w] = IF hit THEN found ELSE next]
    BY <1>4 DEF TryKey, Step
  <2>2. CASE hit
    <3>1. job' = [job EXCEPT ![w] = found] /\ job'[w] = found
      <4> HIDE DEF hit, found, next
      <4> QED BY <1>1, <2>1, <2>2
    <3>2. found.stage = "found" /\ found.alone = j.alone /\ found.index = j.index
      BY <1>1 DEF Jobs
    <3>3. Undeceived(w)'
      BY <1>2, <2>1, <3>1, <3>2 DEF Undeceived, InList
    <3> QED BY <1>2, <3>1, <3>2, <3>3, AloneStep
  <2>3. CASE ~hit
    <3>1. job' = [job EXCEPT ![w] = next] /\ job'[w] = next
      <4> HIDE DEF hit, found, next
      <4> QED BY <1>1, <2>1, <2>3
    <3>2. /\ next.stage = "try" /\ next.alone = j.alone /\ next.index = j.index + 1
          /\ next.names = j.names /\ next.count = j.count /\ next.pair = j.pair
          /\ j.index \in Nat
      BY <1>1, <2>1 DEF Jobs
    <3>3. ASSUME j.alone PROVE Undeceived(w)'
      <4>1. /\ j.names = {} /\ ReadIn(w) /\ j.index >= 1 /\ j.count = Len(keyInfos)
            /\ \A i \in DOMAIN keyInfos : i < j.index => keyInfos[i].pair # j.pair
        BY <1>3, <2>1, <3>3 DEF Undeceived
      <4>2. next.index >= 1
        BY <3>2, <4>1
      <4>3. \A i \in DOMAIN keyInfos : i < j.index + 1 => keyInfos[i].pair # j.pair
        <5> TAKE i \in DOMAIN keyInfos
        <5>1. i < j.index + 1 => i < j.index \/ i = j.index
          BY <1>1, <3>2
        <5> QED BY <2>3, <4>1, <5>1
      <4>4. ReadIn(w)'
        BY <1>2, <3>1, <3>2, <4>1 DEF ReadIn
      <4> QED BY <1>2, <3>1, <3>2, <4>1, <4>2, <4>3, <4>4 DEF Undeceived
    <3> QED BY <1>2, <3>1, <3>2, <3>3, AloneStep
  <2> QED BY <2>2, <2>3
<1>5. CASE Announce(w)
  <2> DEFINE new == [job[w] EXCEPT !.stage = "installing"]
  <2>1. /\ job' = [job EXCEPT ![w] = new] /\ job'[w] = new /\ InList(w)
    BY <1>1, <1>5 DEF Announce, Step
  <2>2. new.stage = "installing" /\ new.alone = job[w].alone /\ new.index = job[w].index
    BY <1>1 DEF Jobs
  <2>3. Undeceived(w)'
    BY <1>2, <2>1, <2>2 DEF Undeceived, InList
  <2> QED BY <1>2, <2>1, <2>2, <2>3, AloneStep
<1>6. CASE InstallKey(w)
  <2> DEFINE new == [job[w] EXCEPT !.stage = "installed"]
  <2>1. /\ job' = [job EXCEPT ![w] = new] /\ job'[w] = new
        /\ key' = job[w].key /\ job[w].stage = "installing"
    BY <1>1, <1>6 DEF InstallKey, Step
  <2>2. new.stage = "installed" /\ new.alone = job[w].alone /\ new.index = job[w].index
        /\ new.key = job[w].key
    BY <1>1 DEF Jobs
  <2>3. job[w].alone => Undeceived(w)'
    BY <1>2, <1>3, <2>1, <2>2 DEF Undeceived, InList
  <2> QED BY <1>2, <2>1, <2>2, <2>3, AloneStep
<1> QED BY <1>4, <1>5, <1>6

\* A worker that ends its exchange is busy no more; one that is alone is.
LEMMA EndAlone ==
    ASSUME TypeOK, AloneInv, NEW w \in Workers, ReturnName(w) \/ Refuse(w)
    PROVE  AloneInv'
<1>1. /\ job' = [job EXCEPT ![w] = Idle] /\ w \in Busy
  BY DEF ReturnName, Refuse, Step, Busy
<1>2. \A v \in Workers : job'[v] = IF v = w THEN Idle ELSE job[v]
  BY <1>1, JobTypes
<1>3. ASSUME NEW v \in Workers, job'[v].alone PROVE FALSE
  <2>1. v # w /\ job[v].alone
    BY <1>2, <1>3 DEF Idle
  <2>2. Busy = {v}
    BY <2>1 DEF AloneInv
  <2> QED BY <1>1, <2>1, <2>2
<1> QED BY <1>3 DEF AloneInv

\* A step that changes neither the jobs nor what they rely on.
LEMMA SameAlone ==
    ASSUME AloneInv, UNCHANGED <<disk, keyInfos, key, job>>
    PROVE  AloneInv'
BY DEF AloneInv, Undeceived, ReadIn, Listed, InList, Content, Busy

\* AloneInv holds after every step.
LEMMA NextAloneInv ==
    ASSUME TypeOK, HeldInv, AloneInv, [Next]_vars
    PROVE  AloneInv'
<1> USE DEF diskVars, exchangeVars
<1>0. job \in [Workers -> Jobs(generated, clock)]
  BY JobTypes
<1>1. ASSUME NEW w \in Workers, NEW m \in wire, PassRateLimit(w, m) PROVE AloneInv'
  <2> DEFINE new == [Idle EXCEPT !.stage = "passed", !.key = m.key, !.pair = m.pair,
                                 !.now = clock]
  <2>1. job' = [job EXCEPT ![w] = new] /\ UNCHANGED <<disk, keyInfos, key>>
        /\ job[w].stage = "idle"
    BY <1>1 DEF PassRateLimit
  <2>2. new.stage = "passed" /\ ~new.alone
    BY DEF Idle
  <2>3. \A v \in Workers : job'[v] = IF v = w THEN new ELSE job[v]
    BY <1>0, <2>1
  <2>4. Busy' = Busy
    BY <2>1, <2>2, <2>3 DEF Busy
  <2>5. ASSUME NEW v \in Workers, job'[v].alone PROVE Busy' = {v} /\ Undeceived(v)'
    <3>1. job'[v] = job[v] /\ Busy = {v} /\ Undeceived(v)
      BY <2>2, <2>3, <2>5 DEF AloneInv
    <3> QED BY <2>1, <2>4, <3>1 DEF Undeceived, ReadIn, Listed, InList, Content
  <2> QED BY <2>5 DEF AloneInv
<1>2. ASSUME NEW w \in Workers, Accept(w) PROVE AloneInv'
  <2> DEFINE free == Busy = {}
             new == [job[w] EXCEPT !.stage = "scan", !.index = 1, !.alone = free,
                                   !.names = {f \in Files : disk[f] # Absent}]
  <2>1. /\ UNCHANGED <<disk, keyInfos, key>>
        /\ job[w].stage = "passed"
        /\ \A v \in Workers : job'[v] = IF v = w THEN new ELSE [job[v] EXCEPT !.alone = FALSE]
    BY <1>2 DEF Accept
  <2>2. job[w].purge = {}
    BY <2>1 DEF HeldInv
  <2>3. new.stage = "scan" /\ new.names = Listed /\ new.purge = {} /\ new.alone = free
    <3> HIDE DEF free
    <3> QED BY <1>0, <2>2 DEF Jobs, Listed
  <2>4. job'[w] = new
    BY <2>1
  <2>5. \A v \in Workers : v # w => ~job'[v].alone /\ job'[v].stage = job[v].stage
    BY <1>0, <2>1 DEF Jobs
  <2>6. ASSUME job'[w].alone PROVE Busy' = {w} /\ Undeceived(w)'
    <3>1. Busy = {}
      BY <2>3, <2>4, <2>6
    <3>2. Busy' = {w}
      BY <2>3, <2>4, <2>5, <3>1 DEF Busy
    <3>3. Undeceived(w)'
      BY <2>1, <2>3, <2>4 DEF Undeceived, Listed
    <3> QED BY <3>2, <3>3
  <2> QED BY <2>5, <2>6 DEF AloneInv
<1>3. ASSUME NEW f \in Files, NEW content \in Contents, ChangeFile(f, content) PROVE AloneInv'
  <2>1. \A w \in Workers : ~job'[w].alone
    BY <1>0, <1>3 DEF ChangeFile, Jobs
  <2> QED BY <2>1 DEF AloneInv
<1>4. ASSUME Restart PROVE AloneInv'
  <2>1. \A w \in Workers : ~job'[w].alone
    BY <1>4 DEF Restart, Idle
  <2> QED BY <2>1 DEF AloneInv
<1>5. ASSUME NEW w \in Workers, WorkerStep(w) PROVE AloneInv'
  BY <1>2, <1>4, <1>5, UpdateAlone, TryAlone, EndAlone DEF WorkerStep, Panic
<1>6. CASE RestartDownstream
  BY <1>4, <1>6 DEF RestartDownstream
<1>7. CASE Tick
  BY <1>7, SameAlone DEF Tick
<1>8. ASSUME NEW s \in Senders,
             (\E pair \in Pairs : SendNewKey(s, pair)) \/ SendPayload(s) \/ Stop(s)
      PROVE  AloneInv'
  BY <1>8, SameAlone DEF SendNewKey, SendPayload, Stop
<1>9. CASE SendNewKeyFails \/ StartWithoutKey
  BY <1>9, SameAlone DEF SendNewKeyFails, StartWithoutKey
<1>10. ASSUME NEW w \in Workers, NEW m \in wire, NEW k \in ReadableKeys, HandlePayload(w, m, k)
       PROVE  AloneInv'
  BY <1>10, SameAlone DEF HandlePayload
<1>11. CASE UNCHANGED vars
  BY <1>11, SameAlone DEF vars
<1> QED BY <1>1, <1>3, <1>5, <1>6, <1>7, <1>8, <1>9, <1>10, <1>11 DEF Next

\* The loop over the keys of a worker that is alone neither ends in vain nor leaves
\* the list.
LEMMA UndisturbedFinds ==
    ASSUME TypeOK, HeldInv, AloneInv, NEW w \in Workers, Undisturbed(w)
    PROVE  ~Refuse(w) /\ ~Panic(w)
<1>1. /\ Undeceived(w) /\ job[w].pair \in PairsOnDisk /\ Readable
      /\ job[w] \in Jobs(generated, clock)
      /\ keyInfos \in Seq(Infos) /\ Len(keyInfos) \in Nat
      /\ DOMAIN keyInfos = 1 .. Len(keyInfos)
  BY JobTypes DEF AloneInv, Undisturbed
<1>2. job[w].index \in Nat /\ job[w].count \in Nat
  BY <1>1 DEF Jobs
<1>3. ASSUME Refuse(w) PROVE FALSE
  <2>1. job[w].stage = "try" /\ job[w].index > job[w].count
    BY <1>3 DEF Refuse
  <2>2. /\ job[w].names = {} /\ ReadIn(w) /\ job[w].count = Len(keyInfos)
        /\ \A i \in DOMAIN keyInfos : i < job[w].index => keyInfos[i].pair # job[w].pair
    BY <1>1, <2>1 DEF Undeceived
  <2>3. PICK f \in Files : disk[f] = job[w].pair
    BY <1>1 DEF PairsOnDisk
  <2>4. disk[f] # Absent
    BY <1>1, <2>3, KeyAssumption DEF PairsOnDisk
  <2>5. PICK i \in DOMAIN keyInfos : keyInfos[i].pair = disk[f]
    BY <2>2, <2>4 DEF ReadIn
  <2>6. i < job[w].index
    BY <1>1, <1>2, <2>1, <2>2
  <2> QED BY <2>2, <2>3, <2>5, <2>6
<1>4. ASSUME Panic(w) PROVE FALSE
  <2>1. CASE job[w].stage = "update" /\ job[w].purge # {}
             /\ Largest(job[w].purge) > Len(keyInfos)
    <3>1. job[w].purge \subseteq 1 .. Len(keyInfos)
      BY <1>1, <2>1 DEF Undeceived
    <3>2. Largest(job[w].purge) \in job[w].purge
      BY <1>1, <2>1, <3>1, LargestIndex
    <3> QED BY <1>1, <2>1, <3>1, <3>2
  <2>2. CASE /\ job[w].stage = "try" /\ job[w].index <= job[w].count
             /\ InList(w) => keyInfos[job[w].index].pair = Unreadable
    <3>1. job[w].index >= 1 /\ job[w].count = Len(keyInfos)
      BY <1>1, <2>2 DEF Undeceived
    <3>2. job[w].index \in DOMAIN keyInfos /\ InList(w)
      BY <1>1, <1>2, <2>2, <3>1 DEF InList
    <3> QED BY <1>1, <2>2, <3>2 DEF Readable
  <2>3. CASE job[w].stage \in {"found", "installed"} /\ ~InList(w)
    BY <1>1, <2>3 DEF Undeceived
  <2> QED BY <1>4, <2>1, <2>2, <2>3 DEF Panic
<1> QED BY <1>3, <1>4

-----------------------------------------------------------------------------
(* The key that payloads must decrypt with.                                *)

\* Keys that are being installed, and go on being so, may be read as before.
LEMMA SameKeys ==
    ASSUME UNCHANGED <<key, granted, failed>>,
           \A v \in Workers : job'[v].stage = "installing" <=> job[v].stage = "installing",
           \A v \in Workers : job[v].stage = "installing" => job'[v].key = job[v].key
    PROVE  ReadableKeys' = ReadableKeys /\ (GrantInv => GrantInv')
<1>1. ASSUME NEW k \in ReadableKeys PROVE k \in ReadableKeys'
  <2>1. CASE k = key
    BY <2>1 DEF ReadableKeys
  <2>2. CASE k # key
    <3>1. PICK v \in Workers : job[v].stage = "installing" /\ job[v].key = k
      BY <1>1, <2>2 DEF ReadableKeys
    <3> QED BY <3>1 DEF ReadableKeys
  <2> QED BY <2>1, <2>2
<1>2. ASSUME NEW k \in ReadableKeys' PROVE k \in ReadableKeys
  <2>1. CASE k = key
    BY <2>1 DEF ReadableKeys
  <2>2. CASE k # key
    <3>1. PICK v \in Workers : job'[v].stage = "installing" /\ job'[v].key = k
      BY <1>2, <2>2 DEF ReadableKeys
    <3> QED BY <3>1 DEF ReadableKeys
  <2> QED BY <2>1, <2>2
<1>3. ReadableKeys' = ReadableKeys
  BY <1>1, <1>2
<1> QED BY <1>3 DEF GrantInv

\* The steps of a worker that handles an exchange.
LEMMA WorkerGrantInv ==
    ASSUME TypeOK, HeldInv, AloneInv, GrantInv, NEW w \in Workers, WorkerStep(w)
    PROVE  GrantInv'
<1>1. /\ job[w] \in Jobs(generated, clock)
      /\ job \in [Workers -> Jobs(generated, clock)]
  BY JobTypes
<1>2. CASE Accept(w)
  BY <1>1, <1>2, SameKeys DEF Accept, Jobs
<1>3. CASE Scan(w)
  <2> DEFINE new == IF job[w].index > Len(keyInfos)
                    THEN [job[w] EXCEPT !.stage = "update"]
                    ELSE [job[w] EXCEPT !.index = @ + 1,
                            !.purge = IF keyInfos[job[w].index].file \in job[w].names
                                      THEN @ ELSE @ \cup {job[w].index}]
  <2>1. job' = [job EXCEPT ![w] = new] /\ job[w].stage = "scan"
        /\ UNCHANGED <<key, granted, failed>>
    BY <1>3 DEF Scan, Step
  <2>2. new.stage \in {"update", "scan"}
    BY <1>1, <2>1 DEF Jobs
  <2> HIDE DEF new
  <2> QED BY <1>1, <2>1, <2>2, SameKeys
<1>4. CASE BeginSplice(w) \/ Splice(w)
  BY <1>1, <1>4, SameKeys DEF BeginSplice, Splice, Step, Jobs
<1>5. CASE ReadFile(w) \/ AddKey(w) \/ Search(w) \/ TryKey(w)
  <2>1. /\ job[w].stage \in {"update", "append", "try"}
        /\ UNCHANGED <<key, granted, failed>>
        /\ \A v \in Workers : v # w => job'[v] = job[v]
    BY <1>1, <1>5 DEF ReadFile, AddKey, Search, TryKey, Step
  <2>2. ReadFile(w) => job'[w].stage \in {"update", "append"}
    BY <1>1 DEF ReadFile, Step, Jobs
  <2>3. ASSUME AddKey(w) PROVE job'[w].stage = "update"
    BY <1>1, <2>3 DEF AddKey, Step, Jobs
  <2>4. ASSUME Search(w) PROVE job'[w].stage = "try"
    BY <1>1, <2>4 DEF Search, Step, Jobs
  <2>5. ASSUME TryKey(w) PROVE job'[w].stage \in {"found", "try"}
    <3> DEFINE hit == keyInfos[job[w].index].pair = job[w].pair
               new == IF hit THEN [job[w] EXCEPT !.stage = "found"]
                             ELSE [job[w] EXCEPT !.index = @ + 1]
    <3>1. job'[w] = new /\ job[w].stage = "try"
      BY <1>1, <2>5 DEF TryKey, Step
    <3>2. new.stage \in {"found", "try"}
      <4> HIDE DEF hit
      <4> QED BY <1>1, <3>1 DEF Jobs
    <3> QED BY <3>1, <3>2
  <2>6. job'[w].stage # "installing"
    BY <1>5, <2>2, <2>3, <2>4, <2>5
  <2> QED BY <2>1, <2>6, SameKeys
<1>6. CASE Announce(w)
  <2> DEFINE new == [job[w] EXCEPT !.stage = "installing"]
  <2>1. /\ \A v \in Workers : job'[v] = IF v = w THEN new ELSE job[v]
        /\ granted' = (IF granted = job[w].key THEN granted ELSE 0)
        /\ UNCHANGED <<key, failed>>
    BY <1>1, <1>6 DEF Announce, Step
  <2>2. new.key = job[w].key
    BY <1>1 DEF Jobs
  <2>3. ASSUME granted' # 0 PROVE ReadableKeys' = {granted'}
    <3>1. granted' = granted /\ granted = job[w].key /\ ReadableKeys = {granted}
      BY <2>1, <2>3 DEF GrantInv
    <3>2. ReadableKeys' \subseteq ReadableKeys \cup {job[w].key} /\ key' \in ReadableKeys'
      BY <2>1, <2>2 DEF ReadableKeys
    <3> QED BY <3>1, <3>2
  <2> QED BY <2>1, <2>3 DEF GrantInv
<1>7. CASE InstallKey(w)
  <2> DEFINE new == [job[w] EXCEPT !.stage = "installed"]
  <2>1. /\ \A v \in Workers : job'[v] = IF v = w THEN new ELSE job[v]
        /\ key' = job[w].key /\ job[w].stage = "installing" /\ UNCHANGED <<granted, failed>>
    BY <1>1, <1>7 DEF InstallKey, Step
  <2>2. new.stage = "installed"
    BY <1>1 DEF Jobs
  <2>3. ASSUME NEW k \in ReadableKeys' PROVE k \in ReadableKeys
    <3>1. CASE k = key'
      BY <2>1, <3>1 DEF ReadableKeys
    <3>2. CASE k # key'
      <4>1. PICK v \in Workers : job'[v].stage = "installing" /\ job'[v].key = k
        BY <2>3, <3>2 DEF ReadableKeys
      <4>2. v # w /\ job'[v] = job[v]
        BY <2>1, <2>2, <4>1
      <4> QED BY <4>1, <4>2 DEF ReadableKeys
    <3> QED BY <3>1, <3>2
  <2>4. key' \in ReadableKeys'
    BY DEF ReadableKeys
  <2> QED BY <2>1, <2>3, <2>4 DEF GrantInv
<1>8. CASE ReturnName(w)
  <2>1. /\ \A v \in Workers : job'[v] = IF v = w THEN Idle ELSE job[v]
        /\ job' = [job EXCEPT ![w] = Idle]
        /\ granted' = (IF Undisturbed(w) THEN job[w].key ELSE granted)
        /\ job[w].stage = "installed" /\ UNCHANGED <<key, failed>>
    BY <1>1, <1>8 DEF ReturnName, Step, End
  <2>2. CASE Undisturbed(w)
    <3>1. Busy = {w} /\ key = job[w].key
      BY <2>1, <2>2 DEF Undisturbed, AloneInv, Undeceived
    <3>2. \A v \in Workers : job'[v].stage # "installing"
      BY <2>1, <3>1 DEF Busy, Idle
    <3>3. ReadableKeys' = {key'}
      BY <3>2 DEF ReadableKeys
    <3> QED BY <2>1, <2>2, <3>1, <3>3 DEF GrantInv
  <2>3. CASE ~Undisturbed(w)
    BY <1>1, <2>1, <2>3, SameKeys DEF Idle
  <2> QED BY <2>2, <2>3
<1>9. CASE Refuse(w)
  <2>1. ~Undisturbed(w)
    BY <1>9, UndisturbedFinds
  <2>2. /\ job' = [job EXCEPT ![w] = Idle] /\ job[w].stage = "try"
        /\ UNCHANGED <<key, granted, failed>>
    BY <1>9, <2>1 DEF Refuse, Step, End
  <2> QED BY <1>1, <2>2, SameKeys DEF Idle
<1>10. CASE Panic(w)
  BY <1>10 DEF Panic, Restart, GrantInv
<1> QED BY <1>2, <1>3, <1>4, <1>5, <1>6, <1>7, <1>8, <1>9, <1>10 DEF WorkerStep

\* GrantInv holds after every step.
LEMMA NextGrantInv ==
    ASSUME TypeOK, HeldInv, AloneInv, GrantInv, [Next]_vars
    PROVE  GrantInv'
<1> USE DEF exchangeVars
<1>1. ASSUME UNCHANGED <<key, granted, job, failed>> PROVE GrantInv'
  BY <1>1 DEF GrantInv, ReadableKeys
<1>2. ASSUME NEW w \in Workers, NEW m \in wire, PassRateLimit(w, m) PROVE GrantInv'
  <2> DEFINE new == [Idle EXCEPT !.stage = "passed", !.key = m.key, !.pair = m.pair,
                                 !.now = clock]
  <2>1. /\ job' = [job EXCEPT ![w] = new] /\ job[w].stage = "idle"
        /\ UNCHANGED <<key, granted, failed>>
    BY <1>2 DEF PassRateLimit
  <2>2. new.stage = "passed"
    BY DEF Idle
  <2> HIDE DEF new
  <2> QED BY <2>1, <2>2, JobTypes, SameKeys
<1>3. ASSUME NEW w \in Workers, NEW m \in wire, NEW k \in ReadableKeys, HandlePayload(w, m, k)
      PROVE  GrantInv'
  <2>1. /\ failed' = (IF k = m.key THEN failed ELSE failed \cup ({m.key} \cap {granted}))
        /\ UNCHANGED <<key, granted, job>>
    BY <1>3 DEF HandlePayload
  <2>2. k # m.key => m.key # granted
    <3>1. m.key # 0
      BY JobTypes
    <3> QED BY <3>1 DEF GrantInv
  <2>3. failed' = {}
    BY <2>1, <2>2 DEF GrantInv
  <2>4. ReadableKeys' = ReadableKeys
    BY <2>1 DEF ReadableKeys
  <2> QED BY <2>1, <2>3, <2>4 DEF GrantInv
<1>4. ASSUME NEW f \in Files, NEW content \in Contents, ChangeFile(f, content) PROVE GrantInv'
  <2>1. /\ \A w \in Workers : job'[w].stage = job[w].stage /\ job'[w].key = job[w].key
        /\ UNCHANGED <<key, granted, failed>>
    BY <1>4, JobTypes DEF ChangeFile, Jobs
  <2> QED BY <2>1, SameKeys
<1>5. CASE RestartDownstream
  BY <1>5 DEF RestartDownstream, Restart, GrantInv
<1>6. CASE Tick
  BY <1>1, <1>6 DEF Tick
<1>7. ASSUME NEW s \in Senders,
             (\E pair \in Pairs : SendNewKey(s, pair)) \/ SendPayload(s) \/ Stop(s)
      PROVE  GrantInv'
  BY <1>1, <1>7 DEF SendNewKey, SendPayload, Stop
<1>8. CASE SendNewKeyFails \/ StartWithoutKey
  BY <1>1, <1>8 DEF SendNewKeyFails, StartWithoutKey
<1>9. CASE UNCHANGED vars
  BY <1>1, <1>9 DEF vars
<1> QED BY <1>2, <1>3, <1>4, <1>5, <1>6, <1>7, <1>8, <1>9, WorkerGrantInv DEF Next

-----------------------------------------------------------------------------
(* The theorems.                                                           *)

KeyInv == TypeOK /\ HeldInv /\ AloneInv /\ GrantInv

\* What handleUdpMessage, readNewKey and readPrivateKeys keep true in every state:
\* the types, what a worker holds in its hands, that an exchange which runs alone
\* knows the list and the files, and that the key it leaves is the one in use.
THEOREM KeyExchangeInvariant == Spec => []KeyInv
<1>1. Init => KeyInv
  <2> SUFFICES ASSUME Init PROVE AloneInv /\ GrantInv
    BY InitTypeOK DEF KeyInv
  <2>1. AloneInv
    BY DEF Init, AloneInv, Idle
  <2>2. GrantInv
    BY DEF Init, GrantInv
  <2> QED BY <2>1, <2>2
<1>2. KeyInv /\ [Next]_vars => KeyInv'
  BY NextTypeOK, NextHeldInv, NextAloneInv, NextGrantInv DEF KeyInv
<1> QED BY <1>1, <1>2, PTL DEF Spec

\* Once readNewKey has run without interference, and its private key was on disk,
\* handleUdpMessage decrypts the payloads under the new key until another one is
\* installed or the process ends, whatever refused, repeated and racing exchanges,
\* file changes and unsynchronised reads of config.key come in between.
THEOREM InstalledKeyDecrypts == Spec => []ExchangedKeyDecrypts
<1>1. KeyInv => ExchangedKeyDecrypts
  BY DEF KeyInv, GrantInv, ExchangedKeyDecrypts
<1> QED BY <1>1, KeyExchangeInvariant, PTL

\* readNewKey, run without interference, finds the private key of the exchange if
\* some file holds it, and indexes no entry that is not there, whatever the workers
\* that ran before, side by side, made of the list.
THEOREM KeyOnDiskFound == Spec => KeyOnDiskIsFound
<1> DEFINE Found == \A w \in Workers : Refuse(w) \/ Panic(w) => ~Undisturbed(w)
<1>1. KeyInv => Found
  BY UndisturbedFinds DEF KeyInv
<1> HIDE DEF Found
<1>2. Spec => [][Found]_vars
  BY <1>1, KeyExchangeInvariant, PTL
<1> QED BY <1>2, PTL DEF KeyOnDiskIsFound, Found

-----------------------------------------------------------------------------
(* The resend job: for any bundle that create writes, any partitions and any *)
(* topic.  Only what was asked for is sent, and all of it.                   *)

\* Stages of a reader; those in which it reads; those in which it holds a message.
Stages == {"none", "lookup", "consume", "read", "limit", "wait", "send", "done"}
Reading == {"consume", "read", "limit", "wait", "send"}
Pending == {"limit", "wait", "send"}
ReaderStates == [stage : Stages, start : Nat, position : Nat, final : Int, armed : BOOLEAN]

\* The topic: a record per offset, between the oldest and the newest.
TopicInv ==
    /\ log \in [Partitions -> SUBSET [offset : Nat, inTime : BOOLEAN]]
    /\ oldest \in [Partitions -> Nat]
    /\ newest \in [Partitions -> Nat]
    /\ \A p \in Partitions : oldest[p] <= newest[p]
    /\ \A p \in Partitions : \A q, r \in log[p] :
          /\ oldest[p] <= r.offset /\ r.offset < newest[p]
          /\ q.offset = r.offset => q = r

\* The results are entries of the bundle that are selected and exist upstream, and
\* the topic does not shrink below what was looked up.
ResultsInv ==
    /\ config \in Configs
    /\ pc \in {"start", "run", "done", "failed"}
    /\ pc \in {"start", "failed"} => DOMAIN results = {}
    /\ DOMAIN results \subseteq Selected(config)
    /\ \A i \in DOMAIN results :
          /\ results[i].partition = config.results[i].partition
          /\ results[i].gaps = config.results[i].gaps
          /\ Upstream(i) \in Partitions
          /\ results[i].lastOffset \in Nat
          /\ results[i].lastOffset <= newest[Upstream(i)]

\* A reader is no farther than the topic, ends no earlier than the offset that was
\* looked up at the start, and holds nothing that was not asked for.
ReaderInv ==
    /\ reader \in [Readers -> ReaderStates]
    /\ \A i \in Readers :
          /\ reader[i].stage = "none" <=> i \notin DOMAIN results
          /\ reader[i].stage = "lookup" => reader[i].position = 0
          /\ reader[i].stage \in Reading =>
                /\ reader[i].position <= newest[Upstream(i)]
                /\ reader[i].final >= results[i].lastOffset - 1
          /\ reader[i].stage \in Pending =>
                /\ reader[i].position > 0
                /\ Requested(results[i].partition, reader[i].position - 1)

\* The offsets below this one have been dealt with.
Passed(r) == IF r.stage \in Pending THEN r.position - 1 ELSE r.position

\* What was sent was asked for, was sent once, and lies behind its reader.
SentInv ==
    /\ pc \in {"start", "failed"} => DOMAIN sent = {}
    /\ \A m \in DOMAIN sent :
          /\ sent[m] = 1
          /\ m.offset \in Nat
          /\ m.partition = m.source + config.start
          /\ Requested(m.partition, m.offset)
          /\ \A i \in DOMAIN results :
                m.partition = results[i].partition => m.offset < Passed(reader[i])

\* The message for an offset of the partition of result i.
Message(i, o) == [partition |-> results[i].partition, offset |-> o, source |-> Upstream(i)]

\* In state r, the reader of result i is through with record q.
Through(i, r, q) ==
    \/ r.stage \in Reading /\ q.offset < Passed(r)
    \/ r.stage = "done" /\ q.offset < results[i].lastOffset

\* What a reader in state r is through with, and had to send, is in S.
Covered(i, r, S) ==
    \A q \in log[Upstream(i)] :
       q.inTime /\ Requested(results[i].partition, q.offset) /\ Through(i, r, q) =>
          Message(i, q.offset) \in S

\* A reader that was not cut short has dealt with all it is through with; the job
\* is done when all readers are.
HandledInv ==
    /\ pc = "done" => \A i \in Readers : reader[i].stage \in {"none", "done"}
    /\ config.plain => \A i \in DOMAIN results \ cut : Covered(i, reader[i], DOMAIN sent \cup lost)

\* The inductive invariant of the job.
JobInv == TopicInv /\ ResultsInv /\ ReaderInv /\ SentInv /\ HandledInv

\* What a configuration is.
LEMMA ConfigFacts ==
    ASSUME NEW c \in Configs
    PROVE  /\ c.start \in Nat /\ c.stop \in Nat /\ c.type \in Types
           /\ DOMAIN c.results \subseteq Readers
           /\ BundleFormed(c)
BY ResendAssumption DEF JobConfigured

\* What the topic holds at the start.
LEMMA LogFacts ==
    ASSUME NEW l \in Logs
    PROVE  /\ l \in [Partitions -> SUBSET [offset : Nat, inTime : BOOLEAN]]
           /\ \A p \in Partitions : \A q, r \in l[p] :
                 r.offset < NrOffsets /\ (q.offset = r.offset => q = r)
<1>1. Records \subseteq [offset : Nat, inTime : BOOLEAN]
  BY ResendAssumption DEF Records, JobConfigured
<1>2. l \in [Partitions -> SUBSET Records] /\ LogFormed(l)
  BY ResendAssumption DEF JobConfigured
<1>3. l \in [Partitions -> SUBSET [offset : Nat, inTime : BOOLEAN]]
  BY <1>1, <1>2
<1> QED BY <1>2, <1>3 DEF LogFormed

\* A change of the topic, without its bound.
LEMMA ChangeFacts ==
    ASSUME NEW old, NEW new, Change(old, new)
    PROVE  oldest' = old /\ newest' = new /\ pc \in {"start", "run"}
BY Zenon DEF Change

\* The first of one.
LEMMA OneFirst ==
    ASSUME NEW rs, NEW i \in Int
    PROVE  FirstOf(rs, {i}) = rs[i]
<1>1. \E k \in {i} : \A j \in {i} : k <= j
  OBVIOUS
<1>2. (CHOOSE k \in {i} : \A j \in {i} : k <= j) = i
  BY <1>1
<1> QED BY <1>2 DEF FirstOf

\* The partition of a reader, downstream and upstream.
LEMMA Shift ==
    ASSUME ResultsInv, NEW i \in DOMAIN results
    PROVE  /\ results[i].partition \in Int
           /\ results[i].partition # -1
           /\ ToDownstream(Upstream(i), config) = results[i].partition
           /\ results[i].partition = Upstream(i) + config.start
           /\ i \in Readers /\ i \in DOMAIN config.results
<1>1. i \in DOMAIN config.results /\ Upstream(i) \in Partitions /\ config \in Configs
  BY DEF ResultsInv, Selected
<1>2. results[i].partition \in Int /\ config.start \in Nat /\ i \in Readers
  BY <1>1, ConfigFacts DEF ResultsInv, BundleFormed
<1>3. Upstream(i) \in Nat
  BY <1>1, ResendAssumption DEF JobConfigured
<1> QED BY <1>1, <1>2, <1>3 DEF Upstream, ToUpstream, ToDownstream

\* A result that is selected belongs to the cluster of the job.
LEMMA InRange ==
    ASSUME ResultsInv, NEW i \in DOMAIN results
    PROVE  \/ config.stop = 0
           \/ results[i].partition \in config.start .. config.start + config.stop - 1
<1>1. i \in Selected(config) /\ config.start \in Nat /\ config.stop \in Nat
  BY ConfigFacts DEF ResultsInv
<1> QED BY <1>1, Shift DEF ResultsInv, Selected, InConfiguredRange

\* The gaps of a result, without the sets of Requested.
Asked(type, gaps, o) ==
    \/ type = "all" /\ \E j \in DOMAIN gaps : gaps[j][1] <= o /\ o <= gaps[j][Len(gaps[j])]
    \/ type = "first" /\ \E j \in DOMAIN gaps : gaps[j][1] <= o
    \/ type = "manual" /\ gaps[1][1] <= o /\ (gaps[1][2] = -1 \/ o <= gaps[1][2])
    \/ type = "time-range"

\* The gaps of a result.
LEMMA GapFacts ==
    ASSUME ResultsInv, NEW i \in DOMAIN results
    PROVE  LET gaps == results[i].gaps IN
           /\ gaps \in Seq(Seq(Int))
           /\ \A j \in DOMAIN gaps : 
                 /\ j \in Nat /\ 1 \in DOMAIN gaps
                 /\ gaps[j] \in Seq(Int) /\ gaps[j] # <<>>
                 /\ Len(gaps[j]) \in {1, 2} /\ gaps[j][1] \in Nat /\ gaps[1][1] <= gaps[j][1]
                 /\ Len(gaps[j]) = 2 => gaps[j][2] \in Int
           /\ config.type \in {"manual", "time-range"} =>
                i = 1 /\ DOMAIN gaps = {1} /\ Len(gaps[1]) = 2
           /\ gaps # <<>> => 1 \in DOMAIN gaps
<1> DEFINE gaps == results[i].gaps
<1>1. i \in DOMAIN config.results /\ gaps = config.results[i].gaps /\ BundleFormed(config)
  BY Shift, ConfigFacts DEF ResultsInv
<1>2. /\ gaps \in Seq(Seq(Int))
      /\ \A j \in DOMAIN gaps :
            Len(gaps[j]) \in {1, 2} /\ gaps[j][1] \in Nat /\ gaps[1][1] <= gaps[j][1]
      /\ config.type \in {"manual", "time-range"} =>
                i = 1 /\ Len(gaps) = 1 /\ Len(gaps[1]) = 2
  BY <1>1 DEF BundleFormed
<1> HIDE DEF gaps
<1>3. \A j \in DOMAIN gaps : 
          /\ j \in Nat /\ 1 \in DOMAIN gaps
          /\ gaps[j] \in Seq(Int) /\ gaps[j] # <<>>
          /\ Len(gaps[j]) = 2 => gaps[j][2] \in Int
  BY <1>2
<1>4. config.type \in {"manual", "time-range"} => DOMAIN gaps = {1}
  BY <1>2
<1>5. gaps # <<>> => 1 \in DOMAIN gaps
  BY <1>2
<1> QED BY <1>2, <1>3, <1>4, <1>5 DEF gaps

\* What is requested of a result depends on its own gaps only.
LEMMA RequestedIsAsked ==
    ASSUME ResultsInv, NEW i \in DOMAIN results, NEW o \in Nat
    PROVE  Requested(results[i].partition, o) <=> Asked(config.type, results[i].gaps, o)
<1> DEFINE r == config.results[i]
           gaps == {r.gaps[j] : j \in DOMAIN r.gaps} \ {<<>>}
           wanted == CASE config.type = "all" -> \E g \in gaps : g[1] <= o /\ o <= g[Len(g)]
                [] config.type = "first" -> \E g \in gaps : g[1] <= o
                [] config.type = "manual" ->
                     \E g \in gaps : g[1] <= o /\ (g[Len(g)] = -1 \/ o <= g[Len(g)])
                [] config.type = "time-range" -> TRUE
<1>1. /\ i \in DOMAIN config.results
      /\ r.partition = results[i].partition
      /\ r.gaps = results[i].gaps
      /\ BundleFormed(config)
      /\ config.type \in Types
  BY Shift, ConfigFacts DEF ResultsInv
<1>2. \A k \in DOMAIN config.results : config.results[k].partition = results[i].partition => k = i
  BY <1>1 DEF BundleFormed
<1>3. Requested(results[i].partition, o) <=> wanted
  BY <1>1, <1>2, InRange DEF Requested
<1>4. wanted <=> Asked(config.type, r.gaps, o)
  <2> HIDE DEF r
  <2>1. \A g : g \in gaps <=> \E j \in DOMAIN r.gaps : g = r.gaps[j]
    BY <1>1, GapFacts
  <2> HIDE DEF gaps
  <2>2. CASE config.type = "all"
    BY <2>1, <2>2 DEF Asked
  <2>3. CASE config.type = "first"
    BY <2>1, <2>3 DEF Asked
  <2>4. CASE config.type = "manual"
    <3>1. DOMAIN r.gaps = {1} /\ Len(r.gaps[1]) = 2
      BY <1>1, <2>4, GapFacts
    <3>2. \A g : g \in gaps <=> g = r.gaps[1]
      BY <2>1, <3>1
    <3> QED BY <2>4, <3>1, <3>2 DEF Asked
  <2>5. CASE config.type = "time-range"
    BY <2>5 DEF Asked
  <2> QED BY <2>2, <2>3, <2>4, <2>5, <1>1 DEF Types
<1> QED BY <1>1, <1>3, <1>4

\* The filter selects what was asked for and nothing else.
LEMMA FilterIsRequested ==
    ASSUME ResultsInv, NEW i \in DOMAIN results, NEW o \in Nat
    PROVE  Filter(config.type, results, results[i].partition, o) <=>
              Requested(results[i].partition, o)
<1> DEFINE match == {k \in DOMAIN results : results[k].partition = results[i].partition}
           r == results[i]
<1>1. match = {i}
  <2>1. \A k \in DOMAIN results : k \in DOMAIN config.results
    BY Shift
  <2>2. BundleFormed(config)
    BY ConfigFacts DEF ResultsInv
  <2> QED BY <2>1, <2>2 DEF ResultsInv, BundleFormed
<1>2. i \in Int /\ config.type \in Types
  BY Shift, ConfigFacts DEF ResultsInv, Readers
<1>3. FirstOf(results, match) = r
  BY <1>1, <1>2, OneFirst
<1>4. config.type \in {"manual", "time-range"} => DOMAIN results = {1} /\ i = 1
  BY GapFacts
<1>5. config.type \in {"manual", "time-range"} => FirstOf(results, DOMAIN results) = r
  BY <1>2, <1>4, OneFirst
<1>6. r.partition # -1
  BY Shift
<1> SUFFICES Filter(config.type, results, r.partition, o) <=> Asked(config.type, r.gaps, o)
  BY RequestedIsAsked
<1>7. CASE config.type = "first"
  <2>1. Filter(config.type, results, r.partition, o) <=>
           match # {} /\ FirstGap(r) /\ o >= r.gaps[1][1]
    BY <1>3, <1>7 DEF Filter
  <2> HIDE DEF match, r
  <2>2. FirstGap(r) <=> 1 \in DOMAIN r.gaps
    BY GapFacts DEF r, FirstGap
  <2>3. Asked(config.type, r.gaps, o) <=> \E j \in DOMAIN r.gaps : r.gaps[j][1] <= o
    BY <1>7 DEF Asked
  <2>4. \A j \in DOMAIN r.gaps : 1 \in DOMAIN r.gaps /\ r.gaps[1][1] \in Nat
                                 /\ r.gaps[j][1] \in Nat /\ r.gaps[1][1] <= r.gaps[j][1]
    BY GapFacts DEF r
  <2> QED BY <1>1, <2>1, <2>2, <2>3, <2>4
<1>8. CASE config.type = "all"
  <2>1. Filter(config.type, results, r.partition, o) <=>
           \E k \in match : \E j \in DOMAIN results[k].gaps : InGap(results[k].gaps[j], o)
    BY <1>8 DEF Filter
  <2>2. Filter(config.type, results, r.partition, o) <=>
           \E j \in DOMAIN r.gaps : InGap(r.gaps[j], o)
    BY <1>1, <2>1
  <2>3. ASSUME NEW j \in DOMAIN r.gaps
        PROVE  InGap(r.gaps[j], o) <=> r.gaps[j][1] <= o /\ o <= r.gaps[j][Len(r.gaps[j])]
    <3> DEFINE g == r.gaps[j]
    <3>1. Len(g) \in {1, 2} /\ g[1] \in Nat /\ (Len(g) = 2 => g[2] \in Int)
      BY GapFacts
    <3> HIDE DEF g
    <3>2. InGap(g, o) <=> g[1] <= o /\ o <= g[Len(g)]
      BY <3>1 DEF InGap
    <3> QED BY <3>2 DEF g
  <2> QED BY <1>8, <2>2, <2>3 DEF Asked
<1>9. CASE config.type = "manual"
  <2>1. FirstGap(r)
    BY <1>9, GapFacts DEF FirstGap
  <2> QED BY <1>4, <1>5, <1>9, <2>1 DEF Filter, Asked
<1>10. CASE config.type = "time-range"
  BY <1>4, <1>5, <1>10 DEF Filter, Asked
<1> QED BY <1>2, <1>7, <1>8, <1>9, <1>10 DEF Types

\* A reader starts at or before the first offset that was asked for.
LEMMA StartIsEarly ==
    ASSUME ResultsInv, NEW i \in DOMAIN results
    PROVE  /\ StartOffset(config.type, results[i]) \in Nat
           /\ \A o \in Nat : Requested(results[i].partition, o) =>
                 StartOffset(config.type, results[i]) <= o
<1> DEFINE r == results[i]
<1>1. FirstGap(r) => 1 \in DOMAIN r.gaps /\ r.gaps[1][1] \in Nat
  BY GapFacts DEF FirstGap
<1>2. StartOffset(config.type, r) \in Nat
  BY <1>1 DEF StartOffset
<1>3. ASSUME NEW o \in Nat, Asked(config.type, r.gaps, o), config.type # "time-range", FirstGap(r)
      PROVE  r.gaps[1][1] <= o
  <2>1. \A j \in DOMAIN r.gaps : r.gaps[1][1] \in Nat /\ r.gaps[j][1] \in Nat
                                 /\ r.gaps[1][1] <= r.gaps[j][1]
    BY GapFacts
  <2> QED BY <1>1, <1>3, <2>1 DEF Asked
<1> QED BY <1>2, <1>3, RequestedIsAsked DEF StartOffset

\* What depends on the bundle and the results only.
LEMMA SameJob ==
    ASSUME config' = config, results' = results
    PROVE  /\ \A i : Upstream(i)' = Upstream(i)
           /\ \A p, o : Requested(p, o)' <=> Requested(p, o)
           /\ \A i, o : Message(i, o)' = Message(i, o)
           /\ \A i, r, q : Through(i, r, q)' <=> Through(i, r, q)
<1>1. \A i : Upstream(i)' = Upstream(i)
  BY DEF Upstream
<1>2. \A p, o : Requested(p, o)' <=> Requested(p, o)
  BY DEF Requested
<1>3. \A i, r, q : Through(i, r, q)' <=> Through(i, r, q)
  BY DEF Through
<1> QED BY <1>1, <1>2, <1>3 DEF Message

\* The invariant holds at the start.
LEMMA JobInitInv == JobInit => JobInv
<1> SUFFICES ASSUME JobInit PROVE JobInv
  OBVIOUS
<1>1. DOMAIN results = {} /\ DOMAIN sent = {}
  BY DEF JobInit, EmptyBag, SetToBag
<1>2. NrOffsets \in Nat
  BY ResendAssumption DEF JobConfigured
<1>3. TopicInv
  BY <1>2, LogFacts DEF JobInit, TopicInv
<1>4. ResultsInv
  BY <1>1 DEF JobInit, ResultsInv
<1>5. ReaderInv
  BY <1>1 DEF JobInit, ReaderInv, ReaderStates, IdleReader, Stages, Reading, Pending
<1>6. SentInv
  BY <1>1 DEF SentInv
<1>7. HandledInv
  BY <1>1 DEF HandledInv, JobInit
<1> QED BY <1>3, <1>4, <1>5, <1>6, <1>7 DEF JobInv

\* A record more in a partition changes nothing for its reader, which has not come
\* that far.
LEMMA ProduceInv ==
    ASSUME JobInv, NEW p \in Partitions, Produce(p)
    PROVE  JobInv'
<1>1. /\ oldest' = oldest /\ newest' = [newest EXCEPT ![p] = @ + 1]
      /\ UNCHANGED <<config, pc, results, reader, sent, lost, cut>>
  BY ChangeFacts DEF Produce, jobVars, wireVars
<1>2. PICK new \in SUBSET [offset : {newest[p]}, inTime : BOOLEAN] :
         /\ log' = [log EXCEPT ![p] = @ \cup new]
         /\ \A q, r \in new : q = r
  <2>1. CASE UNCHANGED log
    <3>1. log' = [log EXCEPT ![p] = @ \cup {}]
      BY <2>1 DEF JobInv, TopicInv
    <3>2. {} \in SUBSET [offset : {newest[p]}, inTime : BOOLEAN]
      OBVIOUS
    <3> QED BY <3>1, <3>2
  <2>2. CASE \E t \in BOOLEAN :
                log' = [log EXCEPT ![p] = @ \cup {[offset |-> newest[p], inTime |-> t]}]
    <3>1. PICK t \in BOOLEAN :
             log' = [log EXCEPT ![p] = @ \cup {[offset |-> newest[p], inTime |-> t]}]
      BY <2>2
    <3> DEFINE one == {[offset |-> newest[p], inTime |-> t]}
    <3>2. one \in SUBSET [offset : {newest[p]}, inTime : BOOLEAN] /\ \A q, r \in one : q = r
      OBVIOUS
    <3>3. log' = [log EXCEPT ![p] = @ \cup one]
      BY <3>1
    <3> HIDE DEF one
    <3> QED BY <3>2, <3>3
  <2> QED BY <2>1, <2>2 DEF Produce
<1>3. /\ newest[p] \in Nat
      /\ \A q \in new : q.offset = newest[p] /\ q \in [offset : Nat, inTime : BOOLEAN]
      /\ \A o \in Partitions : newest'[o] \in Nat /\ newest[o] \in Nat /\ newest[o] <= newest'[o]
      /\ newest'[p] = newest[p] + 1
  BY <1>1 DEF JobInv, TopicInv
<1>4. /\ log'[p] = log[p] \cup new
      /\ \A o \in Partitions \ {p} : log'[o] = log[o] /\ newest'[o] = newest[o]
  BY <1>1, <1>2 DEF JobInv, TopicInv
<1>5. TopicInv'
  <2>1. \A o \in Partitions : log'[o] \subseteq [offset : Nat, inTime : BOOLEAN]
    BY <1>3, <1>4 DEF JobInv, TopicInv
  <2>2. log' \in [Partitions -> SUBSET [offset : Nat, inTime : BOOLEAN]]
    BY <1>2, <2>1 DEF JobInv, TopicInv
  <2>3. newest' \in [Partitions -> Nat] /\ oldest' \in [Partitions -> Nat]
    BY <1>1, <1>3 DEF JobInv, TopicInv
  <2>4. ASSUME NEW o \in Partitions, NEW q \in log'[o], NEW r \in log'[o]
        PROVE  /\ oldest'[o] <= r.offset /\ r.offset < newest'[o]
               /\ q.offset = r.offset => q = r
    <3>1. CASE o # p
      BY <1>1, <1>4, <2>4, <3>1 DEF JobInv, TopicInv
    <3>2. CASE o = p
      <4>1. oldest[p] <= newest[p]
        BY DEF JobInv, TopicInv
      <4> QED BY <1>1, <1>2, <1>3, <1>4, <2>4, <3>2, <4>1 DEF JobInv, TopicInv
    <3> QED BY <3>1, <3>2
  <2>5. \A o \in Partitions : oldest'[o] <= newest'[o]
    BY <1>1, <1>3, <1>4 DEF JobInv, TopicInv
  <2> QED BY <2>2, <2>3, <2>4, <2>5 DEF TopicInv
<1>6. ResultsInv'
  BY <1>1, <1>3, ConfigFacts DEF JobInv, ResultsInv, Upstream, TopicInv
<1>7. ReaderInv'
  BY <1>1, <1>3, SameJob DEF JobInv, ReaderInv, ResultsInv, ReaderStates, Reading, Pending
<1>8. SentInv'
  BY <1>1, SameJob DEF JobInv, SentInv
<1>9. HandledInv'
  <2>1. ASSUME NEW i \in DOMAIN results \ cut, config.plain
        PROVE  Covered(i, reader[i], DOMAIN sent \cup lost)'
    <3>1. i \in Readers /\ Upstream(i) \in Partitions
      BY <2>1, Shift DEF JobInv, ResultsInv
    <3>2. Covered(i, reader[i], DOMAIN sent \cup lost)
      BY <2>1 DEF JobInv, HandledInv
    <3>3. \A q \in new : Upstream(i) = p => ~Through(i, reader[i], q)
      BY <1>3, <2>1, <3>1 DEF JobInv, ResultsInv, ReaderInv, ReaderStates, Through, Passed, Reading, Pending
    <3>4. \A q \in log'[Upstream(i)] : q \in log[Upstream(i)] \/ (Upstream(i) = p /\ q \in new)
      BY <1>4, <3>1
    <3> QED BY <1>1, <3>2, <3>3, <3>4, SameJob DEF Covered
  <2> QED BY <1>1, <2>1 DEF JobInv, HandledInv
<1> QED BY <1>5, <1>6, <1>7, <1>8, <1>9 DEF JobInv

\* Records that are gone need not be sent.
LEMMA ExpireInv ==
    ASSUME JobInv, NEW p \in Partitions, Expire(p)
    PROVE  JobInv'
<1>1. PICK o \in oldest[p] + 1 .. newest[p] :
         /\ Change([oldest EXCEPT ![p] = o], newest)
         /\ log' = [log EXCEPT ![p] = {r \in @ : r.offset >= o}]
  BY DEF Expire
<1>2. /\ oldest' = [oldest EXCEPT ![p] = o] /\ newest' = newest
      /\ UNCHANGED <<config, pc, results, reader, sent, lost, cut>>
  BY <1>1, ChangeFacts DEF Expire, jobVars, wireVars
<1>3. o \in Nat /\ o <= newest[p]
  BY DEF JobInv, TopicInv
<1>4. /\ log' \in [Partitions -> SUBSET [offset : Nat, inTime : BOOLEAN]]
      /\ \A x \in Partitions : log'[x] \subseteq log[x]
      /\ \A r \in log'[p] : r.offset >= o
      /\ \A x \in Partitions \ {p} : log'[x] = log[x]
  BY <1>1 DEF JobInv, TopicInv
<1>5. TopicInv'
  BY <1>2, <1>3, <1>4 DEF JobInv, TopicInv
<1>6. ResultsInv'
  BY <1>2, SameJob DEF JobInv, ResultsInv
<1>7. ReaderInv'
  BY <1>2, SameJob DEF JobInv, ReaderInv
<1>8. SentInv'
  BY <1>2, SameJob DEF JobInv, SentInv
<1>9. HandledInv'
  <2>1. ASSUME NEW i \in DOMAIN results \ cut, config.plain
        PROVE  Covered(i, reader[i], DOMAIN sent \cup lost)'
    <3>1. Upstream(i) \in Partitions
      BY <2>1 DEF JobInv, ResultsInv
    <3>2. Covered(i, reader[i], DOMAIN sent \cup lost)
      BY <2>1 DEF JobInv, HandledInv
    <3> QED BY <1>2, <1>4, <3>1, <3>2, SameJob DEF Covered
  <2> QED BY <1>2, <2>1 DEF JobInv, HandledInv
<1> QED BY <1>5, <1>6, <1>7, <1>8, <1>9 DEF JobInv

\* The readers start with nothing read and nothing sent.
LEMMA StartReadersInv ==
    ASSUME JobInv, StartReaders
    PROVE  JobInv'
<1> DEFINE kept == Selected(config)
           rs == config.results
<1>1. /\ pc = "start" /\ pc' = "run"
      /\ Mapped(kept)
      /\ results' = [i \in kept |-> [partition |-> rs[i].partition, gaps |-> rs[i].gaps,
                                     lastOffset |-> newest[ToUpstream(rs[i].partition, config)]]]
      /\ reader' = [i \in Readers |->
                      IF i \in kept THEN [IdleReader EXCEPT !.stage = "lookup"] ELSE IdleReader]
      /\ UNCHANGED <<log, oldest, newest, config, sent, lost, cut>>
  BY DEF StartReaders, topicVars, wireVars
<1>2. kept \subseteq Readers
  BY ConfigFacts DEF JobInv, ResultsInv, Selected
<1>3. DOMAIN sent = {}
  BY <1>1 DEF JobInv, SentInv
<1>4. \A i \in kept : /\ results'[i].partition = rs[i].partition
                      /\ results'[i].gaps = rs[i].gaps
                      /\ results'[i].lastOffset = newest[ToUpstream(rs[i].partition, config)]
  BY <1>1
<1>5. DOMAIN results' = kept
  BY <1>1
<1>6. \A i \in Readers : /\ reader'[i] \in ReaderStates
                         /\ reader'[i].stage = IF i \in kept THEN "lookup" ELSE "none"
                         /\ reader'[i].position = 0
  <2> DEFINE started == [IdleReader EXCEPT !.stage = "lookup"]
  <2>1. IdleReader \in ReaderStates /\ IdleReader.stage = "none" /\ IdleReader.position = 0
    BY DEF IdleReader, ReaderStates, Stages
  <2>2. started \in ReaderStates /\ started.stage = "lookup" /\ started.position = 0
    BY <2>1 DEF ReaderStates, Stages
  <2>3. \A i \in Readers : reader'[i] = IF i \in kept THEN started ELSE IdleReader
    BY <1>1
  <2> HIDE DEF kept, started
  <2> QED BY <2>1, <2>2, <2>3
<1>7. reader' \in [Readers -> ReaderStates]
  BY <1>1, <1>6
<1>8. \A i \in kept : /\ Upstream(i)' = ToUpstream(rs[i].partition, config)
                      /\ Upstream(i)' \in Partitions
  BY <1>1, <1>4 DEF Upstream, Mapped
<1> HIDE DEF kept, rs
<1>9. TopicInv'
  BY <1>1 DEF JobInv, TopicInv
<1>10. ResultsInv'
  <2>1. Selected(config)' = kept /\ config' \in Configs
    BY <1>1 DEF kept, JobInv, ResultsInv
  <2>2. \A i \in kept : newest'[Upstream(i)'] \in Nat /\ results'[i].lastOffset = newest'[Upstream(i)']
    BY <1>1, <1>4, <1>8 DEF JobInv, TopicInv
  <2>3. config'.results = rs
    BY <1>1 DEF rs
  <2> QED BY <1>1, <1>4, <1>5, <1>8, <2>1, <2>2, <2>3 DEF ResultsInv
<1>11. ReaderInv'
  BY <1>5, <1>6, <1>7 DEF ReaderInv, Reading, Pending
<1>12. SentInv'
  BY <1>1, <1>3 DEF SentInv
<1>13. HandledInv'
  <2>1. \A i \in kept : Covered(i, reader[i], DOMAIN sent \cup lost)'
    BY <1>2, <1>6 DEF Covered, Through, Reading
  <2> QED BY <1>1, <1>5, <2>1 DEF HandledInv
<1> QED BY <1>9, <1>10, <1>11, <1>12, <1>13 DEF JobInv

\* A step of the job that leaves the readers and the wire alone.
LEMMA OtherJobInv ==
    ASSUME JobInv, StartFails \/ Sigterm \/ Finish \/ UNCHANGED resendVars
    PROVE  JobInv'
<1>1. /\ UNCHANGED <<log, oldest, newest, config, results, reader, sent, lost, cut>>
      /\ \/ pc' = pc
         \/ pc = "start" /\ pc' = "failed"
         \/ pc = "run" /\ pc' = "done" /\ \A i \in Readers : reader[i].stage \in {"none", "done"}
  BY DEF StartFails, Sigterm, Finish, resendVars, topicVars, wireVars
<1>2. TopicInv' /\ ReaderInv'
  BY <1>1, SameJob DEF JobInv, TopicInv, ReaderInv
<1>3. ResultsInv'
  BY <1>1, SameJob DEF JobInv, ResultsInv
<1>4. SentInv'
  BY <1>1, SameJob DEF JobInv, SentInv
<1>5. HandledInv'
  <2>1. \A i, r : Covered(i, r, DOMAIN sent \cup lost)' <=> Covered(i, r, DOMAIN sent \cup lost)
    BY <1>1, SameJob DEF Covered
  <2> QED BY <1>1, <2>1 DEF JobInv, HandledInv
<1> QED BY <1>2, <1>3, <1>4, <1>5 DEF JobInv

\* A reader takes a step into state r.
LEMMA ReaderStep ==
    ASSUME JobInv, NEW i \in Readers, NEW r \in ReaderStates,
           reader[i].stage \notin {"none", "done"},
           reader' = [reader EXCEPT ![i] = r],
           UNCHANGED <<topicVars, jobVars>>,
           r.stage \notin {"none", "lookup"},
           r.stage \in Reading => /\ r.position <= newest[Upstream(i)]
                                  /\ r.final >= results[i].lastOffset - 1,
           r.stage \in Pending => /\ r.position > 0
                                  /\ Requested(results[i].partition, r.position - 1),
           cut \subseteq cut',
           DOMAIN sent \subseteq DOMAIN sent', lost \subseteq lost',
           config.plain /\ i \notin cut' => Covered(i, r, DOMAIN sent' \cup lost')
    PROVE  TopicInv' /\ ResultsInv' /\ ReaderInv' /\ HandledInv'
<1>1. UNCHANGED <<log, oldest, newest, config, pc, results>>
  BY DEF topicVars, jobVars
<1>2. /\ reader'[i] = r
      /\ \A k \in Readers \ {i} : reader'[k] = reader[k]
      /\ reader' \in [Readers -> ReaderStates]
  BY DEF JobInv, ReaderInv
<1>3. i \in DOMAIN results
  BY DEF JobInv, ReaderInv
<1>4. TopicInv'
  BY <1>1 DEF JobInv, TopicInv
<1>5. ResultsInv'
  BY <1>1, SameJob DEF JobInv, ResultsInv
<1>6. ReaderInv'
  BY <1>1, <1>2, <1>3, SameJob DEF JobInv, ReaderInv
<1>7. HandledInv'
  <2>1. pc # "done"
    BY DEF JobInv, HandledInv
  <2>2. ASSUME NEW k \in DOMAIN results \ cut', config.plain
        PROVE  Covered(k, reader'[k], DOMAIN sent' \cup lost')
    <3>1. CASE k = i
      BY <1>2, <2>2, <3>1
    <3>2. CASE k # i
      <4>1. Covered(k, reader[k], DOMAIN sent \cup lost) /\ k \in Readers
        BY <2>2, Shift DEF JobInv, HandledInv
      <4> QED BY <1>2, <3>2, <4>1 DEF Covered
    <3> QED BY <3>1, <3>2
  <2>3. \A k, x, S : Covered(k, x, S)' <=> Covered(k, x, S)
    BY <1>1, SameJob DEF Covered
  <2> QED BY <1>1, <2>1, <2>2, <2>3 DEF HandledInv
<1> QED BY <1>4, <1>5, <1>6, <1>7

\* A reader that sends nothing and does not go back.
LEMMA QuietStep ==
    ASSUME JobInv, NEW i \in Readers, NEW r \in ReaderStates,
           reader' = [reader EXCEPT ![i] = r],
           UNCHANGED <<topicVars, jobVars, sent>>,
           Passed(reader[i]) <= Passed(r)
    PROVE  SentInv'
<1>1. UNCHANGED <<config, pc, results, sent>>
  BY DEF jobVars
<1>2. \A k \in Readers : /\ Passed(reader[k]) \in Int /\ Passed(reader'[k]) \in Int
                         /\ Passed(reader[k]) <= Passed(reader'[k])
  BY DEF JobInv, ReaderInv, ReaderStates, Passed
<1>3. DOMAIN results \subseteq Readers
  BY Shift DEF JobInv
<1>4. ASSUME NEW m \in DOMAIN sent, NEW k \in DOMAIN results, m.partition = results[k].partition
      PROVE  m.offset < Passed(reader'[k])
  <2>1. m.offset \in Nat /\ m.offset < Passed(reader[k])
    BY <1>4 DEF JobInv, SentInv
  <2> QED BY <1>2, <1>3, <2>1
<1> QED BY <1>1, <1>4, SameJob DEF JobInv, SentInv

\* The state of a reader with another stage.
LEMMA WithStage ==
    ASSUME NEW r \in ReaderStates, NEW s \in Stages
    PROVE  LET x == [r EXCEPT !.stage = s] IN
           /\ x \in ReaderStates
           /\ x.stage = s /\ x.position = r.position /\ x.final = r.final
BY DEF ReaderStates

\* The state in which a reader leaves.
LEMMA Ended ==
    ASSUME NEW r \in ReaderStates
    PROVE  LET x == [r EXCEPT !.stage = "done", !.armed = FALSE] IN
           /\ x \in ReaderStates
           /\ x.stage = "done" /\ x.position = r.position
BY DEF ReaderStates, Stages

\* A reader leaves: early, or with everything sent that it had to send.
LEMMA LeaveInv ==
    ASSUME JobInv, NEW i \in Readers, NEW early \in BOOLEAN, Leave(i, early),
           reader[i].stage \in {"lookup", "consume", "read"},
           UNCHANGED <<topicVars, jobVars, wireVars>>,
           ~early /\ config.plain /\ i \notin cut =>
              \A q \in log[Upstream(i)] :
                 /\ q.offset < results[i].lastOffset
                 /\ q.inTime /\ Requested(results[i].partition, q.offset)
                 => Message(i, q.offset) \in DOMAIN sent \cup lost
    PROVE  JobInv'
<1> DEFINE x == [reader[i] EXCEPT !.stage = "done", !.armed = FALSE]
<1>1. reader[i] \in ReaderStates /\ reader \in [Readers -> ReaderStates]
  BY DEF JobInv, ReaderInv
<1>2. x \in ReaderStates /\ x.stage = "done" /\ x.position = reader[i].position
  BY <1>1, Ended
<1>3. reader' = [reader EXCEPT ![i] = x]
  BY <1>1 DEF Leave
<1>4. UNCHANGED <<sent, lost>>
  BY DEF wireVars
<1>5. cut \subseteq cut' /\ (i \notin cut' => ~early)
  BY DEF Leave
<1> HIDE DEF x
<1>6. config.plain /\ i \notin cut' => Covered(i, x, DOMAIN sent' \cup lost')
  BY <1>2, <1>4, <1>5 DEF Covered, Through, Reading
<1>7. x.stage \notin {"none", "lookup"} /\ x.stage \notin Reading /\ x.stage \notin Pending
  BY <1>2 DEF Reading, Pending
<1>8. TopicInv' /\ ResultsInv' /\ ReaderInv' /\ HandledInv'
  <2>1. /\ reader[i].stage \notin {"none", "done"}
        /\ DOMAIN sent \subseteq DOMAIN sent' /\ lost \subseteq lost'
        /\ UNCHANGED <<topicVars, jobVars>>
    BY <1>4
  <2> QED BY <1>2, <1>3, <1>5, <1>6, <1>7, <2>1, ReaderStep
<1>9. SentInv'
  <2>1. Passed(reader[i]) <= Passed(x)
    BY <1>1, <1>2 DEF Passed, Pending, ReaderStates
  <2>2. UNCHANGED <<topicVars, jobVars, sent>>
    BY <1>4
  <2> QED BY <1>2, <1>3, <2>1, <2>2, QuietStep
<1> QED BY <1>8, <1>9 DEF JobInv

\* The callback returns to a reader in state r: all below its position is settled.
LEMMA ReturnInv ==
    ASSUME JobInv, NEW i \in Readers, NEW r \in ReaderStates, Return(i, r),
           reader[i].stage \in {"read", "wait", "send"},
           UNCHANGED <<topicVars, jobVars>>,
           r.position <= newest[Upstream(i)],
           r.final >= results[i].lastOffset - 1,
           cut \subseteq cut',
           DOMAIN sent \subseteq DOMAIN sent', lost \subseteq lost',
           config.plain /\ i \notin cut' =>
              \A q \in log[Upstream(i)] :
                 /\ q.offset < r.position
                 /\ q.inTime /\ Requested(results[i].partition, q.offset)
                 => Message(i, q.offset) \in DOMAIN sent' \cup lost'
    PROVE  /\ TopicInv' /\ ResultsInv' /\ ReaderInv' /\ HandledInv'
           /\ \E x \in ReaderStates : reader' = [reader EXCEPT ![i] = x] /\ Passed(x) = r.position
<1>1. PICK x \in ReaderStates :
         /\ reader' = [reader EXCEPT ![i] = x]
         /\ x.position = r.position
         /\ \/ x.stage = "done" /\ r.position - 1 >= r.final
            \/ x.stage = "read" /\ x.final = r.final
  <2>1. CASE r.position - 1 >= r.final
    BY <2>1, Ended DEF Return
  <2>2. CASE ~(r.position - 1 >= r.final)
    <3> DEFINE y == [r EXCEPT !.stage = "read"]
    <3>1. y \in ReaderStates /\ y.stage = "read" /\ y.position = r.position /\ y.final = r.final
      BY WithStage DEF Stages
    <3>2. reader' = [reader EXCEPT ![i] = y]
      BY <2>2 DEF Return
    <3> HIDE DEF y
    <3> QED BY <3>1, <3>2
  <2> QED BY <2>1, <2>2
<1>2. i \in DOMAIN results
  BY DEF JobInv, ReaderInv
<1>3. results[i].lastOffset \in Nat /\ r.position \in Nat /\ r.final \in Int
  BY <1>2 DEF JobInv, ResultsInv, ReaderStates
<1>4. \A q \in log[Upstream(i)] : q.offset \in Nat
  BY <1>2 DEF JobInv, ResultsInv, TopicInv
<1>5. \A q \in log[Upstream(i)] : Through(i, x, q) => q.offset < r.position
  BY <1>1, <1>3, <1>4 DEF Through, Passed, Pending, Reading
<1>6. config.plain /\ i \notin cut' => Covered(i, x, DOMAIN sent' \cup lost')
  BY <1>5 DEF Covered
<1>7. /\ x.stage \notin {"none", "lookup"} /\ x.stage \notin Pending
      /\ x.stage \in Reading => x.position <= newest[Upstream(i)]
                                /\ x.final >= results[i].lastOffset - 1
      /\ reader[i].stage \notin {"none", "done"}
  BY <1>1 DEF Pending, Reading
<1>8. TopicInv' /\ ResultsInv' /\ ReaderInv' /\ HandledInv'
  BY <1>1, <1>6, <1>7, ReaderStep
<1>9. Passed(x) = r.position
  BY <1>1 DEF Passed, Pending
<1> QED BY <1>1, <1>8, <1>9

\* What is known of a reader that is not done.
LEMMA ReaderFacts ==
    ASSUME JobInv, NEW i \in Readers, reader[i].stage \notin {"none", "done"}
    PROVE  /\ i \in DOMAIN results /\ Upstream(i) \in Partitions
           /\ reader \in [Readers -> ReaderStates] /\ reader[i] \in ReaderStates
           /\ reader[i].position \in Nat /\ reader[i].final \in Int
           /\ newest[Upstream(i)] \in Nat /\ oldest[Upstream(i)] \in Nat
           /\ results[i].lastOffset \in Nat /\ results[i].lastOffset <= newest[Upstream(i)]
           /\ reader[i].stage \in Reading =>
                 /\ reader[i].position <= newest[Upstream(i)]
                 /\ reader[i].final >= results[i].lastOffset - 1
           /\ \A q \in log[Upstream(i)] :
                 q.offset \in Nat /\ oldest[Upstream(i)] <= q.offset /\ q.offset < newest[Upstream(i)]
           /\ config.plain /\ i \notin cut => Covered(i, reader[i], DOMAIN sent \cup lost)
<1>1. i \in DOMAIN results
  BY DEF JobInv, ReaderInv
<1>2. reader \in [Readers -> ReaderStates] /\ reader[i] \in ReaderStates
  BY DEF JobInv, ReaderInv
<1>3. Upstream(i) \in Partitions
  BY <1>1 DEF JobInv, ResultsInv
<1>4. reader[i].position \in Nat /\ reader[i].final \in Int
  BY <1>2 DEF ReaderStates
<1>5. /\ newest[Upstream(i)] \in Nat /\ oldest[Upstream(i)] \in Nat
      /\ \A q \in log[Upstream(i)] :
            q.offset \in Nat /\ oldest[Upstream(i)] <= q.offset /\ q.offset < newest[Upstream(i)]
  BY <1>3 DEF JobInv, TopicInv
<1>6. results[i].lastOffset \in Nat /\ results[i].lastOffset <= newest[Upstream(i)]
  BY <1>1 DEF JobInv, ResultsInv
<1>7. reader[i].stage \in Reading => /\ reader[i].position <= newest[Upstream(i)]
                                     /\ reader[i].final >= results[i].lastOffset - 1
  BY DEF JobInv, ReaderInv
<1>8. config.plain /\ i \notin cut => Covered(i, reader[i], DOMAIN sent \cup lost)
  BY <1>1 DEF JobInv, HandledInv
<1> QED BY <1>1, <1>2, <1>3, <1>4, <1>5, <1>6, <1>7, <1>8

\* What lies before the first gap, or has expired, is not to be sent.
LEMMA LookupInv ==
    ASSUME JobInv, NEW i \in Readers, Lookup(i)
    PROVE  JobInv'
<1> DEFINE from == StartOffset(config.type, results[i])
<1>1. PICK n \in {newest[Upstream(i)], -1}, o \in {oldest[Upstream(i)], -1} :
         LET start == IF from < o THEN o ELSE from IN
         IF start >= n
         THEN Leave(i, n = -1)
         ELSE /\ reader' = [reader EXCEPT ![i] =
                              [stage |-> "consume", start |-> start, position |-> start,
                               final |-> n - 1, armed |-> FALSE]]
              /\ UNCHANGED cut
  BY DEF Lookup
<1>2. /\ reader[i].stage = "lookup"
      /\ UNCHANGED <<topicVars, jobVars, wireVars>>
      /\ UNCHANGED <<sent, lost>>
  BY DEF Lookup, wireVars
<1> DEFINE start == IF from < o THEN o ELSE from
           up == Upstream(i)
<1>3. reader[i].stage \notin {"none", "done"}
  BY <1>2
<1>4. i \in DOMAIN results
  BY <1>3, ReaderFacts
<1>5. /\ newest[up] \in Nat /\ oldest[up] \in Nat
      /\ results[i].lastOffset \in Nat /\ results[i].lastOffset <= newest[up]
      /\ \A q \in log[up] : q.offset \in Nat /\ oldest[up] <= q.offset /\ q.offset < newest[up]
  BY <1>3, ReaderFacts
<1>6. /\ from \in Nat
      /\ \A k \in Nat : Requested(results[i].partition, k) => from <= k
  BY <1>4, StartIsEarly DEF JobInv
<1>7. start \in Nat
  BY <1>5, <1>6
<1>8. \A q \in log[up] : Requested(results[i].partition, q.offset) => start <= q.offset
  BY <1>5, <1>6
<1> HIDE DEF from, up
<1>9. CASE start >= n
  <2>1. Leave(i, n = -1)
    BY <1>1, <1>9 DEF from
  <2>2. ASSUME n # -1, NEW q \in log[up], q.offset < results[i].lastOffset
        PROVE  ~Requested(results[i].partition, q.offset)
    <3>1. n = newest[up]
      BY <2>2 DEF up
    <3> HIDE DEF start
    <3> QED BY <1>5, <1>7, <1>8, <1>9, <2>2, <3>1
  <2>3. (n = -1) \in BOOLEAN /\ reader[i].stage \in {"lookup", "consume", "read"}
    BY <1>2
  <2> QED BY <1>2, <2>1, <2>2, <2>3, LeaveInv DEF up
<1>10. CASE ~(start >= n)
  <2> DEFINE x == [stage |-> "consume", start |-> start, position |-> start,
                   final |-> n - 1, armed |-> FALSE]
  <2>1. reader' = [reader EXCEPT ![i] = x] /\ UNCHANGED cut
    BY <1>1, <1>10 DEF from
  <2>2. n = newest[up] /\ start < n
    BY <1>5, <1>7, <1>10 DEF up
  <2> HIDE DEF start
  <2>3. x \in ReaderStates /\ x.stage = "consume" /\ x.position = start /\ x.final = n - 1
    BY <1>5, <1>7, <2>2 DEF ReaderStates, Stages
  <2> HIDE DEF x
  <2>4. x.stage \notin {"none", "lookup"} /\ x.stage \notin Pending
    BY <2>3 DEF Pending
  <2>5. x.position <= newest[Upstream(i)] /\ x.final >= results[i].lastOffset - 1
    BY <1>5, <1>7, <2>2, <2>3 DEF up
  <2>6. Covered(i, x, DOMAIN sent' \cup lost')
    BY <1>5, <1>7, <1>8, <2>3, <2>4 DEF Covered, Through, Passed, up
  <2>7. TopicInv' /\ ResultsInv' /\ ReaderInv' /\ HandledInv'
    BY <1>2, <1>3, <2>1, <2>3, <2>4, <2>5, <2>6, ReaderStep
  <2>8. reader[i].position = 0 /\ Passed(reader[i]) = 0
    BY <1>2 DEF JobInv, ReaderInv, Passed, Pending
  <2>9. Passed(reader[i]) <= Passed(x)
    BY <1>7, <2>3, <2>4, <2>8 DEF Passed
  <2>10. SentInv'
    BY <1>2, <2>1, <2>3, <2>9, QuietStep
  <2> QED BY <2>7, <2>10 DEF JobInv
<1> QED BY <1>9, <1>10

\* A reader in one of the stages before a send moves on and keeps its position.
LEMMA MoveInv ==
    ASSUME JobInv, NEW i \in Readers, NEW s \in Stages,
           reader' = [reader EXCEPT ![i].stage = s],
           \/ reader[i].stage = "consume" /\ s = "read"
           \/ reader[i].stage \in Pending /\ s \in Pending,
           UNCHANGED <<topicVars, jobVars, wireVars, cut>>
    PROVE  JobInv'
<1> DEFINE x == [reader[i] EXCEPT !.stage = s]
<1>1. reader[i].stage \notin {"none", "done"} /\ reader[i].stage \in Reading
  BY DEF Pending, Reading
<1>2. reader \in [Readers -> ReaderStates] /\ reader[i] \in ReaderStates
  BY <1>1, ReaderFacts
<1>3. /\ x \in ReaderStates /\ x.stage = s
      /\ x.position = reader[i].position /\ x.final = reader[i].final
  BY <1>2, WithStage
<1>4. reader' = [reader EXCEPT ![i] = x]
  BY <1>2
<1>5. UNCHANGED <<sent, lost>>
  BY DEF wireVars
<1> HIDE DEF x
<1>6. /\ x.stage \notin {"none", "lookup"} /\ x.stage \in Reading
      /\ Passed(x) = Passed(reader[i])
  BY <1>3 DEF Pending, Reading, Passed
<1>7. x.position <= newest[Upstream(i)] /\ x.final >= results[i].lastOffset - 1
  BY <1>1, <1>3, ReaderFacts
<1>8. x.stage \in Pending => /\ x.position > 0
                             /\ Requested(results[i].partition, x.position - 1)
  BY <1>3 DEF JobInv, ReaderInv, Pending
<1>9. config.plain /\ i \notin cut' => Covered(i, x, DOMAIN sent' \cup lost')
  <2>1. config.plain /\ i \notin cut => Covered(i, reader[i], DOMAIN sent \cup lost)
    BY <1>1, ReaderFacts
  <2>2. \A q : Through(i, x, q) => Through(i, reader[i], q)
    BY <1>1, <1>6 DEF Through, Reading
  <2> QED BY <1>5, <2>1, <2>2 DEF Covered
<1>10. TopicInv' /\ ResultsInv' /\ ReaderInv' /\ HandledInv'
  BY <1>1, <1>3, <1>4, <1>5, <1>6, <1>7, <1>8, <1>9, ReaderStep
<1>11. Passed(reader[i]) <= Passed(x)
  <2>1. Passed(reader[i]) \in Int
    BY <1>2 DEF Passed, ReaderStates
  <2> QED BY <1>6, <2>1
<1>12. SentInv'
  BY <1>3, <1>4, <1>5, <1>11, QuietStep
<1> QED BY <1>10, <1>12 DEF JobInv

\* ConsumePartition starts the read or ends the reader.
LEMMA ConsumeInv ==
    ASSUME JobInv, NEW i \in Readers, Consume(i)
    PROVE  JobInv'
<1>1. reader[i].stage = "consume" /\ UNCHANGED <<topicVars, jobVars, wireVars>>
  BY DEF Consume
<1>2. CASE reader' = [reader EXCEPT ![i].stage = "read"] /\ UNCHANGED cut
  <2>1. "read" \in Stages
    BY DEF Stages
  <2> QED BY <1>1, <1>2, <2>1, MoveInv
<1>3. CASE Leave(i, TRUE)
  BY <1>1, <1>3, LeaveInv
<1> QED BY <1>2, <1>3 DEF Consume

\* The limiter does not change what a reader holds.
LEMMA LimiterInv ==
    ASSUME JobInv, NEW i \in Readers, PassLimiter(i) \/ BeginWait(i) \/ EndWait(i)
    PROVE  JobInv'
<1>1. PICK s \in {"wait", "send"} :
         /\ reader' = [reader EXCEPT ![i].stage = s]
         /\ reader[i].stage \in Pending
         /\ UNCHANGED <<topicVars, jobVars, wireVars, cut>>
  BY DEF PassLimiter, BeginWait, EndWait, Pending
<1>2. s \in Stages /\ s \in Pending
  BY DEF Stages, Pending
<1> QED BY <1>1, <1>2, MoveInv

\* The reader leaves with nothing left to read, or before its end.
LEMMA EndInv ==
    ASSUME JobInv, NEW i \in Readers, Stall(i) \/ Closed(i) \/ Cancel(i)
    PROVE  JobInv'
<1>1. /\ reader[i].stage \in {"lookup", "read"}
      /\ UNCHANGED <<topicVars, jobVars, wireVars>>
      /\ \/ Leave(i, TRUE)
         \/ reader[i].stage = "read" /\ Leave(i, Unread(i) # {})
  BY DEF Stall, Closed, Cancel
<1>2. CASE Leave(i, TRUE)
  BY <1>1, <1>2, LeaveInv
<1>3. CASE reader[i].stage = "read" /\ Leave(i, Unread(i) # {})
  <2>1. ASSUME Unread(i) = {}, config.plain, i \notin cut, NEW q \in log[Upstream(i)],
               q.inTime, Requested(results[i].partition, q.offset)
        PROVE  Message(i, q.offset) \in DOMAIN sent \cup lost
    <3>1. reader[i].stage \notin {"none", "done"}
      BY <1>3
    <3>2. q.offset \in Nat /\ reader[i].position \in Nat
      BY <3>1, ReaderFacts
    <3>3. q.offset < Passed(reader[i])
      BY <1>3, <2>1, <3>2 DEF Unread, Passed, Pending
    <3>4. Through(i, reader[i], q)
      BY <1>3, <3>3 DEF Through, Reading
    <3>5. Covered(i, reader[i], DOMAIN sent \cup lost)
      BY <2>1, <3>1, ReaderFacts
    <3> QED BY <2>1, <3>4, <3>5 DEF Covered
  <2>2. (Unread(i) # {}) \in BOOLEAN
    OBVIOUS
  <2> QED BY <1>1, <1>3, <2>1, <2>2, LeaveInv
<1> QED BY <1>1, <1>2, <1>3

\* What is asked for goes to the limiter; the rest is passed over.
LEMMA DeliverInv ==
    ASSUME JobInv, NEW i \in Readers, Deliver(i)
    PROVE  JobInv'
<1> DEFINE next(r) == [RestartTimer(reader[i]) EXCEPT !.position = r.offset + 1]
           chosen(r) == /\ r.inTime
                        /\ config.plain
                        /\ Filter(config.type, results, ToDownstream(Upstream(i), config), r.offset)
<1>1. /\ reader[i].stage = "read"
      /\ UNCHANGED <<topicVars, jobVars, sent, lost, cut>>
  BY DEF Deliver, wireVars
<1>2. PICK r \in Unread(i) :
         /\ \A q \in Unread(i) : r.offset <= q.offset
         /\ IF chosen(r)
            THEN reader' = [reader EXCEPT ![i] = [next(r) EXCEPT !.stage = "limit"]]
            ELSE Return(i, next(r))
  BY DEF Deliver
<1> HIDE DEF next, chosen
<1>3. reader[i].stage \notin {"none", "done"} /\ reader[i].stage \in Reading
  BY <1>1 DEF Reading
<1>4. /\ i \in DOMAIN results /\ reader[i] \in ReaderStates /\ Upstream(i) \in Partitions
      /\ reader[i].position \in Nat /\ newest[Upstream(i)] \in Nat
      /\ reader[i].final \in Int /\ results[i].lastOffset \in Nat
      /\ reader[i].final >= results[i].lastOffset - 1
      /\ \A q \in log[Upstream(i)] : q.offset \in Nat /\ q.offset < newest[Upstream(i)]
  BY <1>3, ReaderFacts
<1>5. /\ r \in log[Upstream(i)] /\ r.offset \in Nat
      /\ reader[i].position <= r.offset /\ r.offset + 1 <= newest[Upstream(i)]
  BY <1>4 DEF Unread
<1>6. /\ next(r) \in ReaderStates
      /\ next(r).position = r.offset + 1 /\ next(r).final = reader[i].final
  <2> DEFINE y == RestartTimer(reader[i])
  <2>1. y \in ReaderStates /\ y.final = reader[i].final
    BY <1>4 DEF RestartTimer, ReaderStates
  <2> HIDE DEF y
  <2>2. next(r) = [y EXCEPT !.position = r.offset + 1]
    BY DEF next, y
  <2> QED BY <1>5, <2>1, <2>2 DEF ReaderStates
<1>7. chosen(r) <=> r.inTime /\ config.plain /\ Requested(results[i].partition, r.offset)
  <2>1. ToDownstream(Upstream(i), config) = results[i].partition
    BY <1>4, Shift DEF JobInv
  <2>2. Filter(config.type, results, results[i].partition, r.offset) <=>
           Requested(results[i].partition, r.offset)
    BY <1>4, <1>5, FilterIsRequested DEF JobInv
  <2> QED BY <2>1, <2>2 DEF chosen
<1>8. ASSUME config.plain, i \notin cut, NEW q \in log[Upstream(i)], q.offset < r.offset,
             q.inTime, Requested(results[i].partition, q.offset)
      PROVE  Message(i, q.offset) \in DOMAIN sent \cup lost
  <2>1. q.offset < reader[i].position
    BY <1>2, <1>4, <1>5, <1>8 DEF Unread
  <2>2. Through(i, reader[i], q)
    BY <1>1, <2>1 DEF Through, Passed, Pending, Reading
  <2>3. Covered(i, reader[i], DOMAIN sent \cup lost)
    BY <1>3, <1>8, ReaderFacts
  <2> QED BY <1>8, <2>2, <2>3 DEF Covered
<1>9. CASE chosen(r)
  <2> DEFINE x == [next(r) EXCEPT !.stage = "limit"]
  <2>1. /\ x \in ReaderStates /\ x.stage = "limit"
        /\ x.position = r.offset + 1 /\ x.final = reader[i].final
    BY <1>6, WithStage DEF Stages
  <2>2. reader' = [reader EXCEPT ![i] = x]
    BY <1>2, <1>9
  <2> HIDE DEF x
  <2>3. x.stage \notin {"none", "lookup"} /\ x.stage \in Reading /\ x.stage \in Pending
    BY <2>1 DEF Reading, Pending
  <2>4. Passed(x) = r.offset
    BY <1>5, <2>1, <2>3 DEF Passed
  <2>5. /\ x.position <= newest[Upstream(i)] /\ x.final >= results[i].lastOffset - 1
        /\ x.position > 0 /\ x.position - 1 = r.offset
    BY <1>4, <1>5, <2>1
  <2>6. Requested(results[i].partition, x.position - 1)
    BY <1>7, <1>9, <2>5
  <2>7. config.plain /\ i \notin cut' => Covered(i, x, DOMAIN sent' \cup lost')
    BY <1>1, <1>8, <2>1, <2>4 DEF Covered, Through
  <2>8. TopicInv' /\ ResultsInv' /\ ReaderInv' /\ HandledInv'
    BY <1>1, <1>3, <2>1, <2>2, <2>3, <2>5, <2>6, <2>7, ReaderStep
  <2>9. Passed(reader[i]) <= Passed(x)
    BY <1>1, <1>4, <1>5, <2>4 DEF Passed, Pending
  <2>10. SentInv'
    BY <1>1, <2>1, <2>2, <2>9, QuietStep
  <2> QED BY <2>8, <2>10 DEF JobInv
<1>10. CASE ~chosen(r)
  <2>1. Return(i, next(r))
    BY <1>2, <1>10
  <2>2. ASSUME config.plain, i \notin cut', NEW q \in log[Upstream(i)],
               q.offset < next(r).position, q.inTime, Requested(results[i].partition, q.offset)
        PROVE  Message(i, q.offset) \in DOMAIN sent' \cup lost'
    <3>1. CASE q.offset < r.offset
      BY <1>1, <1>8, <2>2, <3>1
    <3>2. CASE q.offset = r.offset
      <4>1. q = r
        BY <1>4, <1>5, <3>2 DEF JobInv, TopicInv
      <4> QED BY <1>7, <1>10, <2>2, <4>1
    <3> QED BY <1>4, <1>5, <1>6, <2>2, <3>1, <3>2
  <2>3. /\ next(r).position <= newest[Upstream(i)] /\ next(r).final >= results[i].lastOffset - 1
        /\ reader[i].stage \in {"read", "wait", "send"}
    BY <1>1, <1>4, <1>5, <1>6
  <2>4. /\ TopicInv' /\ ResultsInv' /\ ReaderInv' /\ HandledInv'
        /\ \E x \in ReaderStates : /\ reader' = [reader EXCEPT ![i] = x]
                                   /\ Passed(x) = next(r).position
    BY <1>1, <1>6, <2>1, <2>2, <2>3, ReturnInv
  <2>5. PICK x \in ReaderStates : /\ reader' = [reader EXCEPT ![i] = x]
                                  /\ Passed(x) = next(r).position
    BY <2>4
  <2>6. Passed(reader[i]) <= Passed(x)
    BY <1>1, <1>4, <1>5, <1>6, <2>5 DEF Passed, Pending
  <2>7. SentInv'
    BY <1>1, <2>5, <2>6, QuietStep
  <2> QED BY <2>4, <2>7 DEF JobInv
<1> QED BY <1>9, <1>10

\* The wait of a reader is cancelled, which counts as cut short.
LEMMA CancelWaitInv ==
    ASSUME JobInv, NEW i \in Readers, CancelWait(i)
    PROVE  JobInv'
<1>1. /\ reader[i].stage = "wait" /\ Return(i, reader[i]) /\ cut' = cut \cup {i}
      /\ UNCHANGED <<topicVars, jobVars, sent, lost>>
  BY DEF CancelWait, wireVars
<1>2. reader[i].stage \notin {"none", "done"} /\ reader[i].stage \in Reading
  BY <1>1 DEF Reading
<1>3. /\ reader[i] \in ReaderStates /\ reader[i].position \in Nat
      /\ reader[i].position <= newest[Upstream(i)]
      /\ reader[i].final >= results[i].lastOffset - 1
  BY <1>2, ReaderFacts
<1>4. /\ TopicInv' /\ ResultsInv' /\ ReaderInv' /\ HandledInv'
      /\ \E x \in ReaderStates : /\ reader' = [reader EXCEPT ![i] = x]
                                 /\ Passed(x) = reader[i].position
  <2>1. /\ reader[i].stage \in {"read", "wait", "send"}
        /\ cut \subseteq cut' /\ i \in cut'
        /\ DOMAIN sent \subseteq DOMAIN sent' /\ lost \subseteq lost'
    BY <1>1
  <2> QED BY <1>1, <1>3, <2>1, ReturnInv
<1>5. PICK x \in ReaderStates : /\ reader' = [reader EXCEPT ![i] = x]
                                /\ Passed(x) = reader[i].position
  BY <1>4
<1>6. Passed(reader[i]) <= Passed(x)
  BY <1>3, <1>5 DEF Passed
<1>7. SentInv'
  BY <1>1, <1>5, <1>6, QuietStep
<1> QED BY <1>4, <1>7 DEF JobInv

\* The message that a reader sends has not been sent before.
LEMMA SendInv ==
    ASSUME JobInv, NEW i \in Readers, Send(i)
    PROVE  JobInv'
<1> DEFINE m == Message(i, reader[i].position - 1)
<1>1. reader[i].stage = "send" /\ Return(i, reader[i]) /\ UNCHANGED <<topicVars, jobVars, cut>>
  BY DEF Send
<1>2. /\ reader[i].stage \notin {"none", "done"} /\ reader[i].stage \in Reading
      /\ reader[i].stage \in Pending
  BY <1>1 DEF Reading, Pending
<1>3. /\ i \in DOMAIN results
      /\ reader[i] \in ReaderStates /\ reader[i].position \in Nat
      /\ reader[i].position <= newest[Upstream(i)]
      /\ reader[i].final >= results[i].lastOffset - 1
      /\ \A q \in log[Upstream(i)] : q.offset \in Nat
  BY <1>2, ReaderFacts
<1>4. reader[i].position > 0 /\ Requested(results[i].partition, reader[i].position - 1)
  BY <1>2 DEF JobInv, ReaderInv
<1>5. /\ ToDownstream(Upstream(i), config) = results[i].partition
      /\ results[i].partition = Upstream(i) + config.start
  BY <1>3, Shift DEF JobInv
<1>6. \/ sent' = sent (+) SetToBag({m}) /\ UNCHANGED lost
      \/ lost' = lost \cup {m} /\ UNCHANGED sent
  BY <1>5 DEF Send, Message
<1>7. m.partition = results[i].partition /\ m.offset = reader[i].position - 1 /\ m.source = Upstream(i)
  BY DEF Message
<1>8. m \notin DOMAIN sent
  <2>1. SUFFICES ASSUME m \in DOMAIN sent PROVE FALSE
    OBVIOUS
  <2>2. m.offset < Passed(reader[i])
    BY <1>3, <1>7, <2>1 DEF JobInv, SentInv
  <2> QED BY <1>2, <1>3, <1>7, <2>2 DEF Passed
<1> HIDE DEF m
<1>9. \/ /\ DOMAIN sent' = DOMAIN sent \cup {m} /\ lost' = lost
         /\ sent'[m] = 1 /\ \A k \in DOMAIN sent : sent'[k] = sent[k]
      \/ sent' = sent /\ lost' = lost \cup {m}
  <2>1. CASE sent' = sent (+) SetToBag({m}) /\ UNCHANGED lost
    <3>1. sent' = [e \in DOMAIN sent \cup {m} |-> (IF e \in DOMAIN sent THEN sent[e] ELSE 0)
                                                  + (IF e \in {m} THEN 1 ELSE 0)]
      BY <2>1 DEF (+), SetToBag
    <3>2. \A k \in DOMAIN sent : sent[k] = 1
      BY DEF JobInv, SentInv
    <3> QED BY <1>8, <2>1, <3>1, <3>2
  <2> QED BY <1>6, <2>1
<1>10. /\ DOMAIN sent \subseteq DOMAIN sent' /\ lost \subseteq lost'
       /\ m \in DOMAIN sent' \cup lost'
       /\ DOMAIN sent' \subseteq DOMAIN sent \cup {m}
  BY <1>9
<1>11. ASSUME config.plain, i \notin cut', NEW q \in log[Upstream(i)],
              q.offset < reader[i].position, q.inTime, Requested(results[i].partition, q.offset)
       PROVE  Message(i, q.offset) \in DOMAIN sent' \cup lost'
  <2>1. CASE q.offset = reader[i].position - 1
    BY <1>10, <2>1 DEF m
  <2>2. CASE q.offset < reader[i].position - 1
    <3>1. Through(i, reader[i], q)
      BY <1>2, <2>2 DEF Through, Passed
    <3>2. Covered(i, reader[i], DOMAIN sent \cup lost)
      BY <1>1, <1>2, <1>11, ReaderFacts
    <3> QED BY <1>10, <1>11, <3>1, <3>2 DEF Covered
  <2> QED BY <1>3, <1>11, <2>1, <2>2
<1>12. /\ TopicInv' /\ ResultsInv' /\ ReaderInv' /\ HandledInv'
       /\ \E x \in ReaderStates : /\ reader' = [reader EXCEPT ![i] = x]
                                  /\ Passed(x) = reader[i].position
  <2>1. reader[i].stage \in {"read", "wait", "send"} /\ cut \subseteq cut'
    BY <1>1
  <2> QED BY <1>1, <1>3, <1>10, <1>11, <2>1, ReturnInv
<1>13. PICK x \in ReaderStates : /\ reader' = [reader EXCEPT ![i] = x]
                                 /\ Passed(x) = reader[i].position
  BY <1>12
<1>14. SentInv'
  <2>1. config' = config /\ pc' = pc /\ results' = results
    BY <1>1 DEF jobVars
  <2>2. pc \notin {"start", "failed"}
    BY <1>3 DEF JobInv, ResultsInv
  <2>3. DOMAIN results \subseteq Readers
    BY Shift DEF JobInv
  <2>4. reader'[i] = x /\ \A k \in Readers \ {i} : reader'[k] = reader[k]
    BY <1>13 DEF JobInv, ReaderInv
  <2>5. ASSUME NEW k \in DOMAIN results, k # i
        PROVE  results[k].partition # results[i].partition
    <3>1. BundleFormed(config)
      BY ConfigFacts DEF JobInv, ResultsInv
    <3>2. i \in DOMAIN config.results /\ k \in DOMAIN config.results
      BY <1>3, Shift DEF JobInv
    <3> QED BY <1>3, <2>5, <3>1, <3>2 DEF JobInv, ResultsInv, BundleFormed
  <2>6. ASSUME NEW n \in DOMAIN sent'
        PROVE  /\ sent'[n] = 1
               /\ n.offset \in Nat
               /\ n.partition = n.source + config.start
               /\ Requested(n.partition, n.offset)
               /\ \A k \in DOMAIN results :
                     n.partition = results[k].partition => n.offset < Passed(reader'[k])
    <3>1. CASE n \in DOMAIN sent
      <4>1. /\ sent[n] = 1 /\ n.offset \in Nat
            /\ n.partition = n.source + config.start /\ Requested(n.partition, n.offset)
            /\ \A k \in DOMAIN results :
                  n.partition = results[k].partition => n.offset < Passed(reader[k])
        BY <3>1 DEF JobInv, SentInv
      <4>2. sent'[n] = 1
        BY <1>9, <3>1, <4>1
      <4>3. Passed(reader[i]) = reader[i].position - 1
        BY <1>2 DEF Passed
      <4>4. ASSUME NEW k \in DOMAIN results, n.partition = results[k].partition
            PROVE  n.offset < Passed(reader'[k])
        <5>1. CASE k = i
          BY <1>3, <1>13, <2>4, <4>1, <4>3, <4>4, <5>1
        <5>2. CASE k # i
          BY <2>3, <2>4, <4>1, <4>4, <5>2
        <5> QED BY <5>1, <5>2
      <4> QED BY <4>1, <4>2, <4>4
    <3>2. CASE n \notin DOMAIN sent
      <4>1. n = m /\ sent'[n] = 1
        BY <1>9, <2>6, <3>2
      <4>2. n.offset \in Nat
        BY <1>3, <1>4, <1>7, <4>1
      <4>3. n.partition = n.source + config.start /\ Requested(n.partition, n.offset)
        BY <1>4, <1>5, <1>7, <4>1
      <4>4. ASSUME NEW k \in DOMAIN results, n.partition = results[k].partition
            PROVE  n.offset < Passed(reader'[k])
        <5>1. k = i
          BY <1>7, <2>5, <4>1, <4>4
        <5> QED BY <1>3, <1>7, <1>13, <2>4, <4>1, <5>1
      <4> QED BY <4>1, <4>2, <4>3, <4>4
    <3> QED BY <3>1, <3>2
  <2> QED BY <2>1, <2>2, <2>6, SameJob DEF SentInv
<1> QED BY <1>12, <1>14 DEF JobInv

\* Every step keeps the invariant.
LEMMA JobStepInv ==
    ASSUME JobInv, [JobNext]_resendVars
    PROVE  JobInv'
<1>1. ASSUME NEW p \in Partitions, Produce(p) \/ Expire(p) PROVE JobInv'
  BY <1>1, ProduceInv, ExpireInv
<1>2. ASSUME NEW i \in Readers, Read(i) PROVE JobInv'
  BY <1>2, LookupInv, ConsumeInv, DeliverInv, LimiterInv, CancelWaitInv, SendInv, EndInv DEF Read
<1>3. CASE StartReaders
  BY <1>3, StartReadersInv
<1>4. CASE StartFails \/ Sigterm \/ Finish \/ UNCHANGED resendVars
  BY <1>4, OtherJobInv
<1> QED BY <1>1, <1>2, <1>3, <1>4 DEF JobNext

\* The invariant of the job.
LEMMA JobInvariant == JobSpec => []JobInv
BY JobInitInv, JobStepInv, PTL DEF JobSpec

\* Whatever is written, expires, fails or is cancelled meanwhile, a resend job sends
\* only what the bundle asks for of its own cluster, each message once and under the
\* id that upstream used.
THEOREM OnlyRequestedIsSent == JobSpec => []OnlyRequestedSent
<1>1. JobInv => OnlyRequestedSent
  BY DEF JobInv, SentInv, OnlyRequestedSent, BagToSet
<1> QED BY <1>1, JobInvariant, PTL

\* A job that ends has handed every record to the network that was asked for, was
\* there when it began and is still there, but for refused messages and readers that
\* were cut short.
THEOREM AllRequestedIsSent == JobSpec => []AllRequestedSent
<1>1. JobInv => AllRequestedSent
  <2> SUFFICES ASSUME JobInv, pc = "done", config.plain,
                      NEW i \in DOMAIN results \ cut, NEW r \in log[Upstream(i)],
                      r.inTime, r.offset < results[i].lastOffset,
                      Requested(results[i].partition, r.offset)
               PROVE  Message(i, r.offset) \in BagToSet(sent) \cup lost
    BY DEF AllRequestedSent, Message
  <2>1. i \in Readers /\ reader[i].stage = "done"
    BY Shift DEF JobInv, HandledInv, ReaderInv
  <2>2. Covered(i, reader[i], DOMAIN sent \cup lost)
    BY DEF JobInv, HandledInv
  <2>3. Through(i, reader[i], r)
    BY <2>1 DEF Through
  <2> QED BY <2>2, <2>3 DEF Covered, BagToSet
<1> QED BY <1>1, JobInvariant, PTL
=============================================================================
