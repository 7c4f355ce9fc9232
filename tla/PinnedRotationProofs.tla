------------------------ MODULE PinnedRotationProofs ------------------------
(***************************************************************************)
(* Safety of the rotation of pinned keys, for every number of keys and of  *)
(* connections and every number of faults, edits and retries.              *)
(***************************************************************************)
EXTENDS PinnedRotation, FiniteSetTheorems, TLAPS

-----------------------------------------------------------------------------
(* The inductive invariant.                                                *)

\* Upstream holds an open connection for the exchange from the dial to the
\* answer, beside the one for data, and the request on it is for its candidate.
ClientInv ==
    /\ client.stage # "run" => client.up /\ client.candidate \in Keys
    /\ client.stage \in {"dialed", "begun", "requested"} <=> rot # 0
    /\ rot # 0 => conn[rot].open /\ conn[rot].stage # "unused" /\ rot # data
    /\ data # 0 => conn[data].open /\ conn[data].stage # "unused"
    /\ client.stage \in {"begun", "requested"} => conn[rot].new = client.candidate
    /\ client.stage \in {"saved", "dialed", "begun", "requested", "accepted"} =>
         recovery.new = client.candidate

\* A connection has a key, and names a replacement from begin on.
ConnInv ==
    \A c \in Slots :
        /\ conn[c].stage # "unused" => conn[c].key \in Keys
        /\ conn[c].stage \in {"begin", "challenged", "request", "commit"} => conn[c].new \in Keys
        /\ conn[c].reply # "none" => conn[c].stage = "done"

\* The lock is held for a request; what will be activated holds what is active.
CommitInv ==
    /\ ~server => active = {}
    /\ commit # NoCommit => conn[commit.slot].stage = "commit"
    /\ commit.step = "committed" => active \subseteq commit.pins

\* An entry is written for an exchange that is on record, and had not been
\* written when the record was made.
JournalInv ==
    /\ \A id \in Keys \X Keys : installs[id] > 0 => Recorded(id[1], id[2])
    /\ commit # NoCommit =>
         LET o == conn[commit.slot].key
             n == conn[commit.slot].new
         IN  /\ Recorded(o, n)
             /\ commit.step = "intent" /\ ~commit.exists => installs[<<o, n>>] = 0

\* The keys that downstream accepts, or would if nobody had taken them out.
Trusted == dir \cup removed

\* A replacement is trusted before the record says committed, and before
\* upstream is told.
GrantInv ==
    /\ commit.step = "committed" => conn[commit.slot].new \in Trusted
    /\ \A c \in Slots : conn[c].reply = "accepted" => conn[c].new \in Trusted

\* Upstream goes on to a key that is trusted, and until then it can go back to
\* the one it has.
TrustInv ==
    /\ client.stage \in {"accepted", "cleared"} => client.candidate \in Trusted
    /\ files # "used" =>
         /\ client.up => client.key \in Trusted
         /\ recovery # NoRecovery => recovery.old \in Trusted
         /\ files = "read" =>
              identity \in Trusted \/ (recovery # NoRecovery /\ recovery.new = identity)

Inv ==
    /\ ClientInv /\ ConnInv /\ CommitInv /\ JournalInv /\ GrantInv /\ TrustInv
    /\ SessionsAuthorized /\ InstalledOnce

-----------------------------------------------------------------------------
(* Types.                                                                  *)

LEMMA Constants ==
    /\ NrKeys \in Nat \ {0} /\ NrSlots \in Nat \ {0}
    /\ 1 \in Keys /\ 0 \notin Keys /\ 0 \notin Slots
    /\ MaxRotationRecords \in Nat
  BY RotationAssumption DEF Keys, Slots

\* A record takes the place of the one for the same exchange, or adds one.
LEMMA RecordOnce ==
    ASSUME NEW o \in Keys, NEW n \in Keys, NEW state \in {"intent", "committed"},
           journal \subseteq RotationRecord,
           IsFiniteSet(journal), Cardinality(journal) <= MaxRotationRecords,
           Recorded(o, n) \/ Cardinality(journal) < MaxRotationRecords
    PROVE  /\ Record(o, n, state) \subseteq RotationRecord
           /\ IsFiniteSet(Record(o, n, state))
           /\ Cardinality(Record(o, n, state)) <= MaxRotationRecords
           /\ \A p, q : (\E r \in Record(o, n, state) : r.old = p /\ r.new = q)
                           <=> Recorded(p, q) \/ (p = o /\ q = n)
  <1> DEFINE rest == {r \in journal : <<r.old, r.new>> # <<o, n>>}
             rec == [old |-> o, new |-> n, state |-> state]
  <1>1. Record(o, n, state) = rest \cup {rec}
    BY DEF Record
  <1>2. /\ rec \in RotationRecord
        /\ rec.old = o /\ rec.new = n
    BY DEF RotationRecord
  <1>3. IsFiniteSet(rest) /\ Cardinality(rest) \in Nat /\ Cardinality(journal) \in Nat
    BY FS_Subset, FS_CardinalityType
  <1>4. /\ IsFiniteSet(rest \cup {rec})
        /\ Cardinality(rest \cup {rec}) <= Cardinality(rest) + 1
        /\ Cardinality(rest \cup {rec}) \in Nat
    <2> HIDE DEF rest, rec
    <2>1. /\ IsFiniteSet(rest \cup {rec})
          /\ \/ Cardinality(rest \cup {rec}) = Cardinality(rest)
             \/ Cardinality(rest \cup {rec}) = Cardinality(rest) + 1
      BY <1>3, FS_AddElement
    <2>. QED
      BY <1>3, <2>1
  <1>5. Cardinality(rest) + 1 <= MaxRotationRecords
    <2>1. CASE Recorded(o, n)
      <3>1. PICK r \in journal : r.old = o /\ r.new = n
        BY <2>1 DEF Recorded
      <3>2. rest \subseteq journal \ {r}
        BY <3>1
      <3>3. IsFiniteSet(journal \ {r}) /\ Cardinality(journal \ {r}) = Cardinality(journal) - 1
        BY <3>1, FS_RemoveElement
      <3>4. Cardinality(rest) <= Cardinality(journal \ {r})
        BY <3>2, <3>3, FS_Subset
      <3>. QED
        BY <1>3, <3>3, <3>4, Constants
    <2>2. CASE Cardinality(journal) < MaxRotationRecords
      <3>1. Cardinality(rest) <= Cardinality(journal)
        BY FS_Subset
      <3>. QED
        BY <1>3, <2>2, <3>1, Constants
    <2>. QED
      BY <2>1, <2>2
  <1>6. Cardinality(rest \cup {rec}) <= MaxRotationRecords
    BY <1>3, <1>4, <1>5, Constants
  <1>7. ASSUME NEW p, NEW q
        PROVE  (\E r \in rest \cup {rec} : r.old = p /\ r.new = q)
                 <=> Recorded(p, q) \/ (p = o /\ q = n)
    BY <1>2 DEF Recorded
  <1>. QED
    BY <1>1, <1>2, <1>4, <1>6, <1>7

LEMMA TypeInit == Init => TypeOK
  <1> SUFFICES ASSUME Init PROVE TypeOK
    OBVIOUS
  <1>1. IsFiniteSet({}) /\ Cardinality({}) = 0
    BY FS_EmptySet
  <1>2. conn \in [Slots -> Connection] /\ installs \in [Keys \X Keys -> Nat]
    BY DEF Init, Unused, Connection
  <1>3. client \in ClientState /\ (client.up <=> client.key # 0)
    BY Constants DEF Init, ClientState
  <1>4. /\ identity \in Keys /\ dir \cup active \cup aged \cup removed \subseteq Keys
        /\ journal \subseteq RotationRecord
        /\ IsFiniteSet(journal) /\ Cardinality(journal) <= MaxRotationRecords
    BY <1>1, Constants DEF Init
  <1>. QED
    BY <1>2, <1>3, <1>4 DEF Init, TypeOK, Commit

\* What the steps do to the record of upstream and to those of connections.
LEMMA ClientUpdates ==
    ASSUME TypeOK
    PROVE  /\ \A s \in {"run", "saved", "dialed", "begun", "requested", "accepted", "cleared"} :
                client' = [client EXCEPT !.stage = s] =>
                    client' \in ClientState /\ client'.key = client.key
                      /\ client'.up = client.up /\ client'.stage = s
                      /\ client'.candidate = client.candidate
           /\ client.key \in Keys \cup {0} /\ client.candidate \in Keys \cup {0}
  BY DEF TypeOK, ClientState

LEMMA ConnUpdates ==
    ASSUME TypeOK, NEW c \in Slots
    PROVE  /\ conn[c] \in Connection
           /\ \A s \in {"unused", "verified"} \cup Registered :
                conn' = [conn EXCEPT ![c].stage = s] => conn' \in [Slots -> Connection]
           /\ HangUp(c) => conn' \in [Slots -> Connection]
           /\ conn' = [conn EXCEPT ![c] = Unused] => conn' \in [Slots -> Connection]
           /\ \A r \in {"accepted", "rejected"} : Reply(c, r) => conn' \in [Slots -> Connection]
  <1>1. Unused \in Connection /\ conn[c] \in Connection /\ conn \in [Slots -> Connection]
    BY DEF Unused, Connection, TypeOK
  <1>2. ASSUME NEW s \in {"unused", "verified"} \cup Registered
        PROVE  [conn[c] EXCEPT !.stage = s] \in Connection
    BY <1>1 DEF Connection
  <1>3. [conn[c] EXCEPT !.open = FALSE] \in Connection
    BY <1>1 DEF Connection
  <1>4. ASSUME NEW r \in {"accepted", "rejected"}
        PROVE  [conn[c] EXCEPT !.stage = "done", !.reply = r] \in Connection
    BY <1>1 DEF Connection, Registered
  <1>5. ASSUME NEW x \in Connection, conn' = [conn EXCEPT ![c] = x]
        PROVE  conn' \in [Slots -> Connection]
    BY <1>1, <1>5
  <1>6. HangUp(c) => conn' \in [Slots -> Connection]
    BY <1>3, <1>5 DEF HangUp
  <1>7. ASSUME NEW r \in {"accepted", "rejected"}, Reply(c, r)
        PROVE conn' \in [Slots -> Connection]
    BY <1>4, <1>5, <1>7 DEF Reply
  <1>8. ASSUME NEW s \in {"unused", "verified"} \cup Registered,
               conn' = [conn EXCEPT ![c].stage = s]
        PROVE conn' \in [Slots -> Connection]
    BY <1>2, <1>5, <1>8
  <1>. QED
    BY <1>1, <1>5, <1>6, <1>7, <1>8

LEMMA CountUpdates ==
    ASSUME TypeOK
    PROVE  /\ Fault => happened' \in [edits : Nat, admin : Nat, faults : Nat]
           /\ \A field \in {"edits", "admin", "faults"} :
                Count(field) => happened' \in [edits : Nat, admin : Nat, faults : Nat]
  BY DEF TypeOK, Fault, Count

LEMMA TypeNext ==
    TypeOK /\ ClientInv /\ ConnInv /\ CommitInv /\ JournalInv /\ [Next]_vars => TypeOK'
  <1> SUFFICES ASSUME TypeOK, ClientInv, ConnInv, CommitInv, JournalInv, [Next]_vars
               PROVE  TypeOK'
    OBVIOUS
  <1> USE DEF clientVars, diskVars, memoryVars
  <1>1. CASE StartClient
    <2>1. client' \in ClientState /\ client'.up /\ client'.key \in Keys
      BY <1>1 DEF StartClient, ClientState, TypeOK
    <2>. QED
      BY <1>1, <2>1, Constants DEF StartClient, TypeOK
  <1>2. CASE SavePending
    <2>1. client' \in ClientState /\ client'.up = client.up /\ client'.key = client.key
      BY <1>2 DEF SavePending, ClientState, TypeOK
    <2>2. recovery' \in [old : Keys, new : Keys]
      BY <1>2, ClientUpdates DEF SavePending, TypeOK
    <2>. QED
      BY <1>2, <2>1, <2>2 DEF SavePending, After, TypeOK
  <1>3. CASE Begin
    <2>1. rot \in Slots /\ client.candidate \in Keys /\ conn[rot] \in Connection
      BY <1>3 DEF Begin, ClientInv, TypeOK
    <2>2. [conn[rot] EXCEPT !.stage = "begin", !.new = client.candidate] \in Connection
      BY <2>1 DEF Connection, Registered
    <2>3. conn' \in [Slots -> Connection]
      BY <1>3, <2>1, <2>2 DEF Begin, TypeOK
    <2>4. client' \in ClientState /\ client'.key = client.key /\ client'.up = client.up
      BY <1>3, ClientUpdates DEF Begin
    <2>. QED
      BY <1>3, <2>3, <2>4 DEF Begin, TypeOK
  <1>4. CASE Request
    <2>1. rot \in Slots
      BY <1>4 DEF Request, ClientInv, TypeOK
    <2>2. conn' \in [Slots -> Connection]
      BY <1>4, <2>1, ConnUpdates DEF Request, Registered
    <2>3. client' \in ClientState /\ client'.key = client.key /\ client'.up = client.up
      BY <1>4, ClientUpdates DEF Request
    <2>. QED
      BY <1>4, <2>2, <2>3 DEF Request, TypeOK
  <1>5. CASE Accepted
    <2>1. rot \in Slots
      BY <1>5 DEF Accepted, ClientInv, TypeOK
    <2>2. conn' \in [Slots -> Connection]
      BY <1>5, <2>1, ConnUpdates DEF Accepted
    <2>3. client' \in ClientState /\ client'.key = client.key /\ client'.up = client.up
      BY <1>5, ClientUpdates DEF Accepted
    <2>. QED
      BY <1>5, <2>2, <2>3 DEF Accepted, TypeOK
  <1>6. CASE Rejected
    <2>1. rot \in Slots
      BY <1>6 DEF Rejected, ClientInv, TypeOK
    <2>2. conn' \in [Slots -> Connection]
      BY <1>6, <2>1, ConnUpdates DEF Rejected
    <2>3. client' \in ClientState /\ client'.key = client.key /\ client'.up = client.up
      BY <1>6, ClientUpdates DEF Rejected, GiveUp
    <2>. QED
      BY <1>6, <2>2, <2>3 DEF Rejected, GiveUp, TypeOK
  <1>7. CASE RotationBreaks
    <2>1. rot \in Slots
      BY <1>7 DEF RotationBreaks, ClientInv, TypeOK
    <2>2. conn' \in [Slots -> Connection]
      BY <1>7, <2>1, ConnUpdates DEF RotationBreaks
    <2>3. client' \in ClientState /\ client'.key = client.key /\ client'.up = client.up
      BY <1>7, ClientUpdates DEF RotationBreaks, GiveUp
    <2>. QED
      BY <1>7, <2>2, <2>3, CountUpdates DEF RotationBreaks, GiveUp, TypeOK
  <1>8. CASE DialFails
    <2>1. client' \in ClientState /\ client'.key = client.key /\ client'.up = client.up
      BY <1>8, ClientUpdates DEF DialFails, GiveUp
    <2>. QED
      BY <1>8, <2>1 DEF DialFails, GiveUp, TypeOK
  <1>9. CASE ClearPending
    <2>1. client' \in ClientState /\ client'.key = client.key /\ client'.up = client.up
      BY <1>9, ClientUpdates DEF ClearPending
    <2>. QED
      BY <1>9, <2>1 DEF ClearPending, TypeOK
  <1>10. CASE ClearFails
    <2>1. client' \in ClientState /\ client'.key = client.key /\ client'.up = client.up
      BY <1>10, ClientUpdates DEF ClearFails
    <2>. QED
      BY <1>10, <2>1, CountUpdates DEF ClearFails, TypeOK
  <1>11. CASE Activate
    <2>1. client' \in ClientState /\ client'.up /\ client'.key \in Keys
      BY <1>11 DEF Activate, ClientInv, ClientState, TypeOK
    <2>2. conn' \in [Slots -> Connection]
      <3>1. CASE data = 0
        BY <1>11, <3>1 DEF Activate, TypeOK
      <3>2. CASE data \in Slots
        BY <1>11, <3>2, ConnUpdates, Constants DEF Activate, HangUp
      <3>. QED
        BY <3>1, <3>2 DEF TypeOK
    <2>. QED
      BY <1>11, <2>1, <2>2, Constants DEF Activate, After, TypeOK
  <1>12. ASSUME NEW c \in Slots, Dial(c, client.key) PROVE conn' \in [Slots -> Connection]
    <2>1. [Unused EXCEPT !.key = client.key, !.stage = "verified", !.open = TRUE] \in Connection
      BY ClientUpdates DEF Unused, Connection
    <2>. QED
      BY <1>12, <2>1 DEF Dial, TypeOK
  <1>13. ASSUME NEW c \in Slots, DialRotation(c) PROVE TypeOK'
    <2>1. client' \in ClientState /\ client'.key = client.key /\ client'.up = client.up
      BY <1>13, ClientUpdates DEF DialRotation
    <2>. QED
      BY <1>12, <1>13, <2>1 DEF DialRotation, TypeOK
  <1>14. ASSUME NEW c \in Slots, Connect(c) PROVE TypeOK'
    BY <1>12, <1>14 DEF Connect, TypeOK
  <1>15. CASE StartServer
    BY <1>15 DEF StartServer, TypeOK
  <1>16. CASE Install
    <2>1. commit # NoCommit /\ commit.slot \in Slots
      BY <1>16 DEF Install, NoCommit, Commit, TypeOK
    <2>2. conn[commit.slot].key \in Keys /\ conn[commit.slot].new \in Keys
      BY <2>1 DEF ConnInv, CommitInv
    <2>3. commit' \in Commit
      BY <1>16, <2>1 DEF Install, Commit, TypeOK
    <2>. QED
      BY <1>16, <2>2, <2>3 DEF Install, TypeOK
  <1>17. CASE PersistCommit
    <2>1. commit # NoCommit /\ commit.slot \in Slots
      BY <1>17 DEF PersistCommit, NoCommit, Commit, TypeOK
    <2>2. conn[commit.slot].key \in Keys /\ conn[commit.slot].new \in Keys
      BY <2>1 DEF ConnInv, CommitInv
    <2>3. commit' \in Commit
      <3>1. NoCommit \in Commit /\ dir \ aged \subseteq Keys
        BY DEF Commit, TypeOK
      <3>2. [commit EXCEPT !.step = "committed", !.pins = dir \ aged] \in Commit
        BY <2>1, <3>1 DEF Commit, TypeOK
      <3>. QED
        BY <1>17, <3>1, <3>2 DEF PersistCommit
    <2>4. conn' \in [Slots -> Connection]
      <3>1. UNCHANGED conn \/ Reply(commit.slot, "rejected")
        BY <1>17 DEF PersistCommit
      <3>. QED
        BY <2>1, <3>1, ConnUpdates DEF TypeOK
    <2>5. /\ journal' \subseteq RotationRecord
          /\ IsFiniteSet(journal') /\ Cardinality(journal') <= MaxRotationRecords
      <3>1. Recorded(conn[commit.slot].key, conn[commit.slot].new)
        BY <2>1 DEF JournalInv
      <3>. QED
        BY <1>17, <2>2, <3>1, RecordOnce DEF PersistCommit, TypeOK
    <2>. QED
      BY <1>17, <2>3, <2>4, <2>5 DEF PersistCommit, TypeOK
  <1>18. CASE ActivatePins \/ CommitFails
    <2>1. commit # NoCommit /\ commit.slot \in Slots /\ commit.pins \subseteq Keys
      BY <1>18 DEF ActivatePins, CommitFails, NoCommit, Commit, TypeOK
    <2>2. conn' \in [Slots -> Connection]
      BY <1>18, <2>1, ConnUpdates DEF ActivatePins, CommitFails
    <2>3. NoCommit \in Commit
      BY DEF Commit
    <2>4. CASE ActivatePins
      BY <2>1, <2>2, <2>3, <2>4 DEF ActivatePins, TypeOK
    <2>5. CASE CommitFails
      BY <2>2, <2>3, <2>5, CountUpdates DEF CommitFails, TypeOK
    <2>. QED
      BY <1>18, <2>4, <2>5
  <1>19. ASSUME NEW c \in Slots, Admit(c) PROVE TypeOK'
    <2>1. CASE Authorized(c)
      <3>1. conn' \in [Slots -> Connection]
        BY <1>19, <2>1, ConnUpdates DEF Admit, Registered
      <3>. QED
        BY <1>19, <2>1, <3>1 DEF Admit, TypeOK
    <2>2. CASE ~Authorized(c)
      <3>1. conn' \in [Slots -> Connection]
        BY <1>19, <2>2, ConnUpdates DEF Admit, Close
      <3>2. client' \in ClientState /\ client'.key = client.key /\ client'.up = client.up
        BY <1>19, <2>2, ClientUpdates DEF Admit, Close, TypeOK
      <3>. QED
        BY <1>19, <2>2, <3>1, <3>2 DEF Admit, Close, TypeOK
    <2>. QED
      BY <2>1, <2>2
  <1>20. ASSUME NEW c \in Slots, Forget(c) PROVE TypeOK'
    BY <1>20, ConnUpdates DEF Forget, TypeOK
  <1>21. ASSUME NEW c \in Slots, Challenge(c) PROVE TypeOK'
    <2>1. conn' \in [Slots -> Connection]
      BY <1>21, ConnUpdates DEF Challenge, Registered
    <2>. QED
      BY <1>21, <2>1 DEF Challenge, TypeOK
  <1>22. ASSUME NEW c \in Slots, RejectRequest(c) PROVE TypeOK'
    <2>1. conn' \in [Slots -> Connection]
      BY <1>22, ConnUpdates DEF RejectRequest
    <2>. QED
      BY <1>22, <2>1, CountUpdates DEF RejectRequest, TypeOK
  <1>23. ASSUME NEW c \in Slots, PersistIntent(c) PROVE TypeOK'
    <2>1. conn[c].key \in Keys /\ conn[c].new \in Keys
      BY <1>23 DEF PersistIntent, ConnInv
    <2>2. commit' \in Commit
      BY <1>23 DEF PersistIntent, Commit
    <2>3. conn' \in [Slots -> Connection]
      BY <1>23, ConnUpdates DEF PersistIntent, Registered
    <2>4. /\ journal' \subseteq RotationRecord
          /\ IsFiniteSet(journal') /\ Cardinality(journal') <= MaxRotationRecords
      BY <1>23, <2>1, RecordOnce DEF PersistIntent, MayCommit, TypeOK
    <2>. QED
      BY <1>23, <2>2, <2>3, <2>4 DEF PersistIntent, TypeOK
  <1>24. CASE ReloadSame
    BY <1>24 DEF ReloadSame, After, TypeOK
  <1>25. CASE DataBreaks
    <2>1. conn' \in [Slots -> Connection]
      BY <1>25, ConnUpdates DEF DataBreaks, TypeOK
    <2>. QED
      BY <1>25, <2>1, CountUpdates DEF DataBreaks, TypeOK
  <1>26. CASE CrashClient
    <2>1. client' \in ClientState /\ ~client'.up /\ client'.key = 0
      BY <1>26 DEF CrashClient, ClientState
    <2>2. ASSUME NEW c \in Slots PROVE [conn[c] EXCEPT !.open = FALSE] \in Connection
      BY ConnUpdates DEF Connection
    <2>3. conn' \in [Slots -> Connection]
      BY <1>26, <2>2 DEF CrashClient
    <2>. QED
      BY <1>26, <2>1, <2>3, CountUpdates DEF CrashClient, TypeOK
  <1>27. ASSUME NEW k \in Keys, EditIdentity(k) PROVE TypeOK'
    BY <1>27, CountUpdates DEF EditIdentity, After, TypeOK
  <1>28. ASSUME NEW k \in Keys, PurgeIdle(k) PROVE TypeOK'
    BY <1>28 DEF PurgeIdle, TypeOK
  <1>29. ASSUME NEW k \in Keys, RemovePin(k) \/ AddPin(k) PROVE TypeOK'
    BY <1>29, CountUpdates DEF RemovePin, AddPin, TypeOK
  <1>30. CASE ReloadServer
    <2>1. ASSUME NEW c \in Slots PROVE conn[c] \in Connection /\ Unused \in Connection
      BY DEF Unused, Connection, TypeOK
    <2>2. conn' \in [Slots -> Connection]
      BY <1>30, <2>1 DEF ReloadServer
    <2>3. client' \in ClientState /\ client'.key = client.key /\ client'.up = client.up
      BY <1>30, ClientUpdates DEF ReloadServer, TypeOK
    <2>. QED
      BY <1>30, <2>2, <2>3 DEF ReloadServer, ResetIdle, TypeOK
  <1>31. CASE CrashServer
    <2>1. conn' \in [Slots -> Connection] /\ NoCommit \in Commit
      BY <1>31 DEF CrashServer, Unused, Connection, Commit
    <2>2. client' \in ClientState /\ client'.key = client.key /\ client'.up = client.up
      BY <1>31, ClientUpdates DEF CrashServer, TypeOK
    <2>. QED
      BY <1>31, <2>1, <2>2, CountUpdates DEF CrashServer, TypeOK
  <1>32. CASE UNCHANGED vars
    BY <1>32 DEF vars, TypeOK
  <1>. QED
    BY <1>1, <1>2, <1>3, <1>4, <1>5, <1>6, <1>7, <1>8, <1>9, <1>10, <1>11, <1>13,
       <1>14, <1>15, <1>16, <1>17, <1>18, <1>19, <1>20, <1>21, <1>22, <1>23, <1>24, <1>25,
       <1>26, <1>27, <1>28, <1>29, <1>30, <1>31, <1>32
    DEF Next, Exchange, Serve

-----------------------------------------------------------------------------
(* The fields of connections after a step.                                 *)

\* Connection d keeps everything but its stage and whether it is open.
Same(d) ==
    conn'[d].key = conn[d].key /\ conn'[d].new = conn[d].new /\ conn'[d].reply = conn[d].reply

LEMMA StageFields ==
    ASSUME TypeOK, NEW c \in Slots, NEW s, conn' = [conn EXCEPT ![c].stage = s]
    PROVE  \A d \in Slots : /\ Same(d) /\ conn'[d].open = conn[d].open
                            /\ conn'[d].stage = IF d = c THEN s ELSE conn[d].stage
  BY DEF TypeOK, Connection, Same

LEMMA HangUpFields ==
    ASSUME TypeOK, NEW c \in Slots, HangUp(c)
    PROVE  \A d \in Slots : /\ Same(d) /\ conn'[d].stage = conn[d].stage
                            /\ d # c => conn'[d].open = conn[d].open
  BY DEF TypeOK, Connection, Same, HangUp

LEMMA ReplyFields ==
    ASSUME TypeOK, NEW c \in Slots, NEW r, Reply(c, r)
    PROVE  /\ \A d \in Slots : /\ conn'[d].key = conn[d].key /\ conn'[d].new = conn[d].new
                               /\ conn'[d].open = conn[d].open
                               /\ d # c => Same(d) /\ conn'[d].stage = conn[d].stage
           /\ conn'[c].stage = "done" /\ conn'[c].reply = r
  <1>1. [conn[c] EXCEPT !.stage = "done", !.reply = r].stage = "done"
    BY DEF TypeOK, Connection
  <1>2. conn'[c] = [conn[c] EXCEPT !.stage = "done", !.reply = r]
    BY DEF TypeOK, Reply
  <1>3. \A d \in Slots : d # c => conn'[d] = conn[d]
    BY DEF TypeOK, Reply
  <1>4. /\ conn'[c].key = conn[c].key /\ conn'[c].new = conn[c].new
        /\ conn'[c].open = conn[c].open
        /\ conn'[c].stage = "done" /\ conn'[c].reply = r
    BY <1>1, <1>2 DEF TypeOK, Connection
  <1>. QED
    BY <1>3, <1>4 DEF Same

\* What becomes of the connections that downstream closes, as Close and Forget do.
LEMMA ResetFields ==
    ASSUME TypeOK, NEW c \in Slots, conn' = [conn EXCEPT ![c] = Unused]
    PROVE  /\ conn'[c] = Unused
           /\ \A d \in Slots : d # c => conn'[d] = conn[d]
  BY DEF TypeOK

LEMMA DialFields ==
    ASSUME TypeOK, NEW c \in Slots, NEW k, Dial(c, k)
    PROVE  /\ conn[c].stage = "unused"
           /\ conn'[c].key = k /\ conn'[c].stage = "verified" /\ conn'[c].open
           /\ conn'[c].new = 0 /\ conn'[c].reply = "none"
           /\ \A d \in Slots : d # c => conn'[d] = conn[d]
  BY DEF TypeOK, Dial, Unused

LEMMA BeginFields ==
    ASSUME TypeOK, Begin, rot \in Slots
    PROVE  /\ \A d \in Slots : d # rot => conn'[d] = conn[d]
           /\ conn'[rot].stage = "begin" /\ conn'[rot].new = client.candidate
           /\ conn'[rot].key = conn[rot].key /\ conn'[rot].open = conn[rot].open
           /\ conn'[rot].reply = conn[rot].reply
  <1>1. conn'[rot] = [conn[rot] EXCEPT !.stage = "begin", !.new = client.candidate]
    BY DEF TypeOK, Begin
  <1>2. \A d \in Slots : d # rot => conn'[d] = conn[d]
    BY DEF TypeOK, Begin
  <1>3. conn[rot] \in Connection
    BY DEF TypeOK
  <1>. QED
    BY <1>1, <1>2, <1>3 DEF Connection

LEMMA UnusedFields ==
    /\ Unused.key = 0 /\ Unused.stage = "unused" /\ Unused.new = 0
    /\ Unused.open = FALSE /\ Unused.reply = "none"
  BY DEF Unused

-----------------------------------------------------------------------------
(* The invariant is inductive.                                             *)

LEMMA InvInit == Init => Inv
  <1> SUFFICES ASSUME Init PROVE Inv
    OBVIOUS
  <1>1. \A c \in Slots : conn[c] = Unused
    BY DEF Init
  <1>2. ClientInv /\ ConnInv /\ SessionsAuthorized
    BY <1>1, UnusedFields DEF Init, ClientInv, ConnInv, SessionsAuthorized, Sessions, Registered
  <1>3. CommitInv
    BY DEF Init, CommitInv, NoCommit
  <1>4. JournalInv /\ InstalledOnce
    BY DEF Init, JournalInv, InstalledOnce
  <1>5. GrantInv /\ TrustInv
    BY <1>1, UnusedFields DEF Init, GrantInv, TrustInv, Trusted, NoCommit
  <1>. QED
    BY <1>2, <1>3, <1>4, <1>5 DEF Inv

LEMMA ClientNext == TypeOK /\ Inv /\ [Next]_vars => ClientInv'
  <1> SUFFICES ASSUME TypeOK, ClientInv, ConnInv, CommitInv, [Next]_vars PROVE ClientInv'
    BY DEF Inv
  <1> USE DEF clientVars, diskVars, memoryVars
  <1>a. /\ data \in Slots \cup {0} /\ rot \in Slots \cup {0} /\ 0 \notin Slots /\ 0 \notin Keys
        /\ client.candidate \in Keys \cup {0} /\ identity \in Keys
        /\ client.up <=> client.key # 0
    BY Constants, ClientUpdates DEF TypeOK
  <1>b. ASSUME UNCHANGED <<recovery, client, data, rot, conn>> PROVE ClientInv'
    BY <1>b DEF ClientInv
  <1>c. ASSUME NEW s \in {"run", "saved", "dialed", "begun", "requested", "accepted", "cleared"},
               client' = [client EXCEPT !.stage = s]
        PROVE  client'.up = client.up /\ client'.stage = s /\ client'.candidate = client.candidate
    BY <1>c, ClientUpdates
  \* Connections that upstream holds keep their stages, or go on to others.
  <1>d. ASSUME UNCHANGED <<recovery, client, data, rot>>,
               \A d \in Slots : /\ conn'[d].new = conn[d].new
                                /\ conn[d].open => conn'[d].open
                                /\ conn[d].stage # "unused" => conn'[d].stage # "unused"
        PROVE  ClientInv'
    BY <1>a, <1>d DEF ClientInv
  <1>1. CASE StartClient
    BY <1>1, <1>a DEF StartClient, ClientInv
  <1>2. CASE SavePending
    <2>1. client'.up /\ client'.stage = "saved" /\ client'.candidate = identity
      BY <1>2 DEF SavePending, TypeOK, ClientState
    <2>. QED
      BY <1>2, <1>a, <2>1 DEF SavePending, ClientInv
  <1>3. CASE Begin
    <2>1. rot \in Slots
      BY <1>3, <1>a DEF Begin, ClientInv
    <2>2. client'.stage = "begun" /\ client'.up = client.up /\ client'.candidate = client.candidate
      BY <1>3, <1>c DEF Begin
    <2>. QED
      BY <1>3, <1>a, <2>1, <2>2, BeginFields DEF Begin, ClientInv
  <1>4. CASE Request
    <2>1. rot \in Slots
      BY <1>4, <1>a DEF Request, ClientInv
    <2>2. client'.stage = "requested" /\ client'.up = client.up
            /\ client'.candidate = client.candidate
      BY <1>4, <1>c DEF Request
    <2>3. \A d \in Slots : /\ conn'[d].new = conn[d].new /\ conn'[d].open = conn[d].open
                           /\ conn[d].stage # "unused" => conn'[d].stage # "unused"
      BY <1>4, <2>1, StageFields DEF Request, Same
    <2>. QED
      BY <1>4, <1>a, <2>1, <2>2, <2>3 DEF Request, ClientInv
  <1>5. ASSUME rot \in Slots, HangUp(rot), rot' = 0, UNCHANGED data,
               NEW s \in {"run", "accepted"}, client' = [client EXCEPT !.stage = s],
               UNCHANGED recovery, s = "accepted" => client.stage = "requested"
        PROVE  ClientInv'
    <2>1. \A d \in Slots : /\ conn'[d].stage = conn[d].stage
                           /\ d # rot => conn'[d].open = conn[d].open
      BY <1>5, HangUpFields
    <2>2. client'.stage = s /\ client'.up = client.up /\ client'.candidate = client.candidate
      BY <1>5, <1>c
    <2>. QED
      BY <1>5, <1>a, <2>1, <2>2 DEF ClientInv
  <1>6. CASE Accepted \/ Rejected \/ RotationBreaks
    <2>1. rot \in Slots
      BY <1>6, <1>a DEF Accepted, Rejected, RotationBreaks, ClientInv
    <2>. QED
      BY <1>5, <1>6, <2>1 DEF Accepted, Rejected, RotationBreaks, GiveUp
  <1>7. CASE DialFails
    <2>1. client'.stage = "run"
      BY <1>7, <1>c DEF DialFails, GiveUp
    <2>. QED
      BY <1>7, <1>a, <2>1 DEF DialFails, GiveUp, ClientInv
  <1>8. CASE ClearPending \/ ClearFails
    <2>1. /\ client'.stage \in {"cleared", "run"} /\ client'.up = client.up
          /\ client'.candidate = client.candidate
      BY <1>8, <1>c DEF ClearPending, ClearFails
    <2>. QED
      BY <1>8, <1>a, <2>1 DEF ClearPending, ClearFails, ClientInv
  <1>9. CASE Activate
    <2>1. client'.stage = "run"
      BY <1>9 DEF Activate, TypeOK, ClientState
    <2>2. rot = 0
      BY <1>9 DEF Activate, ClientInv
    <2>. QED
      BY <1>9, <2>1, <2>2 DEF Activate, ClientInv
  <1>10. ASSUME NEW c \in Slots, DialRotation(c) PROVE ClientInv'
    <2>1. client'.stage = "dialed" /\ client'.up = client.up
            /\ client'.candidate = client.candidate
      BY <1>10, <1>c DEF DialRotation
    <2>. QED
      BY <1>10, <1>a, <2>1, DialFields DEF DialRotation, ClientInv
  <1>11. ASSUME NEW c \in Slots, Connect(c) PROVE ClientInv'
    BY <1>11, <1>a, DialFields DEF Connect, ClientInv
  <1>12. CASE StartServer \/ Install \/ ReloadSame
    BY <1>12, <1>b DEF StartServer, Install, ReloadSame
  <1>13. ASSUME NEW c \in Slots, NEW r, Reply(c, r), UNCHANGED clientVars PROVE ClientInv'
    BY <1>13, <1>d, ReplyFields
  <1>14. CASE PersistCommit \/ ActivatePins \/ CommitFails
    <2>1. commit # NoCommit /\ commit.slot \in Slots
      BY <1>14 DEF PersistCommit, ActivatePins, CommitFails, NoCommit, Commit, TypeOK
    <2>2. UNCHANGED conn \/ \E r : Reply(commit.slot, r)
      BY <1>14 DEF PersistCommit, ActivatePins, CommitFails
    <2>. QED
      BY <1>b, <1>13, <1>14, <2>1, <2>2 DEF PersistCommit, ActivatePins, CommitFails
  <1>15. ASSUME NEW c \in Slots, NEW s, s # "unused", conn' = [conn EXCEPT ![c].stage = s],
                UNCHANGED clientVars
         PROVE ClientInv'
    BY <1>15, <1>d, StageFields DEF Same
  <1>16. ASSUME NEW c \in Slots, Admit(c) PROVE ClientInv'
    <2>1. CASE Authorized(c)
      BY <1>15, <1>16, <2>1 DEF Admit
    <2>2. CASE ~Authorized(c)
      <3>1. Close(c)
        BY <1>16, <2>2 DEF Admit
      <3>2. rot = c => client'.stage = "run"
        BY <3>1, <1>c DEF Close
      <3>. QED
        BY <3>1, <3>2, <1>a, ResetFields DEF Close, ClientInv
    <2>. QED
      BY <2>1, <2>2
  <1>17. ASSUME NEW c \in Slots, Forget(c) PROVE ClientInv'
    BY <1>17, <1>a, ResetFields DEF Forget, ClientInv
  <1>18. ASSUME NEW c \in Slots, Challenge(c) \/ PersistIntent(c) \/ RejectRequest(c)
         PROVE  ClientInv'
    BY <1>13, <1>15, <1>18 DEF Challenge, PersistIntent, RejectRequest
  <1>19. CASE DataBreaks
    <2>1. \A d \in Slots : /\ conn'[d].stage = conn[d].stage /\ conn'[d].new = conn[d].new
                           /\ d # data => conn'[d].open = conn[d].open
      BY <1>19, <1>a, HangUpFields DEF DataBreaks, Same
    <2>. QED
      BY <1>19, <1>a, <2>1 DEF DataBreaks, ClientInv
  <1>20. CASE CrashClient
    BY <1>20 DEF CrashClient, ClientInv
  <1>21. ASSUME NEW k \in Keys, EditIdentity(k) \/ PurgeIdle(k) \/ RemovePin(k) \/ AddPin(k)
         PROVE  ClientInv'
    BY <1>21, <1>b DEF EditIdentity, PurgeIdle, RemovePin, AddPin
  <1>22. CASE ReloadServer
    <2> DEFINE gone == {c \in Sessions : conn[c].key \notin dir}
    <2>1. /\ \A c \in Slots \ gone : conn'[c] = conn[c]
          /\ data' = IF data \in gone THEN 0 ELSE data
          /\ rot' = IF rot \in gone THEN 0 ELSE rot
          /\ client' = IF rot \in gone THEN [client EXCEPT !.stage = "run"] ELSE client
          /\ UNCHANGED recovery
      BY <1>22 DEF ReloadServer
    <2> HIDE DEF gone
    <2>2. rot \in gone => client'.stage = "run"
      BY <2>1, <1>c
    <2>3. 0 \notin gone
      BY <1>a DEF gone, Sessions
    <2>. QED
      BY <2>1, <2>2, <2>3, <1>a DEF ClientInv
  <1>23. CASE CrashServer
    <2>1. rot # 0 => client'.stage = "run"
      BY <1>23, <1>c DEF CrashServer
    <2>. QED
      BY <1>23, <2>1 DEF CrashServer, ClientInv
  <1>24. CASE UNCHANGED vars
    BY <1>24, <1>b DEF vars
  <1>. QED
    BY <1>1, <1>2, <1>3, <1>4, <1>6, <1>7, <1>8, <1>9, <1>10, <1>11, <1>12,
       <1>14, <1>16, <1>17, <1>18, <1>19, <1>20, <1>21, <1>22, <1>23, <1>24
    DEF Next, Exchange, Serve

LEMMA ConnNext == TypeOK /\ Inv /\ [Next]_vars => ConnInv'
  <1> SUFFICES ASSUME TypeOK, ClientInv, ConnInv, CommitInv, [Next]_vars PROVE ConnInv'
    BY DEF Inv
  <1> USE DEF clientVars, diskVars, memoryVars
  <1>a. UNCHANGED conn => ConnInv'
    BY DEF ConnInv
  <1>b. ASSUME NEW c \in Slots, HangUp(c) PROVE ConnInv'
    BY <1>b, HangUpFields DEF ConnInv, Same
  <1>c. ASSUME NEW c \in Slots, NEW r, Reply(c, r), conn[c].stage # "unused" PROVE ConnInv'
    BY <1>c, ReplyFields DEF ConnInv, Same
  <1>d. ASSUME NEW c \in Slots, conn' = [conn EXCEPT ![c] = Unused] PROVE ConnInv'
    BY <1>d, ResetFields, UnusedFields DEF ConnInv
  <1>e. ASSUME NEW c \in Slots, NEW s, conn' = [conn EXCEPT ![c].stage = s],
               \/ conn[c].stage = "verified" /\ s = "admitted"
               \/ conn[c].stage \in {"begin", "challenged", "request"}
                    /\ s \in {"challenged", "request", "commit"}
        PROVE  ConnInv'
    BY <1>e, StageFields DEF ConnInv, Same
  <1>f. ASSUME NEW c \in Slots, Dial(c, client.key) PROVE ConnInv'
    <2>1. client.key \in Keys
      BY <1>f DEF Dial, TypeOK
    <2>. QED
      BY <1>f, <2>1, DialFields DEF ConnInv
  <1>1. CASE Begin
    <2>1. rot \in Slots /\ client.candidate \in Keys /\ conn[rot].stage = "admitted"
      BY <1>1, Constants DEF Begin, ClientInv, TypeOK
    <2>. QED
      BY <1>1, <2>1, BeginFields DEF ConnInv
  <1>2. CASE Request
    <2>1. rot \in Slots
      BY <1>2, Constants DEF Request, ClientInv, TypeOK
    <2>. QED
      BY <1>2, <1>e, <2>1 DEF Request
  <1>3. CASE Accepted \/ Rejected \/ RotationBreaks \/ DataBreaks
    BY <1>3, <1>b, Constants DEF Accepted, Rejected, RotationBreaks, DataBreaks, ClientInv, TypeOK
  <1>4. CASE Activate
    BY <1>4, <1>a, <1>b DEF Activate, HangUp, TypeOK
  <1>5. ASSUME NEW c \in Slots, DialRotation(c) \/ Connect(c) PROVE ConnInv'
    BY <1>5, <1>f DEF DialRotation, Connect
  <1>6. CASE PersistCommit \/ ActivatePins \/ CommitFails
    <2>1. commit # NoCommit /\ commit.slot \in Slots
      BY <1>6 DEF PersistCommit, ActivatePins, CommitFails, NoCommit, Commit, TypeOK
    <2>2. conn[commit.slot].stage # "unused"
      BY <2>1 DEF CommitInv
    <2>3. UNCHANGED conn \/ \E r : Reply(commit.slot, r)
      BY <1>6 DEF PersistCommit, ActivatePins, CommitFails
    <2>. QED
      BY <1>a, <1>c, <2>1, <2>2, <2>3
  <1>7. ASSUME NEW c \in Slots, Admit(c) \/ Forget(c) PROVE ConnInv'
    BY <1>7, <1>d, <1>e DEF Admit, Close, Forget
  <1>8. ASSUME NEW c \in Slots, Challenge(c) \/ PersistIntent(c) \/ RejectRequest(c)
        PROVE  ConnInv'
    BY <1>8, <1>c, <1>e DEF Challenge, PersistIntent, RejectRequest
  <1>9. CASE CrashClient
    <2>1. ASSUME NEW d \in Slots
          PROVE  Same(d) /\ conn'[d].stage = conn[d].stage
      BY <1>9 DEF CrashClient, TypeOK, Connection, Same
    <2>. QED
      BY <2>1 DEF ConnInv, Same
  <1>10. CASE ReloadServer \/ CrashServer
    <2>1. \A d \in Slots : conn'[d] = conn[d] \/ conn'[d] = Unused
      BY <1>10 DEF ReloadServer, CrashServer
    <2>. QED
      BY <2>1, UnusedFields DEF ConnInv
  <1>11. CASE StartClient \/ SavePending \/ DialFails \/ ClearPending \/ ClearFails
              \/ StartServer \/ Install \/ ReloadSame
    BY <1>11, <1>a DEF StartClient, SavePending, DialFails, ClearPending, ClearFails,
       StartServer, Install, ReloadSame
  <1>12. ASSUME NEW k \in Keys, EditIdentity(k) \/ PurgeIdle(k) \/ RemovePin(k) \/ AddPin(k)
         PROVE  ConnInv'
    BY <1>12, <1>a DEF EditIdentity, PurgeIdle, RemovePin, AddPin
  <1>13. CASE UNCHANGED vars
    BY <1>13, <1>a DEF vars
  <1>. QED
    BY <1>1, <1>2, <1>3, <1>4, <1>5, <1>6, <1>7, <1>8, <1>9, <1>10, <1>11, <1>12, <1>13
    DEF Next, Exchange, Serve

\* Sessions and the lock, together: a commit holds a session, so that downstream
\* is up as long as the lock is held.
LEMMA CommitNext == TypeOK /\ Inv /\ [Next]_vars => CommitInv' /\ SessionsAuthorized'
  <1> DEFINE Auth == \A c \in Slots : conn[c].stage \in Registered => conn[c].key \in active
  <1> SUFFICES ASSUME TypeOK, ClientInv, ConnInv, CommitInv, Auth, [Next]_vars
               PROVE  CommitInv' /\ Auth'
    BY DEF Inv, SessionsAuthorized, Sessions
  <1> USE DEF clientVars, diskVars, memoryVars
  <1>a. /\ commit # NoCommit => commit.slot \in Slots /\ conn[commit.slot].stage = "commit"
        /\ commit # NoCommit => server /\ active # {}
        /\ NoCommit.step = "none"
        /\ Registered = {"admitted", "begin", "challenged", "request", "commit", "done"}
    BY DEF CommitInv, TypeOK, Commit, NoCommit, Registered
  <1>b. ASSUME UNCHANGED <<conn, server, active, commit>> PROVE CommitInv' /\ Auth'
    BY <1>b DEF CommitInv
  <1>c. ASSUME UNCHANGED <<server, active, commit>>,
               \A d \in Slots :
                 \/ conn'[d].stage = conn[d].stage /\ conn'[d].key = conn[d].key
                 \/ conn[d].stage # "commit" /\ conn'[d].key \in active
                 \/ conn[d].stage # "commit" /\ conn'[d].stage \notin Registered
        PROVE  CommitInv' /\ Auth'
    BY <1>a, <1>c DEF CommitInv
  <1>1. CASE Begin
    <2>1. rot \in Slots /\ conn[rot].stage = "admitted"
      BY <1>1, Constants DEF Begin, ClientInv, TypeOK
    <2>. QED
      BY <1>1, <1>a, <1>c, <2>1, BeginFields DEF Begin
  <1>2. CASE Request
    <2>1. rot \in Slots /\ conn[rot].stage = "challenged"
      BY <1>2, Constants DEF Request, ClientInv, TypeOK
    <2>2. \A d \in Slots : /\ conn'[d].key = conn[d].key
                           /\ d # rot => conn'[d].stage = conn[d].stage
      BY <1>2, <2>1, StageFields DEF Request, Same
    <2>. QED
      BY <1>2, <1>a, <1>c, <2>1, <2>2 DEF Request
  <1>3. CASE Accepted \/ Rejected \/ RotationBreaks \/ DataBreaks
    <2>1. \A d \in Slots : conn'[d].stage = conn[d].stage /\ conn'[d].key = conn[d].key
      BY <1>3, HangUpFields, Constants
      DEF Accepted, Rejected, RotationBreaks, DataBreaks, ClientInv, TypeOK, Same
    <2>. QED
      BY <1>3, <1>c, <2>1 DEF Accepted, Rejected, RotationBreaks, DataBreaks
  <1>4. CASE Activate
    <2>1. \A d \in Slots : conn'[d].stage = conn[d].stage /\ conn'[d].key = conn[d].key
      <3>1. CASE data = 0
        BY <1>4, <3>1 DEF Activate
      <3>2. CASE data \in Slots
        BY <1>4, <3>2, HangUpFields, Constants DEF Activate, HangUp, Same
      <3>. QED
        BY <3>1, <3>2 DEF TypeOK
    <2>. QED
      BY <1>4, <1>c, <2>1 DEF Activate
  <1>5. ASSUME NEW c \in Slots, DialRotation(c) \/ Connect(c) PROVE CommitInv' /\ Auth'
    <2>1. Dial(c, client.key) /\ UNCHANGED <<server, active, commit>>
      BY <1>5 DEF DialRotation, Connect
    <2>2. /\ conn[c].stage = "unused" /\ conn'[c].stage = "verified"
          /\ \A d \in Slots : d # c => conn'[d] = conn[d]
      BY <2>1, DialFields
    <2>. QED
      BY <1>a, <1>c, <2>1, <2>2
  <1>6. CASE PersistCommit
    <2>1. commit # NoCommit /\ commit.slot \in Slots
      BY <1>6, <1>a DEF PersistCommit
    <2>2. CASE UNCHANGED conn
      <3>1. \/ commit' = [commit EXCEPT !.step = "committed", !.pins = dir \ aged]
                 /\ Compatible(dir \ aged, conn[commit.slot].new)
                 /\ conn[commit.slot].new \in dir \ aged
            \/ commit' = NoCommit
        BY <1>6, <2>2 DEF PersistCommit
      <3>2. CASE commit' = NoCommit
        BY <1>6, <1>a, <2>2, <3>2 DEF PersistCommit, CommitInv
      <3>3. CASE commit' = [commit EXCEPT !.step = "committed", !.pins = dir \ aged]
                   /\ Compatible(dir \ aged, conn[commit.slot].new)
                   /\ conn[commit.slot].new \in dir \ aged
        <4>1. commit'.slot = commit.slot /\ commit'.pins = dir \ aged
          BY <2>1, <3>3 DEF TypeOK, Commit
        <4>2. active \subseteq dir \ aged
          BY <3>3 DEF Compatible
        <4>. QED
          BY <1>6, <1>a, <2>1, <2>2, <4>1, <4>2 DEF PersistCommit, CommitInv
      <3>. QED
        BY <3>1, <3>2, <3>3
    <2>3. CASE Reply(commit.slot, "rejected") /\ commit' = NoCommit
      <3>1. \A d \in Slots : /\ conn'[d].key = conn[d].key
                             /\ d # commit.slot => conn'[d].stage = conn[d].stage
        BY <2>1, <2>3, ReplyFields
      <3>. QED
        BY <1>6, <1>a, <2>1, <2>3, <3>1 DEF PersistCommit, CommitInv
    <2>. QED
      BY <1>6, <2>2, <2>3 DEF PersistCommit
  <1>7. CASE ActivatePins
    <2>1. commit # NoCommit /\ commit.slot \in Slots /\ active \subseteq commit.pins
      BY <1>7, <1>a DEF ActivatePins, CommitInv
    <2>2. \A d \in Slots : /\ conn'[d].key = conn[d].key
                           /\ d # commit.slot => conn'[d].stage = conn[d].stage
      BY <1>7, <2>1, ReplyFields DEF ActivatePins, Same
    <2>. QED
      BY <1>7, <1>a, <2>1, <2>2 DEF ActivatePins, CommitInv
  <1>8. CASE CommitFails
    <2>1. commit # NoCommit /\ commit.slot \in Slots
      BY <1>8, <1>a DEF CommitFails
    <2>2. \A d \in Slots : /\ conn'[d].key = conn[d].key
                           /\ d # commit.slot => conn'[d].stage = conn[d].stage
      BY <1>8, <2>1, ReplyFields DEF CommitFails, Same
    <2>. QED
      BY <1>8, <1>a, <2>1, <2>2 DEF CommitFails, CommitInv
  <1>9. ASSUME NEW c \in Slots, Admit(c) PROVE CommitInv' /\ Auth'
    <2>0. UNCHANGED <<server, active, commit>> /\ conn[c].stage = "verified"
      BY <1>9 DEF Admit
    <2>1. CASE Authorized(c)
      <3>1. \A d \in Slots : /\ conn'[d].key = conn[d].key
                             /\ d # c => conn'[d].stage = conn[d].stage
        BY <1>9, <2>1, StageFields DEF Admit, Same
      <3>. QED
        BY <1>a, <1>c, <2>0, <2>1, <3>1 DEF Authorized
    <2>2. CASE ~Authorized(c)
      <3>1. conn'[c] = Unused /\ \A d \in Slots : d # c => conn'[d] = conn[d]
        BY <1>9, <2>2, ResetFields DEF Admit, Close
      <3>. QED
        BY <1>a, <1>c, <2>0, <3>1, UnusedFields
    <2>. QED
      BY <2>1, <2>2
  <1>10. ASSUME NEW c \in Slots, Forget(c) PROVE CommitInv' /\ Auth'
    <2>1. conn'[c] = Unused /\ \A d \in Slots : d # c => conn'[d] = conn[d]
      BY <1>10, ResetFields DEF Forget
    <2>. QED
      BY <1>a, <1>c, <1>10, <2>1, UnusedFields DEF Forget
  <1>11. ASSUME NEW c \in Slots, Challenge(c) \/ RejectRequest(c) PROVE CommitInv' /\ Auth'
    <2>1. \A d \in Slots : /\ conn'[d].key = conn[d].key
                           /\ d # c => conn'[d].stage = conn[d].stage
      <3>1. (\E r : Reply(c, r)) \/ conn' = [conn EXCEPT ![c].stage = "challenged"]
        BY <1>11 DEF Challenge, RejectRequest
      <3>2. CASE \E r : Reply(c, r)
        BY <3>2, ReplyFields
      <3>3. CASE conn' = [conn EXCEPT ![c].stage = "challenged"]
        BY <3>3, StageFields DEF Same
      <3>. QED
        BY <3>1, <3>2, <3>3
    <2>2. UNCHANGED <<server, active, commit>> /\ conn[c].stage \in {"begin", "request"}
      BY <1>11 DEF Challenge, RejectRequest
    <2>. QED
      BY <1>a, <1>c, <2>1, <2>2
  <1>12. ASSUME NEW c \in Slots, PersistIntent(c) PROVE CommitInv' /\ Auth'
    <2>1. \A d \in Slots : /\ conn'[d].key = conn[d].key
                           /\ conn'[d].stage = IF d = c THEN "commit" ELSE conn[d].stage
      <3>1. conn' = [conn EXCEPT ![c].stage = "commit"]
        BY <1>12 DEF PersistIntent
      <3>. QED
        BY <3>1 DEF TypeOK, Connection
    <2>2. /\ commit'.slot = c /\ commit'.step = "intent"
          /\ UNCHANGED <<server, active>> /\ conn[c].stage = "request"
      BY <1>12 DEF PersistIntent
    <2>. QED
      BY <1>a, <2>1, <2>2 DEF CommitInv
  <1>13. CASE Install
    <2>1. commit # NoCommit
      BY <1>13, <1>a DEF Install
    <2>2. commit'.slot = commit.slot /\ commit'.step = "installed"
      BY <1>13, <2>1 DEF Install, TypeOK, Commit
    <2>. QED
      BY <1>13, <1>a, <2>1, <2>2 DEF Install, CommitInv
  <1>14. CASE CrashClient
    <2>1. \A d \in Slots : conn'[d].stage = conn[d].stage /\ conn'[d].key = conn[d].key
      BY <1>14 DEF CrashClient, TypeOK, Connection
    <2>. QED
      BY <1>14, <1>c, <2>1 DEF CrashClient
  <1>15. ASSUME NEW k \in Keys, PurgeIdle(k) PROVE CommitInv' /\ Auth'
    BY <1>15, <1>a DEF PurgeIdle, CommitInv, Sessions
  <1>16. CASE ReloadServer
    <2>1. \A c \in Slots :
            conn'[c] = IF c \in Sessions /\ conn[c].key \notin dir THEN Unused ELSE conn[c]
      BY <1>16 DEF ReloadServer
    <2>2. server' /\ active' = dir /\ commit' = NoCommit
      BY <1>16 DEF ReloadServer
    <2>. QED
      BY <1>a, <2>1, <2>2, UnusedFields DEF CommitInv, Sessions
  <1>17. CASE CrashServer
    BY <1>17, <1>a, UnusedFields DEF CrashServer, CommitInv
  <1>18. CASE StartServer
    BY <1>18, <1>a DEF StartServer, CommitInv
  <1>19. CASE StartClient \/ SavePending \/ DialFails \/ ClearPending \/ ClearFails \/ ReloadSame
    BY <1>19, <1>b DEF StartClient, SavePending, DialFails, ClearPending, ClearFails, ReloadSame
  <1>20. ASSUME NEW k \in Keys, EditIdentity(k) \/ RemovePin(k) \/ AddPin(k)
         PROVE  CommitInv' /\ Auth'
    BY <1>20, <1>b DEF EditIdentity, RemovePin, AddPin
  <1>21. CASE UNCHANGED vars
    BY <1>21, <1>b DEF vars
  <1> HIDE DEF Auth
  <1>. QED
    BY <1>1, <1>2, <1>3, <1>4, <1>5, <1>6, <1>7, <1>8, <1>9, <1>10, <1>11, <1>12, <1>13,
       <1>14, <1>15, <1>16, <1>17, <1>18, <1>19, <1>20, <1>21
    DEF Next, Exchange, Serve

\* A record is never lost, and an entry is written once for it.
LEMMA JournalNext == TypeOK /\ Inv /\ [Next]_vars => JournalInv' /\ InstalledOnce'
  <1> SUFFICES ASSUME TypeOK, ClientInv, ConnInv, CommitInv, JournalInv, InstalledOnce,
                      [Next]_vars
               PROVE  JournalInv' /\ InstalledOnce'
    BY DEF Inv
  <1> USE DEF clientVars, diskVars, memoryVars
  <1>a. /\ commit # NoCommit => commit.slot \in Slots /\ conn[commit.slot].stage = "commit"
        /\ NoCommit.step = "none"
        /\ installs \in [Keys \X Keys -> Nat]
    BY DEF CommitInv, TypeOK, Commit, NoCommit
  <1>b. UNCHANGED journal => \A p, q : Recorded(p, q)' <=> Recorded(p, q)
    BY DEF Recorded
  <1>c. ASSUME UNCHANGED <<journal, installs>>, commit' = NoCommit
        PROVE  JournalInv' /\ InstalledOnce'
    BY <1>b, <1>c DEF JournalInv, InstalledOnce
  \* The request of the commit stays as it is.
  <1>d. ASSUME UNCHANGED <<journal, installs, commit>>,
               \A d \in Slots : conn[d].stage = "commit" =>
                                  conn'[d].key = conn[d].key /\ conn'[d].new = conn[d].new
        PROVE  JournalInv' /\ InstalledOnce'
    BY <1>a, <1>b, <1>d DEF JournalInv, InstalledOnce
  <1>1. CASE Begin
    <2>1. rot \in Slots /\ conn[rot].stage = "admitted"
      BY <1>1, Constants DEF Begin, ClientInv, TypeOK
    <2>. QED
      BY <1>1, <1>d, <2>1, BeginFields DEF Begin
  <1>2. CASE Request
    <2>1. rot \in Slots
      BY <1>2, Constants DEF Request, ClientInv, TypeOK
    <2>2. \A d \in Slots : conn'[d].key = conn[d].key /\ conn'[d].new = conn[d].new
      BY <1>2, <2>1, StageFields DEF Request, Same
    <2>. QED
      BY <1>2, <1>d, <2>2 DEF Request
  <1>3. CASE Accepted \/ Rejected \/ RotationBreaks \/ DataBreaks
    <2>1. \A d \in Slots : conn'[d].key = conn[d].key /\ conn'[d].new = conn[d].new
      BY <1>3, HangUpFields, Constants
      DEF Accepted, Rejected, RotationBreaks, DataBreaks, ClientInv, TypeOK, Same
    <2>. QED
      BY <1>3, <1>d, <2>1 DEF Accepted, Rejected, RotationBreaks, DataBreaks
  <1>4. CASE Activate
    <2>1. \A d \in Slots : conn'[d].key = conn[d].key /\ conn'[d].new = conn[d].new
      <3>1. CASE data = 0
        BY <1>4, <3>1 DEF Activate
      <3>2. CASE data \in Slots
        BY <1>4, <3>2, HangUpFields, Constants DEF Activate, HangUp, Same
      <3>. QED
        BY <3>1, <3>2 DEF TypeOK
    <2>. QED
      BY <1>4, <1>d, <2>1 DEF Activate
  <1>5. ASSUME NEW c \in Slots, DialRotation(c) \/ Connect(c)
        PROVE  JournalInv' /\ InstalledOnce'
    <2>1. Dial(c, client.key) /\ UNCHANGED <<journal, installs, commit>>
      BY <1>5 DEF DialRotation, Connect
    <2>2. conn[c].stage = "unused" /\ \A d \in Slots : d # c => conn'[d] = conn[d]
      BY <2>1, DialFields
    <2>. QED
      BY <1>d, <2>1, <2>2
  <1>6. CASE PersistCommit
    <2>1. commit # NoCommit /\ commit.slot \in Slots
      BY <1>6, <1>a DEF PersistCommit
    <2>2. CASE commit' = NoCommit /\ UNCHANGED journal
      BY <1>6, <1>c, <2>2 DEF PersistCommit
    <2>3. CASE /\ journal' = Record(conn[commit.slot].key, conn[commit.slot].new, "committed")
               /\ commit' = [commit EXCEPT !.step = "committed", !.pins = dir \ aged]
               /\ UNCHANGED conn
      <3> DEFINE o == conn[commit.slot].key
                 n == conn[commit.slot].new
      <3>1. Recorded(o, n) /\ o \in Keys /\ n \in Keys
        BY <1>a, <2>1 DEF JournalInv, ConnInv
      <3> HIDE DEF o, n
      <3>2. \A p, q : Recorded(p, q)' <=> Recorded(p, q)
        <4>1. \A p, q : (\E r \in Record(o, n, "committed") : r.old = p /\ r.new = q)
                          <=> Recorded(p, q)
          BY <3>1, RecordOnce DEF TypeOK
        <4>2. journal' = Record(o, n, "committed")
          BY <2>3 DEF o, n
        <4>3. \A p, q : Recorded(p, q)' <=> \E r \in journal' : r.old = p /\ r.new = q
          BY DEF Recorded
        <4>. QED
          BY <4>1, <4>2, <4>3
      <3>3. commit'.slot = commit.slot /\ commit'.step = "committed"
        BY <2>1, <2>3 DEF TypeOK, Commit
      <3>4. Recorded(conn[commit.slot].key, conn[commit.slot].new)'
        BY <2>3, <3>1, <3>2, <3>3 DEF o, n
      <3>5. UNCHANGED installs
        BY <1>6 DEF PersistCommit
      <3>. QED
        BY <3>2, <3>3, <3>4, <3>5 DEF JournalInv, InstalledOnce
    <2>. QED
      BY <1>6, <2>2, <2>3 DEF PersistCommit
  <1>7. CASE ActivatePins \/ CommitFails
    BY <1>7, <1>c DEF ActivatePins, CommitFails
  <1>8. ASSUME NEW c \in Slots, Admit(c) PROVE JournalInv' /\ InstalledOnce'
    <2>0. UNCHANGED <<journal, installs, commit>> /\ conn[c].stage = "verified"
      BY <1>8 DEF Admit
    <2>1. CASE Authorized(c)
      <3>1. \A d \in Slots : conn'[d].key = conn[d].key /\ conn'[d].new = conn[d].new
        BY <1>8, <2>1, StageFields DEF Admit, Same
      <3>. QED
        BY <1>d, <2>0, <3>1
    <2>2. CASE ~Authorized(c)
      <3>1. conn'[c] = Unused /\ \A d \in Slots : d # c => conn'[d] = conn[d]
        BY <1>8, <2>2, ResetFields DEF Admit, Close
      <3>. QED
        BY <1>d, <2>0, <3>1
    <2>. QED
      BY <2>1, <2>2
  <1>9. ASSUME NEW c \in Slots, Forget(c) \/ Challenge(c) \/ RejectRequest(c)
        PROVE  JournalInv' /\ InstalledOnce'
    BY <1>9, <1>c DEF Forget, Challenge, RejectRequest
  <1>10. ASSUME NEW c \in Slots, PersistIntent(c) PROVE JournalInv' /\ InstalledOnce'
    <2> DEFINE o == conn[c].key
               n == conn[c].new
    <2>1. /\ o \in Keys /\ n \in Keys /\ MayCommit(o, n)
          /\ journal' = IF Recorded(o, n) THEN journal ELSE Record(o, n, "intent")
          /\ commit' = [slot |-> c, step |-> "intent", exists |-> n \in dir, pins |-> {}]
          /\ conn' = [conn EXCEPT ![c].stage = "commit"]
          /\ UNCHANGED installs
      BY <1>10 DEF PersistIntent, ConnInv
    <2>2. conn'[c].key = o /\ conn'[c].new = n
      BY <2>1, StageFields DEF Same
    <2> HIDE DEF o, n
    <2>3. \A p, q : Recorded(p, q)' <=> Recorded(p, q) \/ (p = o /\ q = n)
      <3>1. CASE Recorded(o, n)
        BY <2>1, <3>1, <1>b
      <3>2. CASE ~Recorded(o, n)
        <4>1. \A p, q : (\E r \in Record(o, n, "intent") : r.old = p /\ r.new = q)
                          <=> Recorded(p, q) \/ (p = o /\ q = n)
          BY <2>1, <3>2, RecordOnce DEF TypeOK, MayCommit
        <4>2. \A p, q : Recorded(p, q)' <=> \E r \in journal' : r.old = p /\ r.new = q
          BY DEF Recorded
        <4>. QED
          BY <2>1, <3>2, <4>1, <4>2
      <3>. QED
        BY <3>1, <3>2
    <2>4. n \notin dir => installs[<<o, n>>] = 0
      <3>1. n \notin dir => ~Recorded(o, n)
        BY <2>1 DEF MayCommit, Reconciled
      <3>2. <<o, n>> \in Keys \X Keys /\ <<o, n>>[1] = o /\ <<o, n>>[2] = n
        BY <2>1
      <3>3. installs[<<o, n>>] > 0 => Recorded(o, n)
        BY <3>2 DEF JournalInv
      <3>4. installs[<<o, n>>] \in Nat
        BY <1>a, <3>2
      <3>. QED
        BY <3>1, <3>3, <3>4
    <2>5. commit'.slot = c /\ commit'.exists = (n \in dir)
      BY <2>1
    <2>. QED
      BY <2>1, <2>2, <2>3, <2>4, <2>5 DEF JournalInv, InstalledOnce
  <1>11. CASE Install
    <2> DEFINE o == conn[commit.slot].key
               n == conn[commit.slot].new
    <2>1. commit # NoCommit /\ commit.slot \in Slots /\ commit.step = "intent"
      BY <1>11, <1>a DEF Install
    <2>2. Recorded(o, n) /\ o \in Keys /\ n \in Keys
      BY <1>a, <2>1 DEF JournalInv, ConnInv
    <2>3. ~commit.exists => installs[<<o, n>>] = 0
      BY <2>1 DEF JournalInv
    <2>4. commit'.slot = commit.slot /\ commit'.step = "installed"
      BY <1>11, <2>1 DEF Install, TypeOK, Commit
    <2>5. /\ IF commit.exists THEN UNCHANGED installs
             ELSE installs' = [installs EXCEPT ![<<o, n>>] = @ + 1]
          /\ UNCHANGED <<conn, journal>>
      BY <1>11 DEF Install
    <2>6. JournalInv!2'
      BY <1>b, <2>2, <2>4, <2>5 DEF JournalInv
    <2> HIDE DEF o, n
    <2>7. ASSUME NEW id \in Keys \X Keys
          PROVE  installs'[id] <= 1 /\ (installs'[id] > 0 => Recorded(id[1], id[2])')
      <3>1. installs[id] <= 1 /\ (installs[id] > 0 => Recorded(id[1], id[2]))
        BY DEF InstalledOnce, JournalInv
      <3>2. CASE id = <<o, n>> /\ ~commit.exists
        <4>1. installs'[id] = 1
          BY <1>a, <2>3, <2>5, <3>2
        <4>2. id[1] = o /\ id[2] = n
          BY <3>2
        <4>. QED
          BY <1>b, <2>2, <2>5, <4>1, <4>2
      <3>3. CASE id # <<o, n>> \/ commit.exists
        <4>1. installs'[id] = installs[id]
          BY <1>a, <2>5, <3>3
        <4>. QED
          BY <1>b, <2>5, <3>1, <4>1
      <3>. QED
        BY <3>2, <3>3
    <2>. QED
      BY <2>6, <2>7 DEF JournalInv, InstalledOnce
  <1>12. CASE CrashClient
    <2>1. \A d \in Slots : conn'[d].key = conn[d].key /\ conn'[d].new = conn[d].new
      BY <1>12 DEF CrashClient, TypeOK, Connection
    <2>. QED
      BY <1>12, <1>d, <2>1 DEF CrashClient
  <1>13. CASE ReloadServer \/ CrashServer
    BY <1>13, <1>c DEF ReloadServer, CrashServer
  <1>14. CASE StartClient \/ SavePending \/ DialFails \/ ClearPending \/ ClearFails
              \/ StartServer \/ ReloadSame
    BY <1>14, <1>d DEF StartClient, SavePending, DialFails, ClearPending, ClearFails,
       StartServer, ReloadSame
  <1>15. ASSUME NEW k \in Keys, EditIdentity(k) \/ PurgeIdle(k) \/ RemovePin(k) \/ AddPin(k)
         PROVE  JournalInv' /\ InstalledOnce'
    BY <1>15, <1>d DEF EditIdentity, PurgeIdle, RemovePin, AddPin
  <1>16. CASE UNCHANGED vars
    BY <1>16, <1>d DEF vars
  <1>. QED
    BY <1>1, <1>2, <1>3, <1>4, <1>5, <1>6, <1>7, <1>8, <1>9, <1>10, <1>11, <1>12, <1>13,
       <1>14, <1>15, <1>16
    DEF Next, Exchange, Serve

\* A key that was trusted once stays so: it is in the directory, or was taken out
\* by an administrator.
LEMMA TrustGrows == [Next]_vars => Trusted \subseteq Trusted'
  <1> SUFFICES ASSUME [Next]_vars PROVE Trusted \subseteq Trusted'
    OBVIOUS
  <1> USE DEF clientVars, diskVars, memoryVars
  <1>a. UNCHANGED <<dir, removed>> => Trusted \subseteq Trusted'
    BY DEF Trusted
  <1>1. CASE Exchange
    BY <1>1, <1>a DEF Exchange, StartClient, SavePending, Begin, Request, Accepted, Rejected,
       DialFails, ClearPending, Activate, DialRotation
  <1>2. CASE StartServer \/ PersistCommit \/ ActivatePins
    BY <1>2, <1>a DEF StartServer, PersistCommit, ActivatePins
  <1>3. CASE Install
    BY <1>3 DEF Install, Trusted
  <1>4. ASSUME NEW c \in Slots,
               Admit(c) \/ Forget(c) \/ Challenge(c) \/ PersistIntent(c) \/ RejectRequest(c)
                 \/ Connect(c)
        PROVE  Trusted \subseteq Trusted'
    BY <1>4, <1>a DEF Admit, Forget, Challenge, PersistIntent, RejectRequest, Connect
  <1>5. CASE ReloadSame \/ ClearFails \/ RotationBreaks \/ DataBreaks \/ CrashClient
             \/ ReloadServer \/ CrashServer \/ CommitFails
    BY <1>5, <1>a DEF ReloadSame, ClearFails, RotationBreaks, DataBreaks, CrashClient,
       ReloadServer, CrashServer, CommitFails
  <1>6. ASSUME NEW k \in Keys, EditIdentity(k) \/ PurgeIdle(k) PROVE Trusted \subseteq Trusted'
    BY <1>6, <1>a DEF EditIdentity, PurgeIdle
  <1>7. ASSUME NEW k \in Keys, RemovePin(k) \/ AddPin(k) PROVE Trusted \subseteq Trusted'
    BY <1>7 DEF RemovePin, AddPin, Trusted
  <1>8. CASE UNCHANGED vars
    BY <1>8, <1>a DEF vars
  <1>. QED
    BY <1>1, <1>2, <1>3, <1>4, <1>5, <1>6, <1>7, <1>8 DEF Next, Serve

LEMMA GrantNext == TypeOK /\ Inv /\ [Next]_vars => GrantInv'
  <1> SUFFICES ASSUME TypeOK, ClientInv, ConnInv, CommitInv, GrantInv, [Next]_vars
               PROVE  GrantInv'
    BY DEF Inv
  <1> USE DEF clientVars, diskVars, memoryVars
  <1>a. /\ commit # NoCommit => commit.slot \in Slots /\ conn[commit.slot].stage = "commit"
        /\ NoCommit.step = "none"
        /\ \A d \in Slots : conn[d].reply # "none" => conn[d].stage = "done"
    BY DEF CommitInv, ConnInv, TypeOK, Commit, NoCommit
  <1>b. Trusted \subseteq Trusted'
    BY TrustGrows
  \* Requests under way keep their replacement; no answer is added.
  <1>c. ASSUME commit' \in {commit, NoCommit},
               \A d \in Slots : conn[d].stage = "commit" => conn'[d].new = conn[d].new,
               \A d \in Slots : conn'[d].reply = "accepted" =>
                                  conn[d].reply = "accepted" /\ conn'[d].new = conn[d].new
        PROVE  GrantInv'
    BY <1>a, <1>b, <1>c DEF GrantInv
  <1>d. ASSUME NEW c \in Slots, Reply(c, "rejected"), commit' \in {commit, NoCommit}
        PROVE  GrantInv'
    BY <1>c, <1>d, ReplyFields DEF Same
  <1>e. ASSUME NEW c \in Slots, NEW s, conn' = [conn EXCEPT ![c].stage = s], UNCHANGED commit
        PROVE  GrantInv'
    BY <1>c, <1>e, StageFields DEF Same
  <1>f. ASSUME NEW c \in Slots, HangUp(c), UNCHANGED commit PROVE GrantInv'
    BY <1>c, <1>f, HangUpFields DEF Same
  <1>1. CASE Begin
    <2>1. rot \in Slots /\ conn[rot].stage = "admitted"
      BY <1>1, Constants DEF Begin, ClientInv, TypeOK
    <2>2. conn[rot].reply = "none"
      BY <1>a, <2>1
    <2>. QED
      BY <1>1, <1>c, <2>1, <2>2, BeginFields DEF Begin
  <1>2. CASE Request
    <2>1. rot \in Slots
      BY <1>2, Constants DEF Request, ClientInv, TypeOK
    <2>. QED
      BY <1>2, <1>e, <2>1 DEF Request
  <1>3. CASE Accepted \/ Rejected \/ RotationBreaks \/ DataBreaks
    <2>1. rot \in Slots \/ (data \in Slots /\ DataBreaks)
      BY <1>3, Constants DEF Accepted, Rejected, RotationBreaks, DataBreaks, ClientInv, TypeOK
    <2>. QED
      BY <1>3, <1>f, <2>1 DEF Accepted, Rejected, RotationBreaks, DataBreaks, TypeOK
  <1>4. CASE Activate
    <2>1. CASE data = 0
      BY <1>4, <1>c, <2>1 DEF Activate
    <2>2. CASE data \in Slots
      BY <1>4, <1>f, <2>2, Constants DEF Activate, HangUp
    <2>. QED
      BY <2>1, <2>2 DEF TypeOK
  <1>5. ASSUME NEW c \in Slots, DialRotation(c) \/ Connect(c) PROVE GrantInv'
    <2>1. Dial(c, client.key) /\ UNCHANGED commit
      BY <1>5 DEF DialRotation, Connect
    <2>2. /\ conn[c].stage = "unused" /\ conn'[c].reply = "none"
          /\ \A d \in Slots : d # c => conn'[d] = conn[d]
      BY <2>1, DialFields
    <2>. QED
      BY <1>c, <2>1, <2>2
  <1>6. CASE PersistCommit
    <2>1. commit # NoCommit /\ commit.slot \in Slots
      BY <1>6, <1>a DEF PersistCommit
    <2>2. CASE Reply(commit.slot, "rejected") /\ commit' = NoCommit
      BY <1>d, <2>1, <2>2
    <2>3. CASE /\ commit' = [commit EXCEPT !.step = "committed", !.pins = dir \ aged]
               /\ conn[commit.slot].new \in dir \ aged
               /\ UNCHANGED conn
      <3>1. commit'.slot = commit.slot
        BY <2>1, <2>3 DEF TypeOK, Commit
      <3>2. conn[commit.slot].new \in Trusted
        BY <2>3 DEF Trusted
      <3>. QED
        BY <1>b, <2>3, <3>1, <3>2 DEF GrantInv
    <2>. QED
      BY <1>6, <2>2, <2>3 DEF PersistCommit
  <1>7. CASE ActivatePins
    <2>1. commit.slot \in Slots /\ conn[commit.slot].new \in Trusted
      BY <1>7, <1>a DEF ActivatePins, GrantInv
    <2>2. \A d \in Slots : /\ conn'[d].new = conn[d].new
                           /\ d # commit.slot => conn'[d].reply = conn[d].reply
      BY <1>7, <2>1, ReplyFields DEF ActivatePins, Same
    <2>. QED
      BY <1>7, <1>a, <1>b, <2>1, <2>2 DEF ActivatePins, GrantInv
  <1>8. CASE CommitFails
    BY <1>8, <1>a, <1>d DEF CommitFails
  <1>9. ASSUME NEW c \in Slots, Admit(c) \/ Forget(c) PROVE GrantInv'
    <2>1. CASE conn' = [conn EXCEPT ![c].stage = "admitted"] /\ UNCHANGED commit
      BY <1>e, <2>1
    <2>2. CASE conn' = [conn EXCEPT ![c] = Unused] /\ UNCHANGED commit /\ conn[c].stage # "commit"
      BY <1>c, <2>2, ResetFields, UnusedFields
    <2>. QED
      BY <1>9, <2>1, <2>2 DEF Admit, Close, Forget
  <1>10. ASSUME NEW c \in Slots, Challenge(c) \/ RejectRequest(c) PROVE GrantInv'
    BY <1>10, <1>d, <1>e DEF Challenge, RejectRequest
  <1>11. ASSUME NEW c \in Slots, PersistIntent(c) PROVE GrantInv'
    <2>1. conn' = [conn EXCEPT ![c].stage = "commit"] /\ commit'.step = "intent"
      BY <1>11 DEF PersistIntent
    <2>2. \A d \in Slots : conn'[d].new = conn[d].new /\ conn'[d].reply = conn[d].reply
      BY <2>1, StageFields DEF Same
    <2>. QED
      BY <1>b, <2>1, <2>2 DEF GrantInv
  <1>12. CASE Install
    <2>1. commit # NoCommit
      BY <1>12, <1>a DEF Install
    <2>2. commit'.step = "installed" /\ UNCHANGED conn
      BY <1>12, <2>1 DEF Install, TypeOK, Commit
    <2>. QED
      BY <1>b, <2>2 DEF GrantInv
  <1>13. CASE CrashClient
    <2>1. \A d \in Slots : conn'[d].new = conn[d].new /\ conn'[d].reply = conn[d].reply
      BY <1>13 DEF CrashClient, TypeOK, Connection
    <2>. QED
      BY <1>13, <1>c, <2>1 DEF CrashClient
  <1>14. CASE ReloadServer \/ CrashServer
    <2>1. \A d \in Slots : conn'[d] = conn[d] \/ conn'[d] = Unused
      BY <1>14 DEF ReloadServer, CrashServer
    <2>2. commit' = NoCommit
      BY <1>14 DEF ReloadServer, CrashServer
    <2>. QED
      BY <1>a, <1>b, <2>1, <2>2, UnusedFields DEF GrantInv
  <1>15. CASE StartClient \/ SavePending \/ DialFails \/ ClearPending \/ ClearFails
              \/ StartServer \/ ReloadSame
    BY <1>15, <1>c DEF StartClient, SavePending, DialFails, ClearPending, ClearFails,
       StartServer, ReloadSame
  <1>16. ASSUME NEW k \in Keys, EditIdentity(k) \/ PurgeIdle(k) \/ RemovePin(k) \/ AddPin(k)
         PROVE  GrantInv'
    BY <1>16, <1>c DEF EditIdentity, PurgeIdle, RemovePin, AddPin
  <1>17. CASE UNCHANGED vars
    BY <1>17, <1>c DEF vars
  <1>. QED
    BY <1>1, <1>2, <1>3, <1>4, <1>5, <1>6, <1>7, <1>8, <1>9, <1>10, <1>11, <1>12, <1>13,
       <1>14, <1>15, <1>16, <1>17
    DEF Next, Exchange, Serve

LEMMA TrustNext == TypeOK /\ Inv /\ [Next]_vars => TrustInv'
  <1> SUFFICES ASSUME TypeOK, ClientInv, GrantInv, TrustInv, [Next]_vars PROVE TrustInv'
    BY DEF Inv
  <1> USE DEF clientVars, diskVars, memoryVars
  <1>a. Trusted \subseteq Trusted'
    BY TrustGrows
  <1>b. ASSUME UNCHANGED <<identity, recovery, client, files>> PROVE TrustInv'
    BY <1>a, <1>b DEF TrustInv
  <1>c. ASSUME NEW s \in {"run", "saved", "dialed", "begun", "requested", "accepted", "cleared"},
               client' = [client EXCEPT !.stage = s]
        PROVE  client'.up = client.up /\ client'.stage = s /\ client'.key = client.key
                 /\ client'.candidate = client.candidate
    BY <1>c, ClientUpdates
  \* The stage of the exchange changes, but not to one that relies on an answer.
  <1>d. ASSUME NEW s \in {"run", "dialed", "begun", "requested"},
               client' \in {client, [client EXCEPT !.stage = s]},
               UNCHANGED <<identity, recovery, files>>
        PROVE  TrustInv'
    <2>1. CASE client' = client
      BY <1>b, <1>d, <2>1
    <2>2. CASE client' = [client EXCEPT !.stage = s]
      <3>1. client'.up = client.up /\ client'.stage = s /\ client'.key = client.key
        BY <1>c, <2>2
      <3>. QED
        BY <1>a, <1>d, <3>1 DEF TrustInv
    <2>. QED
      BY <1>d, <2>1, <2>2
  <1>1. CASE StartClient
    <2>1. /\ client'.stage = "run"
          /\ client'.key = IF recovery # NoRecovery THEN recovery.old ELSE identity
      BY <1>1 DEF StartClient
    <2>. QED
      BY <1>1, <1>a, <2>1 DEF StartClient, TrustInv, TypeOK
  <1>2. CASE SavePending
    <2>1. client'.stage = "saved" /\ client'.key = client.key
      BY <1>2 DEF SavePending, TypeOK, ClientState
    <2>2. recovery'.old = client.key /\ recovery'.new = identity
      BY <1>2 DEF SavePending
    <2>3. recovery' # NoRecovery
      BY <2>2, Constants DEF NoRecovery, TypeOK
    <2>. QED
      BY <1>2, <1>a, <2>1, <2>2, <2>3 DEF SavePending, TrustInv, After
  <1>3. CASE Begin \/ Request \/ Rejected \/ RotationBreaks \/ DialFails
    BY <1>3, <1>d DEF Begin, Request, Rejected, RotationBreaks, DialFails, GiveUp
  <1>4. ASSUME NEW c \in Slots, DialRotation(c) PROVE TrustInv'
    BY <1>4, <1>d DEF DialRotation
  <1>5. CASE Accepted
    <2>1. rot \in Slots
      BY <1>5, Constants DEF Accepted, ClientInv, TypeOK
    <2>2. client.candidate \in Trusted
      BY <1>5, <2>1 DEF Accepted, ClientInv, GrantInv
    <2>3. client'.up = client.up /\ client'.stage = "accepted" /\ client'.key = client.key
            /\ client'.candidate = client.candidate
      BY <1>5, <1>c DEF Accepted
    <2>. QED
      BY <1>5, <1>a, <2>2, <2>3 DEF Accepted, TrustInv
  <1>6. CASE ClearPending \/ ClearFails
    <2>1. /\ client'.stage \in {"cleared", "run"} /\ client'.up = client.up
          /\ client'.key = client.key /\ client'.candidate = client.candidate
      BY <1>6, <1>c DEF ClearPending, ClearFails
    <2>2. client.candidate \in Trusted /\ recovery.new = client.candidate
      BY <1>6 DEF ClearPending, ClearFails, TrustInv, ClientInv
    <2>. QED
      BY <1>6, <1>a, <2>1, <2>2 DEF ClearPending, ClearFails, TrustInv
  <1>7. CASE Activate
    <2>1. client'.stage = "run" /\ client'.key = client.candidate
      BY <1>7 DEF Activate, TypeOK, ClientState
    <2>2. client.candidate \in Trusted
      BY <1>7 DEF Activate, TrustInv
    <2>. QED
      BY <1>7, <1>a, <2>1, <2>2 DEF Activate, TrustInv, After
  <1>8. CASE ReloadSame
    BY <1>8, <1>a DEF ReloadSame, TrustInv, After
  <1>9. CASE CrashClient
    BY <1>9, <1>a DEF CrashClient, TrustInv
  <1>10. ASSUME NEW k \in Keys, EditIdentity(k) PROVE TrustInv'
    BY <1>10, <1>a DEF EditIdentity, TrustInv, After
  <1>11. CASE StartServer \/ Install \/ PersistCommit \/ ActivatePins \/ CommitFails \/ DataBreaks
    BY <1>11, <1>b DEF StartServer, Install, PersistCommit, ActivatePins, CommitFails, DataBreaks
  <1>12. ASSUME NEW c \in Slots, Admit(c) PROVE TrustInv'
    BY <1>12, <1>d DEF Admit, Close
  <1>13. ASSUME NEW c \in Slots,
                Forget(c) \/ Challenge(c) \/ PersistIntent(c) \/ RejectRequest(c) \/ Connect(c)
         PROVE  TrustInv'
    BY <1>13, <1>b DEF Forget, Challenge, PersistIntent, RejectRequest, Connect
  <1>14. ASSUME NEW k \in Keys, PurgeIdle(k) \/ RemovePin(k) \/ AddPin(k) PROVE TrustInv'
    BY <1>14, <1>b DEF PurgeIdle, RemovePin, AddPin
  <1>15. CASE ReloadServer \/ CrashServer
    BY <1>15, <1>d DEF ReloadServer, CrashServer
  <1>16. CASE UNCHANGED vars
    BY <1>16, <1>b DEF vars
  <1>. QED
    BY <1>1, <1>2, <1>3, <1>4, <1>5, <1>6, <1>7, <1>8, <1>9, <1>10, <1>11, <1>12, <1>13,
       <1>14, <1>15, <1>16
    DEF Next, Exchange, Serve

-----------------------------------------------------------------------------
(* The theorems.                                                           *)

LEMMA InductiveInvariant == Spec => [](TypeOK /\ Inv)
  <1>1. Init => TypeOK /\ Inv
    BY TypeInit, InvInit
  <1>2. TypeOK /\ Inv /\ [Next]_vars => TypeOK' /\ Inv'
    <2>1. TypeOK /\ Inv /\ [Next]_vars => TypeOK'
      BY TypeNext DEF Inv
    <2>. QED
      BY <2>1, ClientNext, ConnNext, CommitNext, JournalNext, GrantNext, TrustNext DEF Inv
  <1>. QED
    BY <1>1, <1>2, PTL DEF Spec

\* Both sides keep to their types, and the journal of rotations to its bound
\* (CommitRotation: tcpTLSMaxRotationRecords).
THEOREM RotationTypeCorrect == Spec => []TypeOK
  BY InductiveInvariant, PTL

\* No session is registered, or kept, with a key that is not an active pin,
\* whatever reloads, aging, rotations and crashes do between the handshake and
\* Admit, and afterwards.
THEOREM SessionsStayAuthorized == Spec => []SessionsAuthorized
  <1>1. Inv => SessionsAuthorized
    BY DEF Inv
  <1>. QED
    BY <1>1, InductiveInvariant, PTL

\* A replacement's entry is written at most once, for any number of retries,
\* crashes and deletions (CommitRotation).
THEOREM ReplacementInstalledOnce == Spec => []InstalledOnce
  <1>1. Inv => InstalledOnce
    BY DEF Inv
  <1>. QED
    BY <1>1, InductiveInvariant, PTL

\* Upstream's active key is one that downstream trusts, or one that somebody took
\* out there or started upstream with by hand, for any number of lost answers,
\* crashes and failing writes (reloadPinned, CommitRotation).
THEOREM ActiveIdentityTrusted == Spec => []IdentityTrusted
  <1>1. Inv => IdentityTrusted
    BY DEF Inv, TrustInv, Trusted, IdentityTrusted
  <1>. QED
    BY <1>1, InductiveInvariant, PTL

=============================================================================
