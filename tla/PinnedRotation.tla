--------------------------- MODULE PinnedRotation ---------------------------
(***************************************************************************)
(* Pinned TLS: rotation of the client key of one upstream (reloadPinned,    *)
(* RequestRotation) with downstream's pin manager (HandleRotation,          *)
(* CommitRotation), admission and revocation of sessions, and aging of idle *)
(* pins.  Either side may crash between any two writes to its disk, any     *)
(* connection may break, and an administrator edits the trusted directory   *)
(* at any time.                                                             *)
(*                                                                         *)
(* Keys are numbers, in the order of their fingerprints; they all belong to *)
(* one peer.  Signatures and nonces are what makes a request belong to its  *)
(* connection, and are modelled by that.  tcpTLSRotationEnabled is on.      *)
(***************************************************************************)
EXTENDS Integers, Sequences, FiniteSets

CONSTANTS NrKeys,
          NrIdentities,    \* bound: keys that upstream's identity files may hold, the
                           \* first ones
          NrSlots,         \* connections that can exist at the same time
          Automatic,       \* tcpTLSAutomaticRotation
          Aging,           \* tcpTLSPinIdleSeconds > 0
          MaxPins, MaxRotationRecords,
          MaxEdits,        \* bound: changes of upstream's identity files
          MaxAdmin,        \* bound: changes to the trusted directory
          MaxFaults        \* bound: crashes of either side, broken connections, expired
                           \* challenges, writes to disk that fail, and changes to the
                           \* trusted directory, together

Keys == 1 .. NrKeys
Slots == 1 .. NrSlots

ASSUME RotationAssumption ==
    /\ {NrKeys, NrIdentities, NrSlots} \subseteq Nat \ {0}
    /\ {Automatic, Aging} \subseteq BOOLEAN
    /\ {MaxPins, MaxRotationRecords, MaxEdits, MaxAdmin, MaxFaults} \subseteq Nat

VARIABLES
    identity,   \* upstream's disk: the key of the configured identity files
    recovery,   \* upstream's disk: .pinned-client-rotation.json, [old, new]
    client,     \* upstream: [up, key, stage, candidate], key is the active identity
    data, rot,  \* upstream: the slots of its data and rotation connections, 0 for none
    conn,       \* per slot: [key, stage, new, open, reply], as downstream sees it
    dir,        \* downstream's disk: pins of the trusted directory
    journal,    \* downstream's disk: .pinned-rotations.json, [old, new, state]
    server,     \* downstream is up
    active,     \* downstream: pins of the active snapshot
    aged,       \* downstream: pins that aged out
    recency,    \* downstream: pins by lastUsed, latest first
    commit,     \* downstream: the CommitRotation that holds the lock
    installs,   \* per <<old, new>>: entries written by rotations (history)
    removed,    \* pins that an administrator deleted (history)
    files,      \* the identity files: "read" by the last reload, "ahead" of it, or
                \* "used" by a start although they were ahead (history)
    happened    \* [edits, admin, faults] so far

vars == <<identity, recovery, client, data, rot, conn, dir, journal, server, active, aged,
          recency, commit, installs, removed, files, happened>>

clientVars == <<identity, recovery, client, data, rot, files>>
diskVars == <<dir, journal, installs, removed>>
memoryVars == <<server, active, aged, recency>>

NoRecovery == [old |-> 0, new |-> 0]
Unused == [key |-> 0, stage |-> "unused", new |-> 0, open |-> FALSE, reply |-> "none"]
NoCommit == [slot |-> 0, step |-> "none", exists |-> FALSE, pins |-> {}]

\* Connections that the manager has admitted.
Registered == {"admitted", "begin", "challenged", "request", "commit", "done"}
Sessions == {c \in Slots : conn[c].stage \in Registered}

Count(field) == happened' = [happened EXCEPT ![field] = @ + 1]
FaultsLeft == happened.admin + happened.faults < MaxFaults
Fault == FaultsLeft /\ Count("faults")
After(ahead) == IF files = "used" THEN "used" ELSE IF ahead THEN "ahead" ELSE "read"
-----------------------------------------------------------------------------
\* Upstream.

\* The operator installs other identity files, for a SIGHUP.
EditIdentity(k) ==
    /\ client.up
    /\ happened.edits < MaxEdits
    /\ k <= NrIdentities /\ k # identity
    /\ identity' = k
    /\ files' = After(k # client.key)
    /\ Count("edits")
    /\ UNCHANGED <<recovery, client, data, rot, conn, diskVars, memoryVars, commit>>

\* Start: a pending rotation restores the old identity; one for another
\* replacement is fatal.
StartClient ==
    /\ ~client.up
    /\ recovery # NoRecovery => recovery.new = identity
    /\ client' = [up |-> TRUE, stage |-> "run", candidate |-> 0,
                  key |-> IF recovery # NoRecovery THEN recovery.old ELSE identity]
    /\ files' = IF files = "ahead" /\ recovery = NoRecovery THEN "used" ELSE files
    /\ UNCHANGED <<identity, recovery, data, rot, conn, diskVars, memoryVars, commit, happened>>

\* SIGHUP with the same identity: nothing to exchange.
ReloadSame ==
    /\ client.up /\ client.stage = "run"
    /\ identity = client.key
    /\ files' = After(FALSE)
    /\ UNCHANGED <<identity, recovery, client, data, rot, conn, diskVars, memoryVars, commit, happened>>

\* Mutant: a recovery file that is there is never taken up again.
MutantResumable == recovery = NoRecovery

\* A recovery file that is there must be for the same exchange.
Resumable == recovery \in {NoRecovery, [old |-> client.key, new |-> identity]}

\* SIGHUP with another identity: SavePendingClient.
SavePending ==
    /\ client.up /\ client.stage = "run"
    /\ identity # client.key
    /\ Resumable
    /\ recovery' = [old |-> client.key, new |-> identity]
    /\ client' = [client EXCEPT !.stage = "saved", !.candidate = identity]
    /\ files' = After(FALSE)
    /\ UNCHANGED <<identity, data, rot, conn, diskVars, memoryVars, commit, happened>>

\* A handshake, on the first slot that is free: VerifyConnection against the
\* active pins.
Dial(c, k) ==
    /\ server
    /\ commit = NoCommit
    /\ conn[c] = Unused
    /\ \A d \in Slots : conn[d] = Unused => c <= d
    /\ k \in active
    /\ conn' = [conn EXCEPT ![c] = [Unused EXCEPT !.key = k, !.stage = "verified", !.open = TRUE]]

Connect(c) ==
    /\ client.up /\ client.stage = "run" /\ data = 0
    /\ Dial(c, client.key)
    /\ data' = c
    /\ UNCHANGED <<identity, recovery, client, rot, files, diskVars, memoryVars, commit, happened>>

DialRotation(c) ==
    /\ client.stage = "saved"
    /\ Dial(c, client.key)
    /\ rot' = c
    /\ client' = [client EXCEPT !.stage = "dialed"]
    /\ UNCHANGED <<identity, recovery, data, files, diskVars, memoryVars, commit, happened>>

\* RequestRotation: begin, and the signed request for the challenge.
Begin ==
    /\ client.stage = "dialed"
    /\ conn[rot].stage = "admitted"
    /\ conn' = [conn EXCEPT ![rot].stage = "begin", ![rot].new = client.candidate]
    /\ client' = [client EXCEPT !.stage = "begun"]
    /\ UNCHANGED <<identity, recovery, data, rot, files, diskVars, memoryVars, commit, happened>>

Request ==
    /\ client.stage = "begun"
    /\ conn[rot].stage = "challenged"
    /\ conn' = [conn EXCEPT ![rot].stage = "request"]
    /\ client' = [client EXCEPT !.stage = "requested"]
    /\ UNCHANGED <<identity, recovery, data, rot, files, diskVars, memoryVars, commit, happened>>

HangUp(c) == conn' = [conn EXCEPT ![c].open = FALSE]

Accepted ==
    /\ client.stage = "requested"
    /\ conn[rot].reply = "accepted"
    /\ client' = [client EXCEPT !.stage = "accepted"]
    /\ HangUp(rot)
    /\ rot' = 0
    /\ UNCHANGED <<identity, recovery, data, files, diskVars, memoryVars, commit, happened>>

\* Mutant: an exchange that fails removes the recovery file.
MutantGiveUp ==
    /\ client' = [client EXCEPT !.stage = "run"]
    /\ recovery' = NoRecovery

\* reloadPinned returns an error: the old identity stays active, the recovery
\* file stays on disk.
GiveUp ==
    /\ client' = [client EXCEPT !.stage = "run"]
    /\ UNCHANGED recovery

Rejected ==
    /\ client.stage \in {"begun", "requested"}
    /\ conn[rot].reply = "rejected"
    /\ GiveUp
    /\ HangUp(rot)
    /\ rot' = 0
    /\ UNCHANGED <<identity, data, files, diskVars, memoryVars, commit, happened>>

\* The dial fails.
DialFails ==
    /\ client.stage = "saved"
    /\ ~server \/ client.key \notin active
    /\ GiveUp
    /\ UNCHANGED <<identity, data, rot, files, conn, diskVars, memoryVars, commit, happened>>

\* The rotation connection breaks, or its deadline of 5 seconds passes.
RotationBreaks ==
    /\ rot # 0
    /\ Fault
    /\ GiveUp
    /\ HangUp(rot)
    /\ rot' = 0
    /\ UNCHANGED <<identity, data, files, diskVars, memoryVars, commit>>

DataBreaks ==
    /\ data # 0
    /\ Fault
    /\ HangUp(data)
    /\ data' = 0
    /\ UNCHANGED <<identity, recovery, client, rot, files, diskVars, memoryVars, commit>>

ClearPending ==
    /\ client.stage = "accepted"
    /\ recovery' = NoRecovery
    /\ client' = [client EXCEPT !.stage = "cleared"]
    /\ UNCHANGED <<identity, data, rot, files, conn, diskVars, memoryVars, commit, happened>>

\* The new identity becomes active; the data connection of the old one is closed.
Activate ==
    /\ client.stage = "cleared"
    /\ client' = [client EXCEPT !.key = client.candidate, !.stage = "run"]
    /\ conn' = IF data = 0 THEN conn ELSE [conn EXCEPT ![data].open = FALSE]
    /\ data' = 0
    /\ files' = After(identity # client.candidate)
    /\ UNCHANGED <<identity, recovery, rot, diskVars, memoryVars, commit, happened>>

\* The recovery file is gone but the removal could not be synced: reloadPinned
\* returns an error and the old identity stays active.
ClearFails ==
    /\ client.stage = "accepted"
    /\ Fault
    /\ recovery' = NoRecovery
    /\ client' = [client EXCEPT !.stage = "run"]
    /\ UNCHANGED <<identity, data, rot, files, conn, diskVars, memoryVars, commit>>

CrashClient ==
    /\ client.up
    /\ Fault
    /\ client' = [up |-> FALSE, key |-> 0, stage |-> "run", candidate |-> 0]
    /\ conn' = [c \in Slots |-> [conn[c] EXCEPT !.open = FALSE]]
    /\ data' = 0 /\ rot' = 0
    /\ UNCHANGED <<identity, recovery, files, diskVars, memoryVars, commit>>
-----------------------------------------------------------------------------
\* Downstream: sessions.

\* Downstream closes connection c; upstream notices at once.
Close(c) ==
    /\ conn' = [conn EXCEPT ![c] = Unused]
    /\ data' = IF data = c THEN 0 ELSE data
    /\ rot' = IF rot = c THEN 0 ELSE rot
    /\ client' = IF rot = c THEN [client EXCEPT !.stage = "run"] ELSE client
    /\ UNCHANGED <<identity, recovery, files>>

Others(s, k) == SelectSeq(s, LAMBDA x : x # k)

\* Mutant: what the handshake verified is not checked again.
MutantAuthorized(c) == TRUE

Authorized(c) == conn[c].key \in active

Admit(c) ==
    /\ conn[c].stage = "verified"
    /\ commit = NoCommit
    /\ IF Authorized(c)
       THEN /\ conn' = [conn EXCEPT ![c].stage = "admitted"]
            /\ recency' = <<conn[c].key>> \o Others(recency, conn[c].key)
            /\ UNCHANGED clientVars
       ELSE Close(c) /\ UNCHANGED recency
    /\ UNCHANGED <<diskVars, server, active, aged, commit, happened>>

\* A read fails because upstream has closed the connection: Forget.
Forget(c) ==
    /\ ~conn[c].open
    /\ conn[c].stage \in {"verified", "admitted", "challenged", "done"}
    /\ commit = NoCommit
    /\ conn' = [conn EXCEPT ![c] = Unused]
    /\ UNCHANGED <<clientVars, diskVars, memoryVars, commit, happened>>

\* The pin of the peer that purgeIdle keeps: the last one that was used, or the
\* first by fingerprint.
LatestPin ==
    LET used == SelectSeq(recency, LAMBDA k : k \in active) IN
    IF used # <<>> THEN Head(used) ELSE CHOOSE k \in active : \A j \in active : k <= j

\* purgeIdle, for one pin whose idle time has passed.
PurgeIdle(k) ==
    /\ server /\ Aging
    /\ commit = NoCommit
    /\ k \in active
    /\ k # LatestPin
    /\ \A c \in Sessions : conn[c].key # k
    /\ active' = active \ {k}
    /\ aged' = aged \cup {k}
    /\ UNCHANGED <<clientVars, conn, diskVars, server, recency, commit, happened>>

\* loadTrust: a directory with too many entries is an error.
Loadable == Cardinality(dir) <= MaxPins

ResetIdle ==
    /\ aged' = {}
    /\ recency' = SelectSeq(recency, LAMBDA k : k \in dir)

\* SIGHUP: the directory becomes the active snapshot, sessions of pins that are
\* gone are closed.  rotationMu keeps rotations out.
ReloadServer ==
    LET gone == {c \in Sessions : conn[c].key \notin dir} IN
    /\ server
    /\ commit = NoCommit
    /\ Loadable
    /\ active # dir \/ aged # {}
    /\ active' = dir
    /\ ResetIdle
    /\ conn' = [c \in Slots |-> IF c \in gone THEN Unused ELSE conn[c]]
    /\ data' = IF data \in gone THEN 0 ELSE data
    /\ rot' = IF rot \in gone THEN 0 ELSE rot
    /\ client' = IF rot \in gone THEN [client EXCEPT !.stage = "run"] ELSE client
    /\ UNCHANGED <<identity, recovery, files, diskVars, server, commit, happened>>

\* The administrator edits the trusted directory.
RemovePin(k) ==
    /\ happened.admin < MaxAdmin /\ FaultsLeft
    /\ k \in dir
    /\ dir' = dir \ {k}
    /\ removed' = removed \cup {k}
    /\ Count("admin")
    /\ UNCHANGED <<clientVars, conn, journal, installs, memoryVars, commit>>

AddPin(k) ==
    /\ happened.admin < MaxAdmin /\ FaultsLeft
    /\ k \notin dir
    /\ dir' = dir \cup {k}
    /\ removed' = removed \ {k}
    /\ Count("admin")
    /\ UNCHANGED <<clientVars, conn, journal, installs, memoryVars, commit>>

CrashServer ==
    /\ server
    /\ Fault
    /\ server' = FALSE
    /\ active' = {} /\ aged' = {} /\ recency' = <<>>
    /\ commit' = NoCommit
    /\ conn' = [c \in Slots |-> Unused]
    /\ data' = 0 /\ rot' = 0
    /\ client' = IF rot # 0 THEN [client EXCEPT !.stage = "run"] ELSE client
    /\ UNCHANGED <<identity, recovery, files, diskVars>>

StartServer ==
    /\ ~server
    /\ Loadable
    /\ server' = TRUE
    /\ active' = dir
    /\ UNCHANGED <<clientVars, conn, diskVars, aged, recency, commit, happened>>
-----------------------------------------------------------------------------
\* Downstream: HandleRotation and CommitRotation, which holds the manager's lock
\* from its checks to its end.

Reply(c, r) ==
    conn' = [conn EXCEPT ![c].stage = "done", ![c].reply = r]

Challenge(c) ==
    /\ conn[c].stage = "begin"
    /\ commit = NoCommit
    /\ IF conn[c].key \in active
       THEN conn' = [conn EXCEPT ![c].stage = "challenged"]
       ELSE Reply(c, "rejected")
    /\ UNCHANGED <<clientVars, diskVars, memoryVars, commit, happened>>

Recorded(o, n) == \E r \in journal : r.old = o /\ r.new = n

\* Another replacement is pending for the peer, or the old key was used for one.
Conflicting(o, n) ==
    \E r \in journal : <<r.old, r.new>> # <<o, n>> /\ (r.state = "intent" \/ r.old = o)

\* Mutant: a retry writes the entry again.
MutantReconciled(o, n) == TRUE

\* A replacement that is on record is not reconstructed.
Reconciled(o, n) == Recorded(o, n) => n \in dir

\* compatibleRotationPins: apart from the replacement, memory and disk agree.
Compatible(pins, n) == active \ {n} = pins \ {n}

MayCommit(o, n) ==
    /\ o \in active
    /\ ~Conflicting(o, n)
    /\ Loadable
    /\ o \in dir
    /\ n \notin aged
    /\ Reconciled(o, n)
    /\ n \in active \/ Automatic \/ Recorded(o, n)
    /\ Compatible(dir \ aged, n)
    /\ n \in dir \/ Cardinality(dir) < MaxPins
    /\ Recorded(o, n) \/ Cardinality(journal) < MaxRotationRecords

Record(o, n, state) ==
    {r \in journal : <<r.old, r.new>> # <<o, n>>}
        \cup {[old |-> o, new |-> n, state |-> state]}

\* The checks, then the intent is made durable.
PersistIntent(c) ==
    LET o == conn[c].key
        n == conn[c].new
    IN /\ conn[c].stage = "request"
       /\ commit = NoCommit
       /\ MayCommit(o, n)
       /\ conn' = [conn EXCEPT ![c].stage = "commit"]
       /\ journal' = IF Recorded(o, n) THEN journal ELSE Record(o, n, "intent")
       /\ commit' = [slot |-> c, step |-> "intent", exists |-> n \in dir, pins |-> {}]
       /\ UNCHANGED <<clientVars, dir, installs, removed, memoryVars, happened>>

\* The checks fail, or the challenge has expired.
RejectRequest(c) ==
    /\ conn[c].stage = "request"
    /\ commit = NoCommit
    /\ IF MayCommit(conn[c].key, conn[c].new) THEN Fault ELSE UNCHANGED happened
    /\ Reply(c, "rejected")
    /\ UNCHANGED <<clientVars, diskVars, memoryVars, commit>>

\* installPublicEntry, unless the replacement was on disk at the checks.
Install ==
    LET id == <<conn[commit.slot].key, conn[commit.slot].new>> IN
    /\ commit.step = "intent"
    /\ IF commit.exists
       THEN UNCHANGED <<dir, installs>>
       ELSE /\ dir' = dir \cup {id[2]}
            /\ installs' = [installs EXCEPT ![id] = @ + 1]
    /\ commit' = [commit EXCEPT !.step = "installed"]
    /\ UNCHANGED <<clientVars, conn, journal, removed, memoryVars, happened>>

\* The directory is read again and validated, and the record marked committed.
PersistCommit ==
    LET c == commit.slot
        n == conn[c].new
    IN /\ commit.step = "installed"
       /\ IF Loadable /\ Compatible(dir \ aged, n) /\ n \in dir \ aged
          THEN /\ journal' = Record(conn[c].key, n, "committed")
               /\ commit' = [commit EXCEPT !.step = "committed", !.pins = dir \ aged]
               /\ UNCHANGED conn
          ELSE /\ commit' = NoCommit
               /\ Reply(c, "rejected")
               /\ UNCHANGED journal
       /\ UNCHANGED <<clientVars, dir, installs, removed, memoryVars, happened>>

\* A write fails: the intent, the entry or the commit.  What was written before
\* the failure (of a sync, say) may be on disk.
CommitFails ==
    /\ commit # NoCommit
    /\ Fault
    /\ commit' = NoCommit
    /\ Reply(commit.slot, "rejected")
    /\ UNCHANGED <<clientVars, diskVars, memoryVars>>

\* The snapshot that was validated becomes active, and the request is accepted.
ActivatePins ==
    /\ commit.step = "committed"
    /\ active' = commit.pins
    /\ commit' = NoCommit
    /\ Reply(commit.slot, "accepted")
    /\ UNCHANGED <<clientVars, diskVars, server, aged, recency, happened>>
-----------------------------------------------------------------------------
Init ==
    /\ identity = 1
    /\ recovery = NoRecovery
    /\ client = [up |-> TRUE, key |-> 1, stage |-> "run", candidate |-> 0]
    /\ data = 0 /\ rot = 0
    /\ conn = [c \in Slots |-> Unused]
    /\ dir = {1}
    /\ journal = {}
    /\ server = TRUE
    /\ active = {1}
    /\ aged = {}
    /\ recency = <<>>
    /\ commit = NoCommit
    /\ installs = [id \in Keys \X Keys |-> 0]
    /\ removed = {}
    /\ files = "read"
    /\ happened = [edits |-> 0, admin |-> 0, faults |-> 0]

\* The steps that the two programs take by themselves; SIGHUP is sent again as
\* long as the identity files differ from the active identity.
Exchange ==
    \/ StartClient \/ SavePending \/ Begin \/ Request \/ Accepted \/ Rejected \/ DialFails
    \/ ClearPending \/ Activate
    \/ \E c \in Slots : DialRotation(c)

Serve ==
    \/ StartServer \/ Install \/ PersistCommit \/ ActivatePins
    \/ \E c \in Slots : Admit(c) \/ Forget(c) \/ Challenge(c) \/ PersistIntent(c)
                        \/ RejectRequest(c)

Next ==
    \/ Exchange
    \/ Serve
    \/ ReloadSame \/ ClearFails \/ RotationBreaks \/ DataBreaks \/ CrashClient
    \/ \E k \in Keys : EditIdentity(k) \/ PurgeIdle(k) \/ RemovePin(k) \/ AddPin(k)
    \/ \E c \in Slots : Connect(c)
    \/ ReloadServer \/ CrashServer \/ CommitFails

Spec == Init /\ [][Next]_vars

FairSpec == Spec /\ WF_vars(Exchange) /\ WF_vars(Serve)
-----------------------------------------------------------------------------
ClientState ==
    [up : BOOLEAN, key : Keys \cup {0}, candidate : Keys \cup {0},
     stage : {"run", "saved", "dialed", "begun", "requested", "accepted", "cleared"}]

Connection ==
    [key : Keys \cup {0}, stage : {"unused", "verified"} \cup Registered,
     new : Keys \cup {0}, open : BOOLEAN, reply : {"none", "accepted", "rejected"}]

Commit ==
    [slot : Slots, step : {"intent", "installed", "committed"}, exists : BOOLEAN,
     pins : SUBSET Keys] \cup {NoCommit}

RotationRecord == [old : Keys, new : Keys, state : {"intent", "committed"}]

\* The types of the variables, and the bound on the records of the journal.
TypeOK ==
    /\ identity \in Keys
    /\ recovery \in [old : Keys, new : Keys] \cup {NoRecovery}
    /\ client \in ClientState
    /\ client.up <=> client.key # 0
    /\ data \in Slots \cup {0} /\ rot \in Slots \cup {0}
    /\ conn \in [Slots -> Connection]
    /\ dir \cup active \cup aged \cup removed \subseteq Keys
    /\ journal \subseteq RotationRecord
    /\ IsFiniteSet(journal) /\ Cardinality(journal) <= MaxRotationRecords
    /\ server \in BOOLEAN
    /\ commit \in Commit
    /\ installs \in [Keys \X Keys -> Nat]
    /\ files \in {"read", "ahead", "used"}
    /\ happened \in [edits : Nat, admin : Nat, faults : Nat]

\* A session is never registered, or kept, with a key that is not an active pin:
\* a handshake that was verified before a reload or before its pin aged does not
\* survive it (Admit, Activate, purgeIdle, CommitRotation).
SessionsAuthorized == \A c \in Sessions : conn[c].key \in active

\* The entry of a replacement is written at most once, whatever is retried after
\* crashes, lost answers and deletions: an administrator's removal is final for
\* that exchange (CommitRotation: "Retries never reconstruct deleted pins").
InstalledOnce == \A id \in Keys \X Keys : installs[id] <= 1

\* Upstream never uses a key that downstream's directory does not hold, unless an
\* administrator took it out or upstream was started with identity files that no
\* SIGHUP had announced: not after a lost answer, a crash of either side or a
\* failing write (reloadPinned, SavePendingClient, RestorePendingClient, the
\* order of CommitRotation's writes).
IdentityTrusted ==
    client.up /\ files # "used" => client.key \in dir \cup removed

\* Somebody has to help: an intent's pin was not installed or is gone, a pin aged
\* out or was changed by hand, or the identity files are not those of the exchange
\* that is pending, or were put to use without one, or the active key is on record
\* with another replacement (which upstream never came to use), or there is no room
\* for a pin or for the record of the exchange.
NeedsOperator ==
    \/ commit = NoCommit /\ \E r \in journal : r.state = "intent" /\ r.new \notin dir
    \/ aged # {} \/ happened.admin > 0
    \/ recovery # NoRecovery /\ recovery.new # identity
    \/ files = "used"
    \/ \E r \in journal : r.old = client.key /\ r.new # identity
    \/ identity \notin dir /\ Cardinality(dir) >= MaxPins
    \/ Cardinality(journal) >= MaxRotationRecords /\ \A r \in journal : r.new # identity

\* A rotation that SIGHUP asks for again and again completes without an operator's
\* help, although connections break, answers are lost, writes fail and either side
\* restarts (RequestRotation, CommitRotation on a retry, RestorePendingClient).
RotationCompletes ==
    (identity # client.key) ~> (identity = client.key \/ NeedsOperator)
=============================================================================
