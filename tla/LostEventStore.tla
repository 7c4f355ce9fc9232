--------------------------- MODULE LostEventStore ---------------------------
(***************************************************************************)
(* The directory in which upstream keeps the payloads of events it could   *)
(* not deliver (upstream/ale.go).  Every thread that loses an event first  *)
(* deletes, compresses and evicts old files, then writes its own; the      *)
(* threads share the directory without a lock.  A payload is known by the  *)
(* number of its write; its name holds the time in nanoseconds, so a retry *)
(* writes another file.  How much space is free depends on the whole host, *)
(* so a check of it may go either way.  Nobody reads the announcement of a *)
(* removal, which is therefore part of the step that removes.              *)
(* The definitions have other names than those of UpstreamRelay, which      *)
(* hands over the payloads, so that a module can extend both.               *)
(***************************************************************************)
EXTENDS Naturals, FiniteSets

CONSTANTS
    Threads,             \* the threads of upstream that handle records
    Nobody,              \* the owner of what no thread of this process works on
    CompressAfterDays,   \* lostEventDirectoryCompressAfterDays, 0 for never
    DeleteAfterDays,     \* lostEventDirectoryDeleteAfterDays, 0 for never
    MaxWrites,           \* bound: payloads, the one already there included
    MaxDay,              \* bound: days
    MaxFaults            \* bound: calls of the file system that fail, and crashes

ASSUME StoreAssumption ==
    /\ Nobody \notin Threads
    /\ CompressAfterDays \in Nat /\ DeleteAfterDays \in Nat
    /\ MaxWrites \in Nat \ {0}

VARIABLES
    day,        \* the clock, in days
    files,      \* the directory: what is known of each file, by its name
    thread,     \* where each thread is in recordLostEvent, see Idle
    writes,     \* payloads so far
    born,       \* history: the day of each write
    stored,     \* history: the writes that succeeded
    announced,  \* history: the payloads of which a file was reported deleted or evicted
    cut,        \* history: the payloads of files removed just before a crash
    storeFaults \* faults counted against the bound

history == <<born, stored, announced, cut>>
storeVars == <<day, files, thread, writes, history, storeFaults>>

Raw(n) == [n |-> n, kind |-> "raw", owner |-> Nobody]
Zip(n) == [n |-> n, kind |-> "zip", owner |-> Nobody]
Temp(n, t) == [n |-> n, kind |-> "tmp", owner |-> t]

\* The archive of a file; that of another thread's temporary file is useless.
Archive(f) == [n |-> f.n, kind |-> IF f.kind = "raw" THEN "zip" ELSE "junk", owner |-> Nobody]

Names == [n : 1 .. MaxWrites, kind : {"raw", "zip", "tmp", "junk"}, owner : Threads \cup {Nobody}]

\* A thread that handles no lost event.  todo holds the names it listed, source
\* what it compresses and about the file it compresses as it was listed; alone
\* says that nobody and nothing interfered with its pass.
Idle == [stage |-> "idle", n |-> 1, today |-> 0, todo |-> {}, source |-> Raw(1),
         about |-> [mtime |-> 0, full |-> FALSE], alone |-> FALSE]

\* The types of the variables (the directory and the local variables of
\* writeLostEvent and of the functions it calls).
StoreTypeOK ==
    /\ day \in 0 .. MaxDay
    /\ DOMAIN files \subseteq Names
    /\ \A f \in DOMAIN files : files[f] \in [mtime : 0 .. MaxDay, full : BOOLEAN]
    /\ \A t \in Threads :
         /\ thread[t].stage \in {"idle", "delete", "compress", "copy", "rename", "drop",
                                 "check", "evict", "write"}
         /\ thread[t].todo \subseteq Names
         /\ thread[t].n \in 1 .. MaxWrites
    /\ writes \in 1 .. MaxWrites
    /\ stored \cup announced \cup cut \subseteq 1 .. MaxWrites

\* An earlier process has left a payload.
StoreInit ==
    /\ day = 0
    /\ files = [f \in {Raw(1)} |-> [mtime |-> 0, full |-> TRUE]]
    /\ thread = [t \in Threads |-> Idle]
    /\ writes = 1
    /\ born = [n \in 1 .. MaxWrites |-> 0]
    /\ stored = {1}
    /\ announced = {} /\ cut = {}
    /\ storeFaults = 0

-----------------------------------------------------------------------------

Put(f, about) == [g \in DOMAIN files \cup {f} |-> IF g = f THEN about ELSE files[g]]

Removed(F) == [g \in DOMAIN files \ F |-> files[g]]

\* The payloads of the files and archives among F.
Payloads(F) == {f.n : f \in {g \in F : g.kind \in {"raw", "zip"}}}

Fault == storeFaults < MaxFaults /\ storeFaults' = storeFaults + 1

NoFault == UNCHANGED storeFaults

Goes(t, stage) == thread' = [thread EXCEPT ![t].stage = stage]

\* The listing with which a stage begins; it is empty when it fails.
Listing(names) ==
    \/ names = DOMAIN files /\ NoFault
    \/ names = {} /\ Fault

Older(t, f, days) == days > 0 /\ thread[t].today - files[f].mtime > days

\* recordLostEvent, writeLostEvent: the pass begins with the old files.
Start(t) ==
    /\ thread[t].stage = "idle" /\ writes < MaxWrites
    /\ writes' = writes + 1
    /\ \E names \in {{}, DOMAIN files} :
         /\ Listing(names)
         /\ thread' = [u \in Threads |->
              IF u = t
                THEN [Idle EXCEPT !.stage = "delete", !.n = writes + 1, !.today = day,
                                  !.todo = names,
                                  !.alone = /\ names = DOMAIN files
                                            /\ \A v \in Threads \ {t} : thread[v].stage = "idle"]
                ELSE [thread[u] EXCEPT !.alone = FALSE]]
    /\ UNCHANGED <<day, files, history>>

\* The directory cannot be made: the payload is not kept.
StartFails(t) ==
    /\ thread[t].stage = "idle" /\ writes < MaxWrites
    /\ Fault
    /\ writes' = writes + 1
    /\ UNCHANGED <<day, files, thread, history>>

-----------------------------------------------------------------------------
(* Retention.                                                              *)

\* What deleteOldLostEventFiles has yet to remove.
ToDelete(t) == {f \in thread[t].todo \cap DOMAIN files : Older(t, f, DeleteAfterDays)}

DeleteOld(t, f) ==
    /\ thread[t].stage = "delete" /\ f \in ToDelete(t)
    /\ files' = Removed({f})
    /\ announced' = announced \cup Payloads({f})
    /\ NoFault
    /\ UNCHANGED <<day, thread, writes, born, stored, cut>>

DeleteFails(t, f) ==
    /\ thread[t].stage = "delete" /\ f \in ToDelete(t)
    /\ Fault
    /\ thread' = [thread EXCEPT ![t].todo = @ \ {f}, ![t].alone = FALSE]
    /\ UNCHANGED <<day, files, writes, history>>

Deleted(t) ==
    /\ thread[t].stage = "delete" /\ ToDelete(t) = {}
    /\ \E names \in {{}, DOMAIN files} :
         /\ Listing(names)
         /\ thread' = [thread EXCEPT ![t].stage = "compress", ![t].todo = names]
    /\ UNCHANGED <<day, files, writes, history>>

\* What compressOldLostEventFiles has yet to compress: old files that are no
\* archives and have none, the temporary files of other threads included.
ToCompress(t) ==
    {f \in thread[t].todo \cap DOMAIN files :
       /\ f.kind \in {"raw", "tmp"}
       /\ Older(t, f, CompressAfterDays)
       /\ Archive(f) \notin DOMAIN files}

OpenTemp(t, f) ==
    /\ thread[t].stage = "compress" /\ f \in ToCompress(t)
    /\ files' = Put(Temp(f.n, t), [mtime |-> day, full |-> FALSE])
    /\ thread' = [thread EXCEPT ![t].stage = "copy", ![t].todo = @ \ {f}, ![t].source = f,
                                ![t].about = files[f]]
    /\ NoFault
    /\ UNCHANGED <<day, writes, history>>

Mine(t) == Temp(thread[t].source.n, t)

MutantCopied(t) == [thread[t].about EXCEPT !.mtime = day]

\* The finished archive has the times of its source.
Copied(t) == thread[t].about

Copy(t) ==
    /\ thread[t].stage = "copy" /\ Mine(t) \in DOMAIN files
    /\ files' = Put(Mine(t), Copied(t))
    /\ Goes(t, "rename")
    /\ NoFault
    /\ UNCHANGED <<day, writes, history>>

Rename(t) ==
    /\ thread[t].stage = "rename" /\ Mine(t) \in DOMAIN files
    /\ files' = [f \in (DOMAIN files \ {Mine(t)}) \cup {Archive(thread[t].source)} |->
                   IF f = Archive(thread[t].source) THEN files[Mine(t)] ELSE files[f]]
    /\ Goes(t, "drop")
    /\ NoFault
    /\ UNCHANGED <<day, writes, history>>

MutantAfterFailure(t) == IF thread[t].stage = "rename" THEN "drop" ELSE "compress"

\* The next file is tried; this one stays as it is.
AfterFailure(t) == "compress"

\* Any call up to the renaming fails, or the temporary file is gone, removed by
\* another thread.  What is left of it is removed, if that does not fail too.
CompressFails(t) ==
    /\ thread[t].stage \in {"copy", "rename"}
    /\ IF Mine(t) \in DOMAIN files THEN Fault ELSE NoFault
    /\ files' \in {files, Removed({Mine(t)})}
    /\ Goes(t, AfterFailure(t))
    /\ UNCHANGED <<day, writes, history>>

\* The source of an archive is removed, unless another thread has done so.
DropSource(t) ==
    /\ thread[t].stage = "drop"
    /\ files' = Removed({thread[t].source})
    /\ Goes(t, "compress")
    /\ NoFault
    /\ UNCHANGED <<day, writes, history>>

DropFails(t) ==
    /\ thread[t].stage = "drop"
    /\ Fault
    /\ Goes(t, "compress")
    /\ UNCHANGED <<day, files, writes, history>>

Compressed(t) ==
    /\ thread[t].stage = "compress" /\ ToCompress(t) = {}
    /\ Goes(t, "check")
    /\ NoFault
    /\ UNCHANGED <<day, files, writes, history>>

\* There is room for the payload, or the free space or the files are unknown.
EnoughSpace(t) ==
    /\ thread[t].stage = "check"
    /\ Goes(t, "write")
    /\ NoFault
    /\ UNCHANGED <<day, files, writes, history>>

TooLittleSpace(t) ==
    /\ thread[t].stage = "check"
    /\ thread' = [thread EXCEPT ![t].stage = "evict",
                                ![t].todo = {f \in DOMAIN files : f.kind # "tmp"}]
    /\ NoFault
    /\ UNCHANGED <<day, files, writes, history>>

\* The oldest of the files listed that are still there.
Oldest(t) ==
    LET there == thread[t].todo \cap DOMAIN files
    IN  {f \in there : \A g \in there : files[f].mtime <= files[g].mtime}

\* One file less; either this is enough or the next one goes.
Evict(t, f) ==
    /\ thread[t].stage = "evict" /\ f \in Oldest(t)
    /\ files' = Removed({f})
    /\ announced' = announced \cup Payloads({f})
    /\ \E stage \in {"evict", "write"} :
         thread' = [thread EXCEPT ![t].stage = stage, ![t].todo = @ \ {f}]
    /\ NoFault
    /\ UNCHANGED <<day, writes, born, stored, cut>>

EvictFails(t, f) ==
    /\ thread[t].stage = "evict" /\ f \in Oldest(t)
    /\ Fault
    /\ thread' = [thread EXCEPT ![t].todo = @ \ {f}]
    /\ UNCHANGED <<day, files, writes, history>>

NothingToEvict(t) ==
    /\ thread[t].stage = "evict" /\ Oldest(t) = {}
    /\ Goes(t, "write")
    /\ NoFault
    /\ UNCHANGED <<day, files, writes, history>>

-----------------------------------------------------------------------------
(* The payload.                                                            *)

Write(t) ==
    /\ thread[t].stage = "write"
    /\ files' = Put(Raw(thread[t].n), [mtime |-> day, full |-> TRUE])
    /\ stored' = stored \cup {thread[t].n}
    /\ born' = [born EXCEPT ![thread[t].n] = day]
    /\ thread' = [thread EXCEPT ![t] = Idle]
    /\ NoFault
    /\ UNCHANGED <<day, writes, announced, cut>>

\* What a failed write leaves is removed, if that does not fail too.
WriteFails(t) ==
    /\ thread[t].stage = "write"
    /\ Fault
    /\ files' \in {files, Put(Raw(thread[t].n), [mtime |-> day, full |-> FALSE])}
    /\ thread' = [thread EXCEPT ![t] = Idle]
    /\ UNCHANGED <<day, writes, history>>

-----------------------------------------------------------------------------

NextDay ==
    /\ day < MaxDay
    /\ day' = day + 1
    /\ UNCHANGED <<files, thread, writes, history, storeFaults>>

\* The names a thread may be removing right now.
Removing(t) ==
    CASE thread[t].stage = "delete" -> ToDelete(t)
      [] thread[t].stage = "evict" -> Oldest(t)
      [] thread[t].stage = "drop" -> {thread[t].source} \cap DOMAIN files
      [] OTHER -> {}

\* The process ends, perhaps between a removal and its announcement, or in a
\* write.  Temporary files stay; a new process starts.
ProcessDies ==
    /\ Fault
    /\ \E gone \in {{}} \cup {{f} : f \in UNION {Removing(t) : t \in Threads}},
         partial \in SUBSET {t \in Threads : thread[t].stage = "write"} :
         LET kept == (DOMAIN files \ gone) \cup {Raw(thread[t].n) : t \in partial}
             orphan(f) == [f EXCEPT !.owner = Nobody]
             before(f) == IF f \in DOMAIN files THEN files[f] ELSE [mtime |-> day, full |-> FALSE]
         IN  /\ files' = [o \in {orphan(f) : f \in kept} |->
                            before(CHOOSE f \in kept : orphan(f) = o)]
             /\ cut' = cut \cup Payloads(gone)
    /\ thread' = [t \in Threads |-> Idle]
    /\ UNCHANGED <<day, writes, born, stored, announced>>

StoreNext ==
    \/ \E t \in Threads :
         \/ Start(t) \/ StartFails(t)
         \/ \E f \in Names : DeleteOld(t, f) \/ DeleteFails(t, f)
         \/ Deleted(t)
         \/ \E f \in Names : OpenTemp(t, f)
         \/ Copy(t) \/ Rename(t) \/ CompressFails(t) \/ DropSource(t) \/ DropFails(t)
         \/ Compressed(t)
         \/ EnoughSpace(t) \/ TooLittleSpace(t)
         \/ \E f \in Names : Evict(t, f) \/ EvictFails(t, f)
         \/ NothingToEvict(t)
         \/ Write(t) \/ WriteFails(t)
    \/ NextDay
    \/ ProcessDies

StoreSpec == StoreInit /\ [][StoreNext]_storeVars

-----------------------------------------------------------------------------
(* Properties.                                                             *)

Copies(n) == {f \in {Raw(n), Zip(n)} \cap DOMAIN files : files[f].full}

\* A payload that was written is in the directory, complete, as a file or as an
\* archive, until a file of it is reported as deleted or evicted; two threads
\* that compress, delete and evict the same file never lose it between them,
\* nor does a crash at any point but the one between a removal and its report.
PayloadsKept == \A n \in stored : Copies(n) # {} \/ n \in announced \cup cut

\* Once a thread has had the directory to itself for a pass, nothing in it is
\* older than the retention, archives included: compression does not start the
\* clock again.
RetentionHolds ==
    \A t \in Threads :
       thread[t].stage = "write" /\ thread[t].alone /\ DeleteAfterDays > 0 =>
         \A n \in 1 .. MaxWrites :
            Copies(n) # {} => thread[t].today - born[n] <= DeleteAfterDays

=============================================================================
