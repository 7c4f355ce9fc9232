--------------------------- MODULE MCCreateBundle ---------------------------
(* Small instances of CreateBundle: two windows, two partitions. *)
EXTENDS CreateBundle

\* The legacy key of window 0 is read before its current one, that of window 3
\* after it.
Crossed ==
    [k \in Keys |-> IF (k[1] = "legacy") = (k[2] = 0) THEN 1 ELSE 2]

\* Two gaps, the second at the end of the window.
TwoGaps == {{0, 2}}

AllPositions == SUBSET (0 .. GapWindowSize - 1)

\* create is about to write what it read to the end: per key nothing, a tombstone
\* or any set of missing positions, none and all of the window among them.
ReadInit ==
    /\ state \in [Keys -> {None, Deleted} \cup {Gaps(s) : s \in AllPositions}]
    /\ LET of(p) == SetToSeq({k \in Keys : state[k] # None /\ Place[k] = p}) IN
       /\ log = [p \in Partitions |->
                   {[offset |-> i - 1, key |-> of(p)[i], entry |-> state[of(p)[i]]] :
                      i \in DOMAIN of(p)}]
       /\ next = [p \in Partitions |-> Len(of(p))]
    /\ tracked = {"legacy"} \X Windows
    /\ pc = "write" /\ partition = NrPartitions + 1 /\ position = 0 /\ final = -1
    /\ armed = FALSE
    /\ bundle = NoBundle
    /\ cut = FALSE
    /\ held = [w \in Windows |-> {OnTopic(log, w)}]
    /\ reported = [w \in Windows |-> None]

\* All of create with few values, and its last steps with all of them.
MCCreateSpec ==
    /\ CreateInit \/ ReadInit
    /\ [][CreateNext]_createVars
    /\ CreateFairness
=============================================================================
