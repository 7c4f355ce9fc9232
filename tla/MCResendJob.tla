----------------------------- MODULE MCResendJob -----------------------------
(* Small instances of ResendJob. *)
EXTENDS ResendJob

Bundle(start, stop, plain, type, entries) ==
    [start |-> start, stop |-> stop, plain |-> plain, type |-> type, results |-> entries]

Entry(p, gaps) == [partition |-> p, gaps |-> gaps]

\* The partitions of this cluster are 1 and 2 downstream.  One bundle is for two
\* clusters, one of which has a single partition.
Both == <<Entry(1, <<<<0, 1>>>>), Entry(2, << <<0>>, <<2>> >>)>>
Shared == <<Entry(1, << <<1>> >>), Entry(2, <<<<0, 1>>>>)>>

SomeConfigs ==
    {Bundle(1, 0, TRUE, "all", Both),
     Bundle(1, 2, TRUE, "first", << Entry(1, << <<1>> >>), Entry(2, <<>>) >>),
     Bundle(1, 1, TRUE, "all", Shared),
     Bundle(2, 0, TRUE, "all", Shared),
     Bundle(1, 2, FALSE, "all", <<Entry(1, << <<0>> >>)>>),
     Bundle(0, 0, TRUE, "manual", <<Entry(1, <<<<0, 0>>>>)>>),
     Bundle(0, 0, TRUE, "manual", <<Entry(0, <<<<1, -1>>>>)>>),
     Bundle(0, 0, TRUE, "time-range", <<Entry(1, <<<<0, -1>>>>)>>),
     Bundle(0, 0, TRUE, "time-range", <<Entry(-1, <<<<0, -1>>>>)>>)}

\* Two records, one of them outside the interval, or one and a marker.
In(o) == [offset |-> o, inTime |-> TRUE]
Out(o) == [offset |-> o, inTime |-> FALSE]

SomeLogs ==
    {[p \in Partitions |-> IF p = 0 THEN {In(0), In(1)} ELSE {In(0), Out(1)}],
     [p \in Partitions |-> IF p = 0 THEN {In(0)} ELSE {In(1)}]}
=============================================================================
