------------------------------- MODULE Outbox -------------------------------
(***************************************************************************)
(* What the downstream process promises for the messages it has taken in:  *)
(* each one is handed to the Kafka producer at most once, and it is handed *)
(* over before the process ends if it was taken in before the process was  *)
(* told to end.  Messages that arrive later, while the process is ending,  *)
(* may be lost.  DownstreamWriter implements this specification.           *)
(***************************************************************************)

CONSTANT Msgs

VARIABLES
    state,      \* "outside", "held", "handed" or "lost", for every message
    owed,       \* the messages taken in before the process was told to end
    closing,    \* the process was told to end
    over        \* the process has ended

vars == <<state, owed, closing, over>>

In(s) == {m \in Msgs : state[m] = s}

Init ==
    /\ state = [m \in Msgs |-> "outside"]
    /\ owed = {}
    /\ closing = FALSE
    /\ over = FALSE

Move(m, from, to) ==
    /\ ~over
    /\ state[m] = from
    /\ state' = [state EXCEPT ![m] = to]

\* A message is taken in.
Accept(m) == Move(m, "outside", "held") /\ UNCHANGED <<owed, closing, over>>

\* A message is handed to the producer.
Hand(m) == Move(m, "held", "handed") /\ UNCHANGED <<owed, closing, over>>

\* The process is told to end; it takes in a last message that says so.  What
\* it has taken in by now it owes.
Close(m) ==
    /\ ~closing
    /\ Move(m, "outside", "held")
    /\ closing' = TRUE
    /\ owed' = {k \in Msgs : state'[k] # "outside"}
    /\ UNCHANGED over

\* Messages are given up, none of which the process owes.
Lose(S) ==
    /\ closing
    /\ ~over
    /\ S \subseteq In("held") \ owed
    /\ state' = [m \in Msgs |-> IF m \in S THEN "lost" ELSE state[m]]
    /\ UNCHANGED <<owed, closing, over>>

\* The process ends, holding nothing.
End ==
    /\ closing
    /\ ~over
    /\ In("held") = {}
    /\ over' = TRUE
    /\ UNCHANGED <<state, owed, closing>>

Next ==
    \/ \E m \in Msgs : Accept(m) \/ Hand(m) \/ Close(m)
    \/ \E S \in SUBSET Msgs : Lose(S)
    \/ End

Spec == Init /\ [][Next]_vars

=============================================================================
