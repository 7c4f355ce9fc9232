------------------------------- MODULE TcpLink -------------------------------
(***************************************************************************)
(* The TCP transport: the sending threads of upstream, which share one     *)
(* TCPAdapter (upstream/adapters.go), the connections, and the accepting   *)
(* TCPAdapter of downstream (downstream/adapters.go).  A frame is one      *)
(* message of the wire protocol.  Which keys a handshake accepts is left   *)
(* to PinnedRotation, and here it may fail.                                *)
(***************************************************************************)
EXTENDS Naturals, Sequences, FiniteSets, SequencesExt

CONSTANTS
    Threads,         \* the goroutines that send: consumers and status messages
    Frames,          \* what they send
    Work,            \* the frames of each thread, in its order
    Conns,           \* names for the connections; a closed one is used again
    MaxConnections,  \* maxTCPConnections
    MaxEvents        \* bound: connections lost or refused, reloads, ends of the processes

ASSUME ConnsAssumption ==
    Conns \subseteq Nat \ {0} /\ MaxConnections \in Nat \ {0} /\ MaxEvents \in Nat

\* Every frame is one thread's, and that thread's once.
ASSUME WorkAssumption ==
    /\ Work \in [Threads -> Seq(Frames)]
    /\ \A t \in Threads : Work[t] # <<>> /\ IsInjective(Work[t])
    /\ \A f \in Frames : \E t \in Threads : \A u \in Threads : f \in ToSet(Work[u]) <=> u = t

None == 0

VARIABLES
    todo,        \* the frames each thread has yet to send
    call,        \* each thread's call of SendMessage: where it is, which attempt
                 \* it makes, its connection and its generation
    conn,        \* t.conn, the connection the threads share
    made,        \* history: the generation with which conn was dialed
    generation,  \* t.generation: reloads so far
    closed,      \* upstream's t.closed
    link,        \* the connections: each end, and what is on its way
    events,      \* events counted against the bound
    stop,        \* downstream's stopChan is closed
    acceptor,    \* the accept loop: "loop", "got" or "end"
    accepted,    \* the connection it is dealing with
    active,      \* activeConns
    handler,     \* where handleConnection is, for each connection
    closing,     \* where Close is: "no", "closing", "waiting" or "returned"
    snapshot,    \* the connections Close found
    delivered,   \* history: how often the callback got each frame
    fault        \* history: something that may lose frames has happened

sender == <<todo, call, conn, made, generation, closed>>
receiver == <<stop, acceptor, accepted, active, handler, closing, snapshot, delivered>>
vars == <<sender, link, events, receiver, fault>>

\* A piece of a stream: a frame, or what a failed write left of one.
Piece == [frame : Frames, whole : BOOLEAN]

Link ==
    [up : {"open", "closed"}, down : {"backlog", "open", "closed"}, lost : BOOLEAN,
     stream : Seq(Piece)]

Call ==
    [stage : {"ensure", "dial", "install", "take", "write", "reconnect", "done"},
     attempt : {1, 2}, conn : Conns \cup {None}, gen : 0 .. MaxEvents]

\* The types of the variables (the fields of both TCPAdapters, and the bound on
\* the connections).
TypeOK ==
    /\ todo \in [Threads -> Seq(Frames)]
    /\ call \in [Threads -> Call]
    /\ conn \in Conns \cup {None}
    /\ made \in 0 .. MaxEvents
    /\ generation \in 0 .. MaxEvents
    /\ closed \in BOOLEAN
    /\ link \in [Conns -> Link]
    /\ events \in 0 .. MaxEvents
    /\ stop \in BOOLEAN
    /\ acceptor \in {"loop", "got", "end"}
    /\ accepted \in Conns \cup {None}
    /\ active \in 0 .. MaxConnections
    /\ handler \in [Conns -> {"none", "handshake", "read"}]
    /\ closing \in {"no", "closing", "waiting", "returned"}
    /\ snapshot \subseteq Conns
    /\ delivered \in [Frames -> Nat]
    /\ fault \in BOOLEAN

Unused == [up |-> "closed", down |-> "closed", lost |-> FALSE, stream |-> <<>>]

\* SendMessage at its beginning.
Fresh == [stage |-> "ensure", attempt |-> 1, conn |-> None, gen |-> 0]

Init ==
    /\ todo = Work
    /\ call = [t \in Threads |-> Fresh]
    /\ conn = None
    /\ made = 0
    /\ generation = 0
    /\ closed = FALSE
    /\ link = [c \in Conns |-> Unused]
    /\ events = 0
    /\ stop = FALSE
    /\ acceptor = "loop"
    /\ accepted = None
    /\ active = 0
    /\ handler = [c \in Conns |-> "none"]
    /\ closing = "no"
    /\ snapshot = {}
    /\ delivered = [f \in Frames |-> 0]
    /\ fault = FALSE

-----------------------------------------------------------------------------
(* Connections.                                                            *)

\* The other side, or the network, has given the connection up.
Dead(c) == link[c].lost \/ link[c].down = "closed"

\* Upstream closes connection c: what was written before still arrives.
Shut(c) == IF c = None THEN link ELSE [link EXCEPT ![c].up = "closed"]

\* Downstream closes the connections in C, and what is unread is gone.
HangUp(C) ==
    [c \in Conns |-> IF c \in C THEN [Unused EXCEPT !.up = link[c].up] ELSE link[c]]

\* A name no one refers to.
Free(c) ==
    /\ link[c] = Unused
    /\ handler[c] = "none"
    /\ c \notin {conn, accepted} \cup {call[t].conn : t \in Threads} \cup snapshot

\* Something happens to the system from outside.
Event ==
    /\ events < MaxEvents
    /\ events' = events + 1

\* The network loses the connection and the end of what is on its way.
Break(c) ==
    /\ Event
    /\ ~Dead(c)
    /\ \E n \in 0 .. Len(link[c].stream) :
         link' = [link EXCEPT ![c].lost = TRUE, ![c].stream = SubSeq(@, 1, n)]
    /\ fault' = TRUE
    /\ UNCHANGED <<sender, receiver>>

-----------------------------------------------------------------------------
(* Upstream: SendMessage, with a second attempt after reconnect.           *)

At(t, stage) == call[t].stage = stage

\* On to a stage without locals of ensureConnected: its connection, its generation.
Go(t, stage) == call' = [call EXCEPT ![t] = [Fresh EXCEPT !.stage = stage, !.attempt = call[t].attempt]]

\* SendMessage returns an error: the relay sends the frame again, unless the
\* adapter is closed, which the process does only to end.
Fail(t) == call' = [call EXCEPT ![t] = [Fresh EXCEPT !.stage = IF closed THEN "done" ELSE "ensure"]]

\* t.conn, if there is one, is closed and forgotten.
DropConn ==
    /\ link' = Shut(conn)
    /\ conn' = None
    /\ made' = 0

\* ensureConnected, first part: the test read finds the connection in order.
\* That the other side has closed it may not be known yet.
Connected(t) ==
    /\ At(t, "ensure")
    /\ conn # None
    /\ Go(t, "take")
    /\ UNCHANGED <<todo, conn, made, generation, closed, link, events, receiver, fault>>

\* The configuration to dial with, and its generation.
Capture(t) == call' = [call EXCEPT ![t].stage = "dial", ![t].gen = generation]

\* There is no connection, or the test read ends it: the mutex is released to
\* dial, unless the adapter is closed.
NotConnected(t) ==
    /\ At(t, "ensure")
    /\ conn # None => Dead(conn)
    /\ DropConn
    /\ IF closed THEN Fail(t) ELSE Capture(t)
    /\ UNCHANGED <<todo, generation, closed, events, receiver, fault>>

\* dialLimited: the connection waits in the backlog of the listener.
Dial(t) ==
    /\ At(t, "dial")
    /\ closing \in {"no", "closing"}
    /\ \E c \in Conns :
         /\ Free(c)
         /\ \A d \in Conns : Free(d) => c <= d
         /\ link' = [link EXCEPT ![c].up = "open", ![c].down = "backlog"]
         /\ call' = [call EXCEPT ![t].stage = "install", ![t].conn = c]
    /\ UNCHANGED <<todo, conn, made, generation, closed, events, receiver, fault>>

\* Refused, timed out, not verified, or deferred by tcpRetryInterval.
DialFails(t) ==
    /\ At(t, "dial")
    /\ Fail(t)
    /\ UNCHANGED <<todo, conn, made, generation, closed, link, events, receiver, fault>>

\* Mutant: a reload during the dial goes unnoticed.
MutantOutdated(t) == closed

Outdated(t) == closed \/ generation # call[t].gen

\* ensureConnected, last part: the new connection is not wanted any more ...
Discard(t) ==
    /\ At(t, "install")
    /\ Outdated(t)
    /\ link' = Shut(call[t].conn)
    /\ Fail(t)
    /\ UNCHANGED <<todo, conn, made, generation, closed, events, receiver, fault>>

\* ... or admit refuses it, with the pins of the moment.
NotAdmitted(t) ==
    /\ Event
    /\ At(t, "install")
    /\ ~Outdated(t)
    /\ conn = None
    /\ link' = Shut(call[t].conn)
    /\ Fail(t)
    /\ UNCHANGED <<todo, conn, made, generation, closed, receiver, fault>>

\* Another thread has connected meanwhile: theirs is used.
UseTheirs(t) ==
    /\ At(t, "install")
    /\ ~Outdated(t)
    /\ conn # None
    /\ link' = Shut(call[t].conn)
    /\ Go(t, "take")
    /\ UNCHANGED <<todo, conn, made, generation, closed, events, receiver, fault>>

Install(t) ==
    /\ At(t, "install")
    /\ ~Outdated(t)
    /\ conn = None
    /\ conn' = call[t].conn
    /\ made' = call[t].gen
    /\ Go(t, "take")
    /\ UNCHANGED <<todo, generation, closed, link, events, receiver, fault>>

\* SendMessage takes t.conn, which may have gone since ensureConnected.
Take(t) ==
    /\ At(t, "take")
    /\ IF conn = None THEN Fail(t)
                      ELSE call' = [call EXCEPT ![t].stage = "write", ![t].conn = conn]
    /\ UNCHANGED <<todo, conn, made, generation, closed, link, events, receiver, fault>>

\* Part of the frame, or all of it, is put on connection c.
Put(t, c, whole) ==
    link' = [link EXCEPT ![c].stream = Append(@, [frame |-> Head(todo[t]), whole |-> whole])]

\* The frame is done with and the thread turns to its next.
NextFrame(t) ==
    /\ todo' = [todo EXCEPT ![t] = Tail(@)]
    /\ call' = [call EXCEPT ![t] = [Fresh EXCEPT !.stage = IF Len(todo[t]) = 1 THEN "done" ELSE "ensure"]]

\* Write returns no error: the whole frame is on its way, or goes nowhere if
\* the connection is dead and this is not known yet.
Write(t) ==
    /\ At(t, "write")
    /\ link[call[t].conn].up = "open"
    /\ IF Dead(call[t].conn) THEN UNCHANGED link ELSE Put(t, call[t].conn, TRUE)
    /\ NextFrame(t)
    /\ UNCHANGED <<conn, made, generation, closed, events, receiver, fault>>

\* Mutant: the error of the second write is not looked at.
MutantResend(t) ==
    IF call[t].attempt = 1 THEN Go(t, "reconnect") /\ UNCHANGED todo ELSE NextFrame(t)

\* After a failed write: once more over a new connection, then the caller's turn.
Resend(t) ==
    /\ IF call[t].attempt = 1 THEN Go(t, "reconnect") ELSE Fail(t)
    /\ UNCHANGED todo

\* Of the writes that a Close finds waiting, the first may have begun.
MayTear(c) == ~Dead(c) /\ \A i \in 1 .. Len(link[c].stream) : link[c].stream[i].whole

\* Write returns an error because the connection is closed or dead; the start
\* of the frame may be on its way.
WriteFails(t) ==
    /\ At(t, "write")
    /\ link[call[t].conn].up = "closed" \/ Dead(call[t].conn)
    /\ UNCHANGED link \/ (MayTear(call[t].conn) /\ Put(t, call[t].conn, FALSE))
    /\ Resend(t)
    /\ UNCHANGED <<conn, made, generation, closed, events, receiver, fault>>

\* reconnect closes t.conn, which may be one another thread has just made.
Reconnect(t) ==
    /\ At(t, "reconnect")
    /\ IF closed THEN Fail(t) /\ UNCHANGED <<conn, made, link>>
                 ELSE DropConn /\ call' = [call EXCEPT ![t] = [Fresh EXCEPT !.attempt = 2]]
    /\ UNCHANGED <<todo, generation, closed, events, receiver, fault>>

\* SIGHUP, when the new files are in order.
ReloadTLSConfig ==
    /\ Event
    /\ ~closed
    /\ generation' = generation + 1
    /\ DropConn
    /\ UNCHANGED <<todo, call, closed, receiver, fault>>

CloseSender ==
    /\ Event
    /\ ~closed
    /\ closed' = TRUE
    /\ DropConn
    /\ UNCHANGED <<todo, call, generation, receiver, fault>>

-----------------------------------------------------------------------------
(* Downstream: the accept loop of Listen.                                  *)

\* stopChan is looked at again after Accept.
Accept(c) ==
    /\ acceptor = "loop"
    /\ ~stop
    /\ link[c].down = "backlog"
    /\ acceptor' = "got"
    /\ accepted' = c
    /\ link' = [link EXCEPT ![c].down = "open"]
    /\ UNCHANGED <<sender, events, stop, active, handler, closing, snapshot, delivered, fault>>

\* stopChan is closed, or Accept fails and t.closed is set.
AcceptEnds ==
    /\ acceptor = "loop"
    /\ stop
    /\ acceptor' = "end"
    /\ UNCHANGED <<sender, link, events, stop, accepted, active, handler, closing, snapshot, delivered, fault>>

\* maxTCPConnections is reached: the connection that is counted now is too many.
AtLimit == active + 1 > MaxConnections

Reject ==
    /\ acceptor = "got"
    /\ AtLimit
    /\ acceptor' = "loop"
    /\ accepted' = None
    /\ link' = HangUp({accepted})
    /\ fault' = TRUE
    /\ UNCHANGED <<sender, events, stop, active, handler, closing, snapshot, delivered>>

\* Mutant: t.closed is not looked at under the lock.
MutantTooLate == FALSE

\* Close has made its list of connections.
TooLate == closing # "no"

\* The connection is entered into the map and gets a handler, unless it is too
\* late for that.
Register ==
    /\ acceptor = "got"
    /\ ~AtLimit
    /\ accepted' = None
    /\ IF TooLate
         THEN /\ acceptor' = "end"
              /\ link' = HangUp({accepted})
              /\ UNCHANGED <<active, handler>>
         ELSE /\ acceptor' = "loop"
              /\ active' = active + 1
              /\ handler' = [handler EXCEPT ![accepted] = "handshake"]
              /\ UNCHANGED link
    /\ UNCHANGED <<sender, events, stop, closing, snapshot, delivered, fault>>

-----------------------------------------------------------------------------
(* Downstream: handleConnection.                                           *)

\* The deferred calls: Close, activeConns.Add(-1), the entry in the map, and the
\* wait group.
Leave(c) ==
    /\ handler' = [handler EXCEPT ![c] = "none"]
    /\ active' = active - 1
    /\ link' = HangUp({c})

\* The handshake completes and the client's name and key are accepted.
HandshakeDone(c) ==
    /\ handler[c] = "handshake"
    /\ ~Dead(c)
    /\ handler' = [handler EXCEPT ![c] = "read"]
    /\ UNCHANGED <<sender, link, events, stop, acceptor, accepted, active, closing, snapshot, delivered, fault>>

\* It fails because one side has closed the connection.  There is no deadline:
\* a client that says nothing keeps the handler until then.
HandshakeFails(c) ==
    /\ handler[c] = "handshake"
    /\ Dead(c) \/ link[c].up = "closed"
    /\ Leave(c)
    /\ fault' = TRUE
    /\ UNCHANGED <<sender, events, stop, acceptor, accepted, closing, snapshot, delivered>>

\* The client's certificate, its name or its key is not accepted.
Refuse(c) ==
    /\ Event
    /\ handler[c] = "handshake"
    /\ Leave(c)
    /\ fault' = TRUE
    /\ UNCHANGED <<sender, stop, acceptor, accepted, closing, snapshot, delivered>>

\* Mutant: what there is of a frame is taken for the frame.
MutantReadable(c) == link[c].stream # <<>>

\* readMessage finds a whole frame, which the callback then gets.
Readable(c) == link[c].stream # <<>> /\ Head(link[c].stream).whole

ReadMessage(c) ==
    /\ handler[c] = "read"
    /\ Readable(c)
    /\ link' = [link EXCEPT ![c].stream = Tail(@)]
    /\ delivered' = [delivered EXCEPT ![Head(link[c].stream).frame] = @ + 1]
    /\ UNCHANGED <<sender, events, stop, acceptor, accepted, active, handler, closing, snapshot, fault>>

\* The handler sees stopChan, or the end of the stream, or the start of a frame
\* that is not completed in time.
ReadEnds(c) ==
    /\ handler[c] = "read"
    /\ stop \/ (~Readable(c) /\ (link[c].up = "closed" \/ Dead(c)))
    /\ Leave(c)
    /\ UNCHANGED <<sender, events, stop, acceptor, accepted, closing, snapshot, delivered, fault>>

-----------------------------------------------------------------------------
(* Downstream: the end of RunDownstream, and Close.                        *)

\* SIGTERM: Main closes stopChan.
Stop ==
    /\ Event
    /\ ~stop
    /\ stop' = TRUE
    /\ fault' = TRUE
    /\ UNCHANGED <<sender, link, acceptor, accepted, active, handler, closing, snapshot, delivered>>

\* Close: t.closed and a list of the connections, under the lock.
CloseReceiver ==
    /\ stop
    /\ closing = "no"
    /\ closing' = "closing"
    /\ snapshot' = {c \in Conns : handler[c] # "none"}
    /\ UNCHANGED <<sender, link, events, stop, acceptor, accepted, active, handler, delivered, fault>>

\* The listener and the connections of the list are closed; a connection in the
\* backlog goes with the listener.
CloseSockets ==
    /\ closing = "closing"
    /\ closing' = "waiting"
    /\ link' = HangUp(snapshot \cup {c \in Conns : link[c].down = "backlog"})
    /\ snapshot' = {}
    /\ UNCHANGED <<sender, events, stop, acceptor, accepted, active, handler, delivered, fault>>

\* The wait group is empty: neither the accept loop nor a handler is left.
CloseReturns ==
    /\ closing = "waiting"
    /\ acceptor = "end"
    /\ \A c \in Conns : handler[c] = "none"
    /\ closing' = "returned"
    /\ UNCHANGED <<sender, link, events, stop, acceptor, accepted, active, handler, snapshot, delivered, fault>>

-----------------------------------------------------------------------------

Sending(t) ==
    \/ Connected(t) \/ NotConnected(t) \/ Dial(t) \/ DialFails(t)
    \/ Discard(t) \/ NotAdmitted(t) \/ UseTheirs(t) \/ Install(t)
    \/ Take(t) \/ Write(t) \/ WriteFails(t) \/ Reconnect(t)

Accepting == (\E c \in Conns : Accept(c)) \/ AcceptEnds \/ Reject \/ Register

Closing == CloseReceiver \/ CloseSockets \/ CloseReturns

Handling(c) ==
    \/ HandshakeDone(c) \/ HandshakeFails(c) \/ Refuse(c) \/ ReadMessage(c) \/ ReadEnds(c)

Done ==
    /\ \A t \in Threads : At(t, "done")
    /\ UNCHANGED vars

Next ==
    \/ \E t \in Threads : Sending(t)
    \/ Accepting
    \/ \E c \in Conns : Handling(c) \/ Break(c)
    \/ Closing
    \/ ReloadTLSConfig \/ CloseSender \/ Stop
    \/ Done

Spec == Init /\ [][Next]_vars

-----------------------------------------------------------------------------
(* Properties.                                                             *)

\* No frame reaches the callback twice, although SendMessage and the relay send
\* a frame again after a failed write: what a failed write leaves in a stream is
\* never taken for a frame (SendMessage, readMessage).
DeliveredOnce == \A f \in Frames : delivered[f] <= 1

Waiting(f) == \E t \in Threads : f \in ToSet(todo[t])
OnItsWay(f) == \E c \in Conns : [frame |-> f, whole |-> TRUE] \in ToSet(link[c].stream)

\* Unless a connection is lost, refused or ended by downstream, every frame
\* arrives: certificate reloads, and threads that close each other's connection
\* in reconnect, lose nothing (SendMessage, reconnect, ReloadTLSConfig).
NoneLostByUpstream == \A f \in Frames : ~fault => Waiting(f) \/ OnItsWay(f) \/ delivered[f] = 1

\* Upstream has no open connection but the shared one, which was made with the
\* current certificates, and those being installed; after Close, none is shared
\* (ensureConnected, ReloadTLSConfig, Close).  activeConns of downstream is the
\* number of connections that are being served: no slot is lost, or given back
\* twice, however a handler ends (Listen, handleConnection).
ConnectionsAccounted ==
    /\ \A c \in Conns : link[c].up = "open" =>
         c = conn \/ \E t \in Threads : At(t, "install") /\ call[t].conn = c
    /\ conn # None => made = generation /\ ~closed
    /\ active = Cardinality({c \in Conns : handler[c] # "none"})

\* When Close has closed the listener and the connections it knew, no connection
\* is left that could keep a handler, and with it Close, waiting: not one whose
\* handshake hangs, and not one that was being accepted (Close, Listen).
NothingOutlivesClose ==
    closing \in {"waiting", "returned"} =>
        \A c \in Conns : handler[c] # "none" \/ link[c].down = "backlog" => Dead(c)

=============================================================================
