--------------------------- MODULE TcpLinkProofs ---------------------------
(***************************************************************************)
(* What the TCP transport guarantees, for every number of threads, frames  *)
(* and connections and every number of connections lost and reloads.       *)
(***************************************************************************)
EXTENDS TcpLink, FiniteSetTheorems, SequenceTheorems, TLAPS

-----------------------------------------------------------------------------
(* The inductive invariant.                                                *)

\* A thread that has not ended has a frame to send, and a connection to install
\* or to write to; every reload is an event.
CallInv ==
    /\ \A t \in Threads : call[t].stage \in {"install", "write"} => call[t].conn \in Conns
    /\ \A t \in Threads : call[t].stage # "done" => todo[t] # <<>>
    /\ generation <= events

\* The connections that are served.
Served == {c \in Conns : handler[c] # "none"}

\* A connection waits in the backlog, is being accepted, or is served: one of
\* the three.  Close has on its list whatever is served.
AcceptInv ==
    /\ acceptor = "got" <=> accepted # None
    /\ accepted # None => link[accepted].down # "backlog"
    /\ \A c \in Served : c # accepted /\ link[c].down # "backlog"
    /\ IsFiniteSet(Served) /\ active = Cardinality(Served)
    /\ stop => fault
    /\ closing # "no" => stop
    /\ closing = "closing" => Served \subseteq snapshot

\* The i-th piece of the stream of c is the whole frame f.
Whole(c, i, f) ==
    i \in DOMAIN link[c].stream /\ link[c].stream[i] = [frame |-> f, whole |-> TRUE]

\* Nothing follows what a failed write left, and nothing can: upstream has closed
\* the connection.  Unless a fault has happened, upstream closes it first.
StreamInv ==
    /\ \A c \in Conns : \A i \in DOMAIN link[c].stream :
         ~link[c].stream[i].whole => i = Len(link[c].stream) /\ link[c].up = "closed"
    /\ ~fault => \A c \in Conns : Dead(c) => link[c].up = "closed"

\* A frame waits with one thread, is on its way once, or was delivered.
FrameInv ==
    /\ \A t \in Threads : IsInjective(todo[t])
    /\ \A t, u \in Threads : t # u => ToSet(todo[t]) \cap ToSet(todo[u]) = {}
    /\ \A t \in Threads : \A f \in ToSet(todo[t]) : delivered[f] = 0
    /\ \A t \in Threads : \A f \in ToSet(todo[t]) : \A c \in Conns : \A i \in Nat : ~Whole(c, i, f)
    /\ \A f \in Frames, c, d \in Conns, i, j \in Nat :
         Whole(c, i, f) /\ Whole(d, j, f) => c = d /\ i = j
    /\ \A f \in Frames, c \in Conns, i \in Nat : Whole(c, i, f) => delivered[f] = 0

\* Upstream's part of ConnectionsAccounted.
SharedInv ==
    /\ \A c \in Conns : link[c].up = "open" =>
         c = conn \/ \E t \in Threads : At(t, "install") /\ call[t].conn = c
    /\ conn # None => made = generation /\ ~closed

Inv ==
    /\ CallInv /\ SharedInv /\ AcceptInv /\ StreamInv /\ FrameInv
    /\ DeliveredOnce /\ NoneLostByUpstream /\ NothingOutlivesClose

-----------------------------------------------------------------------------
(* What the steps do to the calls and to the connections.                  *)

Stages == {"ensure", "dial", "install", "take", "write", "reconnect", "done"}

\* Only the call of thread t changes.
OnlyCall(t) == call' \in [Threads -> Call] /\ \A u \in Threads : u # t => call'[u] = call[u]

LEMMA CallUpdates ==
    ASSUME TypeOK, NEW t \in Threads
    PROVE  /\ \A s \in Stages : Go(t, s) =>
                OnlyCall(t) /\ call'[t].stage = s /\ call'[t].conn = None
           /\ Fail(t) => OnlyCall(t) /\ call'[t].stage \in {"ensure", "done"}
           /\ Capture(t) =>
                OnlyCall(t) /\ call'[t].stage = "dial" /\ call'[t].conn = call[t].conn
           /\ \A s \in Stages, c \in Conns : call' = [call EXCEPT ![t].stage = s, ![t].conn = c] =>
                OnlyCall(t) /\ call'[t].stage = s /\ call'[t].conn = c
                  /\ call'[t].gen = call[t].gen
           /\ NextFrame(t) => OnlyCall(t)
                /\ call'[t].stage = IF Len(todo[t]) = 1 THEN "done" ELSE "ensure"
           /\ call' = [call EXCEPT ![t] = [Fresh EXCEPT !.attempt = 2]] =>
                OnlyCall(t) /\ call'[t].stage = "ensure"
  <1>1. /\ call[t] \in Call /\ call \in [Threads -> Call] /\ None \in Conns \cup {None}
        /\ 0 \in 0 .. MaxEvents /\ generation \in 0 .. MaxEvents
    BY ConnsAssumption DEF TypeOK
  <1>2. ASSUME NEW x \in Call, call' = [call EXCEPT ![t] = x] PROVE OnlyCall(t) /\ call'[t] = x
    BY <1>1, <1>2 DEF OnlyCall
  <1>3. ASSUME NEW s \in Stages, NEW n \in {1, 2}
        PROVE  /\ [Fresh EXCEPT !.stage = s, !.attempt = n] \in Call
               /\ [Fresh EXCEPT !.stage = s] \in Call
               /\ [Fresh EXCEPT !.attempt = n] \in Call
               /\ [Fresh EXCEPT !.attempt = n].stage = "ensure"
    BY <1>1 DEF Fresh, Call, Stages
  <1>4. ASSUME NEW s \in Stages, Go(t, s)
        PROVE  OnlyCall(t) /\ call'[t].stage = s /\ call'[t].conn = None
    <2>1. call[t].attempt \in {1, 2}
      BY <1>1 DEF Call
    <2>2. [Fresh EXCEPT !.stage = s, !.attempt = call[t].attempt] \in Call
      BY <1>3, <2>1
    <2>3. OnlyCall(t) /\ call'[t] = [Fresh EXCEPT !.stage = s, !.attempt = call[t].attempt]
      BY <1>2, <1>4, <2>2 DEF Go
    <2>. QED
      BY <2>3 DEF Fresh
  <1>5. ASSUME Fail(t) PROVE OnlyCall(t) /\ call'[t].stage \in {"ensure", "done"}
    <2> DEFINE s == IF closed THEN "done" ELSE "ensure"
    <2>1. s \in Stages /\ s \in {"ensure", "done"}
      BY DEF Stages
    <2>2. call' = [call EXCEPT ![t] = [Fresh EXCEPT !.stage = s]]
      BY <1>5 DEF Fail
    <2> HIDE DEF s
    <2>3. OnlyCall(t) /\ call'[t] = [Fresh EXCEPT !.stage = s]
      BY <1>2, <1>3, <2>1, <2>2
    <2>. QED
      BY <2>1, <2>3 DEF Fresh
  <1>6. ASSUME Capture(t)
        PROVE  OnlyCall(t) /\ call'[t].stage = "dial" /\ call'[t].conn = call[t].conn
    <2>1. [call[t] EXCEPT !.stage = "dial", !.gen = generation] \in Call
      BY <1>1 DEF Call
    <2>2. OnlyCall(t) /\ call'[t] = [call[t] EXCEPT !.stage = "dial", !.gen = generation]
      BY <1>2, <1>6, <2>1 DEF Capture
    <2>. QED
      BY <1>1, <2>2 DEF Call
  <1>7. ASSUME NEW s \in Stages, NEW c \in Conns,
               call' = [call EXCEPT ![t].stage = s, ![t].conn = c]
        PROVE  OnlyCall(t) /\ call'[t].stage = s /\ call'[t].conn = c
                 /\ call'[t].gen = call[t].gen
    <2>1. [call[t] EXCEPT !.stage = s, !.conn = c] \in Call
      BY <1>1 DEF Call, Stages
    <2>2. OnlyCall(t) /\ call'[t] = [call[t] EXCEPT !.stage = s, !.conn = c]
      BY <1>2, <1>7, <2>1
    <2>. QED
      BY <1>1, <2>2 DEF Call
  <1>8. ASSUME NextFrame(t)
        PROVE  OnlyCall(t) /\ call'[t].stage = IF Len(todo[t]) = 1 THEN "done" ELSE "ensure"
    <2> DEFINE s == IF Len(todo[t]) = 1 THEN "done" ELSE "ensure"
    <2>1. s \in Stages
      BY DEF Stages
    <2>2. call' = [call EXCEPT ![t] = [Fresh EXCEPT !.stage = s]]
      BY <1>8 DEF NextFrame
    <2> HIDE DEF s
    <2>3. OnlyCall(t) /\ call'[t] = [Fresh EXCEPT !.stage = s]
      BY <1>2, <1>3, <2>1, <2>2
    <2>4. call'[t].stage = s
      BY <2>3 DEF Fresh
    <2>. QED
      BY <2>3, <2>4 DEF s
  <1>9. ASSUME call' = [call EXCEPT ![t] = [Fresh EXCEPT !.attempt = 2]]
        PROVE  OnlyCall(t) /\ call'[t].stage = "ensure"
    <2>1. [Fresh EXCEPT !.attempt = 2] \in Call /\ [Fresh EXCEPT !.attempt = 2].stage = "ensure"
      BY <1>3 DEF Stages
    <2>. QED
      BY <1>2, <1>9, <2>1
  <1>. QED
    BY <1>4, <1>5, <1>6, <1>7, <1>8, <1>9

\* Of the connections nothing changes but that upstream closes some.
ShutsOnly ==
    /\ link' \in [Conns -> Link]
    /\ \A d \in Conns :
         /\ link'[d].down = link[d].down /\ link'[d].lost = link[d].lost
         /\ link'[d].stream = link[d].stream
         /\ link'[d].up = "open" => link[d].up = "open"

LEMMA ShutUpdates ==
    ASSUME TypeOK, NEW c \in Conns \cup {None}, link' = Shut(c)
    PROVE  ShutsOnly /\ (c \in Conns => link'[c].up = "closed")
  <1>1. None \notin Conns
    BY ConnsAssumption DEF None
  <1>2. CASE c = None
    BY <1>1, <1>2 DEF Shut, ShutsOnly, TypeOK
  <1>3. CASE c \in Conns
    <2>1. link' = [link EXCEPT ![c] = [link[c] EXCEPT !.up = "closed"]]
      BY <1>1, <1>3 DEF Shut
    <2>2. link[c] \in Link /\ link \in [Conns -> Link]
      BY <1>3 DEF TypeOK
    <2>3. [link[c] EXCEPT !.up = "closed"] \in Link
      BY <2>2 DEF Link
    <2>4. link' \in [Conns -> Link]
      BY <1>3, <2>1, <2>2, <2>3
    <2>. QED
      BY <1>3, <2>1, <2>2, <2>4 DEF Link, ShutsOnly
  <1>. QED
    BY <1>2, <1>3

LEMMA HangUpUpdates ==
    ASSUME TypeOK, NEW C, link' = HangUp(C)
    PROVE  /\ link' \in [Conns -> Link]
           /\ \A d \in Conns :
                /\ link'[d].up = link[d].up
                /\ d \notin C => link'[d] = link[d]
                /\ d \in C => link'[d].down = "closed" /\ link'[d].lost = FALSE
                               /\ link'[d].stream = <<>>
  <1>1. ASSUME NEW d \in Conns
        PROVE  [Unused EXCEPT !.up = link[d].up] \in Link /\ link[d] \in Link
    <2>1. link[d] \in Link /\ link[d].up \in {"open", "closed"} /\ <<>> \in Seq(Piece)
      BY EmptySeq DEF TypeOK, Link
    <2>. QED
      BY <2>1 DEF Unused, Link
  <1>2. link' \in [Conns -> Link]
    BY <1>1 DEF HangUp
  <1>. QED
    BY <1>2 DEF HangUp, Unused

\* A piece is added to the stream of c.
LEMMA PutUpdates ==
    ASSUME TypeOK, NEW t \in Threads, todo[t] # <<>>, NEW c \in Conns, NEW w \in BOOLEAN,
           Put(t, c, w)
    PROVE  /\ link' \in [Conns -> Link]
           /\ \A d \in Conns : d # c => link'[d] = link[d]
           /\ link'[c].up = link[c].up /\ link'[c].down = link[c].down
           /\ link'[c].lost = link[c].lost
           /\ link'[c].stream = Append(link[c].stream, [frame |-> Head(todo[t]), whole |-> w])
           /\ Head(todo[t]) \in Frames /\ link[c].stream \in Seq(Piece)
  <1> DEFINE p == [frame |-> Head(todo[t]), whole |-> w]
  <1>1. Head(todo[t]) \in Frames
    BY HeadTailProperties DEF TypeOK
  <1>2. p \in Piece
    BY <1>1 DEF Piece
  <1>3. link[c] \in Link /\ link \in [Conns -> Link] /\ link[c].stream \in Seq(Piece)
    BY DEF TypeOK, Link
  <1>4. link' = [link EXCEPT ![c] = [link[c] EXCEPT !.stream = Append(link[c].stream, p)]]
    BY DEF Put
  <1> HIDE DEF p
  <1>5. Append(link[c].stream, p) \in Seq(Piece)
    BY <1>2, <1>3, AppendProperties
  <1>6. [link[c] EXCEPT !.stream = Append(link[c].stream, p)] \in Link
    BY <1>3, <1>5 DEF Link
  <1>7. link' \in [Conns -> Link]
    BY <1>3, <1>4, <1>6
  <1>8. link'[c].stream = Append(link[c].stream, p)
    BY <1>3, <1>4 DEF Link
  <1>. QED
    BY <1>1, <1>3, <1>4, <1>7, <1>8 DEF Link, p

\* Upstream's steps that put nothing on a connection.
Quietly(t) ==
    \/ Connected(t) \/ NotConnected(t) \/ DialFails(t) \/ Discard(t) \/ NotAdmitted(t)
    \/ UseTheirs(t) \/ Install(t) \/ Take(t) \/ Reconnect(t)

Quiet == ShutsOnly /\ UNCHANGED <<todo, receiver, fault>>

LEMMA QuietSteps ==
    ASSUME TypeOK, CallInv,
           \/ \E t \in Threads : Quietly(t)
           \/ ReloadTLSConfig \/ CloseSender
    PROVE  Quiet
  <1>1. link \in [Conns -> Link] /\ conn \in Conns \cup {None}
    BY DEF TypeOK
  <1>2. UNCHANGED link => ShutsOnly
    BY <1>1 DEF ShutsOnly
  <1>3. DropConn => ShutsOnly
    BY <1>1, ShutUpdates DEF DropConn
  <1>4. ASSUME NEW t \in Threads, Quietly(t) PROVE Quiet
    <2>1. CASE Connected(t) \/ DialFails(t) \/ Install(t) \/ Take(t)
      BY <1>2, <2>1 DEF Connected, DialFails, Install, Take, Quiet
    <2>2. CASE NotConnected(t)
      BY <1>3, <2>2 DEF NotConnected, Quiet
    <2>3. CASE Discard(t) \/ NotAdmitted(t) \/ UseTheirs(t)
      <3>1. call[t].conn \in Conns
        BY <2>3 DEF Discard, NotAdmitted, UseTheirs, At, CallInv
      <3>2. link' = Shut(call[t].conn)
        BY <2>3 DEF Discard, NotAdmitted, UseTheirs
      <3>3. ShutsOnly
        BY <3>1, <3>2, ShutUpdates
      <3>. QED
        BY <2>3, <3>3 DEF Discard, NotAdmitted, UseTheirs, Quiet
    <2>4. CASE Reconnect(t)
      BY <1>2, <1>3, <2>4 DEF Reconnect, Quiet
    <2>. QED
      BY <1>4, <2>1, <2>2, <2>3, <2>4 DEF Quietly
  <1>5. CASE ReloadTLSConfig \/ CloseSender
    BY <1>3, <1>5 DEF ReloadTLSConfig, CloseSender, Quiet
  <1>. QED
    BY <1>4, <1>5

\* Other updates of connections.
LEMMA DialUpdates ==
    ASSUME TypeOK, NEW t \in Threads, Dial(t)
    PROVE  \E c \in Conns :
             /\ Free(c)
             /\ link' \in [Conns -> Link]
             /\ \A d \in Conns : d # c => link'[d] = link[d]
             /\ link'[c].up = "open" /\ link'[c].down = "backlog" /\ link'[c].lost = FALSE
             /\ link'[c].stream = <<>> /\ link[c].stream = <<>>
             /\ OnlyCall(t) /\ call'[t].stage = "install" /\ call'[t].conn = c
  <1>1. PICK c \in Conns :
             /\ Free(c)
             /\ link' = [link EXCEPT ![c].up = "open", ![c].down = "backlog"]
             /\ call' = [call EXCEPT ![t].stage = "install", ![t].conn = c]
    BY DEF Dial
  <1>2. link[c] = Unused /\ link[c] \in Link /\ link \in [Conns -> Link]
    BY <1>1 DEF Free, TypeOK
  <1>3. [link[c] EXCEPT !.up = "open", !.down = "backlog"] \in Link
    BY <1>2 DEF Link
  <1>4. /\ link'[c] = [link[c] EXCEPT !.up = "open", !.down = "backlog"]
        /\ link' \in [Conns -> Link]
        /\ \A d \in Conns : d # c => link'[d] = link[d]
    BY <1>1, <1>2, <1>3
  <1>5. /\ link'[c].up = "open" /\ link'[c].down = "backlog" /\ link'[c].lost = FALSE
        /\ link'[c].stream = <<>> /\ link[c].stream = <<>>
    BY <1>2, <1>4 DEF Unused
  <1>6. OnlyCall(t) /\ call'[t].stage = "install" /\ call'[t].conn = c
    BY <1>1, CallUpdates DEF Stages
  <1>. QED
    BY <1>1, <1>4, <1>5, <1>6

LEMMA AcceptUpdates ==
    ASSUME TypeOK, NEW c \in Conns, Accept(c)
    PROVE  /\ link' \in [Conns -> Link]
           /\ \A d \in Conns :
                /\ link'[d].up = link[d].up /\ link'[d].lost = link[d].lost
                /\ link'[d].stream = link[d].stream
                /\ d # c => link'[d].down = link[d].down
           /\ link'[c].down = "open"
  <1>1. link' = [link EXCEPT ![c] = [link[c] EXCEPT !.down = "open"]]
    BY DEF Accept
  <1>2. link[c] \in Link /\ link \in [Conns -> Link]
    BY DEF TypeOK
  <1>3. [link[c] EXCEPT !.down = "open"] \in Link
    BY <1>2 DEF Link
  <1>4. link' \in [Conns -> Link]
    BY <1>1, <1>2, <1>3
  <1>. QED
    BY <1>1, <1>2, <1>4 DEF Link

LEMMA BreakUpdates ==
    ASSUME TypeOK, NEW c \in Conns, Break(c)
    PROVE  /\ link' \in [Conns -> Link]
           /\ \A d \in Conns : d # c => link'[d] = link[d]
           /\ link'[c].up = link[c].up /\ link'[c].down = link[c].down /\ link'[c].lost = TRUE
           /\ \E n \in 0 .. Len(link[c].stream) : link'[c].stream = SubSeq(link[c].stream, 1, n)
  <1>1. PICK n \in 0 .. Len(link[c].stream) :
          link' = [link EXCEPT ![c].lost = TRUE, ![c].stream = SubSeq(@, 1, n)]
    BY DEF Break
  <1> DEFINE s == SubSeq(link[c].stream, 1, n)
  <1>2. link[c] \in Link /\ link \in [Conns -> Link] /\ link[c].stream \in Seq(Piece)
    BY DEF TypeOK, Link
  <1>3. s \in Seq(Piece)
    BY <1>1, <1>2
  <1>4. link' = [link EXCEPT ![c] = [link[c] EXCEPT !.lost = TRUE, !.stream = s]]
    BY <1>1, <1>2 DEF Link
  <1> HIDE DEF s
  <1>5. [link[c] EXCEPT !.lost = TRUE, !.stream = s] \in Link
    BY <1>2, <1>3 DEF Link
  <1>6. link' \in [Conns -> Link]
    BY <1>2, <1>4, <1>5
  <1>7. link'[c] = [link[c] EXCEPT !.lost = TRUE, !.stream = s]
    BY <1>2, <1>4
  <1>8. link'[c].stream = s /\ link'[c].lost = TRUE
          /\ link'[c].up = link[c].up /\ link'[c].down = link[c].down
    BY <1>2, <1>7 DEF Link
  <1>. QED
    BY <1>1, <1>2, <1>4, <1>6, <1>8 DEF s

LEMMA ReadUpdates ==
    ASSUME TypeOK, NEW c \in Conns, ReadMessage(c)
    PROVE  /\ link' \in [Conns -> Link]
           /\ \A d \in Conns : d # c => link'[d] = link[d]
           /\ link'[c].up = link[c].up /\ link'[c].down = link[c].down
           /\ link'[c].lost = link[c].lost
           /\ link'[c].stream = Tail(link[c].stream)
           /\ link[c].stream \in Seq(Piece) /\ link[c].stream # <<>>
           /\ Head(link[c].stream) \in Piece /\ Head(link[c].stream).whole
           /\ Head(link[c].stream).frame \in Frames
  <1> DEFINE s == Tail(link[c].stream)
  <1>1. link[c] \in Link /\ link \in [Conns -> Link] /\ link[c].stream \in Seq(Piece)
    BY DEF TypeOK, Link
  <1>2. link[c].stream # <<>> /\ Head(link[c].stream).whole
    BY DEF ReadMessage, Readable
  <1>3. s \in Seq(Piece) /\ Head(link[c].stream) \in Piece
    BY <1>1, <1>2, HeadTailProperties
  <1>4. link' = [link EXCEPT ![c] = [link[c] EXCEPT !.stream = s]]
    BY <1>1 DEF ReadMessage, Link
  <1> HIDE DEF s
  <1>5. [link[c] EXCEPT !.stream = s] \in Link
    BY <1>1, <1>3 DEF Link
  <1>6. link' \in [Conns -> Link] /\ link'[c] = [link[c] EXCEPT !.stream = s]
    BY <1>1, <1>4, <1>5
  <1>7. link'[c].stream = s /\ link'[c].lost = link[c].lost
          /\ link'[c].up = link[c].up /\ link'[c].down = link[c].down
    BY <1>1, <1>6 DEF Link
  <1>8. Head(link[c].stream).frame \in Frames
    BY <1>3 DEF Piece
  <1>. QED
    BY <1>1, <1>2, <1>3, <1>4, <1>6, <1>7, <1>8 DEF s

-----------------------------------------------------------------------------
(* Types.                                                                  *)

LEMMA TypeInit == Init => TypeOK
  <1> SUFFICES ASSUME Init PROVE TypeOK
    OBVIOUS
  <1>1. Fresh \in Call
    BY ConnsAssumption DEF Fresh, Call
  <1>2. Unused \in Link
    <2>1. <<>> \in Seq(Piece)
      BY EmptySeq
    <2>. QED
      BY <2>1 DEF Unused, Link
  <1>3. call \in [Threads -> Call] /\ link \in [Conns -> Link]
    BY <1>1, <1>2 DEF Init
  <1>4. todo \in [Threads -> Seq(Frames)]
    BY WorkAssumption DEF Init
  <1>5. 0 \in 0 .. MaxEvents /\ 0 \in 0 .. MaxConnections
    BY ConnsAssumption
  <1>6. handler \in [Conns -> {"none", "handshake", "read"}] /\ delivered \in [Frames -> Nat]
    BY DEF Init
  <1>. QED
    BY <1>3, <1>4, <1>5, <1>6 DEF Init, TypeOK

\* The step of a call leaves the other calls alone.
LEMMA SendingCalls ==
    ASSUME TypeOK, CallInv, NEW t \in Threads, Sending(t)
    PROVE  OnlyCall(t)
  <1>1. CASE Connected(t) \/ UseTheirs(t) \/ Install(t)
    BY <1>1, CallUpdates DEF Connected, UseTheirs, Install, Stages
  <1>2. CASE NotConnected(t)
    BY <1>2, CallUpdates DEF NotConnected
  <1>3. CASE Dial(t)
    BY <1>3, DialUpdates
  <1>4. CASE DialFails(t) \/ Discard(t) \/ NotAdmitted(t)
    BY <1>4, CallUpdates DEF DialFails, Discard, NotAdmitted
  <1>5. CASE Take(t)
    <2>1. conn \in Conns \cup {None}
      BY DEF TypeOK
    <2>2. CASE conn = None
      BY <1>5, <2>2, CallUpdates DEF Take
    <2>3. CASE conn # None
      <3>1. conn \in Conns /\ call' = [call EXCEPT ![t].stage = "write", ![t].conn = conn]
        BY <1>5, <2>1, <2>3 DEF Take
      <3>. QED
        BY <3>1, CallUpdates DEF Stages
    <2>. QED
      BY <2>2, <2>3
  <1>6. CASE Write(t)
    BY <1>6, CallUpdates DEF Write
  <1>7. CASE WriteFails(t)
    BY <1>7, CallUpdates DEF WriteFails, Resend, Stages
  <1>8. CASE Reconnect(t)
    BY <1>8, CallUpdates DEF Reconnect
  <1>. QED
    BY <1>1, <1>2, <1>3, <1>4, <1>5, <1>6, <1>7, <1>8 DEF Sending

\* What a step of a call leaves of its frames.
LEMMA SendingTodo ==
    ASSUME TypeOK, CallInv, NEW t \in Threads, Sending(t)
    PROVE  \/ UNCHANGED todo
           \/ Write(t) /\ todo[t] # <<>> /\ todo' = [todo EXCEPT ![t] = Tail(todo[t])]
                /\ Tail(todo[t]) \in Seq(Frames)
  <1>1. CASE Write(t)
    <2>1. todo[t] # <<>> /\ todo[t] \in Seq(Frames)
      BY <1>1 DEF Write, At, CallInv, TypeOK
    <2>2. Tail(todo[t]) \in Seq(Frames)
      BY <2>1, HeadTailProperties
    <2>3. todo' = [todo EXCEPT ![t] = Tail(todo[t])]
      BY <1>1 DEF Write, NextFrame
    <2>. QED
      BY <1>1, <2>1, <2>2, <2>3
  <1>2. CASE ~Write(t)
    BY <1>2 DEF Sending, Connected, NotConnected, Dial, DialFails, Discard, NotAdmitted,
         UseTheirs, Install, Take, WriteFails, Resend, Reconnect
  <1>. QED
    BY <1>1, <1>2

LEMMA SendingLink ==
    ASSUME TypeOK, CallInv, NEW t \in Threads, Sending(t)
    PROVE  link' \in [Conns -> Link]
  <1>1. CASE Quietly(t)
    BY <1>1, QuietSteps DEF Quiet, ShutsOnly
  <1>2. CASE Dial(t)
    BY <1>2, DialUpdates
  <1>3. CASE Write(t) \/ WriteFails(t)
    <2>1. call[t].conn \in Conns /\ todo[t] # <<>> /\ link \in [Conns -> Link]
      BY <1>3 DEF Write, WriteFails, At, CallInv, TypeOK
    <2>2. CASE UNCHANGED link
      BY <2>1, <2>2
    <2>3. CASE \E w \in BOOLEAN : Put(t, call[t].conn, w)
      BY <2>1, <2>3, PutUpdates
    <2>. QED
      BY <1>3, <2>2, <2>3 DEF Write, WriteFails
  <1>. QED
    BY <1>1, <1>2, <1>3 DEF Sending, Quietly

LEMMA TypeSending ==
    ASSUME TypeOK, CallInv, NEW t \in Threads, Sending(t)
    PROVE  TypeOK'
  <1>1. link' \in [Conns -> Link] /\ call' \in [Threads -> Call]
    BY SendingLink, SendingCalls DEF OnlyCall
  <1>2. todo' \in [Threads -> Seq(Frames)]
    BY SendingTodo DEF TypeOK
  <1>3. /\ call[t].gen \in 0 .. MaxEvents /\ 0 \in 0 .. MaxEvents
        /\ At(t, "install") => call[t].conn \in Conns
        /\ events < MaxEvents => events + 1 \in 0 .. MaxEvents
    BY ConnsAssumption DEF TypeOK, Call, CallInv, At
  <1>4. conn' \in Conns \cup {None} /\ made' \in 0 .. MaxEvents
    BY <1>3 DEF TypeOK, Sending, Connected, NotConnected, DropConn, Dial, DialFails, Discard,
         NotAdmitted, UseTheirs, Install, Take, Write, WriteFails, Reconnect
  <1>5. events' \in 0 .. MaxEvents
    BY <1>3 DEF TypeOK, Sending, Connected, NotConnected, Dial, DialFails, Discard, Event,
         NotAdmitted, UseTheirs, Install, Take, Write, WriteFails, Reconnect
  <1>6. UNCHANGED <<generation, closed, receiver, fault>>
    BY DEF Sending, Connected, NotConnected, Dial, DialFails, Discard,
         NotAdmitted, UseTheirs, Install, Take, Write, WriteFails, Reconnect
  <1>. QED
    BY <1>1, <1>2, <1>4, <1>5, <1>6 DEF TypeOK, receiver

\* The slots of the connections served: a handler that leaves gives one back, a
\* connection that is registered takes one.
LEMMA SlotGivenBack ==
    ASSUME TypeOK, AcceptInv, NEW c \in Served, handler' = [handler EXCEPT ![c] = "none"]
    PROVE  /\ Served' = Served \ {c}
           /\ IsFiniteSet(Served') /\ active - 1 = Cardinality(Served')
           /\ active - 1 \in 0 .. MaxConnections
           /\ handler' \in [Conns -> {"none", "handshake", "read"}]
  <1>1. /\ handler \in [Conns -> {"none", "handshake", "read"}] /\ c \in Conns
        /\ active \in 0 .. MaxConnections /\ MaxConnections \in Nat
    BY ConnsAssumption DEF TypeOK, Served
  <1>2. Served' = Served \ {c}
    BY <1>1 DEF Served
  <1>3. IsFiniteSet(Served) /\ active = Cardinality(Served)
    BY DEF AcceptInv
  <1>4. IsFiniteSet(Served \ {c}) /\ Cardinality(Served \ {c}) = Cardinality(Served) - 1
    BY <1>3, FS_RemoveElement
  <1>5. Cardinality(Served \ {c}) \in Nat
    BY <1>4, FS_CardinalityType
  <1>6. active - 1 \in 0 .. MaxConnections
    BY <1>1, <1>3, <1>4, <1>5
  <1>. QED
    BY <1>1, <1>2, <1>3, <1>4, <1>6

LEMMA SlotTaken ==
    ASSUME TypeOK, AcceptInv, acceptor = "got", ~AtLimit,
           handler' = [handler EXCEPT ![accepted] = "handshake"]
    PROVE  /\ Served' = Served \cup {accepted}
           /\ IsFiniteSet(Served') /\ active + 1 = Cardinality(Served')
           /\ active + 1 \in 0 .. MaxConnections
           /\ handler' \in [Conns -> {"none", "handshake", "read"}]
  <1>1. /\ handler \in [Conns -> {"none", "handshake", "read"}] /\ accepted \in Conns
        /\ active \in 0 .. MaxConnections /\ MaxConnections \in Nat
    BY ConnsAssumption DEF TypeOK, AcceptInv
  <1>2. Served' = Served \cup {accepted}
    BY <1>1 DEF Served
  <1>3. IsFiniteSet(Served) /\ active = Cardinality(Served) /\ accepted \notin Served
    BY DEF AcceptInv
  <1>4. /\ IsFiniteSet(Served \cup {accepted})
        /\ Cardinality(Served \cup {accepted}) = Cardinality(Served) + 1
    BY <1>3, FS_AddElement
  <1>5. active + 1 \in 0 .. MaxConnections
    BY <1>1 DEF AtLimit
  <1>. QED
    BY <1>1, <1>2, <1>3, <1>4, <1>5

LEMMA TypeReceiving ==
    ASSUME TypeOK, AcceptInv, Accepting \/ Closing \/ \E c \in Conns : Handling(c)
    PROVE  TypeOK'
  <1>1. /\ link \in [Conns -> Link] /\ (acceptor = "got" => accepted \in Conns)
        /\ handler \in [Conns -> {"none", "handshake", "read"}]
        /\ events < MaxEvents => events + 1 \in 0 .. MaxEvents
    BY ConnsAssumption DEF TypeOK, AcceptInv
  <1>2. ASSUME NEW C, link' = HangUp(C) PROVE link' \in [Conns -> Link]
    BY <1>2, HangUpUpdates
  <1>3. ASSUME NEW c \in Served, Leave(c)
        PROVE  /\ link' \in [Conns -> Link] /\ active' \in 0 .. MaxConnections
               /\ handler' \in [Conns -> {"none", "handshake", "read"}]
    BY <1>2, <1>3, SlotGivenBack DEF Leave
  <1>4. ASSUME NEW c \in Conns, Accept(c) PROVE TypeOK'
    <2>1. link' \in [Conns -> Link]
      BY <1>4, AcceptUpdates
    <2>. QED
      BY <1>4, <2>1 DEF Accept, TypeOK, sender
  <1>5. CASE AcceptEnds \/ CloseReturns
    BY <1>5 DEF AcceptEnds, CloseReturns, TypeOK, sender
  <1>6. CASE Reject
    <2>1. link' \in [Conns -> Link]
      BY <1>2, <1>6 DEF Reject
    <2>. QED
      BY <1>6, <2>1 DEF Reject, TypeOK, sender
  <1>7. CASE Register
    <2>1. link' \in [Conns -> Link]
      BY <1>1, <1>2, <1>7 DEF Register
    <2>2. active' \in 0 .. MaxConnections /\ handler' \in [Conns -> {"none", "handshake", "read"}]
      <3>1. CASE TooLate
        BY <1>1, <1>7, <3>1 DEF Register, TypeOK
      <3>2. CASE ~TooLate
        BY <1>7, <3>2, SlotTaken DEF Register
      <3>. QED
        BY <3>1, <3>2
    <2>3. acceptor' \in {"loop", "got", "end"} /\ accepted' \in Conns \cup {None}
      BY <1>7 DEF Register
    <2>. QED
      BY <1>7, <2>1, <2>2, <2>3 DEF Register, TypeOK, sender
  <1>8. CASE CloseReceiver
    BY <1>8 DEF CloseReceiver, TypeOK, sender
  <1>9. CASE CloseSockets
    <2>1. link' \in [Conns -> Link]
      BY <1>2, <1>9 DEF CloseSockets
    <2>. QED
      BY <1>9, <2>1 DEF CloseSockets, TypeOK, sender
  <1>10. ASSUME NEW c \in Conns, HandshakeDone(c) PROVE TypeOK'
    BY <1>10 DEF HandshakeDone, TypeOK, sender
  <1>11. ASSUME NEW c \in Conns, HandshakeFails(c) \/ Refuse(c) \/ ReadEnds(c) PROVE TypeOK'
    <2>1. c \in Served /\ Leave(c)
      BY <1>11 DEF HandshakeFails, Refuse, ReadEnds, Served
    <2>2. /\ link' \in [Conns -> Link] /\ active' \in 0 .. MaxConnections
          /\ handler' \in [Conns -> {"none", "handshake", "read"}]
      BY <1>3, <2>1
    <2>3. events' \in 0 .. MaxEvents /\ fault' \in BOOLEAN
      BY <1>1, <1>11 DEF HandshakeFails, Refuse, ReadEnds, Event, TypeOK
    <2>4. UNCHANGED <<sender, stop, acceptor, accepted, closing, snapshot, delivered>>
      BY <1>11 DEF HandshakeFails, Refuse, ReadEnds
    <2>. QED
      BY <2>2, <2>3, <2>4 DEF TypeOK, sender
  <1>12. ASSUME NEW c \in Conns, ReadMessage(c) PROVE TypeOK'
    <2>1. link' \in [Conns -> Link] /\ Head(link[c].stream).frame \in Frames
      BY <1>12, ReadUpdates
    <2> DEFINE f == Head(link[c].stream).frame
    <2>2. f \in Frames /\ delivered \in [Frames -> Nat]
      BY <2>1 DEF TypeOK
    <2>3. delivered' = [delivered EXCEPT ![f] = @ + 1]
      BY <1>12 DEF ReadMessage
    <2> HIDE DEF f
    <2>4. delivered' \in [Frames -> Nat]
      BY <2>2, <2>3
    <2>. QED
      BY <1>12, <2>1, <2>4 DEF ReadMessage, TypeOK, sender
  <1>. QED
    BY <1>4, <1>5, <1>6, <1>7, <1>8, <1>9, <1>10, <1>11, <1>12 DEF Accepting, Closing, Handling

LEMMA TypeNext ==
    ASSUME TypeOK, CallInv, AcceptInv, [Next]_vars
    PROVE  TypeOK'
  <1>1. /\ link \in [Conns -> Link] /\ conn \in Conns \cup {None} /\ 0 \in 0 .. MaxEvents
        /\ events < MaxEvents => events + 1 \in 0 .. MaxEvents
        /\ events < MaxEvents => generation + 1 \in 0 .. MaxEvents
    BY ConnsAssumption DEF TypeOK, CallInv
  <1>2. DropConn => link' \in [Conns -> Link]
    BY <1>1, ShutUpdates DEF DropConn, ShutsOnly
  <1>3. CASE ReloadTLSConfig \/ CloseSender
    <2>1. link' \in [Conns -> Link]
      BY <1>2, <1>3 DEF ReloadTLSConfig, CloseSender
    <2>. QED
      BY <1>1, <1>3, <2>1 DEF ReloadTLSConfig, CloseSender, Event, DropConn, TypeOK, receiver
  <1>4. CASE Stop
    BY <1>1, <1>4 DEF Stop, Event, TypeOK, sender
  <1>5. ASSUME NEW c \in Conns, Break(c) PROVE TypeOK'
    <2>1. link' \in [Conns -> Link]
      BY <1>5, BreakUpdates
    <2>. QED
      BY <1>1, <1>5, <2>1 DEF Break, Event, TypeOK, sender, receiver
  <1>6. CASE UNCHANGED vars
    BY <1>6 DEF vars, sender, receiver, TypeOK
  <1>. QED
    BY <1>3, <1>4, <1>5, <1>6, TypeSending, TypeReceiving DEF Next, Done

-----------------------------------------------------------------------------
(* The calls, and the connection they share.                               *)

LEMMA CallNext ==
    ASSUME TypeOK, CallInv, [Next]_vars
    PROVE  CallInv'
  <1>1. generation \in Nat /\ events \in Nat /\ generation <= events
    BY DEF TypeOK, CallInv
  <1>2. ASSUME UNCHANGED <<todo, call>>, generation' <= events' PROVE CallInv'
    BY <1>2 DEF CallInv
  <1>3. ASSUME NEW t \in Threads, Sending(t) PROVE CallInv'
    <2>1. OnlyCall(t)
      BY <1>3, SendingCalls
    <2>2. ASSUME NEW u \in Threads \ {t} PROVE call'[u] = call[u] /\ todo'[u] = todo[u]
      BY <1>3, <2>1, <2>2, SendingTodo DEF OnlyCall, TypeOK
    <2>3. call'[t].stage \in {"install", "write"} => call'[t].conn \in Conns
      <3>1. CASE Connected(t) \/ UseTheirs(t) \/ Install(t)
        BY <3>1, CallUpdates DEF Connected, UseTheirs, Install, Stages
      <3>2. CASE NotConnected(t)
        BY <3>2, CallUpdates DEF NotConnected
      <3>3. CASE Dial(t)
        BY <3>3, DialUpdates
      <3>4. CASE DialFails(t) \/ Discard(t) \/ NotAdmitted(t)
        BY <3>4, CallUpdates DEF DialFails, Discard, NotAdmitted
      <3>5. CASE Take(t)
        <4>1. conn \in Conns \cup {None}
          BY DEF TypeOK
        <4>2. CASE conn = None
          BY <3>5, <4>2, CallUpdates DEF Take
        <4>3. CASE conn # None
          <5>1. conn \in Conns /\ call' = [call EXCEPT ![t].stage = "write", ![t].conn = conn]
            BY <3>5, <4>1, <4>3 DEF Take
          <5>. QED
            BY <5>1, CallUpdates DEF Stages
        <4>. QED
          BY <4>2, <4>3
      <3>6. CASE Write(t)
        BY <3>6, CallUpdates DEF Write
      <3>7. CASE WriteFails(t)
        BY <3>7, CallUpdates DEF WriteFails, Resend, Stages
      <3>8. CASE Reconnect(t)
        BY <3>8, CallUpdates DEF Reconnect
      <3>. QED
        BY <1>3, <3>1, <3>2, <3>3, <3>4, <3>5, <3>6, <3>7, <3>8 DEF Sending
    <2>4. call'[t].stage # "done" => todo'[t] # <<>>
      <3>1. CASE UNCHANGED todo
        <4>1. call[t].stage # "done"
          BY <1>3 DEF Sending, At, Connected, NotConnected, Dial, DialFails, Discard,
               NotAdmitted, UseTheirs, Install, Take, Write, WriteFails, Reconnect
        <4>. QED
          BY <3>1, <4>1 DEF CallInv
      <3>2. CASE Write(t) /\ todo' = [todo EXCEPT ![t] = Tail(todo[t])]
        <4>1. /\ todo[t] \in Seq(Frames) /\ todo[t] # <<>> /\ todo'[t] = Tail(todo[t])
              /\ Len(todo[t]) # 0
          BY <3>2, EmptySeq DEF Write, At, CallInv, TypeOK
        <4>2. Len(Tail(todo[t])) = Len(todo[t]) - 1 /\ Len(todo[t]) \in Nat
          BY <4>1, HeadTailProperties, LenProperties
        <4>3. call'[t].stage = IF Len(todo[t]) = 1 THEN "done" ELSE "ensure"
          BY <3>2, CallUpdates DEF Write
        <4>4. Tail(todo[t]) = <<>> => Len(todo[t]) = 1
          <5>1. Tail(todo[t]) = <<>> => Len(Tail(todo[t])) = 0
            BY EmptySeq
          <5>. QED
            BY <4>2, <5>1
        <4>. QED
          BY <4>1, <4>3, <4>4
      <3>. QED
        BY <1>3, <3>1, <3>2, SendingTodo
    <2>5. generation' = generation /\ events' \in {events, events + 1}
      BY <1>3 DEF Sending, Connected, NotConnected, Dial, DialFails, Discard, Event,
           NotAdmitted, UseTheirs, Install, Take, Write, WriteFails, Reconnect
    <2>6. generation' <= events'
      BY <1>1, <2>5
    <2>. QED
      BY <2>2, <2>3, <2>4, <2>6 DEF CallInv
  <1>4. CASE Accepting
    BY <1>1, <1>2, <1>4 DEF Accepting, Accept, AcceptEnds, Reject, Register, sender
  <1>5. CASE Closing
    BY <1>1, <1>2, <1>5 DEF Closing, CloseReceiver, CloseSockets, CloseReturns, sender
  <1>6. ASSUME NEW c \in Conns, Handling(c) \/ Break(c) PROVE CallInv'
    <2>1. UNCHANGED <<todo, call, generation>> /\ events' \in {events, events + 1}
      BY <1>6 DEF Handling, HandshakeDone, HandshakeFails, Refuse, ReadMessage, ReadEnds, Break,
           Event, sender
    <2>. QED
      BY <1>1, <1>2, <2>1
  <1>7. CASE ReloadTLSConfig \/ CloseSender \/ Stop
    <2>1. UNCHANGED <<todo, call>> /\ generation' \in {generation, generation + 1}
            /\ events' = events + 1
      BY <1>7 DEF ReloadTLSConfig, CloseSender, Stop, Event, sender
    <2>. QED
      BY <1>1, <1>2, <2>1
  <1>8. CASE UNCHANGED vars
    BY <1>1, <1>2, <1>8 DEF vars, sender
  <1>. QED
    BY <1>3, <1>4, <1>5, <1>6, <1>7, <1>8 DEF Next, Done

\* An open connection keeps its owner in the step of a call that closes, or
\* shares, the connection it was about to install.
LEMMA OwnersKept ==
    ASSUME TypeOK, SharedInv, NEW t \in Threads, OnlyCall(t),
           \A d \in Conns : link'[d].up = "open" => link[d].up = "open",
           At(t, "install") => link'[call[t].conn].up # "open" \/ call[t].conn = conn',
           conn' = conn \/ (conn \in Conns => link'[conn].up # "open")
    PROVE  \A c \in Conns : link'[c].up = "open" =>
             c = conn' \/ \E u \in Threads : At(u, "install")' /\ call'[u].conn = c
  <1> SUFFICES ASSUME NEW c \in Conns, link'[c].up = "open", c # conn'
               PROVE  \E u \in Threads : At(u, "install")' /\ call'[u].conn = c
    OBVIOUS
  <1>1. c # conn
    OBVIOUS
  <1>2. PICK u \in Threads : At(u, "install") /\ call[u].conn = c
    BY <1>1 DEF SharedInv
  <1>3. u # t
    BY <1>2
  <1>. QED
    BY <1>2, <1>3 DEF OnlyCall, At

LEMMA SharedNext ==
    ASSUME TypeOK, CallInv, SharedInv, [Next]_vars
    PROVE  SharedInv'
  <1> DEFINE Owned == \A c \in Conns : link[c].up = "open" =>
                        c = conn \/ \E u \in Threads : At(u, "install") /\ call[u].conn = c
             Current == conn # None => made = generation /\ ~closed
  <1> USE DEF At
  <1>0. /\ link \in [Conns -> Link] /\ conn \in Conns \cup {None}
        /\ \A c \in Conns : link[c].up \in {"open", "closed"}
    BY DEF TypeOK, Link
  <1>1. UNCHANGED <<conn, made, generation, closed>> => Current'
    BY DEF SharedInv
  <1>2. ASSUME NEW t \in Threads, Quietly(t) PROVE SharedInv'
    <2>1. OnlyCall(t) /\ ShutsOnly
      BY <1>2, SendingCalls, QuietSteps DEF Quietly, Sending, Quiet
    <2>2. \A d \in Conns : link'[d].up = "open" => link[d].up = "open"
      BY <2>1 DEF ShutsOnly
    <2>3. CASE Connected(t) \/ DialFails(t) \/ Take(t)
      <3>1. call[t].stage # "install" /\ UNCHANGED <<conn, made, generation, closed>>
        BY <2>3 DEF Connected, DialFails, Take
      <3>2. Owned'
        BY <2>1, <2>2, <3>1, OwnersKept
      <3>. QED
        BY <1>1, <3>1, <3>2 DEF SharedInv
    <2>4. CASE NotConnected(t)
      <3>1. call[t].stage # "install" /\ DropConn
        BY <2>4 DEF NotConnected
      <3>2. conn \in Conns => link'[conn].up = "closed"
        BY <1>0, <3>1, ShutUpdates DEF DropConn
      <3>3. Owned'
        BY <2>1, <2>2, <3>1, <3>2, OwnersKept
      <3>. QED
        BY <3>1, <3>3 DEF SharedInv, DropConn
    <2>5. CASE Discard(t) \/ NotAdmitted(t) \/ UseTheirs(t)
      <3>1. /\ call[t].conn \in Conns /\ link' = Shut(call[t].conn)
            /\ UNCHANGED <<conn, made, generation, closed>>
        BY <2>5 DEF Discard, NotAdmitted, UseTheirs, CallInv
      <3>2. link'[call[t].conn].up = "closed"
        BY <3>1, ShutUpdates
      <3>3. Owned'
        BY <2>1, <2>2, <3>1, <3>2, OwnersKept
      <3>. QED
        BY <1>1, <3>1, <3>3 DEF SharedInv
    <2>6. CASE Install(t)
      <3>1. conn = None /\ None \notin Conns /\ conn' = call[t].conn
        BY <2>6, ConnsAssumption DEF Install, None
      <3>2. Owned'
        BY <2>1, <2>2, <3>1, OwnersKept
      <3>3. made' = generation' /\ ~closed'
        BY <2>6 DEF Install, Outdated
      <3>. QED
        BY <3>2, <3>3 DEF SharedInv
    <2>7. CASE Reconnect(t)
      <3>1. call[t].stage # "install"
        BY <2>7 DEF Reconnect
      <3>2. CASE closed
        <4>1. UNCHANGED <<conn, made, generation, closed>>
          BY <2>7, <3>2 DEF Reconnect
        <4>2. Owned'
          BY <2>1, <2>2, <3>1, <4>1, OwnersKept
        <4>. QED
          BY <1>1, <4>1, <4>2 DEF SharedInv
      <3>3. CASE ~closed
        <4>1. DropConn
          BY <2>7, <3>3 DEF Reconnect
        <4>2. conn \in Conns => link'[conn].up = "closed"
          BY <1>0, <4>1, ShutUpdates DEF DropConn
        <4>3. Owned'
          BY <2>1, <2>2, <3>1, <4>2, OwnersKept
        <4>. QED
          BY <4>1, <4>3 DEF SharedInv, DropConn
      <3>. QED
        BY <3>2, <3>3
    <2>. QED
      BY <1>2, <2>3, <2>4, <2>5, <2>6, <2>7 DEF Quietly
  <1>3. ASSUME NEW t \in Threads, Dial(t) PROVE SharedInv'
    <2>1. PICK c \in Conns :
             /\ \A d \in Conns : d # c => link'[d] = link[d]
             /\ OnlyCall(t) /\ call'[t].stage = "install" /\ call'[t].conn = c
      BY <1>3, DialUpdates
    <2>2. UNCHANGED <<conn, made, generation, closed>> /\ call[t].stage = "dial"
      BY <1>3 DEF Dial
    <2>3. ASSUME NEW d \in Conns, link'[d].up = "open", d # conn'
          PROVE  \E u \in Threads : call'[u].stage = "install" /\ call'[u].conn = d
      <3>1. CASE d = c
        BY <2>1, <3>1
      <3>2. CASE d # c
        <4>1. link[d].up = "open" /\ d # conn
          BY <2>1, <2>2, <2>3, <3>2
        <4>2. PICK u \in Threads : call[u].stage = "install" /\ call[u].conn = d
          BY <4>1 DEF SharedInv
        <4>3. u # t
          BY <2>2, <4>2
        <4>. QED
          BY <2>1, <4>2, <4>3 DEF OnlyCall
      <3>. QED
        BY <3>1, <3>2
    <2>. QED
      BY <1>1, <2>2, <2>3 DEF SharedInv
  <1>4. ASSUME NEW t \in Threads, Write(t) \/ WriteFails(t) PROVE SharedInv'
    <2>1. /\ call[t].conn \in Conns /\ todo[t] # <<>> /\ call[t].stage # "install"
          /\ UNCHANGED <<conn, made, generation, closed>>
      BY <1>4 DEF Write, WriteFails, CallInv
    <2>2. OnlyCall(t)
      BY <1>4, SendingCalls DEF Sending
    <2>3. \A d \in Conns : link'[d].up = link[d].up
      <3>1. CASE UNCHANGED link
        BY <3>1
      <3>2. CASE \E w \in BOOLEAN : Put(t, call[t].conn, w)
        BY <2>1, <3>2, PutUpdates
      <3>. QED
        BY <1>4, <3>1, <3>2 DEF Write, WriteFails
    <2>4. Owned'
      BY <2>1, <2>2, <2>3, OwnersKept
    <2>. QED
      BY <1>1, <2>1, <2>4 DEF SharedInv
  <1>5. ASSUME UNCHANGED sender, \A d \in Conns : link'[d].up = link[d].up PROVE SharedInv'
    BY <1>5 DEF sender, SharedInv
  <1>6. CASE Accepting
    <2>1. UNCHANGED sender
      BY <1>6 DEF Accepting, Accept, AcceptEnds, Reject, Register
    <2>2. \A d \in Conns : link'[d].up = link[d].up
      BY <1>6, AcceptUpdates, HangUpUpdates DEF Accepting, AcceptEnds, Reject, Register
    <2>. QED
      BY <1>5, <2>1, <2>2
  <1>7. CASE Closing
    <2>1. UNCHANGED sender
      BY <1>7 DEF Closing, CloseReceiver, CloseSockets, CloseReturns
    <2>2. \A d \in Conns : link'[d].up = link[d].up
      BY <1>7, HangUpUpdates DEF Closing, CloseReceiver, CloseSockets, CloseReturns
    <2>. QED
      BY <1>5, <2>1, <2>2
  <1>8. ASSUME NEW c \in Conns, Handling(c) \/ Break(c) PROVE SharedInv'
    <2>1. UNCHANGED sender
      BY <1>8 DEF Handling, HandshakeDone, HandshakeFails, Refuse, ReadMessage, ReadEnds, Break
    <2>2. CASE HandshakeDone(c) \/ HandshakeFails(c) \/ Refuse(c) \/ ReadEnds(c)
      <3>1. UNCHANGED link \/ link' = HangUp({c})
        BY <2>2 DEF HandshakeDone, HandshakeFails, Refuse, ReadEnds, Leave
      <3>. QED
        BY <1>5, <2>1, <3>1, HangUpUpdates
    <2>3. CASE ReadMessage(c)
      <3>1. \A d \in Conns : link'[d].up = link[d].up
        BY <2>3, ReadUpdates
      <3>. QED
        BY <1>5, <2>1, <3>1
    <2>4. CASE Break(c)
      <3>1. \A d \in Conns : link'[d].up = link[d].up
        BY <2>4, BreakUpdates
      <3>. QED
        BY <1>5, <2>1, <3>1
    <2>. QED
      BY <1>8, <2>2, <2>3, <2>4 DEF Handling
  <1>9. CASE ReloadTLSConfig \/ CloseSender
    <2>1. DropConn /\ UNCHANGED call /\ ShutsOnly
      BY <1>9, QuietSteps DEF ReloadTLSConfig, CloseSender, Quiet
    <2>2. conn \in Conns => link'[conn].up = "closed"
      BY <1>0, <2>1, ShutUpdates DEF DropConn
    <2>3. \A d \in Conns : link'[d].up = "open" => link[d].up = "open" /\ d # conn
      BY <2>1, <2>2 DEF ShutsOnly
    <2>4. Owned'
      BY <2>1, <2>3 DEF SharedInv
    <2>. QED
      BY <2>1, <2>4 DEF SharedInv, DropConn
  <1>10. CASE Stop \/ UNCHANGED vars
    BY <1>5, <1>10 DEF Stop, vars
  <1>. QED
    BY <1>2, <1>3, <1>4, <1>6, <1>7, <1>8, <1>9, <1>10 DEF Next, Done, Sending, Quietly

-----------------------------------------------------------------------------
(* The accept loop, the handlers and Close.                                *)

\* Nothing changes that they look at.
LEMMA AcceptKept ==
    ASSUME AcceptInv, NothingOutlivesClose, UNCHANGED receiver, fault => fault',
           \A d \in Conns : link'[d].down = link[d].down /\ (link[d].lost => link'[d].lost),
           accepted \in Conns \cup {None}
    PROVE  AcceptInv' /\ NothingOutlivesClose'
  <1>1. UNCHANGED <<stop, acceptor, accepted, active, handler, closing, snapshot>>
    BY DEF receiver
  <1>2. Served' = Served
    BY <1>1 DEF Served
  <1>3. AcceptInv'
    BY <1>1, <1>2 DEF AcceptInv, Served
  <1>4. NothingOutlivesClose'
    BY <1>1 DEF NothingOutlivesClose, Dead
  <1>. QED
    BY <1>3, <1>4

LEMMA AcceptSending ==
    ASSUME TypeOK, CallInv, AcceptInv, NothingOutlivesClose, NEW t \in Threads, Sending(t)
    PROVE  AcceptInv' /\ NothingOutlivesClose'
  <1>0. accepted \in Conns \cup {None} /\ link \in [Conns -> Link]
    BY DEF TypeOK
  <1>1. CASE Quietly(t)
    <2>1. Quiet
      BY <1>1, QuietSteps
    <2>. QED
      BY <1>0, <2>1, AcceptKept DEF Quiet, ShutsOnly
  <1>2. CASE Write(t) \/ WriteFails(t)
    <2>1. /\ call[t].conn \in Conns /\ todo[t] # <<>> /\ UNCHANGED <<receiver, fault>>
      BY <1>2 DEF Write, WriteFails, At, CallInv
    <2>2. \A d \in Conns : link'[d].down = link[d].down /\ link'[d].lost = link[d].lost
      <3>1. CASE UNCHANGED link
        BY <3>1
      <3>2. CASE \E w \in BOOLEAN : Put(t, call[t].conn, w)
        BY <2>1, <3>2, PutUpdates
      <3>. QED
        BY <1>2, <3>1, <3>2 DEF Write, WriteFails
    <2>. QED
      BY <1>0, <2>1, <2>2, AcceptKept
  <1>3. CASE Dial(t)
    <2>1. PICK c \in Conns : Free(c) /\ \A d \in Conns : d # c => link'[d] = link[d]
      BY <1>3, DialUpdates
    <2>2. handler[c] = "none" /\ c # accepted
      BY <2>1 DEF Free
    <2>3. UNCHANGED <<stop, acceptor, accepted, active, handler, closing, snapshot, fault>>
      BY <1>3 DEF Dial, receiver
    <2>4. Served' = Served /\ c \notin Served
      BY <2>2, <2>3 DEF Served
    <2>5. /\ accepted # None => link'[accepted] = link[accepted]
          /\ \A d \in Served : link'[d] = link[d]
      BY <1>0, <2>1, <2>2, <2>4 DEF Served
    <2>6. AcceptInv'
      BY <2>3, <2>4, <2>5 DEF AcceptInv
    <2>7. NothingOutlivesClose'
      BY <1>3, <2>3 DEF Dial, NothingOutlivesClose
    <2>. QED
      BY <2>6, <2>7
  <1>. QED
    BY <1>1, <1>2, <1>3 DEF Sending, Quietly

\* A handler leaves, and its connection is closed.
LEMMA AcceptLeave ==
    ASSUME TypeOK, AcceptInv, NothingOutlivesClose, NEW c \in Served, Leave(c),
           UNCHANGED <<stop, acceptor, accepted, closing, snapshot>>, fault => fault'
    PROVE  AcceptInv' /\ NothingOutlivesClose'
  <1>0. accepted \in Conns \cup {None} /\ c \in Conns
    BY DEF TypeOK, Served
  <1>1. /\ Served' = Served \ {c}
        /\ IsFiniteSet(Served') /\ active' = Cardinality(Served')
    BY SlotGivenBack DEF Leave
  <1>2. \A d \in Conns : /\ d # c => link'[d] = link[d]
                         /\ d = c => link'[d].down = "closed"
    BY DEF Leave, HangUp, Unused
  <1>3. accepted # None => link'[accepted].down # "backlog"
    BY <1>0, <1>2 DEF AcceptInv
  <1>4. \A d \in Served' : d # accepted' /\ link'[d].down # "backlog"
    BY <1>1, <1>2 DEF AcceptInv, Served
  <1>5. AcceptInv'
    BY <1>1, <1>3, <1>4 DEF AcceptInv
  <1>6. \A d \in Conns : d # c => handler'[d] = handler[d]
    BY <1>0 DEF Leave, TypeOK
  <1>7. NothingOutlivesClose'
    <2>1. ASSUME NEW d \in Conns, closing \in {"waiting", "returned"},
                 handler'[d] # "none" \/ link'[d].down = "backlog"
          PROVE  link'[d].lost \/ link'[d].down = "closed"
      BY <1>2, <1>6, <2>1 DEF NothingOutlivesClose, Dead
    <2>. QED
      BY <2>1 DEF NothingOutlivesClose, Dead
  <1>. QED
    BY <1>5, <1>7

LEMMA AcceptReceiving ==
    ASSUME TypeOK, AcceptInv, NothingOutlivesClose,
           Accepting \/ Closing \/ \E c \in Conns : Handling(c)
    PROVE  AcceptInv' /\ NothingOutlivesClose'
  <1>0. /\ accepted \in Conns \cup {None} /\ None \notin Conns
        /\ handler \in [Conns -> {"none", "handshake", "read"}]
    BY ConnsAssumption DEF TypeOK, None
  <1>1. UNCHANGED handler => Served' = Served
    BY DEF Served
  <1>2. ASSUME NEW c \in Conns, Accept(c) PROVE AcceptInv' /\ NothingOutlivesClose'
    <2>1. /\ link[c].down = "backlog" /\ ~stop /\ accepted' = c /\ acceptor' = "got"
          /\ UNCHANGED <<stop, active, handler, closing, snapshot, fault>>
      BY <1>2 DEF Accept
    <2>2. /\ \A d \in Conns : d # c => link'[d].down = link[d].down
          /\ link'[c].down = "open"
      BY <1>2, AcceptUpdates
    <2>3. closing = "no" /\ c \notin Served
      BY <2>1 DEF AcceptInv
    <2>4. \A d \in Served' : d # accepted' /\ link'[d].down # "backlog"
      BY <1>1, <2>1, <2>2, <2>3 DEF AcceptInv, Served
    <2>5. AcceptInv'
      BY <1>0, <1>1, <2>1, <2>2, <2>3, <2>4 DEF AcceptInv
    <2>. QED
      BY <2>1, <2>3, <2>5 DEF NothingOutlivesClose
  <1>3. CASE AcceptEnds
    <2>1. acceptor = "loop" /\ acceptor' = "end"
          /\ UNCHANGED <<link, stop, accepted, active, handler, closing, snapshot, fault>>
      BY <1>3 DEF AcceptEnds
    <2>. QED
      BY <1>1, <2>1 DEF AcceptInv, NothingOutlivesClose, Dead
  <1>4. CASE Reject \/ (Register /\ TooLate)
    <2>1. /\ accepted' = None /\ acceptor' # "got" /\ link' = HangUp({accepted})
          /\ UNCHANGED <<stop, active, handler, closing, snapshot>> /\ (fault => fault')
      BY <1>4 DEF Reject, Register
    <2>2. \A d \in Conns : /\ d # accepted => link'[d] = link[d]
                           /\ d = accepted => link'[d].down = "closed"
      BY <2>1 DEF HangUp, Unused
    <2>3. \A d \in Served' : d # accepted' /\ link'[d].down # "backlog"
      BY <1>0, <1>1, <2>1, <2>2 DEF AcceptInv, Served
    <2>4. AcceptInv'
      BY <1>1, <2>1, <2>3 DEF AcceptInv
    <2>5. NothingOutlivesClose'
      BY <2>1, <2>2 DEF NothingOutlivesClose, Dead
    <2>. QED
      BY <2>4, <2>5
  <1>5. CASE Register /\ ~TooLate
    <2>1. /\ accepted' = None /\ acceptor' = "loop" /\ active' = active + 1 /\ closing = "no"
          /\ UNCHANGED <<link, stop, closing, snapshot, fault>>
      BY <1>5 DEF Register, TooLate
    <2>2. Served' = Served \cup {accepted} /\ IsFiniteSet(Served') /\ active' = Cardinality(Served')
            /\ accepted # None
      BY <1>5, SlotTaken DEF Register, AcceptInv
    <2>3. \A d \in Served' : d # accepted' /\ link'[d].down # "backlog"
      BY <1>0, <2>1, <2>2 DEF AcceptInv, Served
    <2>4. AcceptInv'
      BY <2>1, <2>2, <2>3 DEF AcceptInv
    <2>. QED
      BY <2>1, <2>4 DEF NothingOutlivesClose
  <1>6. CASE CloseReceiver
    <2>1. /\ stop /\ closing' = "closing" /\ snapshot' = Served
          /\ UNCHANGED <<link, stop, acceptor, accepted, active, handler, fault>>
      BY <1>6 DEF CloseReceiver, Served
    <2>2. AcceptInv'
      BY <1>1, <2>1 DEF AcceptInv
    <2>. QED
      BY <2>1, <2>2 DEF NothingOutlivesClose
  <1>7. CASE CloseSockets
    <2> DEFINE C == snapshot \cup {c \in Conns : link[c].down = "backlog"}
    <2>1. /\ closing = "closing" /\ closing' = "waiting" /\ link' = HangUp(C)
          /\ UNCHANGED <<stop, acceptor, accepted, active, handler, fault>>
      BY <1>7 DEF CloseSockets
    <2>2. \A d \in Conns : /\ d \notin C => link'[d] = link[d]
                           /\ d \in C => link'[d].down = "closed"
      <3> HIDE DEF C
      <3>. QED
        BY <2>1, HangUpUpdates
    <2>3. \A d \in Conns : link'[d].down # "backlog"
      BY <2>2
    <2>4. \A d \in Served : link'[d].down = "closed"
      BY <2>1, <2>2 DEF AcceptInv, Served
    <2>5. AcceptInv'
      BY <1>0, <1>1, <2>1, <2>3 DEF AcceptInv, Served
    <2>6. NothingOutlivesClose'
      BY <2>1, <2>3, <2>4 DEF NothingOutlivesClose, Dead, Served
    <2>. QED
      BY <2>5, <2>6
  <1>8. CASE CloseReturns
    <2>1. /\ closing = "waiting" /\ closing' = "returned"
          /\ UNCHANGED <<link, stop, acceptor, accepted, active, handler, snapshot, fault>>
      BY <1>8 DEF CloseReturns
    <2>2. AcceptInv'
      BY <1>1, <2>1 DEF AcceptInv
    <2>. QED
      BY <2>1, <2>2 DEF NothingOutlivesClose, Dead
  <1>9. ASSUME NEW c \in Conns, HandshakeDone(c) PROVE AcceptInv' /\ NothingOutlivesClose'
    <2>1. /\ handler[c] = "handshake" /\ handler' = [handler EXCEPT ![c] = "read"]
          /\ UNCHANGED <<link, stop, acceptor, accepted, active, closing, snapshot, fault>>
      BY <1>9 DEF HandshakeDone
    <2>2. \A d \in Conns : handler'[d] # "none" <=> handler[d] # "none"
      BY <1>0, <2>1
    <2>3. Served' = Served
      BY <2>2 DEF Served
    <2>4. AcceptInv'
      BY <2>1, <2>3 DEF AcceptInv
    <2>5. NothingOutlivesClose'
      BY <2>1, <2>2 DEF NothingOutlivesClose, Dead
    <2>. QED
      BY <2>4, <2>5
  <1>10. ASSUME NEW c \in Conns, HandshakeFails(c) \/ Refuse(c) \/ ReadEnds(c)
         PROVE  AcceptInv' /\ NothingOutlivesClose'
    <2>1. c \in Served /\ Leave(c)
      BY <1>10 DEF HandshakeFails, Refuse, ReadEnds, Served
    <2>2. UNCHANGED <<stop, acceptor, accepted, closing, snapshot>> /\ (fault => fault')
      BY <1>10 DEF HandshakeFails, Refuse, ReadEnds
    <2>. QED
      BY <2>1, <2>2, AcceptLeave
  <1>11. ASSUME NEW c \in Conns, ReadMessage(c) PROVE AcceptInv' /\ NothingOutlivesClose'
    <2>1. UNCHANGED <<stop, acceptor, accepted, active, handler, closing, snapshot, fault>>
      BY <1>11 DEF ReadMessage
    <2>2. \A d \in Conns : link'[d].down = link[d].down /\ link'[d].lost = link[d].lost
      BY <1>11, ReadUpdates
    <2>3. AcceptInv'
      BY <1>0, <1>1, <2>1, <2>2 DEF AcceptInv, Served
    <2>4. NothingOutlivesClose'
      BY <2>1, <2>2 DEF NothingOutlivesClose, Dead
    <2>. QED
      BY <2>3, <2>4
  <1>. QED
    BY <1>2, <1>3, <1>4, <1>5, <1>6, <1>7, <1>8, <1>9, <1>10, <1>11
    DEF Accepting, Closing, Handling

LEMMA AcceptNext ==
    ASSUME TypeOK, CallInv, AcceptInv, NothingOutlivesClose, [Next]_vars
    PROVE  AcceptInv' /\ NothingOutlivesClose'
  <1>0. accepted \in Conns \cup {None}
    BY DEF TypeOK
  <1>1. CASE ReloadTLSConfig \/ CloseSender
    <2>1. Quiet
      BY <1>1, QuietSteps
    <2>. QED
      BY <1>0, <2>1, AcceptKept DEF Quiet, ShutsOnly
  <1>2. ASSUME NEW c \in Conns, Break(c) PROVE AcceptInv' /\ NothingOutlivesClose'
    <2>1. \A d \in Conns : link'[d].down = link[d].down /\ (link[d].lost => link'[d].lost)
      BY <1>2, BreakUpdates
    <2>. QED
      BY <1>0, <1>2, <2>1, AcceptKept DEF Break
  <1>3. CASE Stop
    <2>1. /\ stop' /\ fault'
          /\ UNCHANGED <<link, acceptor, accepted, active, handler, closing, snapshot>>
      BY <1>3 DEF Stop
    <2>. QED
      BY <2>1 DEF AcceptInv, Served, NothingOutlivesClose, Dead
  <1>4. CASE UNCHANGED vars
    BY <1>0, <1>4, AcceptKept DEF vars
  <1>. QED
    BY <1>1, <1>2, <1>3, <1>4, AcceptSending, AcceptReceiving DEF Next, Done

-----------------------------------------------------------------------------
(* What is on its way.                                                     *)

\* The steps that add or take nothing on a stream: the rest are the writes, the
\* reads, the connections lost and those that downstream ends.
Still ==
    /\ UNCHANGED <<todo, delivered>> /\ (fault => fault')
    /\ link' \in [Conns -> Link]
    /\ \A d \in Conns :
         /\ link'[d].stream = link[d].stream
         /\ link[d].up = "closed" => link'[d].up = "closed" \/ link[d].stream = <<>>
         /\ Dead(d)' => Dead(d) /\ (link[d].up = "closed" => link'[d].up = "closed")

LEMMA StillSteps ==
    ASSUME TypeOK, CallInv,
           \/ \E t \in Threads : Quietly(t) \/ Dial(t)
           \/ ReloadTLSConfig \/ CloseSender \/ Stop \/ UNCHANGED vars
           \/ \E c \in Conns : Accept(c) \/ HandshakeDone(c)
           \/ AcceptEnds \/ (Register /\ ~TooLate) \/ CloseReceiver \/ CloseReturns
    PROVE  Still
  <1>0. link \in [Conns -> Link] /\ \A c \in Conns : link[c].up \in {"open", "closed"}
    BY DEF TypeOK, Link
  <1>1. ASSUME Quiet PROVE Still
    <2>1. \A d \in Conns : link'[d].up \in {"open", "closed"}
      BY <1>1 DEF Quiet, ShutsOnly, Link
    <2>. QED
      BY <1>0, <1>1, <2>1 DEF Quiet, ShutsOnly, receiver, Still, Dead
  <1>2. ASSUME UNCHANGED <<link, todo, delivered>>, fault => fault' PROVE Still
    BY <1>0, <1>2 DEF Still, Dead
  <1>3. ASSUME NEW t \in Threads, Dial(t) PROVE Still
    <2>1. PICK c \in Conns :
             /\ link' \in [Conns -> Link]
             /\ \A d \in Conns : d # c => link'[d] = link[d]
             /\ link'[c].up = "open" /\ link'[c].down = "backlog" /\ link'[c].lost = FALSE
             /\ link'[c].stream = <<>> /\ link[c].stream = <<>>
      BY <1>3, DialUpdates
    <2>2. UNCHANGED <<todo, delivered, fault>>
      BY <1>3 DEF Dial, receiver
    <2>. QED
      BY <2>1, <2>2 DEF Still, Dead
  <1>4. ASSUME NEW c \in Conns, Accept(c) PROVE Still
    <2>1. /\ link' \in [Conns -> Link]
          /\ \A d \in Conns :
                /\ link'[d].up = link[d].up /\ link'[d].lost = link[d].lost
                /\ link'[d].stream = link[d].stream
                /\ d # c => link'[d].down = link[d].down
          /\ link'[c].down = "open"
      BY <1>4, AcceptUpdates
    <2>2. UNCHANGED <<todo, delivered, fault>>
      BY <1>4 DEF Accept, sender
    <2>. QED
      BY <2>1, <2>2 DEF Still, Dead
  <1>5. ASSUME \E t \in Threads : Quietly(t) PROVE Still
    BY <1>1, <1>5, QuietSteps
  <1>6. CASE ReloadTLSConfig \/ CloseSender
    BY <1>1, <1>6, QuietSteps
  <1>7. CASE Stop \/ UNCHANGED vars
    BY <1>2, <1>7 DEF Stop, vars, sender, receiver
  <1>8. ASSUME NEW c \in Conns, HandshakeDone(c) PROVE Still
    BY <1>2, <1>8 DEF HandshakeDone, sender
  <1>9. CASE AcceptEnds \/ (Register /\ ~TooLate) \/ CloseReceiver \/ CloseReturns
    BY <1>2, <1>9 DEF AcceptEnds, Register, CloseReceiver, CloseReturns, sender
  <1>. QED
    BY <1>3, <1>4, <1>5, <1>6, <1>7, <1>8, <1>9

\* Downstream ends a connection: a fault, unless a handler comes to the end of a
\* stream that upstream has closed.
EndsAt(c) == ReadEnds(c) /\ ~stop /\ ~Readable(c) /\ (link[c].up = "closed" \/ Dead(c))

LEMMA HangUpSteps ==
    ASSUME TypeOK, AcceptInv,
           \/ Reject \/ (Register /\ TooLate) \/ CloseSockets
           \/ \E c \in Conns : HandshakeFails(c) \/ Refuse(c) \/ ReadEnds(c)
    PROVE  /\ UNCHANGED <<todo, delivered>> /\ (fault => fault')
           /\ \/ fault' /\ \E C : link' = HangUp(C)
              \/ \E c \in Conns : EndsAt(c) /\ link' = HangUp({c}) /\ UNCHANGED fault
  <1>1. CASE Reject
    <2>1. UNCHANGED <<todo, delivered>> /\ fault' /\ link' = HangUp({accepted})
      BY <1>1 DEF Reject, sender
    <2>. QED
      BY <2>1
  <1>2. CASE Register /\ TooLate
    <2>1. UNCHANGED <<todo, delivered>> /\ fault' /\ link' = HangUp({accepted})
      BY <1>2 DEF Register, TooLate, AcceptInv, sender
    <2>. QED
      BY <2>1
  <1>3. CASE CloseSockets
    <2>1. UNCHANGED <<todo, delivered>> /\ fault'
            /\ link' = HangUp(snapshot \cup {c \in Conns : link[c].down = "backlog"})
      BY <1>3 DEF CloseSockets, AcceptInv, sender
    <2>. QED
      BY <2>1
  <1>4. ASSUME NEW c \in Conns, HandshakeFails(c) \/ Refuse(c) \/ ReadEnds(c)
        PROVE  /\ UNCHANGED <<todo, delivered>> /\ (fault => fault')
               /\ \/ fault' /\ \E C : link' = HangUp(C)
                  \/ \E d \in Conns : EndsAt(d) /\ link' = HangUp({d}) /\ UNCHANGED fault
    <2>1. link' = HangUp({c}) /\ UNCHANGED <<todo, delivered>>
      BY <1>4 DEF HandshakeFails, Refuse, ReadEnds, Leave, sender
    <2>2. CASE fault'
      <3>1. \E C : link' = HangUp(C)
        BY <2>1
      <3>. QED
        BY <2>1, <2>2, <3>1
    <2>3. CASE ~fault'
      <3>1. ReadEnds(c)
        BY <1>4, <2>3 DEF HandshakeFails, Refuse
      <3>2. UNCHANGED fault /\ ~stop
        BY <2>3, <3>1 DEF ReadEnds, AcceptInv
      <3>3. EndsAt(c)
        BY <3>1, <3>2 DEF ReadEnds, EndsAt
      <3>4. fault => fault'
        BY <3>2
      <3>5. \E d \in Conns : EndsAt(d) /\ link' = HangUp({d}) /\ UNCHANGED fault
        BY <2>1, <3>2, <3>3
      <3>. QED
        BY <2>1, <3>4, <3>5
    <2>. QED
      BY <2>2, <2>3
  <1>. QED
    BY <1>1, <1>2, <1>3, <1>4

\* The pieces of a stream that is added to, read from, or cut.
LEMMA Pieces ==
    ASSUME NEW s \in Seq(Piece)
    PROVE  /\ Len(s) \in Nat /\ DOMAIN s = 1 .. Len(s)
           /\ \A p \in Piece :
                /\ Len(Append(s, p)) = Len(s) + 1 /\ DOMAIN Append(s, p) = 1 .. Len(s) + 1
                /\ \A i \in 1 .. Len(s) : Append(s, p)[i] = s[i]
                /\ Append(s, p)[Len(s) + 1] = p
           /\ s # <<>> =>
                /\ Len(s) >= 1 /\ Head(s) = s[1]
                /\ Len(Tail(s)) = Len(s) - 1 /\ DOMAIN Tail(s) = 1 .. Len(s) - 1
                /\ \A i \in 1 .. Len(s) - 1 : Tail(s)[i] = s[i + 1]
           /\ \A n \in 0 .. Len(s) :
                /\ Len(SubSeq(s, 1, n)) = n /\ DOMAIN SubSeq(s, 1, n) = 1 .. n
                /\ \A i \in 1 .. n : SubSeq(s, 1, n)[i] = s[i]
  <1>1. Len(s) \in Nat /\ DOMAIN s = 1 .. Len(s)
    BY LenProperties
  <1>2. ASSUME NEW p \in Piece
        PROVE  /\ Len(Append(s, p)) = Len(s) + 1 /\ DOMAIN Append(s, p) = 1 .. Len(s) + 1
               /\ \A i \in 1 .. Len(s) : Append(s, p)[i] = s[i]
               /\ Append(s, p)[Len(s) + 1] = p
    BY <1>1, AppendProperties, LenProperties
  <1>3. ASSUME s # <<>>
        PROVE  /\ Len(s) >= 1 /\ Head(s) = s[1]
               /\ Len(Tail(s)) = Len(s) - 1 /\ DOMAIN Tail(s) = 1 .. Len(s) - 1
               /\ \A i \in 1 .. Len(s) - 1 : Tail(s)[i] = s[i + 1]
    <2>1. Len(s) # 0
      BY <1>3, EmptySeq
    <2>2. /\ Tail(s) \in Seq(Piece) /\ Len(Tail(s)) = Len(s) - 1 /\ Head(s) = s[1]
          /\ \A i \in 1 .. Len(Tail(s)) : Tail(s)[i] = s[i + 1]
      BY <1>3, HeadTailProperties
    <2>. QED
      BY <1>1, <2>1, <2>2, LenProperties
  <1>4. ASSUME NEW n \in 0 .. Len(s)
        PROVE  /\ Len(SubSeq(s, 1, n)) = n /\ DOMAIN SubSeq(s, 1, n) = 1 .. n
               /\ \A i \in 1 .. n : SubSeq(s, 1, n)[i] = s[i]
    BY <1>1, SubSeqProperties
  <1>. QED
    BY <1>1, <1>2, <1>3, <1>4

\* Downstream ends connections.
Ends ==
    /\ UNCHANGED <<todo, delivered>> /\ (fault => fault')
    /\ \/ fault' /\ \E C : link' = HangUp(C)
       \/ \E c \in Conns : EndsAt(c) /\ link' = HangUp({c}) /\ UNCHANGED fault

LEMMA StepCases ==
    ASSUME TypeOK, CallInv, AcceptInv, [Next]_vars
    PROVE  \/ Still \/ Ends
           \/ \E t \in Threads : Write(t) \/ WriteFails(t)
           \/ \E c \in Conns : ReadMessage(c) \/ Break(c)
  <1>1. ASSUME NEW t \in Threads, Sending(t) PROVE Still \/ Write(t) \/ WriteFails(t)
    BY <1>1, StillSteps DEF Sending, Quietly
  <1>2. CASE Accepting
    BY <1>2, StillSteps, HangUpSteps DEF Accepting, Ends
  <1>3. CASE Closing
    BY <1>3, StillSteps, HangUpSteps DEF Closing, Ends
  <1>4. ASSUME NEW c \in Conns, Handling(c) PROVE Still \/ Ends \/ ReadMessage(c)
    BY <1>4, StillSteps, HangUpSteps DEF Handling, Ends
  <1>5. CASE ReloadTLSConfig \/ CloseSender \/ Stop \/ UNCHANGED vars
    BY <1>5, StillSteps
  <1>. QED
    BY <1>1, <1>2, <1>3, <1>4, <1>5 DEF Next, Done

\* A write, whole or not, and what it finds.
LEMMA WriteCases ==
    ASSUME TypeOK, CallInv, StreamInv, NEW t \in Threads, Write(t) \/ WriteFails(t)
    PROVE  LET c == call[t].conn IN
             /\ c \in Conns /\ todo[t] # <<>> /\ UNCHANGED <<delivered, fault>>
             /\ \/ Write(t) /\ UNCHANGED link /\ fault
                \/ Write(t) /\ Put(t, c, TRUE)
                     /\ \A i \in DOMAIN link[c].stream : link[c].stream[i].whole
                \/ WriteFails(t) /\ UNCHANGED <<link, todo>>
                \/ WriteFails(t) /\ Put(t, c, FALSE) /\ UNCHANGED todo /\ link[c].up = "closed"
                     /\ \A i \in DOMAIN link[c].stream : link[c].stream[i].whole
  <1> DEFINE c == call[t].conn
  <1>1. c \in Conns /\ todo[t] # <<>> /\ UNCHANGED <<delivered, fault>>
    BY DEF Write, WriteFails, At, CallInv, receiver
  <1>2. link[c].stream \in Seq(Piece)
    BY <1>1 DEF TypeOK, Link
  <1>3. CASE Write(t)
    <2>1. link[c].up = "open"
      BY <1>3 DEF Write
    <2>2. CASE Dead(c)
      <3>1. fault
        BY <1>1, <2>1, <2>2 DEF StreamInv
      <3>. QED
        BY <1>1, <1>3, <2>2, <3>1 DEF Write
    <2>3. CASE ~Dead(c)
      <3>1. \A i \in DOMAIN link[c].stream : link[c].stream[i].whole
        BY <1>1, <2>1 DEF StreamInv
      <3>. QED
        BY <1>1, <1>3, <2>3, <3>1 DEF Write
    <2>. QED
      BY <2>2, <2>3
  <1>4. CASE WriteFails(t)
    <2>1. UNCHANGED todo
      BY <1>4 DEF WriteFails, Resend
    <2>2. CASE UNCHANGED link
      BY <1>1, <1>4, <2>1, <2>2
    <2>3. CASE MayTear(c) /\ Put(t, c, FALSE)
      <3>1. link[c].up = "closed"
        BY <1>4, <2>3 DEF WriteFails, MayTear
      <3>2. DOMAIN link[c].stream = 1 .. Len(link[c].stream)
        BY <1>2, LenProperties
      <3>. QED
        BY <1>1, <1>4, <2>1, <2>3, <3>1, <3>2 DEF MayTear
    <2>. QED
      BY <1>4, <2>2, <2>3 DEF WriteFails
  <1>. QED
    BY <1>3, <1>4

LEMMA StreamNext ==
    ASSUME TypeOK, CallInv, AcceptInv, StreamInv, [Next]_vars
    PROVE  StreamInv'
  <1> DEFINE Torn(c) == \A i \in DOMAIN link[c].stream :
                ~link[c].stream[i].whole => i = Len(link[c].stream) /\ link[c].up = "closed"
             First(c) == ~fault /\ Dead(c) => link[c].up = "closed"
  <1>0. \A c \in Conns : link[c].stream \in Seq(Piece) /\ link[c].up \in {"open", "closed"}
    BY DEF TypeOK, Link
  <1>1. \A c \in Conns : Torn(c) /\ First(c)
    BY DEF StreamInv
  <1>2. SUFFICES ASSUME NEW d \in Conns PROVE Torn(d)' /\ First(d)'
    BY <1>2 DEF StreamInv
  <1>3. CASE Still
    <2>1. CASE link[d].stream = <<>>
      <3>1. link'[d].stream = <<>> /\ DOMAIN <<>> = {}
        BY <1>3, <2>1 DEF Still
      <3>. QED
        BY <1>1, <1>3, <3>1 DEF Still
    <2>2. CASE link[d].stream # <<>>
      BY <1>1, <1>3, <2>2 DEF Still
    <2>. QED
      BY <2>1, <2>2
  <1>4. CASE Ends
    <2>1. CASE fault' /\ \E C : link' = HangUp(C)
      <3>1. PICK C : link' = HangUp(C)
        BY <2>1
      <3>2. /\ link'[d].up = link[d].up
            /\ d \notin C => link'[d] = link[d]
            /\ d \in C => link'[d].stream = <<>>
        BY <3>1, HangUpUpdates
      <3>3. DOMAIN <<>> = {}
        OBVIOUS
      <3>4. Torn(d)'
        BY <1>1, <3>2, <3>3
      <3>. QED
        BY <2>1, <3>4
    <2>2. ASSUME NEW c \in Conns, EndsAt(c), link' = HangUp({c}), UNCHANGED fault
          PROVE  Torn(d)' /\ First(d)'
      <3>1. /\ link'[d].up = link[d].up
            /\ d # c => link'[d] = link[d]
            /\ d = c => link'[d].stream = <<>>
        BY <2>2 DEF HangUp, Unused
      <3>2. DOMAIN <<>> = {}
        OBVIOUS
      <3>3. Torn(d)'
        BY <1>1, <3>1, <3>2
      <3>4. First(d)'
        BY <1>1, <2>2, <3>1 DEF EndsAt, Dead
      <3>. QED
        BY <3>3, <3>4
    <2>. QED
      BY <1>4, <2>1, <2>2 DEF Ends
  <1>5. ASSUME NEW t \in Threads, Write(t) \/ WriteFails(t) PROVE Torn(d)' /\ First(d)'
    <2> DEFINE c == call[t].conn
    <2>1. CASE UNCHANGED <<link, fault>>
      BY <1>1, <2>1 DEF Dead
    <2>2. ASSUME NEW w \in BOOLEAN, Put(t, c, w), UNCHANGED fault, c \in Conns, todo[t] # <<>>,
                 ~w => link[c].up = "closed",
                 \A i \in DOMAIN link[c].stream : link[c].stream[i].whole
          PROVE  Torn(d)' /\ First(d)'
      <3> DEFINE p == [frame |-> Head(todo[t]), whole |-> w]
                 s == link[c].stream
      <3>1. /\ d # c => link'[d] = link[d]
            /\ link'[c].up = link[c].up /\ link'[c].down = link[c].down
            /\ link'[c].lost = link[c].lost
            /\ link'[c].stream = Append(s, p)
            /\ s \in Seq(Piece) /\ Head(todo[t]) \in Frames
        BY <2>2, PutUpdates
      <3>2. p \in Piece /\ p.whole = w
        BY <3>1 DEF Piece
      <3> HIDE DEF p
      <3>3. /\ Len(s) \in Nat /\ DOMAIN s = 1 .. Len(s)
            /\ Len(Append(s, p)) = Len(s) + 1 /\ DOMAIN Append(s, p) = 1 .. Len(s) + 1
            /\ \A i \in 1 .. Len(s) : Append(s, p)[i] = s[i]
            /\ Append(s, p)[Len(s) + 1] = p
        BY <3>1, <3>2, Pieces
      <3>4. CASE d # c
        BY <1>1, <2>2, <3>1, <3>4 DEF Dead
      <3>5. CASE d = c
        <4>1. First(d)'
          BY <1>1, <2>2, <3>1, <3>5 DEF Dead
        <4>2. ASSUME NEW i \in 1 .. Len(s) + 1, ~Append(s, p)[i].whole
              PROVE  i = Len(s) + 1 /\ link'[c].up = "closed"
          <5>1. i \notin 1 .. Len(s)
            BY <2>2, <3>3, <4>2
          <5>2. i = Len(s) + 1
            <6> DEFINE k == Len(s)
            <6>1. k \in Nat /\ i \in 1 .. k + 1 /\ i \notin 1 .. k
              BY <3>3, <5>1
            <6> HIDE DEF k
            <6>2. i = k + 1
              BY <6>1
            <6>. QED
              BY <6>2 DEF k
          <5>3. Append(s, p)[i] = p
            BY <3>3, <5>2
          <5>4. ~w
            BY <3>2, <4>2, <5>3
          <5>. QED
            BY <2>2, <3>1, <5>2, <5>4
        <4>3. Torn(d)'
          BY <3>1, <3>3, <3>5, <4>2
        <4>. QED
          BY <4>1, <4>3
      <3>. QED
        BY <3>4, <3>5
    <2>. QED
      BY <1>5, <2>1, <2>2, WriteCases
  <1>6. ASSUME NEW c \in Conns, ReadMessage(c) PROVE Torn(d)' /\ First(d)'
    <2> DEFINE s == link[c].stream
    <2>1. /\ d # c => link'[d] = link[d]
          /\ link'[c].up = link[c].up /\ link'[c].down = link[c].down
          /\ link'[c].lost = link[c].lost
          /\ link'[c].stream = Tail(s) /\ s \in Seq(Piece) /\ s # <<>>
      BY <1>6, ReadUpdates
    <2>2. UNCHANGED fault
      BY <1>6 DEF ReadMessage
    <2>3. /\ Len(s) \in Nat /\ DOMAIN s = 1 .. Len(s)
          /\ Len(Tail(s)) = Len(s) - 1 /\ DOMAIN Tail(s) = 1 .. Len(s) - 1
          /\ \A i \in 1 .. Len(s) - 1 : Tail(s)[i] = s[i + 1]
      BY <2>1, Pieces
    <2>4. CASE d # c
      BY <1>1, <2>1, <2>2, <2>4 DEF Dead
    <2>5. CASE d = c
      <3>1. First(d)'
        BY <1>1, <2>1, <2>2, <2>5 DEF Dead
      <3>2. ASSUME NEW i \in 1 .. Len(s) - 1, ~Tail(s)[i].whole
            PROVE  i = Len(s) - 1 /\ link[c].up = "closed"
        <4>1. i + 1 \in DOMAIN s /\ ~s[i + 1].whole
          BY <2>3, <3>2
        <4>2. i + 1 = Len(s) /\ link[c].up = "closed"
          BY <1>1, <4>1
        <4>. QED
          BY <2>3, <4>2
      <3>3. Torn(d)'
        BY <2>1, <2>3, <2>5, <3>2
      <3>. QED
        BY <3>1, <3>3
    <2>. QED
      BY <2>4, <2>5
  <1>7. ASSUME NEW c \in Conns, Break(c) PROVE Torn(d)' /\ First(d)'
    <2> DEFINE s == link[c].stream
    <2>1. /\ d # c => link'[d] = link[d]
          /\ link'[c].up = link[c].up /\ fault'
      BY <1>7, BreakUpdates DEF Break
    <2>2. PICK n \in 0 .. Len(s) : link'[c].stream = SubSeq(s, 1, n)
      BY <1>7, BreakUpdates
    <2>3. /\ Len(s) \in Nat /\ DOMAIN s = 1 .. Len(s)
          /\ Len(SubSeq(s, 1, n)) = n /\ DOMAIN SubSeq(s, 1, n) = 1 .. n
          /\ \A i \in 1 .. n : SubSeq(s, 1, n)[i] = s[i]
      BY <1>0, <2>2, Pieces
    <2>4. Torn(d)'
      <3>1. CASE d # c
        BY <1>1, <2>1, <3>1
      <3>2. CASE d = c
        <4>1. ASSUME NEW i \in 1 .. n, ~SubSeq(s, 1, n)[i].whole
              PROVE  i = n /\ link[c].up = "closed"
          <5>1. i \in DOMAIN s /\ ~s[i].whole
            BY <2>2, <2>3, <4>1
          <5>2. i = Len(s) /\ link[c].up = "closed"
            BY <1>1, <5>1
          <5>. QED
            BY <2>2, <2>3, <5>2
        <4>. QED
          BY <2>1, <2>2, <2>3, <3>2, <4>1
      <3>. QED
        BY <3>1, <3>2
    <2>. QED
      BY <2>1, <2>4
  <1>. QED
    BY <1>3, <1>4, <1>5, <1>6, <1>7, StepCases

-----------------------------------------------------------------------------
(* The frames.                                                             *)

\* A sequence without its head, as a set.
LEMMA SetOfTail ==
    ASSUME NEW S, NEW s \in Seq(S), s # <<>>
    PROVE  /\ Head(s) \in S
           /\ ToSet(s) = {Head(s)} \cup ToSet(Tail(s))
           /\ IsInjective(s) => Head(s) \notin ToSet(Tail(s)) /\ IsInjective(Tail(s))
  <1> DEFINE t == Tail(s)
  <1>1. /\ Len(s) \in Nat \ {0} /\ DOMAIN s = 1 .. Len(s)
        /\ t \in Seq(S) /\ Len(t) = Len(s) - 1
        /\ \A i \in 1 .. Len(t) : t[i] = s[i + 1]
        /\ Head(s) = s[1] /\ Head(s) \in S
    BY HeadTailProperties, LenProperties, EmptySeq
  <1>2. DOMAIN t = 1 .. Len(s) - 1
    BY <1>1, LenProperties
  <1> HIDE DEF t
  <1>3. \A j \in DOMAIN s : j = 1 \/ (j - 1 \in DOMAIN t /\ s[j] = t[j - 1])
    BY <1>1, <1>2
  <1>4. \A i \in DOMAIN t : i + 1 \in DOMAIN s /\ i + 1 # 1 /\ t[i] = s[i + 1]
    BY <1>1, <1>2
  <1>5. 1 \in DOMAIN s
    BY <1>1
  <1>6. ToSet(s) \subseteq {Head(s)} \cup ToSet(t)
    BY <1>1, <1>3 DEF ToSet
  <1>7. {Head(s)} \cup ToSet(t) \subseteq ToSet(s)
    BY <1>1, <1>4, <1>5 DEF ToSet
  <1>8. ASSUME IsInjective(s) PROVE Head(s) \notin ToSet(t) /\ IsInjective(t)
    <2>1. Head(s) \notin ToSet(t)
      BY <1>1, <1>4, <1>5, <1>8 DEF ToSet, IsInjective
    <2>2. ASSUME NEW a \in DOMAIN t, NEW b \in DOMAIN t, t[a] = t[b] PROVE a = b
      <3>1. a + 1 = b + 1
        BY <1>4, <1>8, <2>2 DEF IsInjective
      <3>2. a \in Nat /\ b \in Nat
        BY <1>1, <1>2
      <3>. QED
        BY <3>1, <3>2
    <2>. QED
      BY <2>1, <2>2 DEF IsInjective
  <1>. QED
    BY <1>1, <1>6, <1>7, <1>8 DEF t

\* A frame on its way is somewhere in a stream.
Way(f) == \E c \in Conns, i \in Nat : Whole(c, i, f)

WayIsWhole == \A f \in Frames : OnItsWay(f) <=> Way(f)

LEMMA OnItsWayWhole == TypeOK => WayIsWhole
  <1> SUFFICES ASSUME TypeOK, NEW f \in Frames PROVE OnItsWay(f) <=> Way(f)
    BY DEF WayIsWhole
  <1>1. \A c \in Conns : DOMAIN link[c].stream \subseteq Nat
    <2>1. ASSUME NEW c \in Conns PROVE DOMAIN link[c].stream \subseteq Nat
      <3>1. link[c].stream \in Seq(Piece)
        BY DEF TypeOK, Link
      <3>. QED
        BY <3>1, LenProperties
    <2>. QED
      BY <2>1
  <1>. QED
    BY <1>1 DEF OnItsWay, Way, Whole, ToSet

LEMMA OnItsWayWholeNext == TypeOK' => WayIsWhole'
  BY OnItsWayWhole, PTL

\* Where a frame may go in a step, if none is to be lost.
LEMMA NoneLostKept ==
    ASSUME TypeOK, TypeOK', NoneLostByUpstream, fault => fault',
           \A f \in Frames : ~fault' =>
             /\ Waiting(f) => Waiting(f)' \/ Way(f)'
             /\ Way(f) => Way(f)' \/ delivered'[f] = 1
             /\ delivered[f] = 1 => delivered'[f] = 1
    PROVE  NoneLostByUpstream'
  <1>1. \A f \in Frames : OnItsWay(f)' <=> Way(f)'
    BY OnItsWayWholeNext DEF WayIsWhole
  <1>2. \A f \in Frames : OnItsWay(f) <=> Way(f)
    BY OnItsWayWhole DEF WayIsWhole
  <1>. QED
    BY <1>1, <1>2 DEF NoneLostByUpstream

\* Nothing is added to a stream, and no frame is sent or delivered.
LEMMA FrameKept ==
    ASSUME FrameInv, DeliveredOnce, UNCHANGED <<todo, delivered>>,
           \A c \in Conns, i \in Nat, f \in Frames : Whole(c, i, f)' => Whole(c, i, f),
           \A t \in Threads : todo[t] \in Seq(Frames)
    PROVE  FrameInv' /\ DeliveredOnce'
  <1>1. \A t \in Threads : ToSet(todo[t]) \subseteq Frames
    BY LenProperties DEF ToSet
  <1>2. /\ \A t \in Threads : \A f \in ToSet(todo[t]) : \A c \in Conns : \A i \in Nat : ~Whole(c, i, f)'
    BY <1>1 DEF FrameInv
  <1>3. \A f \in Frames, c, d \in Conns, i, j \in Nat :
          Whole(c, i, f)' /\ Whole(d, j, f)' => c = d /\ i = j
    BY DEF FrameInv
  <1>4. \A f \in Frames, c \in Conns, i \in Nat : Whole(c, i, f)' => delivered[f] = 0
    BY DEF FrameInv
  <1>5. FrameInv'
    BY <1>2, <1>3, <1>4 DEF FrameInv
  <1>. QED
    BY <1>5 DEF DeliveredOnce

LEMMA FrameStill ==
    ASSUME TypeOK, TypeOK', FrameInv, DeliveredOnce, NoneLostByUpstream, Still
    PROVE  FrameInv' /\ DeliveredOnce' /\ NoneLostByUpstream'
  <1>1. \A c \in Conns, i \in Nat, f \in Frames : Whole(c, i, f)' <=> Whole(c, i, f)
    BY DEF Still, Whole
  <1>2. UNCHANGED <<todo, delivered>> /\ (fault => fault')
    BY DEF Still
  <1>3. \A t \in Threads : todo[t] \in Seq(Frames)
    BY DEF TypeOK
  <1>4. FrameInv' /\ DeliveredOnce'
    BY <1>1, <1>2, <1>3, FrameKept
  <1>5. \A f \in Frames : (Waiting(f) => Waiting(f)') /\ (Way(f) => Way(f)')
    BY <1>1, <1>2 DEF Waiting, Way
  <1>6. NoneLostByUpstream'
    BY <1>2, <1>5, NoneLostKept
  <1>. QED
    BY <1>4, <1>6

\* A handler that comes to the end of a stream leaves no whole frame in it.
LEMMA NothingLeft ==
    ASSUME TypeOK, StreamInv, NEW c \in Conns, EndsAt(c)
    PROVE  \A i \in Nat, f \in Frames : ~Whole(c, i, f)
  <1> SUFFICES ASSUME NEW i \in Nat, NEW f \in Frames, Whole(c, i, f) PROVE FALSE
    OBVIOUS
  <1> DEFINE s == link[c].stream
  <1>1. s \in Seq(Piece)
    BY DEF TypeOK, Link
  <1>2. i \in DOMAIN s /\ s[i].whole
    BY DEF Whole
  <1>3. Len(s) \in Nat /\ DOMAIN s = 1 .. Len(s) /\ (s # <<>> => Head(s) = s[1])
    BY <1>1, Pieces
  <1>4. s # <<>> /\ 1 \in DOMAIN s
    BY <1>2, <1>3, EmptySeq
  <1>5. ~s[1].whole
    BY <1>3, <1>4 DEF EndsAt, Readable
  <1>6. 1 = Len(s)
    BY <1>4, <1>5 DEF StreamInv
  <1>7. i = 1
    BY <1>2, <1>3, <1>6
  <1>. QED
    BY <1>2, <1>5, <1>7

LEMMA FrameEnds ==
    ASSUME TypeOK, TypeOK', StreamInv, FrameInv, DeliveredOnce, NoneLostByUpstream, Ends
    PROVE  FrameInv' /\ DeliveredOnce' /\ NoneLostByUpstream'
  <1>1. UNCHANGED <<todo, delivered>> /\ (fault => fault')
    BY DEF Ends
  <1>2. \A t \in Threads : todo[t] \in Seq(Frames)
    BY DEF TypeOK
  <1>3. CASE fault' /\ \E C : link' = HangUp(C)
    <2>1. PICK C : link' = HangUp(C)
      BY <1>3
    <2>2. \A d \in Conns : link'[d] = link[d] \/ link'[d].stream = <<>>
      BY <2>1, HangUpUpdates
    <2>3. \A c \in Conns, i \in Nat, f \in Frames : Whole(c, i, f)' => Whole(c, i, f)
      <3>1. DOMAIN <<>> = {}
        OBVIOUS
      <3>. QED
        BY <2>2, <3>1 DEF Whole
    <2>4. FrameInv' /\ DeliveredOnce'
      BY <1>1, <1>2, <2>3, FrameKept
    <2>. QED
      BY <1>3, <2>4 DEF NoneLostByUpstream
  <1>4. ASSUME NEW c \in Conns, EndsAt(c), link' = HangUp({c})
        PROVE  FrameInv' /\ DeliveredOnce' /\ NoneLostByUpstream'
    <2>1. \A d \in Conns : /\ d # c => link'[d] = link[d]
                           /\ d = c => link'[d].stream = <<>>
      BY <1>4 DEF HangUp, Unused
    <2>2. \A i \in Nat, f \in Frames : ~Whole(c, i, f)
      BY <1>4, NothingLeft
    <2>3. \A d \in Conns, i \in Nat, f \in Frames : Whole(d, i, f)' <=> Whole(d, i, f)
      <3>1. DOMAIN <<>> = {}
        OBVIOUS
      <3>. QED
        BY <2>1, <2>2, <3>1 DEF Whole
    <2>4. FrameInv' /\ DeliveredOnce'
      BY <1>1, <1>2, <2>3, FrameKept
    <2>5. \A f \in Frames : (Waiting(f) => Waiting(f)') /\ (Way(f) => Way(f)')
      BY <1>1, <2>3 DEF Waiting, Way
    <2>6. NoneLostByUpstream'
      BY <1>1, <2>5, NoneLostKept
    <2>. QED
      BY <2>4, <2>6
  <1>. QED
    BY <1>3, <1>4 DEF Ends

LEMMA FrameBreak ==
    ASSUME TypeOK, FrameInv, DeliveredOnce, NEW c \in Conns, Break(c)
    PROVE  FrameInv' /\ DeliveredOnce' /\ NoneLostByUpstream'
  <1> DEFINE s == link[c].stream
  <1>1. UNCHANGED <<todo, delivered>> /\ fault'
    BY DEF Break, sender, receiver
  <1>2. \A t \in Threads : todo[t] \in Seq(Frames)
    BY DEF TypeOK
  <1>3. \A d \in Conns : d # c => link'[d] = link[d]
    BY BreakUpdates
  <1>4. PICK n \in 0 .. Len(s) : link'[c].stream = SubSeq(s, 1, n)
    BY BreakUpdates
  <1>5. s \in Seq(Piece)
    BY DEF TypeOK, Link
  <1>6. /\ Len(s) \in Nat /\ DOMAIN s = 1 .. Len(s) /\ DOMAIN SubSeq(s, 1, n) = 1 .. n
        /\ \A i \in 1 .. n : SubSeq(s, 1, n)[i] = s[i]
    BY <1>4, <1>5, Pieces
  <1>7. \A i \in 1 .. n : i \in DOMAIN s
    BY <1>4, <1>6
  <1>8. \A d \in Conns, i \in Nat, f \in Frames : Whole(d, i, f)' => Whole(d, i, f)
    BY <1>3, <1>4, <1>6, <1>7 DEF Whole
  <1>9. FrameInv' /\ DeliveredOnce'
    BY <1>1, <1>2, <1>8, FrameKept
  <1>. QED
    BY <1>1, <1>9 DEF NoneLostByUpstream

\* A write that returns no error takes its frame from those that wait.
LEMMA FrameSent ==
    ASSUME TypeOK, CallInv, FrameInv, NEW t \in Threads, Write(t)
    PROVE  /\ Head(todo[t]) \in Frames /\ Head(todo[t]) \in ToSet(todo[t])
           /\ \A u \in Threads : /\ ToSet(todo'[u]) = ToSet(todo[u]) \ {Head(todo[t])}
                                 /\ IsInjective(todo'[u])
  <1>1. todo[t] # <<>> /\ todo' = [todo EXCEPT ![t] = Tail(todo[t])]
    BY SendingTodo DEF Sending, Write, At, CallInv, NextFrame
  <1>2. todo \in [Threads -> Seq(Frames)] /\ todo[t] \in Seq(Frames)
    BY DEF TypeOK
  <1>3. todo'[t] = Tail(todo[t]) /\ \A u \in Threads : u # t => todo'[u] = todo[u]
    BY <1>1, <1>2
  <1>4. IsInjective(todo[t])
    BY DEF FrameInv
  <1>5. /\ Head(todo[t]) \in Frames
        /\ ToSet(todo[t]) = {Head(todo[t])} \cup ToSet(Tail(todo[t]))
        /\ Head(todo[t]) \notin ToSet(Tail(todo[t])) /\ IsInjective(Tail(todo[t]))
    BY <1>1, <1>2, <1>4, SetOfTail
  <1>6. ASSUME NEW u \in Threads, u # t
        PROVE  ToSet(todo'[u]) = ToSet(todo[u]) \ {Head(todo[t])} /\ IsInjective(todo'[u])
    <2>1. Head(todo[t]) \notin ToSet(todo[u])
      BY <1>5, <1>6 DEF FrameInv
    <2>2. todo'[u] = todo[u] /\ IsInjective(todo[u])
      BY <1>3, <1>6 DEF FrameInv
    <2>. QED
      BY <2>1, <2>2
  <1>7. ToSet(todo'[t]) = ToSet(todo[t]) \ {Head(todo[t])} /\ IsInjective(todo'[t])
    BY <1>3, <1>5
  <1>. QED
    BY <1>5, <1>6, <1>7

LEMMA FrameWrite ==
    ASSUME TypeOK, TypeOK', CallInv, StreamInv, FrameInv, DeliveredOnce, NoneLostByUpstream,
           NEW t \in Threads, Write(t) \/ WriteFails(t)
    PROVE  FrameInv' /\ DeliveredOnce' /\ NoneLostByUpstream'
  <1> DEFINE c == call[t].conn
             g == Head(todo[t])
             s == link[c].stream
  <1>0. c \in Conns /\ todo[t] # <<>> /\ UNCHANGED <<delivered, fault>>
    BY WriteCases
  <1>1. \A u \in Threads : todo[u] \in Seq(Frames)
    BY DEF TypeOK
  <1>2. DeliveredOnce'
    BY <1>0 DEF DeliveredOnce
  <1>3. ASSUME UNCHANGED todo,
               \A d \in Conns, i \in Nat, f \in Frames : Whole(d, i, f)' <=> Whole(d, i, f)
        PROVE  FrameInv' /\ NoneLostByUpstream'
    <2>1. FrameInv'
      BY <1>0, <1>1, <1>3, FrameKept
    <2>2. \A f \in Frames : (Waiting(f) => Waiting(f)') /\ (Way(f) => Way(f)')
      BY <1>3 DEF Waiting, Way
    <2>3. NoneLostByUpstream'
      BY <1>0, <2>2, NoneLostKept
    <2>. QED
      BY <2>1, <2>3
  <1>4. CASE Write(t) /\ UNCHANGED link /\ fault
    <2>1. /\ g \in Frames
          /\ \A u \in Threads : ToSet(todo'[u]) = ToSet(todo[u]) \ {g} /\ IsInjective(todo'[u])
      BY <1>4, FrameSent
    <2>2. \A d \in Conns, i \in Nat : \A f : Whole(d, i, f)' <=> Whole(d, i, f)
      BY <1>4 DEF Whole
    <2> HIDE DEF g
    <2>3. \A u, v \in Threads : u # v => ToSet(todo'[u]) \cap ToSet(todo'[v]) = {}
      BY <2>1 DEF FrameInv
    <2>4. \A u \in Threads : \A f \in ToSet(todo'[u]) : delivered'[f] = 0
      BY <1>0, <2>1 DEF FrameInv
    <2>5. \A u \in Threads : \A f \in ToSet(todo'[u]) : \A d \in Conns : \A i \in Nat : ~Whole(d, i, f)'
      BY <2>1, <2>2 DEF FrameInv
    <2>6. \A f \in Frames, d, e \in Conns, i, j \in Nat :
            Whole(d, i, f)' /\ Whole(e, j, f)' => d = e /\ i = j
      BY <2>2 DEF FrameInv
    <2>7. \A f \in Frames, d \in Conns, i \in Nat : Whole(d, i, f)' => delivered'[f] = 0
      BY <1>0, <2>2 DEF FrameInv
    <2>8. FrameInv'
      BY <2>1, <2>3, <2>4, <2>5, <2>6, <2>7 DEF FrameInv
    <2>. QED
      BY <1>0, <1>2, <1>4, <2>8 DEF NoneLostByUpstream
  <1>5. CASE WriteFails(t) /\ UNCHANGED <<link, todo>>
    <2>1. \A d \in Conns, i \in Nat, f \in Frames : Whole(d, i, f)' <=> Whole(d, i, f)
      BY <1>5 DEF Whole
    <2>. QED
      BY <1>2, <1>3, <1>5, <2>1
  <1>6. ASSUME NEW w \in BOOLEAN, Put(t, c, w)
        PROVE  /\ Len(s) \in Nat
               /\ \A d \in Conns, i \in Nat : \A f :
                 Whole(d, i, f)' <=> \/ Whole(d, i, f)
                                     \/ w /\ d = c /\ i = Len(s) + 1 /\ f = g
    <2> DEFINE p == [frame |-> g, whole |-> w]
    <2>1. /\ \A d \in Conns : d # c => link'[d] = link[d]
          /\ link'[c].stream = Append(s, p)
          /\ s \in Seq(Piece) /\ g \in Frames
      BY <1>0, <1>6, PutUpdates
    <2>2. p \in Piece
      BY <2>1 DEF Piece
    <2>3. \A f : p = [frame |-> f, whole |-> TRUE] <=> w /\ f = g
      OBVIOUS
    <2> HIDE DEF p
    <2>4. /\ Len(s) \in Nat /\ DOMAIN s = 1 .. Len(s)
          /\ DOMAIN Append(s, p) = 1 .. Len(s) + 1
          /\ \A i \in 1 .. Len(s) : Append(s, p)[i] = s[i]
          /\ Append(s, p)[Len(s) + 1] = p
      BY <2>1, <2>2, Pieces
    <2>5. ASSUME NEW d \in Conns, NEW i \in Nat, NEW f
          PROVE  Whole(d, i, f)' <=> \/ Whole(d, i, f)
                                     \/ w /\ d = c /\ i = Len(s) + 1 /\ f = g
      <3>1. CASE d # c
        BY <2>1, <3>1 DEF Whole
      <3>2. CASE d = c
        <4>1. Whole(d, i, f)' <=>
                i \in DOMAIN Append(s, p) /\ Append(s, p)[i] = [frame |-> f, whole |-> TRUE]
          BY <2>1, <3>2 DEF Whole
        <4>2. Whole(d, i, f) <=> i \in DOMAIN s /\ s[i] = [frame |-> f, whole |-> TRUE]
          BY <3>2 DEF Whole
        <4> DEFINE n == Len(s)
        <4>3. /\ n \in Nat /\ DOMAIN s = 1 .. n /\ DOMAIN Append(s, p) = 1 .. n + 1
              /\ \A j \in 1 .. n : Append(s, p)[j] = s[j]
              /\ Append(s, p)[n + 1] = p
          BY <2>4
        <4>4. Whole(d, i, f)' <=> Whole(d, i, f) \/ (w /\ i = n + 1 /\ f = g)
          <5> HIDE DEF n
          <5>1. CASE i = n + 1
            <6>1. i \notin DOMAIN s /\ i \in DOMAIN Append(s, p) /\ Append(s, p)[i] = p
              BY <4>3, <5>1
            <6>. QED
              BY <2>3, <4>1, <4>2, <5>1, <6>1
          <5>2. CASE i # n + 1
            <6>1. /\ i \in DOMAIN Append(s, p) <=> i \in DOMAIN s
                  /\ i \in DOMAIN s => Append(s, p)[i] = s[i]
              BY <4>3, <5>2
            <6>. QED
              BY <4>1, <4>2, <5>2, <6>1
          <5>. QED
            BY <5>1, <5>2
        <4>. QED
          BY <3>2, <4>4
      <3>. QED
        BY <3>1, <3>2
    <2>. QED
      BY <2>4, <2>5
  <1>7. CASE WriteFails(t) /\ Put(t, c, FALSE) /\ UNCHANGED todo
    <2>1. \A d \in Conns, i \in Nat, f \in Frames : Whole(d, i, f)' <=> Whole(d, i, f)
      BY <1>6, <1>7
    <2>. QED
      BY <1>2, <1>3, <1>7, <2>1
  <1>8. CASE Write(t) /\ Put(t, c, TRUE)
    <2> DEFINE n == Len(s) + 1
    <2>1. /\ g \in Frames /\ g \in ToSet(todo[t])
          /\ \A u \in Threads : ToSet(todo'[u]) = ToSet(todo[u]) \ {g} /\ IsInjective(todo'[u])
      BY <1>8, FrameSent
    <2>2. /\ n \in Nat
          /\ \A d \in Conns, i \in Nat : \A f :
               Whole(d, i, f)' <=> Whole(d, i, f) \/ (d = c /\ i = n /\ f = g)
      <3>1. PICK w \in BOOLEAN : w = TRUE
        OBVIOUS
      <3>2. Put(t, c, w)
        BY <1>8, <3>1
      <3>3. /\ Len(s) \in Nat
            /\ \A d \in Conns, i \in Nat : \A f :
                 Whole(d, i, f)' <=> Whole(d, i, f) \/ (w /\ d = c /\ i = Len(s) + 1 /\ f = g)
        BY <1>6, <3>2
      <3>. QED
        BY <3>1, <3>3
    <2>3. delivered[g] = 0 /\ \A d \in Conns : \A i \in Nat : ~Whole(d, i, g)
      BY <2>1 DEF FrameInv
    <2> HIDE DEF g, n, c
    <2>4. \A u, v \in Threads : u # v => ToSet(todo'[u]) \cap ToSet(todo'[v]) = {}
      BY <2>1 DEF FrameInv
    <2>5. \A u \in Threads : \A f \in ToSet(todo'[u]) : delivered'[f] = 0
      BY <1>0, <2>1 DEF FrameInv
    <2>6. \A u \in Threads : \A f \in ToSet(todo'[u]) : \A d \in Conns : \A i \in Nat : ~Whole(d, i, f)'
      BY <2>1, <2>2 DEF FrameInv
    <2>7. \A f \in Frames, d, e \in Conns, i, j \in Nat :
            Whole(d, i, f)' /\ Whole(e, j, f)' => d = e /\ i = j
      BY <2>2, <2>3 DEF FrameInv
    <2>8. \A f \in Frames, d \in Conns, i \in Nat : Whole(d, i, f)' => delivered'[f] = 0
      BY <1>0, <2>2, <2>3 DEF FrameInv
    <2>9. FrameInv'
      BY <2>1, <2>4, <2>5, <2>6, <2>7, <2>8 DEF FrameInv
    <2>10. ASSUME NEW f \in Frames
           PROVE  (Waiting(f) => Waiting(f)' \/ Way(f)') /\ (Way(f) => Way(f)')
      <3>1. CASE f = g
        <4>1. PICK d \in Conns, i \in Nat : d = c /\ i = n
          BY <1>0, <2>2
        <4>2. Whole(d, i, f)'
          BY <2>2, <3>1, <4>1
        <4>3. Way(f)'
          BY <4>2 DEF Way
        <4>. QED
          BY <4>3
      <3>2. CASE f # g
        BY <2>1, <2>2, <3>2 DEF Waiting, Way
      <3>. QED
        BY <3>1, <3>2
    <2>11. NoneLostByUpstream'
      BY <1>0, <2>10, NoneLostKept
    <2>. QED
      BY <1>2, <2>9, <2>11
  <1>. QED
    BY <1>4, <1>5, <1>7, <1>8, WriteCases

LEMMA FrameRead ==
    ASSUME TypeOK, TypeOK', FrameInv, DeliveredOnce, NoneLostByUpstream,
           NEW c \in Conns, ReadMessage(c)
    PROVE  FrameInv' /\ DeliveredOnce' /\ NoneLostByUpstream'
  <1> DEFINE s == link[c].stream
  <1>1. /\ \A d \in Conns : d # c => link'[d] = link[d]
        /\ link'[c].stream = Tail(s)
        /\ s \in Seq(Piece) /\ s # <<>>
        /\ Head(s) \in Piece /\ Head(s).whole /\ Head(s).frame \in Frames
    BY ReadUpdates
  <1>0. PICK g \in Frames : g = Head(s).frame
    BY <1>1
  <1>2. delivered' = [delivered EXCEPT ![g] = @ + 1] /\ UNCHANGED <<todo, fault>>
    BY <1>0 DEF ReadMessage, sender
  <1>3. /\ Len(s) \in Nat /\ Len(s) >= 1 /\ DOMAIN s = 1 .. Len(s) /\ Head(s) = s[1]
        /\ DOMAIN Tail(s) = 1 .. Len(s) - 1
        /\ \A i \in 1 .. Len(s) - 1 : Tail(s)[i] = s[i + 1]
    BY <1>1, Pieces
  <1>4. Head(s) = [frame |-> g, whole |-> TRUE]
    BY <1>0, <1>1 DEF Piece
  <1>5. Whole(c, 1, g)
    BY <1>3, <1>4 DEF Whole
  <1>6. delivered[g] = 0 /\ \A d \in Conns, i \in Nat : Whole(d, i, g) => d = c /\ i = 1
    BY <1>1, <1>5 DEF FrameInv
  <1>7. /\ \A d \in Conns, i \in Nat : \A f : d # c => (Whole(d, i, f)' <=> Whole(d, i, f))
        /\ \A i \in Nat : \A f : Whole(c, i, f)' <=> i # 0 /\ Whole(c, i + 1, f)
        /\ \A f : ~Whole(c, 0, f)
    <2>1. \A d \in Conns, i \in Nat : \A f : d # c => (Whole(d, i, f)' <=> Whole(d, i, f))
      BY <1>1 DEF Whole
    <2>2. ASSUME NEW i \in Nat, NEW f
          PROVE  Whole(c, i, f)' <=> i # 0 /\ Whole(c, i + 1, f)
      <3>1. Whole(c, i, f)' <=> i \in DOMAIN Tail(s) /\ Tail(s)[i] = [frame |-> f, whole |-> TRUE]
        BY <1>1 DEF Whole
      <3>2. Whole(c, i + 1, f) <=> i + 1 \in DOMAIN s /\ s[i + 1] = [frame |-> f, whole |-> TRUE]
        BY DEF Whole
      <3>3. i \in DOMAIN Tail(s) <=> i # 0 /\ i + 1 \in DOMAIN s
        <4> DEFINE n == Len(s)
        <4>1. n \in Nat /\ DOMAIN s = 1 .. n /\ DOMAIN Tail(s) = 1 .. n - 1
          BY <1>3
        <4> HIDE DEF n
        <4>. QED
          BY <4>1
      <3>4. i \in DOMAIN Tail(s) => Tail(s)[i] = s[i + 1]
        BY <1>3
      <3>. QED
        BY <3>1, <3>2, <3>3, <3>4
    <2>3. \A f : ~Whole(c, 0, f)
      BY <1>3 DEF Whole
    <2>. QED
      BY <2>1, <2>2, <2>3
  <1>8. /\ \A f \in Frames : f # g => delivered'[f] = delivered[f]
        /\ delivered'[g] = 1
    <2>1. delivered \in [Frames -> Nat] /\ g \in Frames
      BY <1>1 DEF TypeOK
    <2>. QED
      BY <1>2, <1>6, <2>1
  <1>9. \A d \in Conns, i \in Nat : ~Whole(d, i, g)'
    <2>1. ASSUME NEW d \in Conns, NEW i \in Nat, d # c PROVE ~Whole(d, i, g)
      BY <1>6, <2>1
    <2>2. ASSUME NEW i \in Nat, i # 0 PROVE ~Whole(c, i + 1, g)
      BY <1>6, <2>2
    <2>. QED
      BY <1>7, <2>1, <2>2
  <1>10. \A u \in Threads : ToSet(todo[u]) \subseteq Frames /\ g \notin ToSet(todo[u])
    <2>1. \A u \in Threads : todo[u] \in Seq(Frames)
      BY DEF TypeOK
    <2>2. \A u \in Threads : ToSet(todo[u]) \subseteq Frames
      BY <2>1, LenProperties DEF ToSet
    <2>. QED
      BY <1>5, <2>2 DEF FrameInv
  <1>11. \A u \in Threads : \A f \in ToSet(todo'[u]) : delivered'[f] = 0
    BY <1>2, <1>8, <1>10 DEF FrameInv
  <1>12. \A u \in Threads : \A f \in ToSet(todo'[u]) : \A d \in Conns : \A i \in Nat : ~Whole(d, i, f)'
    <2>1. ASSUME NEW u \in Threads, NEW f \in ToSet(todo[u]), NEW d \in Conns, NEW i \in Nat
          PROVE  ~Whole(d, i, f) /\ ~Whole(d, i + 1, f)
      BY DEF FrameInv
    <2>. QED
      BY <1>2, <1>7, <2>1
  <1>13. \A f \in Frames, d, e \in Conns, i, j \in Nat :
           Whole(d, i, f)' /\ Whole(e, j, f)' => d = e /\ i = j
    <2> SUFFICES ASSUME NEW f \in Frames, NEW d \in Conns, NEW e \in Conns,
                        NEW i \in Nat, NEW j \in Nat, Whole(d, i, f)', Whole(e, j, f)'
                 PROVE  d = e /\ i = j
      OBVIOUS
    <2>1. \E k \in Nat : Whole(d, k, f) /\ (d = c => k = i + 1) /\ (d # c => k = i)
      BY <1>7
    <2>2. \E k \in Nat : Whole(e, k, f) /\ (e = c => k = j + 1) /\ (e # c => k = j)
      BY <1>7
    <2>3. PICK k \in Nat : Whole(d, k, f) /\ (d = c => k = i + 1) /\ (d # c => k = i)
      BY <2>1
    <2>4. PICK l \in Nat : Whole(e, l, f) /\ (e = c => l = j + 1) /\ (e # c => l = j)
      BY <2>2
    <2>5. d = e /\ k = l
      BY <2>3, <2>4 DEF FrameInv
    <2>. QED
      BY <2>3, <2>4, <2>5
  <1>14. \A f \in Frames, d \in Conns, i \in Nat : Whole(d, i, f)' => delivered'[f] = 0
    <2> SUFFICES ASSUME NEW f \in Frames, NEW d \in Conns, NEW i \in Nat, Whole(d, i, f)'
                 PROVE  delivered'[f] = 0
      OBVIOUS
    <2>1. f # g
      BY <1>9
    <2>2. \E k \in Nat : Whole(d, k, f)
      BY <1>7
    <2>. QED
      BY <1>8, <2>1, <2>2 DEF FrameInv
  <1>15. FrameInv'
    BY <1>2, <1>11, <1>12, <1>13, <1>14 DEF FrameInv
  <1>16. DeliveredOnce'
    BY <1>8 DEF DeliveredOnce
  <1>17. ASSUME NEW f \in Frames
         PROVE  /\ Waiting(f) => Waiting(f)'
                /\ Way(f) => Way(f)' \/ delivered'[f] = 1
                /\ delivered[f] = 1 => delivered'[f] = 1
    <2>1. Waiting(f) => Waiting(f)'
      BY <1>2 DEF Waiting
    <2>2. ASSUME Way(f), f # g PROVE Way(f)'
      <3>1. PICK d \in Conns, i \in Nat : Whole(d, i, f)
        BY <2>2 DEF Way
      <3>2. CASE d # c
        <4>1. Whole(d, i, f)'
          BY <1>7, <3>1, <3>2
        <4>. QED
          BY <4>1 DEF Way
      <3>3. CASE d = c
        <4>1. i # 0
          BY <1>7, <3>1, <3>3
        <4>2. i # 1
          <5>1. i = 1 => f = g
            BY <1>3, <1>4, <3>1, <3>3 DEF Whole
          <5>. QED
            BY <2>2, <5>1
        <4>3. PICK k \in Nat : k # 0 /\ i = k + 1
          <5>1. i - 1 \in Nat /\ i - 1 # 0 /\ i = (i - 1) + 1
            BY <4>1, <4>2
          <5>. QED
            BY <5>1
        <4>4. Whole(c, k, f)'
          BY <1>7, <3>1, <3>3, <4>3
        <4>. QED
          BY <4>4 DEF Way
      <3>. QED
        BY <3>2, <3>3
    <2>. QED
      BY <1>8, <2>1, <2>2
  <1>18. NoneLostByUpstream'
    BY <1>2, <1>17, NoneLostKept
  <1>. QED
    BY <1>15, <1>16, <1>18

LEMMA FrameNext ==
    ASSUME TypeOK, CallInv, AcceptInv, StreamInv, FrameInv, DeliveredOnce, NoneLostByUpstream,
           [Next]_vars
    PROVE  FrameInv' /\ DeliveredOnce' /\ NoneLostByUpstream'
  <1>1. TypeOK'
    BY TypeNext
  <1>. QED
    BY <1>1, StepCases, FrameStill, FrameEnds, FrameWrite, FrameRead, FrameBreak

-----------------------------------------------------------------------------
(* The results.                                                            *)

LEMMA InvInit == Init => Inv
  <1> SUFFICES ASSUME Init PROVE Inv
    OBVIOUS
  <1>1. CallInv
    <2>1. 0 <= 0
      OBVIOUS
    <2>. QED
      BY <2>1, WorkAssumption DEF Init, Fresh, CallInv
  <1>2. SharedInv
    BY DEF Init, Unused, SharedInv
  <1>3. AcceptInv
    <2>1. Served = {}
      BY DEF Init, Served
    <2>2. IsFiniteSet({}) /\ Cardinality({}) = 0
      BY FS_EmptySet
    <2>. QED
      BY <2>1, <2>2 DEF Init, AcceptInv
  <1>4. /\ \A c \in Conns : link[c].stream = <<>> /\ link[c].up = "closed"
        /\ DOMAIN <<>> = {}
    BY DEF Init, Unused
  <1>5. StreamInv
    BY <1>4 DEF StreamInv
  <1>6. \A c \in Conns, i \in Nat : \A f : ~Whole(c, i, f)
    BY <1>4 DEF Whole
  <1>7. \A t \in Threads : ToSet(Work[t]) \subseteq Frames
    <2>1. \A t \in Threads : Work[t] \in Seq(Frames)
      BY WorkAssumption
    <2>. QED
      BY <2>1, LenProperties DEF ToSet
  <1>8. \A t, u \in Threads : t # u => ToSet(Work[t]) \cap ToSet(Work[u]) = {}
    <2> SUFFICES ASSUME NEW t \in Threads, NEW u \in Threads, t # u,
                        NEW f \in ToSet(Work[t]), f \in ToSet(Work[u])
                 PROVE  FALSE
      OBVIOUS
    <2>1. PICK v \in Threads : \A w \in Threads : f \in ToSet(Work[w]) <=> w = v
      BY <1>7, WorkAssumption
    <2>. QED
      BY <2>1
  <1>9. FrameInv
    BY <1>6, <1>7, <1>8, WorkAssumption DEF Init, FrameInv
  <1>10. DeliveredOnce
    BY DEF Init, DeliveredOnce
  <1>11. NoneLostByUpstream
    BY WorkAssumption DEF Init, NoneLostByUpstream, Waiting
  <1>12. NothingOutlivesClose
    BY DEF Init, NothingOutlivesClose
  <1>. QED
    BY <1>1, <1>2, <1>3, <1>5, <1>9, <1>10, <1>11, <1>12 DEF Inv

\* The invariant is inductive: every step of upstream, of downstream and of the
\* network keeps all of its parts.
THEOREM TcpInvariant == Spec => [](TypeOK /\ Inv)
  <1>1. Init => TypeOK /\ Inv
    BY TypeInit, InvInit
  <1>2. TypeOK /\ Inv /\ [Next]_vars => (TypeOK /\ Inv)'
    <2> SUFFICES ASSUME TypeOK, Inv, [Next]_vars PROVE TypeOK' /\ Inv'
      OBVIOUS
    <2>1. /\ CallInv /\ SharedInv /\ AcceptInv /\ StreamInv /\ FrameInv
          /\ DeliveredOnce /\ NoneLostByUpstream /\ NothingOutlivesClose
      BY DEF Inv
    <2>2. TypeOK' /\ CallInv' /\ SharedInv'
      BY <2>1, TypeNext, CallNext, SharedNext
    <2>3. AcceptInv' /\ NothingOutlivesClose'
      BY <2>1, AcceptNext
    <2>4. StreamInv'
      BY <2>1, StreamNext
    <2>5. FrameInv' /\ DeliveredOnce' /\ NoneLostByUpstream'
      BY <2>1, FrameNext
    <2>. QED
      BY <2>2, <2>3, <2>4, <2>5 DEF Inv
  <1>. QED
    BY <1>1, <1>2, PTL DEF Spec

\* The variables of both adapters have their types: activeConns stays between 0
\* and maxTCPConnections, and every connection to install or to write to is one
\* that was dialed.
THEOREM TcpTypeCorrect == Spec => []TypeOK
  BY TcpInvariant, PTL

\* No frame reaches the callback of downstream twice, whatever connections are
\* lost, refused or closed by another thread between the two attempts of
\* SendMessage.
THEOREM FramesDeliveredOnce == Spec => []DeliveredOnce
  <1>1. Inv => DeliveredOnce
    BY DEF Inv
  <1>. QED
    BY <1>1, TcpInvariant, PTL

\* Reloads, and threads that close each other's connection in reconnect, lose no
\* frame: one that does not wait and is not on its way was delivered, as long as
\* no connection is lost, refused or ended by downstream.
THEOREM UpstreamLosesNothing == Spec => []NoneLostByUpstream
  <1>1. Inv => NoneLostByUpstream
    BY DEF Inv
  <1>. QED
    BY <1>1, TcpInvariant, PTL

\* Upstream leaks no connection, and shares none made with old certificates or
\* after Close; activeConns of downstream is the number of connections served.
THEOREM EveryConnectionAccounted == Spec => []ConnectionsAccounted
  <1>1. Inv => ConnectionsAccounted
    BY DEF Inv, SharedInv, AcceptInv, Served, ConnectionsAccounted
  <1>. QED
    BY <1>1, TcpInvariant, PTL

\* Once Close of downstream waits, every connection with a handler, and every one
\* in the backlog, is closed: none can keep Close waiting.
THEOREM CloseIsNotOutlived == Spec => []NothingOutlivesClose
  <1>1. Inv => NothingOutlivesClose
    BY DEF Inv
  <1>. QED
    BY <1>1, TcpInvariant, PTL

=============================================================================
