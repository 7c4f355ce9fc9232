------------------------------ MODULE MCTcpLink ------------------------------
(* TcpLink with two sending threads and two names for connections.         *)
EXTENDS TcpLink

CONSTANTS a, b, f1, f2

MCThreads == {a, b}
MCFrames == {f1, f2}
MCWork == (a :> <<f1>>) @@ (b :> <<f2>>)
MCConns == 1 .. 2

=============================================================================
