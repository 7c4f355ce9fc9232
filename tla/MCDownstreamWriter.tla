------------------------- MODULE MCDownstreamWriter -------------------------
(* DownstreamWriter with three datagrams, one socket and two workers.      *)
EXTENDS DownstreamWriter

CONSTANTS d1, d2, d3, s1, w1, w2

MCDatagrams == {d1, d2, d3}
MCSockets == {s1}
MCWorkers == {w1, w2}

=============================================================================
