-------------------------- MODULE MCDedupProcessor --------------------------
(* Small instances of DedupProcessor. *)
EXTENDS DedupProcessor

Full(S) == [off : S, empty : {FALSE}]
Empty(S) == [off : S, empty : {TRUE}]

\* Three windows of two offsets, the second with a gap that is never closed;
\* one offset also comes with its payload cleared.
ThreeWindows == Full({0, 1, 3, 4}) \cup Empty({1})

\* One window of three offsets and the next one.
OneWindowAndNext == Full({0, 1, 2, 3})
=============================================================================
