-------------------------- MODULE MCLostEventStore --------------------------
(* LostEventStore with two threads.                                        *)
EXTENDS LostEventStore, TLC

CONSTANTS a, b

MCThreads == {a, b}
MCSymmetry == Permutations(MCThreads)

=============================================================================
