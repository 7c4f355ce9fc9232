---------------------------- MODULE MCReassembly ----------------------------
(* Small instances of Reassembly. *)
EXTENDS Reassembly, TLC

CONSTANTS m1, m2, w1, w2

\* A record of three packets and one of two.
ThreeAndTwo == m1 :> 5 @@ m2 :> 3

\* A record that fills two packets exactly.
TwoFull == m1 :> 4

WorkerSymmetry == Permutations({w1, w2})
=============================================================================
