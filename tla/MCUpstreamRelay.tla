--------------------------- MODULE MCUpstreamRelay ---------------------------
(* A small instance of UpstreamRelay. *)
EXTENDS UpstreamRelay, TLC

CONSTANTS p1, p2

\* A record that the input filter denies or that is too large, an ordinary one,
\* the share of another upstream, and one in another partition.
ThreeAndOne == p1 :> 3 @@ p2 :> 1
MixedTraits ==
    <<p1, 0>> :> {"denied", "tooLarge"} @@ <<p1, 1>> :> {} @@ <<p1, 2>> :> {} @@ <<p2, 0>> :> {}

\* Two of three offsets: the third is skipped here.
TwoOfThree == <<1, 3, 4, 6, 7, 9>>

\* The deliver filter against its meaning: an accepted list that reaches over a
\* period lets an offset through if it is whole periods away from a listed number
\* (the self-test does not see numbers beyond the last one).
ASSUME FilterAgrees ==
    \A s \in [1 .. 3 -> 0 .. 6] \cup [1 .. 6 -> 1 .. 5] :
       NewFilter(s) /\ s[Len(s)] >= Period(s) =>
         \A offset \in 0 .. 12 :
            Check(s, offset) <=>
              \E i \in 1 .. Len(s) :
                 s[i] \in 1 .. s[Len(s)] /\ (offset - s[i]) % Period(s) = 0
=============================================================================
