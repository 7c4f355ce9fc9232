---------------------------- MODULE DeliverFilter ----------------------------
(***************************************************************************)
(* The deliver filter (filter/filter.go): several upstreams read the same   *)
(* topic and each sends its share of the offsets.  The share of one of them *)
(* is a list of numbers in three groups, the second and the third a period  *)
(* after the one before.  Only the first group is used; the other two tell  *)
(* the period and let the self-test find a mistyped list.  A period of zero *)
(* makes the program panic at its start, and lists that go down are left    *)
(* out.                                                                     *)
(***************************************************************************)
EXTENDS Integers, Sequences

\* The remainder of Go, which has the sign of the dividend.
GoMod(a, m) == IF a >= 0 THEN a % m ELSE -((-a) % m)

posMod(a, m) == (GoMod(a, m) + m) % m

\* The parts of a list s of numbers.
GroupSize(s) == Len(s) \div 3
Number(s, j, i) == s[(j - 1) * GroupSize(s) + i]
Period(s) == Number(s, 2, 1) - Number(s, 1, 1)

Listed(s, number) == \E i \in 1 .. Len(s) : s[i] = number

\* The place of an offset in the period.
Position(offset, k) == posMod(offset - 1, k) + 1

Check(s, offset) ==
    \E i \in 1 .. GroupSize(s) : Number(s, 1, i) = Position(offset, Period(s))

doSelfTest(s) == \A i \in 1 .. s[Len(s)] : Check(s, i) <=> Listed(s, i)

\* A list with which the program starts.
NewFilter(s) ==
    /\ s \in Seq(Int)
    /\ Len(s) > 0 /\ Len(s) % 3 = 0
    /\ Period(s) > 0
    /\ Number(s, 3, 1) = Number(s, 2, 1) + Period(s)
    /\ doSelfTest(s)
=============================================================================
