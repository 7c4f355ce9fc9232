-------------------------- MODULE MCLogRepetition --------------------------
(* LogRepetition with a cache of one entry, one algorithm and two          *)
(* certificates.                                                           *)
EXTENDS LogRepetition

CONSTANTS m1, m2, sha, c1, c2, k1, k2

MCMessages == {m1, m2}
MCCerts == {c1, c2}
MCKeyOf == (c1 :> k1) @@ (c2 :> k2)
MCAlgorithms == {NoAlg, sha}
MCLost == {{}, {2}}

\* The certificates may be exchanged together with their keys.
Exchanged ==
    {[c \in MCCerts |-> c] @@ [k \in {k1, k2} |-> k],
     (c1 :> c2) @@ (c2 :> c1) @@ (k1 :> k2) @@ (k2 :> k1)}
MCSymmetry == {f @@ g : f \in Permutations(MCMessages), g \in Exchanged}

=============================================================================
