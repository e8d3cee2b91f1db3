------------------------------ MODULE MCWriter ------------------------------
(* A small instance of LogFollower: daemons of two sources that race for one *)
(* match id, and a consumer that follows it.                                 *)
EXTENDS LogFollower, TLC

CONSTANTS w1, w2, srcA, srcB

TwoSources == (w1 :> srcA) @@ (w2 :> srcB)

\* The two daemons with their sources are interchangeable, and so are the two
\* contents the pack declares.
Interchangeable ==
    {f \in Permutations(Writers \cup Sources \cup Taxonomy) :
        /\ \A w \in Writers : f[w] \in Writers /\ SourceOf[f[w]] = f[SourceOf[w]]
        /\ \A c \in Taxonomy : f[c] \in Taxonomy}
=============================================================================
