------------------------------- MODULE MCEngine -------------------------------
(* Engine on the scenes of Scenes.                                           *)
EXTENDS Engine, Scenes

Interchangeable == Permutations(Matches)

\* No match is on the schedule: the provider's orientation is the row's.
NoSchedule == [m \in Matches |-> Null]
NoneReversed == [m \in Matches |-> {}]
Unsided == [s \in Sides |-> s]
=============================================================================
