----------------------------- MODULE MCEngineLive -----------------------------
(* EngineLive on the scenes of Scenes.                                       *)
EXTENDS EngineLive, Scenes

\* No match is on the schedule: the provider's orientation is the row's.
NoSchedule == [m \in Matches |-> Null]
NoneReversed == [m \in Matches |-> {}]
Unsided == [s \in Sides |-> s]
=============================================================================
