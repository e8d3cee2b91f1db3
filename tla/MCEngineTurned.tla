---------------------------- MODULE MCEngineTurned ----------------------------
(* Engine on a match whose row in the schedule lists the two teams the other *)
(* way round than the provider.  Only the provider's home side scores.       *)
EXTENDS Engine, Scenes

CONSTANTS franceBrazil, brazilFrance

BrazilFirst == [m \in Matches |-> brazilFrance]
FranceFirst == [m \in Matches |-> {franceBrazil}]
Swap == [s \in Sides |-> IF s = "home" THEN "away" ELSE "home"]

Sided(status, home) ==
    [Snap(status, Null, NoEvents) EXCEPT !.info = franceBrazil,
                                         !.score = ("home" :> home) @@ ("away" :> 0)]

SidedBoards == {Sided("IN_PLAY", 0), Sided("IN_PLAY", 1), Sided("FINISHED", 1)}
SidedDetails == {Sided("FINISHED", 1)}
=============================================================================
