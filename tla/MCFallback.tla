------------------------------ MODULE MCFallback ------------------------------
(* A small instance of Fallback: live, final and reset boards and details of *)
(* one match, with and without scores, clocks and events.                    *)
EXTENDS Fallback, TLC

CONSTANTS home, away, c45, c90, c93, team, goal, red

Obs(status, minute, clock, h, a, info, events) ==
    [status |-> status, minute |-> minute, clock |-> clock,
     score |-> (home :> h) @@ (away :> a), info |-> info, events |-> events]

OneGoal == 1 :> goal
TwoEvents == (1 :> goal) @@ (2 :> red)
Corrected == 1 :> red

MCObservations ==
    { Obs("IN_PLAY", 45, c45, 0, 0, team, NoEvents),
      Obs("IN_PLAY", 45, c45, 1, 0, Null, OneGoal),
      Obs("IN_PLAY", 90, c90, 2, 1, team, TwoEvents),
      Obs("PAUSED", 45, Null, 1, 0, Null, OneGoal),
      Obs("SCHEDULED", Null, Null, 0, 0, team, NoEvents),
      Obs("UNKNOWN", Null, c90, Null, 1, Null, NoEvents),
      Obs("FINISHED", Null, Null, 2, Null, Null, NoEvents),
      Obs("FINISHED", 90, Null, 2, 1, team, Corrected),
      Obs("FINISHED", 93, c93, 1, 1, Null, TwoEvents),
      Obs("FINISHED", Null, c93, Null, Null, Null, OneGoal) }
=============================================================================
