-------------------------------- MODULE Scenes --------------------------------
(* Boards and details of a match with at most one goal, told apart by status, *)
(* score and events, for the model-checked instances of Engine.               *)
EXTENDS Snapshots, TLC

CONSTANTS goal, penalty  \* what the provider says of event 1

Snap(status, score, events) ==
    [status |-> status, minute |-> Null, clock |-> Null,
     score |-> ("total" :> score), info |-> Null, events |-> events]

Goal == 1 :> goal

Live0 == Snap("IN_PLAY", 0, NoEvents)
LiveGoal == Snap("IN_PLAY", 1, Goal)
Reset == Snap("SCHEDULED", Null, NoEvents)
Final1 == Snap("FINISHED", 1, NoEvents)
FinalGoal == Snap("FINISHED", 1, Goal)
FinalPenalty == Snap("FINISHED", 1, 1 :> penalty)

\* The board lags the detail: it never shows the events.
AllBoards == {Live0, Final1, Reset}
PairBoards == {Live0, Final1}

\* The final detail may tell event 1 differently from the live one.
DriftDetails == {LiveGoal, FinalPenalty, Reset}
PlainDetails == {LiveGoal, FinalGoal, Reset}
CloseDetails == {FinalGoal, Reset}
=============================================================================
