\* One match with backfill: every board, every way an apply may end, crashes.
SPECIFICATION Spec
CONSTANTS
    goal = goal
    penalty = penalty
    Matches = {m1}
    Boards <- AllBoards
    Details <- DriftDetails
    PackOutcomes = {"ok", "notSeeded", "rejected", "sideFailed"}
    Schedule <- NoSchedule
    Reversed <- NoneReversed
    Opposite <- Unsided
    BackfillEnabled = TRUE
    MaxDetailFailures = 2
    MaxTotalAttempts = 1
    MaxGiveUpEmissions = 1
    BackfillMaxAttempts = 2
    BackfillMaxFetches = 1
    CooldownBase = 1
    CooldownMax = 2
    MaxEpoch = 2
    Sides = {"total"}
    Scores = {0, 1}
    Minutes = {}
    Clocks = {}
    Infos = {}
    Seqs = {1}
    Contents = {goal, penalty}
    Null = Null
INVARIANTS BaselineEventsStored BackfillNotForeclosed
PROPERTIES TrackerDropJustified
