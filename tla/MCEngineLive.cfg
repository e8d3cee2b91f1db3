\* The surroundings settle: one match on both paths; an apply succeeds or writes nothing.
SPECIFICATION LiveSpec
CONSTANTS
    goal = goal
    penalty = penalty
    Matches = {m1}
    Boards <- AllBoards
    Details <- PlainDetails
    PackOutcomes = {"ok", "notSeeded"}
    Schedule <- NoSchedule
    Reversed <- NoneReversed
    Opposite <- Unsided
    MayStrand = FALSE
    BackfillEnabled = TRUE
    MaxDetailFailures = 2
    MaxTotalAttempts = 2
    MaxGiveUpEmissions = 1
    BackfillMaxAttempts = 2
    BackfillMaxFetches = 1
    CooldownBase = 2
    CooldownMax = 3
    MaxEpoch = 2
    Sides = {"total"}
    Scores = {0, 1}
    Minutes = {}
    Clocks = {}
    Infos = {}
    Seqs = {1}
    Contents = {goal, penalty}
    Null = Null
PROPERTIES LiveRowsClose TrackingDrains GiveUpMonotonic ResetNeverClobbers
