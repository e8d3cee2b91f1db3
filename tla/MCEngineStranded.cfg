\* A first apply fails after the row was written, then the surroundings settle.
SPECIFICATION LiveSpec
CONSTANTS
    goal = goal
    penalty = penalty
    Matches = {m1}
    Boards <- AllBoards
    Details <- PlainDetails
    PackOutcomes = {"ok", "sideFailed"}
    Schedule <- NoSchedule
    Reversed <- NoneReversed
    Opposite <- Unsided
    MayStrand = TRUE
    BackfillEnabled = FALSE
    MaxDetailFailures = 2
    MaxTotalAttempts = 2
    MaxGiveUpEmissions = 1
    BackfillMaxAttempts = 2
    BackfillMaxFetches = 1
    CooldownBase = 2
    CooldownMax = 3
    MaxEpoch = 2
    Sides = {"total"}
    Scores = {0, 1}
    Minutes = {}
    Clocks = {}
    Infos = {}
    Seqs = {1}
    Contents = {goal, penalty}
    Null = Null
PROPERTIES LiveRowsClose
