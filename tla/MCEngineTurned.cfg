\* One match whose row lists its sides the other way round.
SPECIFICATION Spec
CONSTANTS
    goal = goal
    penalty = penalty
    franceBrazil = franceBrazil
    brazilFrance = brazilFrance
    Matches = {m1}
    Boards <- SidedBoards
    Details <- SidedDetails
    PackOutcomes = {"ok", "notSeeded", "rejected", "sideFailed"}
    Schedule <- BrazilFirst
    Reversed <- FranceFirst
    Opposite <- Swap
    BackfillEnabled = TRUE
    MaxDetailFailures = 2
    MaxTotalAttempts = 1
    MaxGiveUpEmissions = 1
    BackfillMaxAttempts = 2
    BackfillMaxFetches = 1
    CooldownBase = 1
    CooldownMax = 2
    MaxEpoch = 2
    Sides = {"home", "away"}
    Scores = {0, 1}
    Minutes = {}
    Clocks = {}
    Infos = {franceBrazil, brazilFrance}
    Seqs = {1}
    Contents = {goal, penalty}
    Null = Null
INVARIANTS ScoreShown
