\* Two matches share one backfill fetch per poll; an apply succeeds or writes
\* nothing.
SPECIFICATION Spec
CONSTANTS
    goal = goal
    penalty = penalty
    Matches = {m1, m2}
    Boards <- PairBoards
    Details <- CloseDetails
    PackOutcomes = {"ok", "notSeeded"}
    Schedule <- NoSchedule
    Reversed <- NoneReversed
    Opposite <- Unsided
    BackfillEnabled = TRUE
    MaxDetailFailures = 1
    MaxTotalAttempts = 1
    MaxGiveUpEmissions = 1
    BackfillMaxAttempts = 2
    BackfillMaxFetches = 1
    CooldownBase = 2
    CooldownMax = 2
    MaxEpoch = 1
    Sides = {"total"}
    Scores = {0, 1}
    Minutes = {}
    Clocks = {}
    Infos = {}
    Seqs = {1}
    Contents = {goal, penalty}
    Null = Null
SYMMETRY Interchangeable
INVARIANTS PathsExclusive NoTrackerWhileCooling UnchangedMeansStored FinishedNotOverlooked
