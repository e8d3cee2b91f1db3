\* Ten kinds of observation in any order, abandoned and re-tracked at will.
SPECIFICATION Spec
CONSTANTS
    home = home
    away = away
    c45 = c45
    c90 = c90
    c93 = c93
    team = team
    goal = goal
    red = red
    Sides = {home, away}
    Scores = {0, 1, 2}
    Minutes = {45, 90, 93}
    Clocks = {c45, c90, c93}
    Infos = {team}
    Seqs = {1, 2}
    Contents = {goal, red}
    Null = Null
    Observations <- MCObservations
INVARIANTS BestScoreKept FinalKept ClockWitnessed
PROPERTIES FinalListKept
