CONSTANTS
    m1 = m1
    m2 = m2
    Matches = {m1, m2}
    Total <- TheTotal
    Kickoff <- TheKickoff
    Slate <- TheSlate
    Start = 1
    End = 1
    MaxFaults = 2
    MaxDaemonPolls = 1
SPECIFICATION Spec
INVARIANTS AppliedMeansStored ReportConsistent CleanRunComplete
PROPERTIES SkipReliable Backfilled
