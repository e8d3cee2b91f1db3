\* One match, one collector, a schedule that arrives at any time.
SPECIFICATION LiveSpec
CONSTANTS
    Writers = {w1}
    Pids = {p1}
    Slugs = {s1}
    Stub <- MCStub
    Fits <- MCFits
    Anonymous = {}
    MaxEvents = 2
    MaxFails = 2
    Null = Null
INVARIANTS OneTimeline AckedKept ChildrenSeeded OrientationKept
PROPERTIES RicherKept AdoptionHeals
