\* Two daemons, one per source, one contended match id, a consumer.
SPECIFICATION LogSpec
CONSTANTS
    w1 = w1
    w2 = w2
    srcA = srcA
    srcB = srcB
    Writers = {w1, w2}
    Sources = {srcA, srcB}
    SourceOf <- TwoSources
    Matches = {m1}
    Columns = {c1}
    ProviderIds = {p1}
    Seqs = {0, 1, 2}
    Contents = {x, y, z}
    Taxonomy = {x, y}
    MaxBatch = 2
    Absent = Absent
SYMMETRY Interchangeable
INVARIANTS ChildRowsOwned ColumnsOwned
PROPERTIES AckedMeansStored ImplementsEventLog
