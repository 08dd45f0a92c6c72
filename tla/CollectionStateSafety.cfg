SPECIFICATION Spec
CONSTANTS
    w1 = w1  w2 = w2  p1 = p1  p2 = p2  r1 = r1  r2 = r2
    c1 = c1  c2 = c2  i1 = i1
    Workers = {w1, w2}
    Partitions = {p1}
    Revisions = {r1}
    Approved = {r1}
    RevisionOf <- OneRevision
    Cursors = {c1}
    NoCursor = NoCursor
    Items = {}
    MaxPage = 1
    MaxFaults = 2
SYMMETRY Symmetry
INVARIANTS
    TypeOK
    NoPageLost
    HistoryIsWhole
    ContentMatchesCursor
    SingleHolder
    NoOrphanRun
PROPERTIES
    RunVerdictFinal
    ImplementsPageLog
CHECK_DEADLOCK FALSE
