SPECIFICATION LiveSpec
CONSTANTS
    w1 = w1  w2 = w2  p1 = p1  p2 = p2  r1 = r1  r2 = r2
    c1 = c1  i1 = i1  k1 = k1  ingestion = ingestion  chat = chat
    Workers = {w1}
    Partitions = {p1, p2}
    Revisions = {r1, r2}
    Approved = {r1, r2}
    RevisionOf <- TwoRevisions
    Cursors = {c1}
    NoCursor = NoCursor
    Items = {i1}
    MaxPage = 0
    MaxFaults = 2
    Executors = {w1, w2}
    Chunks = {k1}
    MaxEpoch = 4
    Callers = {}
    Attempts <- AllAttempts
    NoAttempt = NoAttempt
    Lanes = {ingestion, chat}
    LaneOf <- LaneOfAttempt
    Unchecked = {chat}
    Units <- OneUnit
    DailyCap = 9
    LaneCap <- Ample
    OutstandingCap = 9
    LastDay = 0
    MaxUsage = 1
    WorkFaults = 1
    s1 = s1  m1 = m1  m2 = m2  t1 = t1  t2 = t2
    u1 = u1  d1 = d1  d2 = d2  o1 = o1
    Sources = {s1}
    RawItems = {m1, m2}
    SourceOf <- OneSource
    Texts = {t1, t2}
    Urls = {u1}
    UrlOf <- OneUrl
    Own <- WithMetrics
    Fallback <- AllSecond
    Blank = {t2}
    Docs = {d1, d2}
    Normalizers = {w1, w2}
    Operators = {o1}
    Scopes = {"source"}
    None = None
    PipelineFaults = 1
INVARIANTS
    AcquiredIsStaged
PROPERTIES
    Finishes
    EveryChunkDecided
    EveryItemPublished
CHECK_DEADLOCK FALSE
