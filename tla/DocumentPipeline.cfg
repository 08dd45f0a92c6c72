SPECIFICATION Spec
CONSTANTS
    s1 = s1  i1 = i1  i2 = i2  t1 = t1  t2 = t2
    u1 = u1  d1 = d1  d2 = d2  w1 = w1  w2 = w2  o1 = o1
    Sources = {s1}
    Items = {i1, i2}
    SourceOf <- OneSource
    Texts = {t1, t2}
    Urls = {u1}
    UrlOf <- OneUrl
    Own <- Articles
    Fallback <- AllSecond
    Blank = {t1}
    Docs = {d1, d2}
    Workers = {w1, w2}
    Operators = {o1}
    Scopes = {"source", "document"}
    None = None
    MaxFaults = 2
SYMMETRY Symmetry
INVARIANTS
    TypeOK
    DoneMeansIndexed
PROPERTIES
    TombstoneHolds
    ImplementsRevisionLife
CHECK_DEADLOCK FALSE
