SPECIFICATION Spec
CONSTANTS
    s1 = s1  i1 = i1  i2 = i2  t1 = t1  t2 = t2
    u1 = u1  d1 = d1  d2 = d2  w1 = w1  w2 = w2  o1 = o1
    Sources = {s1}
    Items = {i1}
    SourceOf <- OneSource
    Texts = {t1}
    Urls = {u1}
    UrlOf <- OneUrl
    Own <- AllFirst
    Fallback <- AllFirst
    Blank = {}
    Docs = {d1, d2}
    Workers = {w1}
    Operators = {o1}
    Scopes = {"source", "document_revision"}
    None = None
    MaxFaults = 2
INVARIANTS
    WithdrawnIsHidden
CHECK_DEADLOCK FALSE
