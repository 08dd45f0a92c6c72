SPECIFICATION PartSpec
CONSTANTS
    a1 = a1  a2 = a2  a3 = a3
    k1 = k1  k2 = k2  f1 = f1  f2 = f2  q1 = q1  q2 = q2
    SourceKeys = {"github_releases"}
    Catalog <- ThreeItems
    None = None
    Limit = 1
    ForumPage = 1
    PageCap = 2
    OffsetCap = 2
    MaxMoves = 2
    MaxRefusals = 1
    Cards = {k1, k2}
    MaxItems = 1
    Callers = {f1, f2}
    Queries = {q1, q2}
    Nobody = Nobody
    Spacing = 2
    Ttl = 4
PROPERTIES
    DeferredKeepsPlace
CHECK_DEADLOCK FALSE
