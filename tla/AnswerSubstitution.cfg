SPECIFICATION ServicesSpec
CONSTANTS
    h1 = h1  h2 = h2  h3 = h3  h4 = h4  h5 = h5
    Hits = {h1, h2, h3, h4, h5}
    HitOf <- FiveHits
    Questions <- SomeQuestions
    Setups <- SomeSetups
    From = 2
    To = 4
    Undated = Undated
    NoCluster = NoCluster
    MaxContext = 4
    MaxFound = 2
    FusedLimit = 3
    Targets = {t1, t2}
    Candidates = {d1, d2}
    Addresses = {"public", "private"}
    Allowed = {"public"}
    MaxSearches = 2
    MaxFetches = 2
    MaxAttempts = 5
    MaxBytes = 3
    Hops = 2
    Textless = {d2}
    Wirings <- SomeWirings
    Calls <- SomeCalls
    q1 = q1  q2 = q2  q3 = q3  x = x
    Requests = {q1, q2, q3}
    ClientOf <- OneClient
    NoId = NoId
    MaxRequests = 1
    WindowMs = 2
    MaxConcurrent = 1
    MaxDaily = 2
    DayMs = 2
    EndOfTime = 3
    Queries = {"", "vllm"}
    AllItems = ""
    Pages = 3
    MaxAsks = 3
    MaxUnderWay = 3
INVARIANTS
    NoSubstitution
CHECK_DEADLOCK FALSE
