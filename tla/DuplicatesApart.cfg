SPECIFICATION GroupSpec
CONSTANTS
    h1 = h1  h2 = h2  h3 = h3  h4 = h4  h5 = h5
    Hits = {h1, h2, h3, h4, h5}
    HitOf <- FiveHits
    Questions <- SomeQuestions
    Setups <- SomeSetups
    From = 2
    To = 4
    Undated = Undated
    NoCluster = NoCluster
    MaxContext = 4
    MaxFound = 2
    FusedLimit = 3
    Targets = {t1, t2}
    Candidates = {d1, d2}
    Addresses = {"public", "private"}
    Allowed = {"public"}
    MaxSearches = 2
    MaxFetches = 2
    MaxAttempts = 5
    MaxBytes = 3
    Hops = 2
    Textless = {d2}
    Wirings <- SomeWirings
    Calls <- SomeCalls
    q1 = q1  q2 = q2  q3 = q3  x = x
    Requests = {q1, q2, q3}
    ClientOf <- OneClient
    NoId = NoId
    MaxRequests = 1
    WindowMs = 2
    MaxConcurrent = 1
    MaxDaily = 2
    DayMs = 2
    EndOfTime = 3
    Queries = {"", "vllm"}
    AllItems = ""
    Pages = 3
    MaxAsks = 3
    MaxUnderWay = 3
    pos = pos  neg = neg  k1 = k1  r1 = r1  r2 = r2
    Runs = {r1, r2}
    CodeOf <- RunCodes
    Labels <- TwoLabels
    Corpora <- TwoCorpora
    Retried = pos
    Allowance = 6
    Reserves <- ReservesOf
    RunFaults = 1
    Modes = {"preflight", "live"}
    Verdicts <- OneVerdict
    c1 = c1  c2 = c2  c3 = c3  v1 = v1  v2 = v2
    CommandRequests = {c1, c2, c3}
    Plans <- SomePlans
    Revisions = {v1, v2}
    Approved = {v1}
    NoEntry = NoEntry
    Nobody = Nobody
    Nothing = Nothing
    MaxRestarts = 1
    x1 = x1  x2 = x2  x3 = x3  x4 = x4
    TextsOf <- FourTexts
    DocIds = {d1, d2, d3, d4}
    ClusterIds = {g1, g2, g3, g4}
    Jobs = {j1, j2}
    Free = Free
    NoUrl = NoUrl
    NoDoc = NoDoc
    NoGroup = NoGroup
    NoKey = NoKey
    JobFaults = 1
    MaxJobs = 3
    RawItems <- SomeItems
    LineKinds <- SomeLines
    MarkupTokens <- SomeTokens
    MaxTokens = 3
    Cutoff = 3
    Nil = Nil
    MaxLines = 5
    MaxMarkup = 5
    SlotCalls = {s1, s2}
    LocalCalls = {l1, l2, l3}
    Cap = 1
    Lease = 3
    Interval = 1
    Patience = 2
    Horizon = 6
    RedisFaults = 1
    Backfills = {b}
    Incrementals = {i}
    Others = {o}
    Stops = {w1, w2}
    BatchLimit = 2
    Degraded = 1
    Unhealthy = 2
    Cadence = 3
    Overlap = 1
    PlanTimes = {5, 6}
    PlanRequests <- SomeRequests
    RuntimeFaults = 1
    Taxonomy <- SomeTaxonomy
    TopicPieces <- SomePieces
    TopicSources = {"npm", "so"}
    NoSource = NoSource
    Earliest = 0
    Ranges <- SomeRanges
    Durations <- SomeSpans
    ThisDay = 800
    MaxPieces = 5
    y1 = y1  y2 = y2  nextPlace = nextPlace
    Ingesters = {e1, e2}
    Places = {nextPlace}
    NoPlace = NoPlace
    PageAt <- TwoPages
    FetchEnds = {"page", "policy", "transient", "permanent"}
    Publishers = {"events", "jobs"}
    MaxIngests = 3
    IngestFaults = 1
    f1 = f1  f2 = f2  f3 = f3  f4 = f4
    FeedEntries = {f1, f2, f3, f4}
    ArticleAt <- FourEntries
    Barred = {"barred"}
    FeedKinds = {"feed", "index"}
    ArticleLimit = 1
    ArticleTokens <- PageTags
    Containers <- ThreeContainers
    Dropped = {"nav"}
    Voids = {"br"}
    MaxFeedCalls = 3
    MaxFeedMoves = 3
    MaxFeedFaults = 1
    MaxArticle = 5
    RowOf <- SomeRows
    EventOf <- SomeEvents
    QueryDay <- SomeQueries
    RetentionDays <- SomeDays
    EventDays = 3
    QueryDays = 3
    RetentionRequests <- SomePurges
    Keepers = {p1, p2}
    Manifests <- SomeManifests
    DrillRequests <- SomeDrills
    CustodyFaults = 1
    n1 = n1  n2 = n2  sig = sig
    CohortMembers <- TwoMembers
    SliceOf <- SomeSlices
    ItemFacts <- SomeItemFacts
    Periods <- TwoPeriods
    Missed = {}
    NoDate = NoDate
    NoSignature = NoSignature
    NoValue = NoValue
    Approves = TRUE
    AlreadyPlanned = {"base", "now", "asked"}
    MaxCollected = 5
INVARIANTS
    DuplicatesShareAGroup
CHECK_DEADLOCK FALSE
