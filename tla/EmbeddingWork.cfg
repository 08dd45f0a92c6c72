SPECIFICATION Spec
CONSTANTS
    w1 = w1  w2 = w2  k1 = k1  k2 = k2  q1 = q1
    ingestion = ingestion  chat = chat
    Workers = {w1, w2}
    Chunks = {k1}
    MaxEpoch = 2
    Callers = {q1}
    Attempts <- GivenAttempts
    NoAttempt = NoAttempt
    Lanes = {ingestion, chat}
    LaneOf <- GivenLanes
    Unchecked = {chat}
    Units <- GivenUnits
    DailyCap = 2
    LaneCap <- GivenCaps
    OutstandingCap = 2
    LastDay = 1
    MaxUsage = 2
    MaxFaults = 3
SYMMETRY Symmetry
INVARIANTS
    TypeOK
    AtMostOneCall
    SpendIsHeld
    WorkMatchesLedger
    CapsHold
    OverrunBlocks
PROPERTIES
    OutcomeIsFinal
    SettledOnce
CHECK_DEADLOCK FALSE
