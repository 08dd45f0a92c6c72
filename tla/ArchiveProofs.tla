---------------------------- MODULE ArchiveProofs ----------------------------
(***************************************************************************)
(* Theorems about what keeps the archive: the slots of a source, the life  *)
(* of the worker process and its planner, the evaluation of a release, and *)
(* what comes in and goes by ingestion, feeds, retention and restores.     *)
(***************************************************************************)
EXTENDS WorkerRuntime, ReleaseEvaluation, ArchiveCustody, DataLemmas

(***************************************************************************)
(* The slots in Redis.  A token in the hash is one that a script promised, *)
(* and whoever runs on a promise that is not over has its token there.     *)
(***************************************************************************)
SlotSteps == {"idle", "waiting", "running", "releasing", "done", "dead"}

SlotsTyped ==
    /\ slotNow \in Nat /\ promised \in [SlotCalls -> Nat] /\ callStep \in [SlotCalls -> SlotSteps]
    /\ DOMAIN slots \subseteq SlotCalls
TokensFit(f, n) ==
    /\ IsFiniteSet(DOMAIN f) /\ Cardinality(DOMAIN f) <= Cap
    /\ \A c \in DOMAIN f : f[c] <= n + Lease /\ f[c] = promised[c]
HoldersFit ==
    \A c \in SlotCalls : callStep[c] \in {"running", "releasing"} /\ promised[c] > slotNow
                         => c \in DOMAIN slots
RedisInv == SlotsTyped /\ TokensFit(slots, slotNow) /\ HoldersFit

LEMMA SlotNumbers == Cap \in Nat \ {0} /\ Lease \in Nat \ {0} /\ Interval \in Nat /\ Patience \in Nat
BY SlotAssumption

LEMMA RedisInvInit == SlotInit => RedisInv
<1>1. DOMAIN <<>> = {}
  OBVIOUS
<1>2. IsFiniteSet({}) /\ Cardinality({}) = 0
  BY FS_EmptySet
<1>3. QED
  BY <1>1, <1>2, SlotNumbers DEF SlotInit, RedisInv, SlotsTyped, TokensFit, HoldersFit, SlotSteps

\* A subset of the tokens of a hash that fits.
LEMMA TokensLess ==
    ASSUME NEW D \in SUBSET DOMAIN slots, RedisInv
    PROVE  IsFiniteSet(D) /\ Cardinality(D) \in Nat /\ Cardinality(D) <= Cap
<1>1. IsFiniteSet(DOMAIN slots) /\ Cardinality(DOMAIN slots) <= Cap
  BY DEF RedisInv, TokensFit
<1>2. IsFiniteSet(D) /\ Cardinality(D) <= Cardinality(DOMAIN slots)
  BY <1>1, FS_Subset
<1>3. Cardinality(D) \in Nat /\ Cardinality(DOMAIN slots) \in Nat
  BY <1>1, <1>2, FS_CardinalityType
<1>4. QED
  BY <1>1, <1>2, <1>3, SlotNumbers

LEMMA AcquireKeeps == ASSUME RedisInv, NEW c \in SlotCalls, AcquireSlot(c) PROVE RedisInv'
<1> DEFINE D == {x \in DOMAIN slots : slots[x] > slotNow}
<1>1. /\ slotNow' = slotNow /\ slotNow \in Nat
      /\ promised \in [SlotCalls -> Nat] /\ callStep \in [SlotCalls -> SlotSteps]
      /\ DOMAIN slots \subseteq SlotCalls /\ callStep[c] = "waiting"
  BY DEF RedisInv, SlotsTyped, AcquireSlot
<1>2. DOMAIN Kept = D /\ \A x \in D : Kept[x] = slots[x]
  BY DEF Kept, Only
<1>3. D \in SUBSET DOMAIN slots
  OBVIOUS
<1>4. IsFiniteSet(D) /\ Cardinality(D) \in Nat /\ Cardinality(D) <= Cap
  BY <1>3, TokensLess
<1>5. \A x \in D : slots[x] <= slotNow + Lease /\ slots[x] = promised[x]
  BY DEF RedisInv, TokensFit
<1>6. \A x \in SlotCalls : callStep[x] \in {"running", "releasing"} /\ promised[x] > slotNow => x \in D
  BY DEF RedisInv, HoldersFit, TokensFit
<1> HIDE DEF D
<1>7. CASE /\ Cardinality(DOMAIN Kept) < Cap
           /\ slots' = Put(Kept, c, slotNow + Lease)
           /\ callStep' = [callStep EXCEPT ![c] = "running"]
           /\ promised' = [promised EXCEPT ![c] = slotNow + Lease]
  <2>1. DOMAIN slots' = D \cup {c} /\ \A x \in D \cup {c} : slots'[x] = IF x = c THEN slotNow + Lease ELSE slots[x]
    BY <1>2, <1>7 DEF Put
  <2>2. IsFiniteSet(D \cup {c}) /\ Cardinality(D \cup {c}) <= Cardinality(D) + 1
    BY <1>4, FS_AddElement
  <2>3. Cardinality(D \cup {c}) \in Nat /\ Cardinality(D) + 1 <= Cap
    BY <1>2, <1>4, <1>7, <2>2, FS_CardinalityType, SlotNumbers
  <2>4. Cardinality(DOMAIN slots') <= Cap
    BY <1>4, <2>1, <2>2, <2>3, SlotNumbers
  <2>5. D \subseteq SlotCalls
    BY <1>1 DEF D
  <2>6. SlotsTyped'
    BY <1>1, <1>7, <2>1, <2>5, SlotNumbers DEF SlotsTyped, SlotSteps
  <2>7. TokensFit(slots, slotNow)'
    BY <1>1, <1>5, <1>7, <2>1, <2>2, <2>4, <2>5, SlotNumbers DEF TokensFit
  <2>8. HoldersFit'
    BY <1>1, <1>6, <1>7, <2>1 DEF HoldersFit
  <2>9. QED
    BY <2>6, <2>7, <2>8 DEF RedisInv
<1>8. CASE /\ slots' = Kept /\ promised' = promised
           /\ callStep' = callStep \/ callStep' = [callStep EXCEPT ![c] = "done"]
  <2>1. DOMAIN slots' = D /\ \A x \in D : slots'[x] = slots[x]
    BY <1>2, <1>8
  <2>2. SlotsTyped'
    BY <1>1, <1>8, <2>1 DEF SlotsTyped, SlotSteps, D
  <2>3. TokensFit(slots, slotNow)'
    BY <1>1, <1>4, <1>5, <1>8, <2>1 DEF TokensFit
  <2>4. HoldersFit'
    BY <1>1, <1>6, <1>8, <2>1 DEF HoldersFit
  <2>5. QED
    BY <2>2, <2>3, <2>4 DEF RedisInv
<1>9. QED
  BY <1>7, <1>8 DEF AcquireSlot

LEMMA RenewKeeps == ASSUME RedisInv, NEW c \in SlotCalls, Renew(c) PROVE RedisInv'
<1>1. /\ slotNow' = slotNow /\ slotNow \in Nat /\ callStep' = callStep
      /\ promised \in [SlotCalls -> Nat] /\ DOMAIN slots \subseteq SlotCalls
  BY DEF RedisInv, SlotsTyped, Renew
<1>2. CASE /\ c \in DOMAIN slots
           /\ slots' = Put(slots, c, slotNow + Lease)
           /\ promised' = [promised EXCEPT ![c] = slotNow + Lease]
  <2>1. /\ DOMAIN slots' = DOMAIN slots
        /\ \A x \in DOMAIN slots : slots'[x] = IF x = c THEN slotNow + Lease ELSE slots[x]
    BY <1>2 DEF Put
  <2>2. SlotsTyped'
    BY <1>1, <1>2, <2>1, SlotNumbers DEF RedisInv, SlotsTyped
  <2>3. TokensFit(slots, slotNow)'
    BY <1>1, <1>2, <2>1, SlotNumbers DEF RedisInv, TokensFit
  <2>4. HoldersFit'
    BY <1>1, <1>2, <2>1 DEF RedisInv, HoldersFit
  <2>5. QED
    BY <2>2, <2>3, <2>4 DEF RedisInv
<1>3. CASE UNCHANGED <<slots, promised>>
  BY <1>1, <1>3 DEF RedisInv, SlotsTyped, TokensFit, HoldersFit
<1>4. QED
  BY <1>2, <1>3 DEF Renew

\* Steps that touch neither the hash nor a promise, and start no operation.
LEMMA CallsMoveOn ==
    ASSUME RedisInv, UNCHANGED <<slots, promised>>, slotNow' = slotNow \/ slotNow' = slotNow + 1,
           callStep' \in [SlotCalls -> SlotSteps],
           \A c \in SlotCalls : callStep'[c] \in {"running", "releasing"}
                                => callStep[c] \in {"running", "releasing"}
    PROVE  RedisInv'
<1>1. slotNow \in Nat /\ promised \in [SlotCalls -> Nat]
  BY DEF RedisInv, SlotsTyped
<1>2. SlotsTyped'
  BY DEF RedisInv, SlotsTyped
<1>3. TokensFit(slots, slotNow)'
  BY <1>1, SlotNumbers DEF RedisInv, SlotsTyped, TokensFit
<1>4. HoldersFit'
  BY <1>1 DEF RedisInv, HoldersFit
<1>5. QED
  BY <1>2, <1>3, <1>4 DEF RedisInv

LEMMA ReleaseKeeps == ASSUME RedisInv, NEW c \in SlotCalls, Release(c) PROVE RedisInv'
<1> DEFINE D == DOMAIN slots \ {c}
<1>1. /\ slotNow' = slotNow /\ promised' = promised
      /\ callStep' = [callStep EXCEPT ![c] = "done"] /\ callStep \in [SlotCalls -> SlotSteps]
  BY DEF RedisInv, SlotsTyped, Release
<1>2. DOMAIN slots' = D /\ \A x \in D : slots'[x] = slots[x]
  BY DEF Release, Only
<1>3. IsFiniteSet(D) /\ Cardinality(D) \in Nat /\ Cardinality(D) <= Cap
  BY TokensLess
<1>4. SlotsTyped'
  BY <1>1, <1>2 DEF RedisInv, SlotsTyped, SlotSteps
<1>5. TokensFit(slots, slotNow)'
  BY <1>1, <1>2, <1>3 DEF RedisInv, TokensFit
<1>6. HoldersFit'
  BY <1>1, <1>2 DEF RedisInv, HoldersFit
<1>7. QED
  BY <1>4, <1>5, <1>6 DEF RedisInv

LEMMA RedisInvNext == RedisInv /\ [RedisNext]_slotVars => RedisInv'
<1> SUFFICES ASSUME RedisInv, [RedisNext]_slotVars PROVE RedisInv'
  OBVIOUS
<1>1. callStep \in [SlotCalls -> SlotSteps]
  BY DEF RedisInv, SlotsTyped
<1>2. CASE UNCHANGED slotVars
  BY <1>1, <1>2, CallsMoveOn DEF slotVars
<1>3. CASE Tick
  BY <1>1, <1>3, CallsMoveOn DEF Tick
<1>4. ASSUME NEW c \in SlotCalls,
             AskSlot(c) \/ RenewFails(c) \/ OperationEnds(c) \/ ReleaseFails(c) \/ ProcessDies(c)
      PROVE  RedisInv'
  <2>1. /\ UNCHANGED <<slots, promised, slotNow>> /\ callStep' \in [SlotCalls -> SlotSteps]
        /\ \A d \in SlotCalls : callStep'[d] \in {"running", "releasing"}
                                => callStep[d] \in {"running", "releasing"}
    BY <1>1, <1>4 DEF SlotSteps, AskSlot, RenewFails, OperationEnds, ReleaseFails, ProcessDies
  <2>2. QED
    BY <2>1, CallsMoveOn
<1>5. QED
  BY <1>2, <1>3, <1>4, AcquireKeeps, RenewKeeps, ReleaseKeeps DEF RedisNext

(***************************************************************************)
(* The limiter in memory.  Whoever waits stands in the queue once and runs *)
(* not yet; and only a full limiter has a queue.                           *)
(***************************************************************************)
LocalInv ==
    /\ localActive \subseteq LocalCalls /\ IsFiniteSet(localActive)
    /\ Cardinality(localActive) <= Cap
    /\ Once(localQueue, LocalCalls) /\ ToSet(localQueue) \cap localActive = {}
    /\ localQueue # <<>> => Cardinality(localActive) = Cap

LEMMA LocalInvInit == SlotInit => LocalInv
BY FS_EmptySet, NobodyQueues, SlotNumbers DEF SlotInit, LocalInv

\* drain() starts nobody, or the first of the queue.
LEMMA DrainsNobody ==
    ASSUME NEW A, NEW Q, Q \in Seq(LocalCalls), Cardinality(A) \in Nat,
           Q = <<>> \/ Cardinality(A) = Cap, Cardinality(A) <= Cap
    PROVE  Drained(A, Q) = [localActive |-> A, queue |-> Q]
<1>1. Len(Q) \in Nat /\ (Q = <<>> => Len(Q) = 0)
  OBVIOUS
<1>2. PICK n : n = IF Cap - Cardinality(A) < Len(Q) THEN Cap - Cardinality(A) ELSE Len(Q)
  OBVIOUS
<1>3. n = 0
  BY <1>1, <1>2, SlotNumbers
<1>4. {Q[i] : i \in 1 .. 0} = {}
  OBVIOUS
<1>5. SubSeq(Q, 0 + 1, Len(Q)) = Q
  BY <1>1, SubSeqProperties
<1>6. QED
  BY <1>2, <1>3, <1>4, <1>5 DEF Drained

LEMMA DrainsFirst ==
    ASSUME NEW A, NEW Q, Q \in Seq(LocalCalls), Q # <<>>, Cardinality(A) \in Nat,
           Cap - Cardinality(A) >= 1, Cap - Cardinality(A) = 1 \/ Len(Q) = 1
    PROVE  Drained(A, Q) = [localActive |-> A \cup {Head(Q)}, queue |-> Tail(Q)]
<1>1. Len(Q) \in Nat /\ Len(Q) >= 1 /\ Head(Q) = Q[1]
  OBVIOUS
<1>2. PICK n : n = IF Cap - Cardinality(A) < Len(Q) THEN Cap - Cardinality(A) ELSE Len(Q)
  OBVIOUS
<1>3. n = 1
  <2>1. PICK room : room = Cap - Cardinality(A)
    OBVIOUS
  <2>2. Cap \in Nat
    BY SlotNumbers
  <2>3. room \in Int /\ room >= 1 /\ (room = 1 \/ Len(Q) = 1)
    BY <2>1, <2>2
  <2>4. n = IF room < Len(Q) THEN room ELSE Len(Q)
    BY <1>2, <2>1
  <2>5. PICK k : k = Len(Q)
    OBVIOUS
  <2>6. k \in Int /\ k >= 1 /\ (room = 1 \/ k = 1) /\ n = IF room < k THEN room ELSE k
    BY <1>1, <2>3, <2>4, <2>5
  <2>7. QED
    BY <2>3, <2>6
<1>4. {Q[i] : i \in 1 .. 1} = {Head(Q)}
  BY <1>1
<1>5. SubSeq(Q, 1 + 1, Len(Q)) = Tail(Q)
  <2>1. SubSeq(Q, 2, Len(Q)) = Tail(Q)
    BY TailIsSubSeq
  <2>2. QED
    BY <2>1
<1>6. QED
  BY <1>2, <1>3, <1>4, <1>5 DEF Drained

LEMMA LocalRunKeeps == ASSUME LocalInv, NEW c \in LocalCalls, LocalRun(c) PROVE LocalInv'
<1>1. /\ Once(localQueue, LocalCalls) /\ c \notin ToSet(localQueue) /\ c \notin localActive
      /\ localQueue \in Seq(LocalCalls)
  BY DEF LocalInv, LocalRun, Once, ToSet
<1>2. PICK Q : Q = Append(localQueue, c)
  OBVIOUS
<1>3. Once(Q, LocalCalls) /\ ToSet(Q) = ToSet(localQueue) \cup {c} /\ Q # <<>> /\ Q \in Seq(LocalCalls)
  BY <1>1, <1>2, LastQueues DEF Once
<1>4. Cardinality(localActive) \in Nat /\ Cardinality(localActive) <= Cap
  BY FS_CardinalityType DEF LocalInv
<1>5. /\ localActive' = Drained(localActive, Q).localActive
      /\ localQueue' = Drained(localActive, Q).queue
  BY <1>2 DEF LocalRun
<1>6. CASE Cardinality(localActive) = Cap
  <2>1. localActive' = localActive /\ localQueue' = Q
    BY <1>3, <1>4, <1>5, <1>6, DrainsNobody
  <2>2. QED
    BY <1>1, <1>3, <1>6, <2>1 DEF LocalInv
<1>7. CASE Cardinality(localActive) # Cap
  <2>1. localQueue = <<>>
    BY <1>7 DEF LocalInv
  <2>2. Q = <<c>> /\ Len(Q) = 1 /\ Head(Q) = c /\ Tail(Q) = <<>>
    BY <1>2, <2>1
  <2>3. Cap - Cardinality(localActive) >= 1
    BY <1>4, <1>7, SlotNumbers
  <2>4. localActive' = localActive \cup {c} /\ localQueue' = <<>>
    <3>1. Drained(localActive, Q) = [localActive |-> localActive \cup {Head(Q)}, queue |-> Tail(Q)]
      BY <1>3, <1>4, <2>2, <2>3, DrainsFirst
    <3>2. QED
      BY <1>5, <2>2, <3>1
  <2>5. /\ IsFiniteSet(localActive \cup {c})
        /\ Cardinality(localActive \cup {c}) = Cardinality(localActive) + 1
    BY <1>1, FS_AddElement DEF LocalInv
  <2>6. Cardinality(localActive \cup {c}) <= Cap
    BY <1>4, <2>3, <2>5, SlotNumbers
  <2>7. QED
    BY <2>4, <2>5, <2>6, NobodyQueues DEF LocalInv
<1>8. QED
  BY <1>6, <1>7

LEMMA LocalEndsKeeps == ASSUME LocalInv, NEW c \in LocalCalls, LocalEnds(c) PROVE LocalInv'
<1> DEFINE A == localActive \ {c}
<1>1. /\ IsFiniteSet(A) /\ Cardinality(A) = Cardinality(localActive) - 1
      /\ Cardinality(localActive) \in Nat /\ Cardinality(localActive) <= Cap /\ Cardinality(A) \in Nat
  BY FS_RemoveElement, FS_CardinalityType DEF LocalInv, LocalEnds
<1>2. A \subseteq LocalCalls /\ localQueue \in Seq(LocalCalls) /\ ToSet(localQueue) \cap A = {}
  BY DEF LocalInv, Once
<1>3. /\ localActive' = Drained(A, localQueue).localActive
      /\ localQueue' = Drained(A, localQueue).queue
  BY DEF LocalEnds
<1> HIDE DEF A
<1>4. CASE localQueue = <<>>
  <2>1. Cardinality(A) <= Cap
    BY <1>1, SlotNumbers
  <2>2. localActive' = A /\ localQueue' = localQueue
    <3>1. Drained(A, localQueue) = [localActive |-> A, queue |-> localQueue]
      BY <1>1, <1>2, <1>4, <2>1, DrainsNobody
    <3>2. QED
      BY <1>3, <3>1
  <2>3. QED
    BY <1>1, <1>2, <1>4, <2>1, <2>2 DEF LocalInv
<1>5. CASE localQueue # <<>>
  <2>1. Cardinality(localActive) = Cap
    BY <1>5 DEF LocalInv
  <2>2. Cap - Cardinality(A) = 1
    BY <1>1, <2>1, SlotNumbers
  <2>3. localActive' = A \cup {Head(localQueue)} /\ localQueue' = Tail(localQueue)
    BY <1>1, <1>2, <1>3, <1>5, <2>2, DrainsFirst
  <2>4. /\ Once(Tail(localQueue), LocalCalls) /\ Head(localQueue) \in LocalCalls
        /\ Head(localQueue) \in ToSet(localQueue)
        /\ ToSet(Tail(localQueue)) = ToSet(localQueue) \ {Head(localQueue)}
    BY <1>5, FirstLeaves DEF LocalInv
  <2>5. Head(localQueue) \notin A
    BY <1>2, <2>4
  <2>6. /\ IsFiniteSet(A \cup {Head(localQueue)})
        /\ Cardinality(A \cup {Head(localQueue)}) = Cardinality(A) + 1
    BY <1>1, <2>5, FS_AddElement
  <2>7. Cardinality(A \cup {Head(localQueue)}) = Cap
    BY <1>1, <2>1, <2>6, SlotNumbers
  <2>8. QED
    BY <1>2, <2>3, <2>4, <2>6, <2>7, SlotNumbers DEF LocalInv
<1>6. QED
  BY <1>4, <1>5

LEMMA LocalInvNext == LocalInv /\ [LocalNext]_slotVars => LocalInv'
<1>1. LocalInv /\ UNCHANGED slotVars => LocalInv'
  BY DEF LocalInv, slotVars, localVars
<1>2. QED
  BY <1>1, LocalRunKeeps, LocalEndsKeeps DEF LocalNext

\* Each limiter leaves the state of the other one alone.
LEMMA LimitersApart ==
    /\ LocalNext => UNCHANGED <<slots, slotNow, callStep, promised>>
    /\ RedisNext => UNCHANGED localVars
BY DEF LocalNext, LocalRun, LocalEnds, RedisNext, AskSlot, AcquireSlot, Renew, RenewFails,
   OperationEnds, Release, ReleaseFails, ProcessDies, Tick

LEMMA SlotInvNext ==
    RedisInv /\ LocalInv /\ (RedisNext \/ LocalNext \/ UNCHANGED slotVars) => RedisInv' /\ LocalInv'
<1>1. RedisInv /\ UNCHANGED <<slots, slotNow, callStep, promised>> => RedisInv'
  BY DEF RedisInv, SlotsTyped, TokensFit, HoldersFit
<1>2. LocalInv /\ UNCHANGED localVars => LocalInv'
  BY DEF LocalInv, localVars
<1>3. QED
  BY <1>1, <1>2, RedisInvNext, LocalInvNext, LimitersApart

LEMMA SlotsFollow == RedisInv /\ LocalInv => SlotsAreLeased
BY DEF RedisInv, TokensFit, HoldersFit, LocalInv, SlotsAreLeased

(***************************************************************************)
(* The worker process.  What each stop has closed stays closed: no tick    *)
(* begins, no worker takes a job and nothing is in hand, until the         *)
(* database may be closed.                                                 *)
(***************************************************************************)
StopSteps == {"none", "server", "loop", "tick", "incremental", "backfill", "database", "done"}
JobsOf(lane) == {d \in handling : QueueOf(d) = lane}
AtRest == tickLane = "none" /\ ~looping /\ ~timer

StopFits(s) ==
    /\ stopStep[s] \in {"tick", "incremental", "backfill", "database"} => ~looping /\ ~timer
    /\ stopStep[s] \in {"incremental", "backfill", "database"} => tickLane = "none"
    /\ stopStep[s] \in {"backfill", "database"}
           => "incremental" \notin taking /\ JobsOf("incremental") = {}
    /\ stopStep[s] = "database" => "backfill" \notin taking /\ JobsOf("backfill") = {}

RuntimeInv ==
    /\ process \in {"down", "assembling", "up"} /\ (process = "down" <=> database = "closed")
    /\ stopStep \in [Stops -> StopSteps]
    /\ taking \subseteq QueueLanes
    /\ process # "up" => AtRest
    /\ process = "down" => taking = {}
    /\ taking = {} /\ process # "up" => handling = {}
    /\ process = "assembling" => \A s \in Stops : stopStep[s] = "none"
    /\ process = "up" => \A s \in Stops : StopFits(s)
    /\ jobQueue \cap handling = {}

LEMMA RuntimeInvInit == RuntimeInit => RuntimeInv
BY DEF RuntimeInit, RuntimeInv, AtRest, StopSteps

LEMMA ProcessKeeps == RuntimeInv /\ ProcessNext => RuntimeInv'
<1> SUFFICES ASSUME RuntimeInv, ProcessNext PROVE RuntimeInv'
  OBVIOUS
<1>1. CASE AssembleWorker
  BY <1>1 DEF RuntimeInv, AssembleWorker, AtRest, StopSteps, loopVars, rowVars, queueVars
<1>2. CASE AssembleFails
  BY <1>2 DEF RuntimeInv, AssembleFails, AtRest, StopSteps, loopVars, rowVars, queueVars
<1>3. CASE CreateScheduler
  BY <1>3 DEF RuntimeInv, CreateScheduler, AtRest, StopSteps, loopVars, rowVars, lifeVars, QueueLanes
<1>4. CASE Start
  BY <1>4 DEF RuntimeInv, Start, AtRest, StopSteps, StopFits, rowVars, queueVars, QueueLanes
<1>5. CASE Crash
  BY <1>5 DEF RuntimeInv, Crash, AtRest, StopSteps, rowVars
<1>6. CASE RedisIsLost
  <2>1. UNCHANGED <<process, database, stopStep, taking, tickLane, looping, timer, handling>>
        /\ jobQueue' = {}
    BY <1>6 DEF RedisIsLost, loopVars, rowVars, lifeVars
  <2>2. QED
    BY <2>1 DEF RuntimeInv, AtRest, StopFits, JobsOf
<1>7. QED
  BY <1>1, <1>2, <1>3, <1>4, <1>5, <1>6 DEF ProcessNext

LEMMA LoopKeeps == RuntimeInv /\ LoopNext => RuntimeInv'
<1> SUFFICES ASSUME RuntimeInv, LoopNext PROVE RuntimeInv'
  OBVIOUS
<1>1. UNCHANGED <<process, database, stopStep, taking, handling, looping>>
  BY DEF LoopNext, TickBegins, NextLane, TickEnds, TickThrows, TickDone, Enqueue, EnqueueFails,
     LeaseLapses, loopVars, rowVars, queueVars, lifeVars
<1>2. jobQueue' \cap handling = {}
  BY DEF RuntimeInv, LoopNext, TickBegins, NextLane, TickEnds, TickThrows, TickDone, Enqueue,
     EnqueueFails, LeaseLapses, loopVars, rowVars, queueVars, lifeVars
<1>3. ASSUME ~looping, ~timer PROVE ~timer' /\ (tickLane = "none" => tickLane' = "none")
  <2>1. CASE TickBegins \/ NextLane
    BY <1>3, <2>1 DEF TickBegins, NextLane, QueueLanes
  <2>2. CASE TickEnds \/ TickThrows
    <3>1. timer' = looping /\ tickLane' = "none"
      BY <2>2 DEF TickEnds, TickThrows, TickDone
    <3>2. QED
      BY <1>3, <3>1
  <2>3. ASSUME NEW d \in Deliveries, Enqueue(d) \/ EnqueueFails(d) \/ LeaseLapses(d)
        PROVE  timer' = timer /\ tickLane' = tickLane
    BY <2>3 DEF Enqueue, EnqueueFails, LeaseLapses, loopVars
  <2>4. QED
    BY <1>3, <2>1, <2>2, <2>3 DEF LoopNext
<1>4. process # "up" => AtRest'
  BY <1>1, <1>3 DEF RuntimeInv, AtRest
<1>5. process = "up" => \A s \in Stops : StopFits(s)'
  BY <1>1, <1>3 DEF RuntimeInv, StopFits, JobsOf
<1>6. QED
  BY <1>1, <1>2, <1>4, <1>5 DEF RuntimeInv

LEMMA WorkKeeps == RuntimeInv /\ WorkNext => RuntimeInv'
<1> SUFFICES ASSUME RuntimeInv, NEW d \in Deliveries, Take(d) \/ Handled(d) \/ HandlerThrows(d)
             PROVE  RuntimeInv'
  BY DEF WorkNext
<1>1. UNCHANGED <<process, database, stopStep, taking, tickLane, looping, timer>>
  BY DEF Take, Handled, HandlerThrows, loopVars, rowVars, lifeVars
<1>2. jobQueue' \cap handling' = {}
  BY DEF RuntimeInv, Take, Handled, HandlerThrows
<1>3. handling' \subseteq handling \cup {d} /\ (handling' \subseteq handling \/ QueueOf(d) \in taking)
  BY DEF Take, Handled, HandlerThrows
<1>4. taking = {} => handling' \subseteq handling
  BY <1>3
<1>5. \A lane : lane \notin taking /\ JobsOf(lane) = {} => JobsOf(lane)' = {}
  BY <1>3 DEF JobsOf, QueueOf
<1>6. \A s \in Stops : StopFits(s) => StopFits(s)'
  BY <1>1, <1>5 DEF StopFits
<1>7. QED
  BY <1>1, <1>2, <1>4, <1>6 DEF RuntimeInv, AtRest

LEMMA StopKeeps == RuntimeInv /\ StopNext => RuntimeInv'
<1> SUFFICES ASSUME RuntimeInv, NEW s \in Stops,
                    \/ StopCalled(s) \/ StopServer(s) \/ StopLoop(s) \/ TickAwaited(s)
                    \/ ClosingWorker(s) \/ CloseWorker(s) \/ CloseDatabase(s)
             PROVE  RuntimeInv'
  BY DEF StopNext
<1>1. stopStep \in [Stops -> StopSteps] /\ process = "up"
  BY DEF RuntimeInv, StopCalled, StopServer, StopLoop, TickAwaited, ClosingWorker, CloseWorker,
     CloseDatabase
<1>2. UNCHANGED <<tickLane, jobQueue, handling>> /\ jobQueue \cap handling = {}
  BY DEF RuntimeInv, StopCalled, StopServer, StopLoop, TickAwaited, ClosingWorker, CloseWorker,
     CloseDatabase, loopVars, queueVars
<1>3. \A r \in Stops : StopFits(r)
  BY <1>1 DEF RuntimeInv
<1>4. CASE CloseDatabase(s)
  <2>1. /\ database' = "closed" /\ process' = "down" /\ stopStep' = [stopStep EXCEPT ![s] = "done"]
        /\ UNCHANGED <<taking, looping, timer>> /\ stopStep[s] = "database"
    BY <1>4 DEF CloseDatabase, StepTo, loopVars, queueVars
  <2>2. AtRest /\ taking = {}
    BY <1>3, <2>1 DEF StopFits, AtRest, RuntimeInv, QueueLanes
  <2>3. JobsOf("incremental") = {} /\ JobsOf("backfill") = {}
    BY <1>3, <2>1 DEF StopFits
  <2>4. handling = {}
    BY <2>3 DEF JobsOf, QueueOf
  <2>5. stopStep' \in [Stops -> StopSteps]
    BY <1>1, <2>1 DEF StopSteps
  <2>6. QED
    BY <1>2, <2>1, <2>2, <2>4, <2>5 DEF RuntimeInv, AtRest
<1>5. CASE StopCalled(s) \/ StopServer(s) \/ StopLoop(s) \/ TickAwaited(s) \/ ClosingWorker(s)
           \/ CloseWorker(s)
  <2>1. UNCHANGED <<process, database>> /\ taking' \subseteq taking /\ stopStep' \in [Stops -> StopSteps]
    BY <1>1, <1>5 DEF StopCalled, StopServer, StopLoop, TickAwaited, ClosingWorker, CloseWorker, StepTo,
       StopSteps, loopVars, queueVars, lifeVars, QueueLanes
  <2>2. \/ UNCHANGED <<looping, timer>>
        \/ looping' = FALSE /\ timer' = FALSE
    BY <1>5 DEF StopCalled, StopServer, StopLoop, TickAwaited, ClosingWorker, CloseWorker, loopVars
  <2>3. ASSUME NEW r \in Stops, stopStep'[r] = stopStep[r] PROVE StopFits(r)'
    BY <1>2, <1>3, <2>1, <2>2, <2>3 DEF StopFits, JobsOf
  <2>4. \A r \in Stops : r = s \/ stopStep'[r] = stopStep[r]
    BY <1>1, <1>5 DEF StopCalled, StopServer, StopLoop, TickAwaited, ClosingWorker, CloseWorker, StepTo,
       lifeVars
  <2>5. StopFits(s)'
    <3>1. CASE ClosingWorker(s)
      BY <2>3, <3>1 DEF ClosingWorker, lifeVars
    <3>2. CASE StopCalled(s) \/ StopServer(s)
      BY <1>1, <3>2 DEF StopCalled, StopServer, StepTo, StopFits
    <3>3. CASE StopLoop(s)
      BY <1>1, <3>3 DEF StopLoop, StepTo, StopFits
    <3>4. CASE TickAwaited(s)
      BY <1>1, <1>3, <3>4 DEF TickAwaited, StepTo, StopFits, loopVars
    <3>5. CASE CloseWorker(s)
      <4>1. /\ stopStep[s] \in QueueLanes /\ taking' = taking \ {stopStep[s]}
            /\ JobsOf(stopStep[s]) = {} /\ UNCHANGED <<looping, timer>>
            /\ stopStep'[s] = IF stopStep[s] = "incremental" THEN "backfill" ELSE "database"
        BY <1>1, <3>5 DEF CloseWorker, StepTo, JobsOf, loopVars
      <4>2. QED
        BY <1>2, <1>3, <4>1 DEF StopFits, JobsOf, QueueLanes
    <3>6. QED
      BY <1>5, <3>1, <3>2, <3>3, <3>4, <3>5
  <2>6. QED
    BY <1>1, <1>2, <2>1, <2>3, <2>4, <2>5 DEF RuntimeInv
<1>6. QED
  BY <1>4, <1>5

LEMMA RuntimeInvNext ==
    /\ RuntimeInv /\ (ProcessNext \/ LoopNext \/ WorkNext \/ StopNext \/ PlanNext) => RuntimeInv'
    /\ RuntimeInv /\ UNCHANGED runtimeVars => RuntimeInv'
<1>1. RuntimeInv /\ UNCHANGED <<loopVars, queueVars, lifeVars>> => RuntimeInv'
  BY DEF RuntimeInv, AtRest, StopFits, JobsOf, loopVars, queueVars, lifeVars
<1>2. PlanNext => UNCHANGED <<loopVars, queueVars, lifeVars>>
  BY DEF PlanNext, PlanBegins, PlanSlice, PlanWindow, PlanFails
<1>3. QED
  BY <1>1, <1>2, ProcessKeeps, LoopKeeps, WorkKeeps, StopKeeps DEF runtimeVars

LEMMA StopsFollow == RuntimeInv => StopIsClean
BY DEF RuntimeInv, StopIsClean, StopFits, AtRest

(***************************************************************************)
(* The planner.  The slices of a window that were made, by whatever        *)
(* attempts, begin at its start and follow one another without gaps, so    *)
(* that an attempt that begins again meets the same slices.                *)
(***************************************************************************)
Aligned(size, x, y) == x = y \/ x + size <= y \/ y + size <= x
Covered(W, lo, at) == \A t \in lo .. at - 1 : \E w \in W : w[1] <= t /\ t < w[2]
Tiled(W, lo, hi, size) ==
    /\ \A w \in W : /\ w[1] \in Int /\ lo <= w[1] /\ w[1] < hi
                    /\ w = <<w[1], Earlier(w[1] + size, hi)>>
    /\ \A v, w \in W : Aligned(size, v[1], w[1])
    /\ \A w \in W : Covered(W, lo, w[1])
ReachedIn(W, lo, hi, size, at) ==
    /\ at \in Int /\ lo <= at /\ at < hi
    /\ Covered(W, lo, at) /\ \A w \in W : Aligned(size, at, w[1])

LEMMA TileEnds ==
    ASSUME NEW lo \in Int, NEW hi \in Int, NEW size \in Nat \ {0}, NEW W, Tiled(W, lo, hi, size), NEW w \in W
    PROVE  /\ w[1] \in Int /\ w[2] \in Int /\ lo <= w[1] /\ w[1] < w[2] /\ w[2] <= hi
           /\ w[2] = Earlier(w[1] + size, hi) /\ w[2] <= w[1] + size /\ w = <<w[1], w[2]>>
<1>1. w[1] \in Int /\ lo <= w[1] /\ w[1] < hi /\ w = <<w[1], Earlier(w[1] + size, hi)>>
  BY DEF Tiled
<1>2. w[2] = Earlier(w[1] + size, hi)
  BY <1>1
<1>3. QED
  BY <1>1, <1>2 DEF Earlier

LEMMA FirstReached ==
    ASSUME NEW lo \in Int, NEW hi \in Int, NEW size \in Nat \ {0}, NEW W, Tiled(W, lo, hi, size), lo < hi
    PROVE  ReachedIn(W, lo, hi, size, lo)
<1>1. Covered(W, lo, lo)
  BY DEF Covered
<1>2. ASSUME NEW w \in W PROVE Aligned(size, lo, w[1])
  <2>1. w[1] \in Int /\ lo <= w[1] /\ Covered(W, lo, w[1])
    BY DEF Tiled
  <2>2. CASE lo < w[1]
    <3>1. PICK v \in W : v[1] <= lo /\ lo < v[2]
      BY <2>1, <2>2 DEF Covered
    <3>2. v[1] = lo
      BY <3>1, TileEnds
    <3>3. QED
      BY <3>2 DEF Tiled
  <2>3. QED
    BY <2>1, <2>2 DEF Aligned
<1>3. QED
  BY <1>1, <1>2 DEF ReachedIn

LEMMA TilesGrow ==
    ASSUME NEW lo \in Int, NEW hi \in Int, NEW size \in Nat \ {0}, NEW W, Tiled(W, lo, hi, size),
           NEW at, ReachedIn(W, lo, hi, size, at), NEW to, to = Earlier(at + size, hi)
    PROVE  /\ Tiled(W \cup {<<at, to>>}, lo, hi, size)
           /\ to < hi => ReachedIn(W \cup {<<at, to>>}, lo, hi, size, to)
           /\ ~(to < hi) => Covered(W \cup {<<at, to>>}, lo, hi)
<1>1. /\ at \in Int /\ lo <= at /\ at < hi /\ Covered(W, lo, at)
      /\ \A w \in W : Aligned(size, at, w[1])
  BY DEF ReachedIn
<1>2. to \in Int /\ at < to /\ to <= hi /\ to <= at + size /\ (to < hi => to = at + size)
  BY <1>1 DEF Earlier
<1>3. PICK n : n = <<at, to>>
  OBVIOUS
<1>4. n[1] = at /\ n[2] = to /\ n = <<n[1], Earlier(n[1] + size, hi)>>
  BY <1>3
<1> DEFINE U == W \cup {n}
<1>5. \A x : Covered(W, lo, x) => Covered(U, lo, x)
  BY DEF Covered
<1>6. Covered(U, lo, to)
  <2>1. ASSUME NEW t \in lo .. to - 1 PROVE \E w \in U : w[1] <= t /\ t < w[2]
    <3>1. CASE t < at
      BY <1>1, <2>1, <3>1 DEF Covered
    <3>2. CASE ~(t < at)
      BY <1>1, <1>2, <1>4, <2>1, <3>2
    <3>3. QED
      BY <3>1, <3>2
  <2>2. QED
    BY <2>1 DEF Covered
<1>7. \A v, w \in U : Aligned(size, v[1], w[1])
  <2>1. \A v, w \in W : Aligned(size, v[1], w[1])
    BY DEF Tiled
  <2>2. \A w \in W : Aligned(size, w[1], at)
    BY <1>1 DEF Aligned
  <2>3. Aligned(size, at, at)
    BY DEF Aligned
  <2>4. QED
    BY <1>1, <1>4, <2>1, <2>2, <2>3
<1>8. Tiled(U, lo, hi, size)
  <2>1. \A w \in U : /\ w[1] \in Int /\ lo <= w[1] /\ w[1] < hi
                     /\ w = <<w[1], Earlier(w[1] + size, hi)>>
    BY <1>1, <1>4 DEF Tiled
  <2>2. \A w \in U : Covered(U, lo, w[1])
    BY <1>1, <1>4, <1>5 DEF Tiled
  <2>3. QED
    BY <1>7, <2>1, <2>2 DEF Tiled
<1>9. ASSUME to < hi PROVE ReachedIn(U, lo, hi, size, to)
  <2>1. ASSUME NEW w \in W PROVE Aligned(size, to, w[1])
    <3>1. w[1] \in Int /\ lo <= w[1] /\ Covered(W, lo, w[1]) /\ Aligned(size, at, w[1])
      BY <1>1 DEF Tiled
    <3>2. CASE w[1] <= at
      BY <1>1, <1>2, <1>9, <3>1, <3>2 DEF Aligned
    <3>3. CASE to < w[1]
      <4>1. PICK v \in W : v[1] <= to /\ to < v[2]
        BY <1>1, <1>2, <3>1, <3>3 DEF Covered
      <4>2. v[1] \in Int /\ v[2] <= v[1] + size /\ v[2] \in Int
        BY TileEnds
      <4>3. Aligned(size, at, v[1]) /\ Aligned(size, v[1], w[1])
        BY <1>1 DEF Tiled
      <4>4. v[1] = to
        BY <1>1, <1>2, <1>9, <4>1, <4>2, <4>3 DEF Aligned
      <4>5. QED
        BY <4>3, <4>4
    <3>4. CASE at < w[1] /\ w[1] <= to
      BY <1>1, <1>2, <1>9, <3>1, <3>4 DEF Aligned
    <3>5. QED
      BY <1>1, <1>2, <3>1, <3>2, <3>3, <3>4
  <2>2. Aligned(size, to, at)
    BY <1>1, <1>2, <1>9 DEF Aligned
  <2>3. \A w \in U : Aligned(size, to, w[1])
    BY <1>4, <2>1, <2>2
  <2>4. QED
    BY <1>1, <1>2, <1>6, <1>9, <2>3 DEF ReachedIn
<1>10. ~(to < hi) => Covered(U, lo, hi)
  <2>1. ~(to < hi) => to = hi
    BY <1>2
  <2>2. QED
    BY <1>6, <2>1
<1>11. QED
  BY <1>3, <1>8, <1>9, <1>10

LEMMA OneTileEach ==
    ASSUME NEW lo \in Int, NEW hi \in Int, NEW size \in Nat \ {0}, NEW W, Tiled(W, lo, hi, size),
           Covered(W, lo, hi), NEW t \in lo .. hi - 1
    PROVE  Cardinality({w \in W : w[1] <= t /\ t < w[2]}) = 1
<1>1. PICK w \in W : w[1] <= t /\ t < w[2]
  BY DEF Covered
<1>2. ASSUME NEW v \in W, v[1] <= t, t < v[2] PROVE v = w
  <2>1. /\ v[1] \in Int /\ v[2] \in Int /\ v[2] <= v[1] + size /\ v = <<v[1], Earlier(v[1] + size, hi)>>
        /\ w[1] \in Int /\ w[2] \in Int /\ w[2] <= w[1] + size /\ w = <<w[1], Earlier(w[1] + size, hi)>>
    BY TileEnds
  <2>2. Aligned(size, v[1], w[1])
    BY DEF Tiled
  <2>3. v[1] = w[1]
    BY <1>1, <1>2, <2>1, <2>2 DEF Aligned
  <2>4. QED
    BY <2>1, <2>3
<1>3. {x \in W : x[1] <= t /\ t < x[2]} = {w}
  BY <1>1, <1>2
<1>4. QED
  BY <1>3, FS_Singleton

\* What an attempt has made, where it goes on, and that nothing is made of a
\* request that is refused.
Sliced(r) == r.mode = "backfill" /\ ~PlanRefused(r)
PlanFits(r, windows, step, at) ==
    /\ PlanRefused(r) => windows = {} /\ step \in {"none", "refused"}
    /\ Sliced(r) =>
         /\ Tiled(windows, r.window[1], r.window[2], r.slice)
         /\ step = "planning" => ReachedIn(windows, r.window[1], r.window[2], r.slice, at)
         /\ step = "done" => Covered(windows, r.window[1], r.window[2])
PlanInv ==
    /\ DOMAIN made = PlanRequests /\ DOMAIN planStep = PlanRequests /\ DOMAIN planAt = PlanRequests
    /\ \A r \in PlanRequests : PlanFits(r, made[r], planStep[r], planAt[r])

LEMMA SlicedWindow ==
    ASSUME NEW r \in PlanRequests, Sliced(r)
    PROVE  /\ r.window[1] \in Int /\ r.window[2] \in Int /\ r.window[1] < r.window[2]
           /\ r.slice \in Nat \ {0}
BY RuntimeAssumption DEF Sliced, PlanRefused

LEMMA PlanInvInit == RuntimeInit => PlanInv
<1> SUFFICES ASSUME RuntimeInit PROVE PlanInv
  OBVIOUS
<1>1. \A r \in PlanRequests : made[r] = {} /\ planStep[r] = "none"
  BY DEF RuntimeInit
<1>2. \A r \in PlanRequests : PlanFits(r, made[r], planStep[r], planAt[r])
  BY <1>1 DEF PlanFits, Tiled
<1>3. QED
  BY <1>2 DEF PlanInv, RuntimeInit

\* A step of the planner concerns one request.
LEMMA OneRequest ==
    ASSUME PlanInv, NEW r \in PlanRequests, NEW W, NEW step, NEW at, PlanFits(r, W, step, at),
           made' = [made EXCEPT ![r] = W] \/ (made' = made /\ W = made[r]),
           planStep' = [planStep EXCEPT ![r] = step],
           planAt' = [planAt EXCEPT ![r] = at] \/ (planAt' = planAt /\ at = planAt[r])
    PROVE  PlanInv'
<1>1. \A q \in PlanRequests : PlanFits(q, made[q], planStep[q], planAt[q])
  BY DEF PlanInv
<1>2. /\ DOMAIN made' = PlanRequests /\ DOMAIN planStep' = PlanRequests
      /\ DOMAIN planAt' = PlanRequests
  BY DEF PlanInv
<1>3. made'[r] = W /\ planStep'[r] = step /\ planAt'[r] = at
  BY DEF PlanInv
<1>4. \A q \in PlanRequests : q # r =>
          made'[q] = made[q] /\ planStep'[q] = planStep[q] /\ planAt'[q] = planAt[q]
  BY DEF PlanInv
<1>5. \A q \in PlanRequests : PlanFits(q, made'[q], planStep'[q], planAt'[q])
  BY <1>1, <1>3, <1>4
<1>6. QED
  BY <1>2, <1>5 DEF PlanInv

LEMMA PlanKeeps == PlanInv /\ PlanNext => PlanInv'
<1> SUFFICES ASSUME PlanInv, NEW r \in PlanRequests,
                    PlanBegins(r) \/ PlanSlice(r) \/ PlanWindow(r) \/ PlanFails(r)
             PROVE  PlanInv'
  BY DEF PlanNext
<1>1. PlanFits(r, made[r], planStep[r], planAt[r])
  BY DEF PlanInv
<1>2. CASE PlanBegins(r)
  <2>1. PICK step : step = IF PlanRefused(r) THEN "refused" ELSE "planning"
    OBVIOUS
  <2>2. PICK at : at = IF r.mode = "backfill" /\ ~PlanRefused(r) THEN r.window[1] ELSE 0
    OBVIOUS
  <2>3. Sliced(r) => ReachedIn(made[r], r.window[1], r.window[2], r.slice, at)
    BY <1>1, <2>2, SlicedWindow, FirstReached DEF PlanFits, Sliced
  <2>4. PlanFits(r, made[r], step, at)
    BY <1>1, <2>1, <2>3 DEF PlanFits, Sliced
  <2>5. /\ made' = made /\ planStep' = [planStep EXCEPT ![r] = step]
        /\ planAt' = [planAt EXCEPT ![r] = at]
    BY <1>2, <2>1, <2>2 DEF PlanBegins
  <2>6. QED
    BY <2>4, <2>5, OneRequest
<1>3. CASE PlanSlice(r)
  <2>1. PICK to : to = Earlier(planAt[r] + r.slice, r.window[2])
    OBVIOUS
  <2>2. PICK W : W = made[r] \cup {<<planAt[r], to>>}
    OBVIOUS
  <2>3. PICK step : step = IF to < r.window[2] THEN planStep[r] ELSE "done"
    OBVIOUS
  <2>4. /\ r.mode = "backfill" /\ planStep[r] = "planning"
        /\ made' = [made EXCEPT ![r] = W] /\ planAt' = [planAt EXCEPT ![r] = to]
        /\ planStep' = [planStep EXCEPT ![r] = step]
    BY <1>3, <2>1, <2>2, <2>3 DEF PlanSlice
  <2>5. Sliced(r)
    BY <1>1, <2>4 DEF PlanFits, Sliced
  <2>6. /\ Tiled(made[r], r.window[1], r.window[2], r.slice)
        /\ ReachedIn(made[r], r.window[1], r.window[2], r.slice, planAt[r])
    BY <1>1, <2>4, <2>5 DEF PlanFits
  <2>7. /\ Tiled(W, r.window[1], r.window[2], r.slice)
        /\ to < r.window[2] => ReachedIn(W, r.window[1], r.window[2], r.slice, to)
        /\ ~(to < r.window[2]) => Covered(W, r.window[1], r.window[2])
    BY <2>1, <2>2, <2>5, <2>6, SlicedWindow, TilesGrow
  <2>8. PlanFits(r, W, step, to)
    BY <2>3, <2>4, <2>5, <2>7 DEF PlanFits, Sliced
  <2>9. QED
    BY <2>4, <2>8, OneRequest
<1>4. CASE PlanWindow(r)
  <2>1. /\ r.mode # "backfill" /\ planStep[r] = "planning" /\ planAt' = planAt
        /\ \E W, step : /\ planStep' = [planStep EXCEPT ![r] = step]
                        /\ made' = [made EXCEPT ![r] = W] \/ (made' = made /\ W = made[r])
    BY <1>4 DEF PlanWindow
  <2>2. PICK W, step : /\ planStep' = [planStep EXCEPT ![r] = step]
                       /\ made' = [made EXCEPT ![r] = W] \/ (made' = made /\ W = made[r])
    BY <2>1
  <2>3. PlanFits(r, W, step, planAt[r])
    BY <1>1, <2>1 DEF PlanFits, Sliced
  <2>4. QED
    BY <2>1, <2>2, <2>3, OneRequest
<1>5. CASE PlanFails(r)
  <2>1. /\ planStep[r] = "planning" /\ planStep' = [planStep EXCEPT ![r] = "failed"]
        /\ made' = made /\ planAt' = planAt
    BY <1>5 DEF PlanFails
  <2>2. PlanFits(r, made[r], "failed", planAt[r])
    BY <1>1, <2>1 DEF PlanFits
  <2>3. QED
    BY <2>1, <2>2, OneRequest
<1>6. QED
  BY <1>2, <1>3, <1>4, <1>5

LEMMA PlanInvNext ==
    /\ PlanInv /\ (ProcessNext \/ LoopNext \/ WorkNext \/ StopNext \/ PlanNext) => PlanInv'
    /\ PlanInv /\ UNCHANGED runtimeVars => PlanInv'
<1>1. PlanInv /\ UNCHANGED planVars => PlanInv'
  BY DEF PlanInv, planVars
<1>2. ProcessNext => UNCHANGED planVars
  BY DEF ProcessNext, AssembleWorker, AssembleFails, CreateScheduler, Start, Crash, RedisIsLost
<1>3. LoopNext => UNCHANGED planVars
  BY DEF LoopNext, TickBegins, NextLane, TickEnds, TickThrows, TickDone, Enqueue, EnqueueFails,
     LeaseLapses
<1>4. WorkNext => UNCHANGED planVars
  BY DEF WorkNext, Take, Handled, HandlerThrows
<1>5. StopNext => UNCHANGED planVars
  BY DEF StopNext, StopCalled, StopServer, StopLoop, TickAwaited, ClosingWorker, CloseWorker,
     CloseDatabase
<1>6. QED
  BY <1>1, <1>2, <1>3, <1>4, <1>5, PlanKeeps DEF runtimeVars

LEMMA PlansFollow == PlanInv => PlansCoverTheWindow
<1> SUFFICES ASSUME PlanInv, NEW r \in PlanRequests
             PROVE  /\ PlanRefused(r) => made[r] = {}
                    /\ r.mode = "backfill" /\ planStep[r] = "done" =>
                         \A t \in r.window[1]..(r.window[2] - 1) :
                             Cardinality({w \in made[r] : w[1] <= t /\ t < w[2]}) = 1
  BY DEF PlansCoverTheWindow
<1>1. PlanFits(r, made[r], planStep[r], planAt[r])
  BY DEF PlanInv
<1>2. ASSUME r.mode = "backfill", planStep[r] = "done", NEW t \in r.window[1]..(r.window[2] - 1)
      PROVE  Cardinality({w \in made[r] : w[1] <= t /\ t < w[2]}) = 1
  <2>1. Sliced(r)
    BY <1>1, <1>2 DEF PlanFits, Sliced
  <2>2. /\ Tiled(made[r], r.window[1], r.window[2], r.slice)
        /\ Covered(made[r], r.window[1], r.window[2])
    BY <1>1, <1>2, <2>1 DEF PlanFits
  <2>3. QED
    BY <1>2, <2>1, <2>2, SlicedWindow, OneTileEach
<1>3. QED
  BY <1>1, <1>2 DEF PlanFits

(***************************************************************************)
(* However the processes that share a source are scheduled, fail and are   *)
(* killed, a source is used within its slots: SourceConcurrency acquires,  *)
(* renews and releases.  However often stop() is called and whatever the   *)
(* loop and its workers have in hand, the database is closed under nobody. *)
(* And whatever attempts failed before, planTargetPartitions tiles the     *)
(* window of a backfill.                                                   *)
(***************************************************************************)
THEOREM WorkerStaysOrderly == WorkerSpec => []WorkerIsOrderly
<1> DEFINE Inv == RedisInv /\ LocalInv /\ RuntimeInv /\ PlanInv
<1>1. SlotInit /\ RuntimeInit => Inv
  BY RedisInvInit, LocalInvInit, RuntimeInvInit, PlanInvInit
<1>2. Inv /\ [WorkerNext]_<<slotVars, runtimeVars>> => Inv'
  BY SlotInvNext, RuntimeInvNext, PlanInvNext DEF WorkerNext
<1>3. Inv => WorkerIsOrderly
  BY SlotsFollow, StopsFollow, PlansFollow DEF WorkerIsOrderly
<1>4. QED
  BY <1>1, <1>2, <1>3, PTL DEF WorkerSpec

(***************************************************************************)
(* A release.  Whoever pays owns the lock file, one process at a time, and *)
(* counts what the journal counts; a call that is under way is the last    *)
(* reservation of the journal, and only that one may be without its        *)
(* settlement.  Processes that ended may leave such a one, and then nobody *)
(* pays any more.                                                          *)
(***************************************************************************)
ReleaseSpec == ReleaseInit /\ [][ReleaseNext]_releaseVars

Paying == {"working", "reserved", "called"}
RunOver == {"closing", "done", "dead"}
RunPlaces == {"idle", "ready", "verified", "reporting", "reporting-failure"} \cup Paying \cup RunOver
AllModes == {"none", "plan", "preflight", "live"}
Kinds == {"embedding", "chat"}
CallShape == [kind : Kinds, use : {"recall", "answer"}, item : Items]
RowShape == [item : Items, passed : BOOLEAN, on : DOMAIN Corpora]
Prints == {<<>>} \cup {Corpora[n].chunks : n \in DOMAIN Corpora}
RunShape ==
    [at : RunPlaces, mode : AllModes, from : Runs \cup {NoRun}, print : Prints, owns : BOOLEAN,
     spent : Nat, todo : Seq(CallShape), embeddings : Nat, chats : Nat, used : Nat,
     recalled : BOOLEAN, rows : SUBSET RowShape]
ReportShape == [mode : AllModes, failed : BOOLEAN, gate : BOOLEAN, recalled : BOOLEAN,
                rows : SUBSET RowShape, print : Prints]
JournalShape == [reserved : Nat, settled : Nat, spent : Nat, held : Nat, torn : BOOLEAN]
ReleaseTyped ==
    /\ journal \in JournalShape /\ lock \in BOOLEAN /\ corpus \in DOMAIN Corpora /\ callsSent \in Nat
    /\ release \in [Runs -> RunShape] /\ reports \in [Runs -> ReportShape]

JournalFits ==
    /\ journal.settled <= journal.reserved /\ journal.reserved <= journal.settled + 1
    /\ journal.reserved = journal.settled => journal.held = 0
    /\ callsSent <= journal.reserved /\ callsSent <= journal.settled + 1
    /\ journal.spent + journal.held <= Allowance
OneOwner == \A q, r \in Runs : release[q].owns /\ release[r].owns => q = r
\* An embedding for an answer is followed by the call of the model.
TodoFits(s) == \A n \in 1 .. Len(s) : s[n].use = "answer" /\ s[n].kind = "embedding" => n < Len(s)
MoneyFits(run) ==
    /\ run.owns => lock
    /\ run.at = "verified" => run.mode = "live"
    /\ run.at \in Paying =>
           run.owns /\ run.mode = "live" /\ TodoFits(run.todo) /\ run.spent = journal.spent
    /\ run.at = "working" => journal.reserved = journal.settled
    /\ run.at \in {"reserved", "called"} =>
           run.todo # <<>> /\ journal.reserved = journal.settled + 1
    /\ run.at = "reserved" =>
           callsSent <= journal.settled /\ journal.held = Reserves[Head(run.todo).kind]
    /\ run.at = "called" => run.used <= journal.held
SpendInv == ReleaseTyped /\ JournalFits /\ OneOwner /\ \A r \in Runs : MoneyFits(release[r])

OnOne(rows, print) == \A x \in rows : Corpora[x.on].chunks = print
Measured(rows, print) ==
    \E p \in 1 .. corpus :
        /\ Corpora[p].chunks = print
        /\ \A x \in rows : Corpora[x.on].chunks = print \/ (p <= x.on /\ x.on <= corpus)
MeasureFits(run) ==
    /\ run.at \in {"idle", "ready", "verified"} => run.rows = {}
    /\ run.at \in {"ready", "verified"} /\ run.from # NoRun =>
           reports[run.from].mode = "live" /\ ~reports[run.from].failed
    /\ run.at = "verified" /\ run.from # NoRun => reports[run.from].print = run.print
    /\ run.at \in {"verified"} \cup Paying => Measured(run.rows, run.print)
    /\ run.at = "reporting" => OnOne(run.rows, run.print)
ReportFits(r) ==
    /\ reports[r].mode = "live" /\ ~reports[r].failed => OnOne(reports[r].rows, reports[r].print)
    /\ reports[r].gate => reports[r].mode = "live" /\ ~reports[r].failed /\ AllPass(reports[r].rows)
    /\ reports[r].mode # "none" => release[r].at \in RunOver
MeasureInv == \A r \in Runs : MeasureFits(release[r]) /\ ReportFits(r)

\* A corpus that was left does not come back.
CorpusKeepsGoing ==
    \A i, k, n \in DOMAIN Corpora :
        i <= k /\ k <= n /\ Corpora[i].chunks = Corpora[n].chunks => Corpora[k].chunks = Corpora[n].chunks

LEMMA ReleaseNumbers ==
    /\ Reserves["embedding"] \in Nat \ {0} /\ Reserves["chat"] \in Nat \ {0}
    /\ \A k \in Kinds : Reserves[k] \in Nat \ {0}
    /\ Allowance \in Nat /\ Len(Corpora) \in Nat \ {0} /\ DOMAIN Corpora = 1 .. Len(Corpora)
BY ReleaseAssumption DEF Kinds

(***************************************************************************)
(* The calls of a run: their sequence is typed, and it fits.               *)
(***************************************************************************)
LEMMA SequenceOfSet ==
    ASSUME NEW S, IsFiniteSet(S)
    PROVE  Cardinality(S) \in Nat /\ \A n \in 1 .. Cardinality(S) : SetToSeq(S)[n] \in S
<1>1. Cardinality(S) \in Nat /\ ExistsBijection(1 .. Cardinality(S), S)
  BY FS_CardinalityType
<1>2. PICK f \in [1 .. Cardinality(S) -> S] : IsInjective(f)
  BY <1>1 DEF ExistsBijection, Bijection, Injection
<1>3. SetToSeq(S) \in [1 .. Cardinality(S) -> S]
  BY <1>2 DEF SetToSeq
<1>4. QED
  BY <1>1, <1>3

LEMMA WorkFits ==
    ASSUME NEW r \in Runs
    PROVE  Work(r) \in Seq(CallShape) /\ TodoFits(Work(r))
<1> DEFINE recall == [n \in 1 .. Cardinality(Positive) |->
                          Call("embedding", "recall", SetToSeq(Positive)[n])]
           asked == IF FreshRun(r) THEN Items ELSE {Retried}
           Answers == [n \in 1 .. 2 * Cardinality(asked) |->
                           Call(IF n % 2 = 1 THEN "embedding" ELSE "chat", "answer",
                                SetToSeq(asked)[(n + 1) \div 2])]
           first == IF FreshRun(r) THEN recall ELSE <<>>
<1>1. IsFiniteSet(Positive) /\ IsFiniteSet(asked) /\ Positive \subseteq Items /\ asked \subseteq Items
  <2>1. Positive \subseteq Items /\ IsFiniteSet(Items) /\ Retried \in Items
    BY ReleaseAssumption DEF Positive
  <2>2. IsFiniteSet(Positive) /\ IsFiniteSet({Retried})
    BY <2>1, FS_Subset, FS_Singleton
  <2>3. QED
    BY <2>1, <2>2
<1> HIDE DEF asked
<1>2. PICK m \in Nat, k \in Nat : m = Cardinality(Positive) /\ k = Cardinality(asked)
  BY <1>1, SequenceOfSet
<1>3. recall \in Seq(CallShape) /\ Len(recall) = m /\ \A n \in 1 .. m : recall[n].use = "recall"
  <2>1. \A n \in 1 .. m : Call("embedding", "recall", SetToSeq(Positive)[n]) \in CallShape
    BY <1>1, <1>2, SequenceOfSet DEF Call, CallShape, Kinds
  <2>2. recall \in [1 .. m -> CallShape]
    BY <1>2, <2>1
  <2>3. \A n \in 1 .. m : recall[n].use = "recall"
    BY <1>2 DEF Call
  <2> HIDE DEF recall
  <2>4. QED
    BY <2>2, <2>3
<1>4. /\ Answers \in Seq(CallShape) /\ Len(Answers) = 2 * k
      /\ \A n \in 1 .. 2 * k : Answers[n].kind = "embedding" => n % 2 = 1
  <2>1. \A n \in 1 .. 2 * k : (n + 1) \div 2 \in 1 .. k
    OBVIOUS
  <2>2. \A n \in 1 .. 2 * k : SetToSeq(asked)[(n + 1) \div 2] \in Items
    BY <1>1, <1>2, <2>1, SequenceOfSet
  <2>3. \A n \in 1 .. 2 * k : Answers[n] = Call(IF n % 2 = 1 THEN "embedding" ELSE "chat", "answer",
                                                SetToSeq(asked)[(n + 1) \div 2])
    BY <1>2
  <2>4. DOMAIN Answers = 1 .. 2 * k /\ Answers = [n \in 1 .. 2 * k |-> Answers[n]]
    BY <1>2
  <2> HIDE DEF Answers
  <2>5. \A n \in 1 .. 2 * k : Answers[n] \in CallShape /\ (Answers[n].kind = "embedding" => n % 2 = 1)
    <3>1. ASSUME NEW n \in 1 .. 2 * k
          PROVE  Answers[n] \in CallShape /\ (Answers[n].kind = "embedding" => n % 2 = 1)
      <4>1. PICK i : i = SetToSeq(asked)[(n + 1) \div 2]
        OBVIOUS
      <4>2. PICK q : q = IF n % 2 = 1 THEN "embedding" ELSE "chat"
        OBVIOUS
      <4>3. i \in Items /\ q \in Kinds /\ (q = "embedding" => n % 2 = 1)
        BY <2>2, <4>1, <4>2 DEF Kinds
      <4>4. Answers[n] = [kind |-> q, use |-> "answer", item |-> i]
        BY <2>3, <4>1, <4>2 DEF Call
      <4>5. QED
        BY <4>3, <4>4 DEF CallShape
    <3>2. QED
      BY <3>1
  <2>6. Answers \in [1 .. 2 * k -> CallShape]
    BY <2>4, <2>5
  <2>7. QED
    BY <2>5, <2>6
<1>5. first \in Seq(CallShape) /\ \A n \in 1 .. Len(first) : first[n].use = "recall"
  <2> HIDE DEF recall
  <2>1. QED
    BY <1>3
<1>6. Work(r) = first \o Answers
  BY DEF Work, asked
<1> HIDE DEF first, Answers
<1>7. /\ Work(r) \in Seq(CallShape) /\ Len(Work(r)) = Len(first) + 2 * k
      /\ \A n \in 1 .. Len(first) + 2 * k :
             Work(r)[n] = IF n <= Len(first) THEN first[n] ELSE Answers[n - Len(first)]
  <2>1. first \in Seq(CallShape) /\ Answers \in Seq(CallShape) /\ Len(Answers) = 2 * k
    BY <1>4, <1>5
  <2>2. /\ first \o Answers \in Seq(CallShape)
        /\ Len(first \o Answers) = Len(first) + Len(Answers)
        /\ \A n \in 1 .. Len(first) + Len(Answers) :
               (first \o Answers)[n] = IF n <= Len(first) THEN first[n] ELSE Answers[n - Len(first)]
    BY <2>1, ConcatProperties
  <2>3. QED
    BY <1>6, <2>1, <2>2
<1>8. ASSUME NEW n \in 1 .. Len(Work(r)), Work(r)[n].use = "answer", Work(r)[n].kind = "embedding"
      PROVE  n < Len(Work(r))
  <2>1. PICK l \in Nat : l = Len(first)
    BY <1>5
  <2>2. n > l
    BY <1>5, <1>7, <1>8, <2>1
  <2>3. n - l \in 1 .. 2 * k /\ Work(r)[n] = Answers[n - l]
    BY <1>7, <1>8, <2>1, <2>2
  <2>4. (n - l) % 2 = 1
    BY <1>4, <1>8, <2>3
  <2>5. n - l # 2 * k
    BY <2>4
  <2>6. QED
    BY <1>7, <2>1, <2>3, <2>5
<1>9. QED
  BY <1>7, <1>8 DEF TodoFits

\* What is left after a call fits as well.
LEMMA TailFits ==
    ASSUME NEW s \in Seq(CallShape), s # <<>>, TodoFits(s)
    PROVE  /\ Head(s) \in CallShape /\ Tail(s) \in Seq(CallShape) /\ TodoFits(Tail(s))
           /\ Head(s).use = "answer" /\ Head(s).kind = "embedding" => Tail(s) # <<>>
<1>1. /\ Head(s) \in CallShape /\ Tail(s) \in Seq(CallShape) /\ Len(Tail(s)) = Len(s) - 1
      /\ \A i \in 1 .. Len(Tail(s)) : Tail(s)[i] = s[i + 1]
  BY HeadTailProperties
<1>2. PICK l \in Nat : l = Len(s)
  OBVIOUS
<1> DEFINE t == Tail(s)
<1> HIDE DEF t
<1>3. Len(t) = l - 1 /\ l > 0 /\ \A i \in 1 .. l - 1 : t[i] = s[i + 1] /\ i + 1 \in 1 .. l
  BY <1>1, <1>2 DEF t
<1>4. \A n \in 1 .. l : s[n].use = "answer" /\ s[n].kind = "embedding" => n < l
  BY <1>2 DEF TodoFits
<1>5. TodoFits(t)
  BY <1>3, <1>4 DEF TodoFits
<1>6. ASSUME s[1].use = "answer" /\ s[1].kind = "embedding" PROVE t # <<>>
  <2>1. 1 < l
    BY <1>3, <1>4, <1>6
  <2>2. QED
    BY <1>3, <2>1
<1>7. Head(s) = s[1]
  OBVIOUS
<1>8. QED
  BY <1>1, <1>2, <1>5, <1>6, <1>7 DEF t

(***************************************************************************)
(* The money.  One process moves: the others do not pay, or nothing that   *)
(* they count has moved.                                                   *)
(***************************************************************************)
LEMMA SpendTyped ==
    ASSUME SpendInv, NEW r \in Runs
    PROVE  /\ ReleaseTyped /\ JournalFits /\ OneOwner /\ MoneyFits(release[r]) /\ release[r] \in RunShape
           /\ release[r].todo \in Seq(CallShape)
           /\ release[r].spent \in Nat /\ release[r].used \in Nat
           /\ release[r].embeddings \in Nat /\ release[r].chats \in Nat
           /\ journal \in JournalShape /\ callsSent \in Nat
           /\ journal.reserved \in Nat /\ journal.settled \in Nat /\ journal.spent \in Nat
           /\ journal.held \in Nat /\ journal.torn \in BOOLEAN
<1>1. ReleaseTyped /\ JournalFits /\ OneOwner /\ MoneyFits(release[r])
  BY DEF SpendInv
<1>2. release[r] \in RunShape /\ journal \in JournalShape /\ callsSent \in Nat
  BY <1>1 DEF ReleaseTyped
<1>3. /\ release[r].todo \in Seq(CallShape) /\ release[r].spent \in Nat /\ release[r].used \in Nat
      /\ release[r].embeddings \in Nat /\ release[r].chats \in Nat
  BY <1>2 DEF RunShape
<1>4. /\ journal.reserved \in Nat /\ journal.settled \in Nat /\ journal.spent \in Nat
      /\ journal.held \in Nat /\ journal.torn \in BOOLEAN
  BY <1>2 DEF JournalShape
<1>5. QED
  BY <1>1, <1>2, <1>3, <1>4

LEMMA SpendMoves ==
    ASSUME SpendInv, NEW r \in Runs, NEW new \in RunShape, release' = [release EXCEPT ![r] = new],
           journal' \in JournalShape, lock' \in BOOLEAN, corpus' \in DOMAIN Corpora,
           callsSent' \in Nat, reports' \in [Runs -> ReportShape],
           JournalFits', MoneyFits(new)',
           release[r].owns \/ (journal' = journal /\ callsSent' = callsSent),
           lock => lock' \/ release[r].owns,
           new.owns => release[r].owns \/ ~lock
    PROVE  SpendInv'
<1>1. release \in [Runs -> RunShape] /\ OneOwner /\ \A q \in Runs : MoneyFits(release[q])
  BY DEF SpendInv, ReleaseTyped
<1>2. release' \in [Runs -> RunShape] /\ release'[r] = new /\ \A q \in Runs \ {r} : release'[q] = release[q]
  BY <1>1
<1>3. \A q \in Runs : release[q].owns => lock
  BY <1>1 DEF MoneyFits
<1>4. OneOwner'
  <2>1. ASSUME NEW q \in Runs, NEW p \in Runs, release'[q].owns, release'[p].owns PROVE q = p
    <3>1. CASE q = r /\ p # r
      BY <1>1, <1>2, <1>3, <2>1, <3>1 DEF OneOwner
    <3>2. CASE q # r /\ p = r
      BY <1>1, <1>2, <1>3, <2>1, <3>2 DEF OneOwner
    <3>3. CASE q # r /\ p # r
      BY <1>1, <1>2, <2>1, <3>3 DEF OneOwner
    <3>4. QED
      BY <3>1, <3>2, <3>3
  <2>2. QED
    BY <2>1 DEF OneOwner
<1>5. ASSUME NEW q \in Runs PROVE MoneyFits(release[q])'
  <2>1. CASE q = r
    <3>1. release'[q] = new
      BY <1>2, <2>1
    <3>2. QED
      BY <3>1 DEF MoneyFits
  <2>2. CASE q # r
    <3>1. PICK run : run = release[q]
      OBVIOUS
    <3>2. MoneyFits(run) /\ release'[q] = run
      BY <1>1, <1>2, <2>2, <3>1
    <3>3. run.owns => lock' /\ ~release[r].owns
      BY <1>1, <1>3, <2>2, <3>1 DEF OneOwner
    <3>4. run.at \in Paying => run.owns
      BY <3>2 DEF MoneyFits
    <3>5. MoneyFits(run)'
      <4>1. CASE journal' = journal /\ callsSent' = callsSent
        BY <3>2, <3>3, <4>1 DEF MoneyFits
      <4>2. CASE release[r].owns
        <5>1. run.at \notin Paying /\ ~run.owns
          BY <3>3, <3>4, <4>2
        <5>2. QED
          BY <3>2, <5>1 DEF MoneyFits, Paying
      <4>3. QED
        BY <4>1, <4>2
    <3>6. QED
      BY <3>2, <3>5 DEF MoneyFits
  <2>3. QED
    BY <2>1, <2>2
<1>6. ReleaseTyped'
  BY <1>2 DEF ReleaseTyped
<1>7. QED
  BY <1>4, <1>5, <1>6 DEF SpendInv

\* A process that does not pay after its step.
LEMMA SpendRests ==
    ASSUME SpendInv, NEW r \in Runs, NEW new \in RunShape, release' = [release EXCEPT ![r] = new],
           new.at \notin Paying, new.owns = release[r].owns, new.at = "verified" => new.mode = "live",
           journal' \in JournalShape, lock' = lock, corpus' = corpus, callsSent' \in Nat,
           reports' \in [Runs -> ReportShape],
           \/ journal' = journal /\ callsSent' = callsSent
           \/ release[r].owns /\ JournalFits'
    PROVE  SpendInv'
<1>1. JournalFits'
  BY DEF SpendInv, JournalFits
<1>2. lock \in BOOLEAN /\ corpus \in DOMAIN Corpora /\ (release[r].owns => lock)
  BY DEF SpendInv, ReleaseTyped, MoneyFits
<1>3. MoneyFits(new)'
  BY <1>2 DEF MoneyFits, Paying
<1>4. QED
  BY <1>1, <1>2, <1>3, SpendMoves

\* A process that goes to a place where it does not pay.
LEMMA SpendLeaves ==
    ASSUME SpendInv, NEW r \in Runs, NEW at \in RunPlaces \ (Paying \cup {"verified"}), RunAt(r, at),
           journal' \in JournalShape, lock' = lock, corpus' = corpus, callsSent' \in Nat,
           reports' \in [Runs -> ReportShape],
           \/ journal' = journal /\ callsSent' = callsSent
           \/ release[r].owns /\ JournalFits'
    PROVE  SpendInv'
<1>1. PICK run \in RunShape : run = release[r]
  BY SpendTyped
<1>2. PICK new : new = [run EXCEPT !.at = at]
  OBVIOUS
<1>3. new \in RunShape /\ new.at = at /\ new.owns = run.owns
  BY <1>1, <1>2 DEF RunShape
<1>4. release' = [release EXCEPT ![r] = new]
  BY <1>1, <1>2 DEF RunAt
<1>5. QED
  BY <1>1, <1>3, <1>4, SpendRests

LEMMA SpendInit == ReleaseInit => SpendInv
<1> SUFFICES ASSUME ReleaseInit PROVE SpendInv
  OBVIOUS
<1>1. /\ journal = NoLines /\ lock = FALSE /\ corpus = 1 /\ callsSent = 0
      /\ release = [r \in Runs |-> Idle] /\ reports = [r \in Runs |-> Unwritten]
  BY DEF ReleaseInit
<1>2. Idle \in RunShape
  <2>1. <<>> \in Seq(CallShape) /\ {} \in SUBSET RowShape /\ <<>> \in Prints
    BY DEF Prints
  <2>2. QED
    BY <2>1 DEF Idle, RunShape, RunPlaces, AllModes
<1>3. Unwritten \in ReportShape
  BY DEF Unwritten, ReportShape, AllModes, Prints
<1>4. journal \in JournalShape /\ JournalFits
  BY <1>1, ReleaseNumbers DEF NoLines, JournalShape, JournalFits
<1>5. 1 \in DOMAIN Corpora
  BY ReleaseNumbers
<1>6. ReleaseTyped
  BY <1>1, <1>2, <1>3, <1>4, <1>5 DEF ReleaseTyped
<1>7. \A r \in Runs : ~release[r].owns /\ release[r].at = "idle"
  BY <1>1 DEF Idle
<1>8. OneOwner
  BY <1>7 DEF OneOwner
<1>9. \A r \in Runs : MoneyFits(release[r])
  BY <1>7 DEF MoneyFits, Paying
<1>10. QED
  BY <1>4, <1>6, <1>8, <1>9 DEF SpendInv

LEMMA BeginSpends ==
    ASSUME SpendInv, NEW r \in Runs, NEW mode \in Modes, NEW s \in Runs \cup {NoRun}, Begin(r, mode, s)
    PROVE  SpendInv'
<1>1. PICK run \in RunShape : run = release[r]
  BY SpendTyped
<1>2. PICK at \in {"reporting-failure", "reporting", "ready"} :
          release' = [release EXCEPT ![r] = [run EXCEPT !.mode = mode, !.from = s, !.at = at]]
  BY <1>1 DEF Begin
<1>3. PICK new : new = [run EXCEPT !.mode = mode, !.from = s, !.at = at]
  OBVIOUS
<1>4. mode \in AllModes
  BY ReleaseAssumption DEF AllModes
<1>5. new \in RunShape /\ new.at = at /\ new.owns = run.owns
  BY <1>1, <1>3, <1>4 DEF RunShape, RunPlaces
<1>6. at \notin Paying
  BY DEF Paying
<1>7. /\ journal' = journal /\ callsSent' = callsSent /\ lock' = lock /\ corpus' = corpus
      /\ reports' = reports
  BY DEF Begin
<1>8. journal \in JournalShape /\ callsSent \in Nat /\ reports \in [Runs -> ReportShape]
  BY DEF SpendInv, ReleaseTyped
<1>9. QED
  BY <1>1, <1>2, <1>3, <1>5, <1>6, <1>7, <1>8, SpendRests

LEMMA PreflightSpends == ASSUME SpendInv, NEW r \in Runs, Preflight(r) PROVE SpendInv'
<1>1. /\ journal' = journal /\ callsSent' = callsSent /\ lock' = lock /\ corpus' = corpus
      /\ reports' = reports
  BY DEF Preflight
<1>2. /\ journal \in JournalShape /\ callsSent \in Nat /\ reports \in [Runs -> ReportShape]
      /\ corpus \in DOMAIN Corpora
  BY DEF SpendInv, ReleaseTyped
<1>3. CASE RunFails(r)
  <2>1. RunAt(r, "reporting-failure") /\ "reporting-failure" \in RunPlaces \ (Paying \cup {"verified"})
    BY <1>3 DEF RunFails, RunPlaces, Paying
  <2>2. QED
    BY <1>1, <1>2, <2>1, SpendLeaves
<1>4. CASE ~RunFails(r)
  <2>1. PICK run \in RunShape : run = release[r]
    BY SpendTyped
  <2>2. PICK at \in {"verified", "reporting"} :
            /\ release' = [release EXCEPT ![r] = [run EXCEPT !.at = at, !.print = Fingerprint]]
            /\ at = "verified" => run.mode = "live"
    BY <1>4, <2>1 DEF Preflight
  <2>3. PICK new : new = [run EXCEPT !.at = at, !.print = Fingerprint]
    OBVIOUS
  <2>4. Fingerprint \in Prints
    BY <1>2 DEF Fingerprint, Now, Prints
  <2>5. /\ new \in RunShape /\ new.at = at /\ new.owns = run.owns
        /\ at = "verified" => new.mode = "live"
    BY <2>1, <2>2, <2>3, <2>4 DEF RunShape, RunPlaces
  <2>6. at \notin Paying
    BY DEF Paying
  <2>7. QED
    BY <1>1, <1>2, <2>1, <2>2, <2>3, <2>5, <2>6, SpendRests
<1>5. QED
  BY <1>3, <1>4

LEMMA OpenSpends == ASSUME SpendInv, NEW r \in Runs, Open(r) PROVE SpendInv'
<1>1. /\ journal' = journal /\ callsSent' = callsSent /\ corpus' = corpus /\ reports' = reports
      /\ release[r].at = "verified"
  BY DEF Open
<1>2. /\ journal \in JournalShape /\ callsSent \in Nat /\ reports \in [Runs -> ReportShape]
      /\ corpus \in DOMAIN Corpora
  BY DEF SpendInv, ReleaseTyped
<1>3. CASE RunFails(r) /\ lock' = lock
  <2>1. RunAt(r, "reporting-failure") /\ "reporting-failure" \in RunPlaces \ (Paying \cup {"verified"})
    BY <1>3 DEF RunFails, RunPlaces, Paying
  <2>2. QED
    BY <1>1, <1>2, <1>3, <2>1, SpendLeaves
<1>4. CASE ~(RunFails(r) /\ lock' = lock)
  <2>1. PICK run \in RunShape : run = release[r]
    BY SpendTyped
  <2>2. PICK at : at = IF Ready(r) THEN "working" ELSE "reporting-failure"
    OBVIOUS
  <2>3. PICK new : new = [run EXCEPT !.owns = TRUE, !.spent = journal.spent, !.todo = Work(r),
                                     !.rows = Reused(r), !.at = at]
    OBVIOUS
  <2>4. ~lock /\ lock' = TRUE /\ release' = [release EXCEPT ![r] = new]
    BY <1>4, <2>1, <2>2, <2>3 DEF Open
  <2>5. Work(r) \in Seq(CallShape) /\ TodoFits(Work(r))
    BY WorkFits
  <2>6. Reused(r) \in SUBSET RowShape
    <3>1. run.from \in Runs \cup {NoRun}
      BY <2>1 DEF RunShape
    <3>2. \A s \in Runs : reports[s].rows \in SUBSET RowShape
      BY <1>2 DEF ReportShape
    <3>3. QED
      BY <2>1, <3>1, <3>2 DEF Reused, FreshRun
  <2>7. journal.spent \in Nat /\ journal.reserved \in Nat /\ journal.settled \in Nat /\ JournalFits
    BY SpendTyped
  <2>8. at \in {"working", "reporting-failure"} /\ at \in RunPlaces
    BY <2>2 DEF RunPlaces, Paying
  <2>9. /\ new \in RunShape /\ new.at = at /\ new.owns = TRUE /\ new.todo = Work(r)
        /\ new.spent = journal.spent /\ new.mode = run.mode
    <3>1. new = [at |-> at, mode |-> run.mode, from |-> run.from, print |-> run.print, owns |-> TRUE,
                 spent |-> journal.spent, todo |-> Work(r), embeddings |-> run.embeddings,
                 chats |-> run.chats, used |-> run.used, recalled |-> run.recalled,
                 rows |-> Reused(r)]
      BY <2>1, <2>3 DEF RunShape
    <3>2. /\ run.mode \in AllModes /\ run.from \in Runs \cup {NoRun} /\ run.print \in Prints
          /\ run.embeddings \in Nat /\ run.chats \in Nat /\ run.used \in Nat /\ run.recalled \in BOOLEAN
      BY <2>1 DEF RunShape
    <3>3. QED
      BY <2>5, <2>6, <2>7, <2>8, <3>1, <3>2 DEF RunShape
  <2>10. run.mode = "live"
    BY <1>1, <2>1, SpendTyped DEF MoneyFits
  <2>11. at = "working" => journal.reserved = journal.settled
    BY <2>2, <2>7 DEF Ready, Pending, JournalFits
  <2>12. MoneyFits(new)'
    BY <1>1, <2>4, <2>5, <2>8, <2>9, <2>10, <2>11 DEF MoneyFits, Paying
  <2>13. JournalFits'
    BY <1>1, <2>7 DEF JournalFits
  <2>14. QED
    BY <1>1, <1>2, <2>1, <2>4, <2>9, <2>12, <2>13, SpendMoves
<1>5. QED
  BY <1>3, <1>4

\* A failed write of a line that fits leaves a journal that fits.
LEMMA FailedWrite ==
    ASSUME SpendInv, NEW r \in Runs, release[r].at \in Paying, NEW written \in JournalShape,
           RunFails(r) \/ RunAt(r, "dead"), journal' \in {journal, written, CutOff},
           journal' = written => JournalFits',
           lock' = lock, corpus' = corpus, callsSent' = callsSent, reports' = reports
    PROVE  SpendInv'
<1>1. /\ release[r].owns /\ JournalFits /\ journal \in JournalShape /\ callsSent \in Nat
      /\ reports \in [Runs -> ReportShape]
  BY SpendTyped DEF MoneyFits, SpendInv, ReleaseTyped
<1>2. PICK at \in {"reporting-failure", "dead"} : RunAt(r, at)
  BY DEF RunFails
<1>3. at \in RunPlaces \ (Paying \cup {"verified"})
  BY DEF RunPlaces, Paying, RunOver
<1>4. CutOff \in JournalShape /\ \A f \in {"reserved", "settled", "spent", "held"} : CutOff[f] = journal[f]
  BY <1>1 DEF CutOff, JournalShape
<1>5. journal' \in JournalShape
  BY <1>1, <1>4
<1>6. JournalFits'
  <2>1. CASE journal' = journal
    BY <1>1, <2>1 DEF JournalFits
  <2>2. CASE journal' = CutOff
    BY <1>1, <1>4, <2>2 DEF JournalFits
  <2>3. QED
    BY <2>1, <2>2
<1>7. QED
  BY <1>1, <1>2, <1>3, <1>5, <1>6, SpendLeaves

LEMMA ReserveSpends == ASSUME SpendInv, NEW r \in Runs, Reserve(r) PROVE SpendInv'
<1>1. /\ release[r].at = "working" /\ release[r].todo # <<>>
      /\ lock' = lock /\ corpus' = corpus /\ reports' = reports /\ callsSent' = callsSent
  BY DEF Reserve
<1>2. PICK run \in RunShape : run = release[r]
  BY SpendTyped
<1>3. /\ journal \in JournalShape /\ callsSent \in Nat /\ reports \in [Runs -> ReportShape]
      /\ corpus \in DOMAIN Corpora /\ lock \in BOOLEAN
  BY DEF SpendInv, ReleaseTyped
<1>4. /\ run.at = "working" /\ run.owns /\ lock /\ run.mode = "live" /\ TodoFits(run.todo)
      /\ run.todo # <<>> /\ run.todo \in Seq(CallShape) /\ run.spent = journal.spent
      /\ journal.reserved = journal.settled /\ JournalFits
  BY <1>1, <1>2, SpendTyped DEF MoneyFits, Paying
<1>5. PICK k \in Kinds : k = Next1(r).kind /\ k = Head(run.todo).kind
  <2>1. Head(run.todo) \in CallShape
    BY <1>4, TailFits
  <2>2. QED
    BY <1>2, <2>1 DEF Next1, CallShape
<1>6. PICK u \in Nat \ {0} : u = Reserves[k]
  BY ReleaseNumbers
<1>7. PICK j : j = WithReservation(u)
  OBVIOUS
<1>8. /\ j \in JournalShape /\ j.reserved = journal.reserved + 1 /\ j.held = u
      /\ j.settled = journal.settled /\ j.spent = journal.spent
  <2>1. /\ journal.held = 0 /\ journal.reserved \in Nat /\ journal.settled \in Nat
        /\ journal.spent \in Nat /\ journal.torn \in BOOLEAN
    BY <1>4, SpendTyped DEF JournalFits
  <2>2. journal.held + u = u
    BY <2>1
  <2>3. j = [journal EXCEPT !.reserved = journal.reserved + 1, !.held = u]
    BY <1>7, <2>2 DEF WithReservation
  <2>4. j = [reserved |-> journal.reserved + 1, settled |-> journal.settled, spent |-> journal.spent,
             held |-> u, torn |-> journal.torn]
    BY <1>3, <2>3 DEF JournalShape
  <2>5. QED
    BY <2>1, <2>4 DEF JournalShape
<1>9. CASE RunFails(r) /\ journal' = journal
  <2>1. RunAt(r, "reporting-failure") /\ "reporting-failure" \in RunPlaces \ (Paying \cup {"verified"})
    BY <1>9 DEF RunFails, RunPlaces, Paying
  <2>2. QED
    BY <1>1, <1>3, <1>9, <2>1, SpendLeaves
<1>10. CASE ~(RunFails(r) /\ journal' = journal)
  <2>1. /\ run.spent + u <= Allowance
        /\ \/ /\ journal' = j
              /\ release' = [release EXCEPT ![r].at = "reserved",
                                 ![r].embeddings = @ + (IF k = "embedding" THEN 1 ELSE 0),
                                 ![r].chats = @ + (IF k = "chat" THEN 1 ELSE 0)]
           \/ journal' \in {journal, j, CutOff} /\ (RunFails(r) \/ RunAt(r, "dead"))
    <3>1. IF ~CallsLeft(r, k) \/ run.spent + u > Allowance
          THEN RunFails(r) /\ UNCHANGED <<journal, releaseFaults>>
          ELSE PersistLedger(j,
                   release' = [release EXCEPT ![r].at = "reserved",
                       ![r].embeddings = @ + (IF k = "embedding" THEN 1 ELSE 0),
                       ![r].chats = @ + (IF k = "chat" THEN 1 ELSE 0)],
                   RunFails(r) \/ RunAt(r, "dead"))
      BY <1>2, <1>5, <1>6, <1>7 DEF Reserve
    <3>2. journal.spent \in Nat /\ Allowance \in Nat
      BY ReleaseNumbers, SpendTyped
    <3>3. QED
      BY <1>4, <1>10, <3>1, <3>2 DEF PersistLedger
  <2>2. /\ journal.reserved \in Nat /\ journal.settled \in Nat /\ journal.spent \in Nat
        /\ journal.held \in Nat /\ Allowance \in Nat
    BY ReleaseNumbers, SpendTyped
  <2>3. journal' = j => JournalFits'
    BY <1>1, <1>3, <1>4, <1>8, <2>1, <2>2 DEF JournalFits
  <2>4. CASE journal' \in {journal, j, CutOff} /\ (RunFails(r) \/ RunAt(r, "dead"))
    BY <1>1, <1>2, <1>4, <1>8, <2>3, <2>4, FailedWrite DEF Paying
  <2>5. CASE /\ journal' = j
             /\ release' = [release EXCEPT ![r].at = "reserved",
                                ![r].embeddings = @ + (IF k = "embedding" THEN 1 ELSE 0),
                                ![r].chats = @ + (IF k = "chat" THEN 1 ELSE 0)]
    <3>1. PICK e \in Nat, c \in Nat :
              /\ e = run.embeddings + (IF k = "embedding" THEN 1 ELSE 0)
              /\ c = run.chats + (IF k = "chat" THEN 1 ELSE 0)
      BY <1>2 DEF RunShape
    <3>2. PICK new : new = [run EXCEPT !.at = "reserved", !.embeddings = e, !.chats = c]
      OBVIOUS
    <3>3. release' = [release EXCEPT ![r] = new]
      BY <1>2, <2>5, <3>1, <3>2 DEF RunShape
    <3>4. /\ new \in RunShape /\ new.at = "reserved" /\ new.owns = run.owns /\ new.mode = run.mode
          /\ new.todo = run.todo /\ new.spent = run.spent
      BY <3>1, <3>2 DEF RunShape, RunPlaces, Paying
    <3>5. MoneyFits(new)'
      BY <1>1, <1>4, <1>5, <1>6, <1>8, <2>2, <2>5, <3>4 DEF MoneyFits, Paying, JournalFits
    <3>6. QED
      BY <1>1, <1>2, <1>3, <1>4, <1>8, <2>3, <2>5, <3>3, <3>4, <3>5, SpendMoves
  <2>6. QED
    BY <2>1, <2>4, <2>5
<1>11. QED
  BY <1>9, <1>10

LEMMA CallOutSpends == ASSUME SpendInv, NEW r \in Runs, CallOut(r) PROVE SpendInv'
<1>1. /\ release[r].at = "reserved" /\ callsSent' = callsSent + 1
      /\ journal' = journal /\ lock' = lock /\ corpus' = corpus /\ reports' = reports
  BY DEF CallOut
<1>2. PICK run \in RunShape : run = release[r]
  BY SpendTyped
<1>3. /\ journal \in JournalShape /\ callsSent \in Nat /\ reports \in [Runs -> ReportShape]
      /\ corpus \in DOMAIN Corpora /\ lock \in BOOLEAN
  BY DEF SpendInv, ReleaseTyped
<1>4. /\ run.at = "reserved" /\ run.owns /\ lock /\ run.mode = "live" /\ TodoFits(run.todo)
      /\ run.todo # <<>> /\ run.todo \in Seq(CallShape) /\ run.spent = journal.spent
      /\ journal.reserved = journal.settled + 1 /\ JournalFits
      /\ callsSent <= journal.settled /\ journal.held = Reserves[Head(run.todo).kind]
  BY <1>1, <1>2, SpendTyped DEF MoneyFits, Paying
<1>5. /\ journal.reserved \in Nat /\ journal.settled \in Nat /\ journal.spent \in Nat
      /\ journal.held \in Nat
  BY SpendTyped
<1>6. callsSent' \in Nat /\ JournalFits'
  BY <1>1, <1>3, <1>4, <1>5 DEF JournalFits
<1>7. CASE RunFails(r) \/ RunAt(r, "dead")
  <2>1. PICK at \in {"reporting-failure", "dead"} : RunAt(r, at)
    BY <1>7 DEF RunFails
  <2>2. at \in RunPlaces \ (Paying \cup {"verified"})
    BY DEF RunPlaces, Paying, RunOver
  <2>3. QED
    BY <1>1, <1>2, <1>3, <1>4, <1>6, <2>1, <2>2, SpendLeaves
<1>8. CASE ~(RunFails(r) \/ RunAt(r, "dead"))
  <2>1. PICK u \in 1 .. Reserves[Next1(r).kind] :
            release' = [release EXCEPT ![r].at = "called", ![r].used = u]
    BY <1>8 DEF CallOut
  <2>2. u \in Nat /\ u <= journal.held
    BY <1>2, <1>4, <1>5, <2>1 DEF Next1
  <2>3. PICK new : new = [run EXCEPT !.at = "called", !.used = u]
    OBVIOUS
  <2>4. release' = [release EXCEPT ![r] = new]
    BY <1>2, <2>1, <2>3
  <2>5. /\ new \in RunShape /\ new.at = "called" /\ new.owns = run.owns /\ new.mode = run.mode
        /\ new.todo = run.todo /\ new.spent = run.spent /\ new.used = u
    BY <2>2, <2>3 DEF RunShape, RunPlaces, Paying
  <2>6. MoneyFits(new)'
    BY <1>1, <1>4, <2>2, <2>5 DEF MoneyFits, Paying
  <2>7. QED
    BY <1>1, <1>2, <1>3, <1>4, <1>6, <2>4, <2>5, <2>6, SpendMoves
<1>9. QED
  BY <1>7, <1>8

\* What a run becomes when it has used a result.
LEMMA UsesFit ==
    ASSUME SpendInv, NEW r \in Runs, release[r].at = "called",
           NEW hits, NEW passed \in BOOLEAN, NEW new, new = Uses(r, Next1(r), hits, passed)
    PROVE  /\ new \in RunShape /\ new.at = "working" /\ new.owns = release[r].owns
           /\ new.mode = release[r].mode /\ new.from = release[r].from /\ new.print = release[r].print
           /\ new.spent = release[r].spent + release[r].used /\ TodoFits(new.todo)
           /\ \A x \in new.rows : x \in release[r].rows \/ x.on = corpus
<1>1. PICK run \in RunShape : run = release[r]
  BY SpendTyped
<1>2. /\ run.todo \in Seq(CallShape) /\ run.todo # <<>> /\ TodoFits(run.todo)
      /\ run.spent \in Nat /\ run.used \in Nat /\ corpus \in DOMAIN Corpora
  BY <1>1, SpendTyped DEF MoneyFits, Paying, SpendInv, ReleaseTyped
<1>3. PICK c \in CallShape, rest \in Seq(CallShape) :
          /\ c = Head(run.todo) /\ rest = Tail(run.todo) /\ TodoFits(rest)
          /\ c.use = "answer" /\ c.kind = "embedding" => rest # <<>>
  BY <1>2, TailFits
<1>4. rest # <<>> => Tail(rest) \in Seq(CallShape) /\ TodoFits(Tail(rest))
  BY <1>3, TailFits
<1>5. c.kind \in Kinds /\ c.use \in {"recall", "answer"} /\ c.item \in Items
  BY DEF CallShape
<1> DEFINE Moved(todo, recalled, rows) ==
               [at |-> "working", mode |-> run.mode, from |-> run.from, print |-> run.print,
                owns |-> run.owns, spent |-> run.spent + run.used, todo |-> todo,
                embeddings |-> run.embeddings, chats |-> run.chats, used |-> 0,
                recalled |-> recalled, rows |-> rows]
<1>6. PICK todo \in Seq(CallShape), recalled \in BOOLEAN, rows \in SUBSET RowShape :
          /\ new = Moved(todo, recalled, rows)
          /\ TodoFits(todo) /\ \A x \in rows : x \in run.rows \/ x.on = corpus
  <2>1. run.rows \in SUBSET RowShape /\ run.recalled \in BOOLEAN
    BY DEF RunShape
  <2>2. PICK held : held = [run EXCEPT !.at = "working", !.spent = run.spent + run.used, !.used = 0]
    OBVIOUS
  <2>3. held = [at |-> "working", mode |-> run.mode, from |-> run.from, print |-> run.print,
                owns |-> run.owns, spent |-> run.spent + run.used, todo |-> run.todo,
                embeddings |-> run.embeddings, chats |-> run.chats, used |-> 0,
                recalled |-> run.recalled, rows |-> run.rows]
    BY <2>2 DEF RunShape
  <2>4. CASE c.use = "recall"
    <3>1. PICK b : b = (run.recalled /\ Recalled(c.item, hits))
      OBVIOUS
    <3>2. b \in BOOLEAN
      BY <3>1
    <3>3. new = [held EXCEPT !.todo = rest, !.recalled = b]
      BY <1>1, <1>3, <2>2, <2>3, <2>4, <3>1 DEF Uses, Next1
    <3>4. new = Moved(rest, b, run.rows)
      BY <2>3, <3>3
    <3>5. QED
      BY <1>3, <2>1, <3>2, <3>4
  <2>5. CASE c.use # "recall" /\ c.kind = "embedding" /\ hits # {}
    <3>1. new = [held EXCEPT !.todo = rest]
      BY <1>1, <1>3, <2>2, <2>5 DEF Uses, Next1
    <3>2. new = Moved(rest, run.recalled, run.rows)
      BY <2>3, <3>1
    <3>3. QED
      BY <1>3, <2>1, <3>2
  <2>6. CASE c.use # "recall" /\ ~(c.kind = "embedding" /\ hits # {})
    <3>1. PICK b : b = IF c.kind = "chat" THEN passed /\ Labels[c.item].answered
                                          ELSE ~Labels[c.item].answered
      OBVIOUS
    <3>2. b \in BOOLEAN
      BY <3>1
    <3>3. PICK todo : todo = IF c.kind = "embedding" THEN Tail(rest) ELSE rest
      OBVIOUS
    <3>4. todo \in Seq(CallShape) /\ TodoFits(todo)
      BY <1>3, <1>4, <1>5, <2>6, <3>3
    <3>5. PICK row : row = JudgedRow(c.item, b)
      OBVIOUS
    <3>6. row \in RowShape /\ row.on = corpus
      BY <1>2, <1>5, <3>2, <3>5 DEF JudgedRow, RowShape
    <3>7. new = [held EXCEPT !.todo = todo, !.rows = run.rows \cup {row}]
      BY <1>1, <1>3, <2>2, <2>3, <2>6, <3>1, <3>3, <3>5 DEF Uses, Next1
    <3>8. new = Moved(todo, run.recalled, run.rows \cup {row})
      BY <2>3, <3>7
    <3>9. run.rows \cup {row} \in SUBSET RowShape
      BY <2>1, <3>6
    <3>10. QED
      BY <2>1, <3>4, <3>6, <3>8, <3>9
  <2>7. QED
    BY <2>4, <2>5, <2>6
<1>7. run.spent + run.used \in Nat
  BY <1>2
<1>8. new = Moved(todo, recalled, rows)
  BY <1>6
<1>9. /\ run.mode \in AllModes /\ run.from \in Runs \cup {NoRun} /\ run.print \in Prints
      /\ run.owns \in BOOLEAN /\ run.embeddings \in Nat /\ run.chats \in Nat
  BY DEF RunShape
<1>10. new \in RunShape
  BY <1>7, <1>8, <1>9 DEF RunShape, RunPlaces, Paying
<1>11. QED
  BY <1>1, <1>6, <1>8, <1>10

LEMMA SettleSpends == ASSUME SpendInv, NEW r \in Runs, SettleRunCall(r) PROVE SpendInv'
<1>1. /\ release[r].at = "called"
      /\ lock' = lock /\ corpus' = corpus /\ reports' = reports /\ callsSent' = callsSent
  BY DEF SettleRunCall
<1>2. PICK run \in RunShape : run = release[r]
  BY SpendTyped
<1>3. /\ journal \in JournalShape /\ callsSent \in Nat /\ reports \in [Runs -> ReportShape]
      /\ corpus \in DOMAIN Corpora /\ lock \in BOOLEAN
  BY DEF SpendInv, ReleaseTyped
<1>4. /\ run.at = "called" /\ run.owns /\ lock /\ run.mode = "live"
      /\ run.spent = journal.spent /\ run.used <= journal.held
      /\ journal.reserved = journal.settled + 1 /\ JournalFits
  BY <1>1, <1>2, SpendTyped DEF MoneyFits, Paying
<1>5. /\ journal.reserved \in Nat /\ journal.settled \in Nat /\ journal.spent \in Nat
      /\ journal.held \in Nat /\ run.used \in Nat /\ Allowance \in Nat
  BY <1>2, ReleaseNumbers, SpendTyped
<1>6. PICK j : j = WithSettlement(run.used)
  OBVIOUS
<1>7. /\ j \in JournalShape /\ j.reserved = journal.reserved /\ j.held = 0
      /\ j.settled = journal.settled + 1 /\ j.spent = journal.spent + run.used
  <2>1. j = [journal EXCEPT !.settled = journal.settled + 1, !.spent = journal.spent + run.used,
                            !.held = 0]
    BY <1>6 DEF WithSettlement
  <2>2. j = [reserved |-> journal.reserved, settled |-> journal.settled + 1,
             spent |-> journal.spent + run.used, held |-> 0, torn |-> journal.torn]
    BY <1>3, <2>1 DEF JournalShape
  <2>3. journal.settled + 1 \in Nat /\ journal.spent + run.used \in Nat /\ journal.torn \in BOOLEAN
    BY <1>5, SpendTyped
  <2>4. QED
    BY <1>5, <2>2, <2>3 DEF JournalShape
<1>8. journal' = j => JournalFits'
  BY <1>1, <1>3, <1>4, <1>5, <1>7 DEF JournalFits
<1>9. PICK hits \in SUBSET DOMAIN Fingerprint, passed \in BOOLEAN :
          PersistLedger(WithSettlement(release[r].used),
                        IF Next1(r).kind = "embedding" /\ ~Retrieved(r, hits)
                           THEN RunFails(r)
                           ELSE release' = [release EXCEPT ![r] = Uses(r, Next1(r), hits, passed)],
                        RunFails(r) \/ RunAt(r, "dead"))
  BY DEF SettleRunCall
<1>10. CASE journal' \in {journal, j, CutOff} /\ (RunFails(r) \/ RunAt(r, "dead"))
  BY <1>1, <1>2, <1>4, <1>7, <1>8, <1>10, FailedWrite DEF Paying
<1>11. CASE ~(journal' \in {journal, j, CutOff} /\ (RunFails(r) \/ RunAt(r, "dead")))
  <2>1. PICK new : new = Uses(r, Next1(r), hits, passed)
    OBVIOUS
  <2>2. journal' = j /\ release' = [release EXCEPT ![r] = new]
    BY <1>2, <1>6, <1>9, <1>11, <2>1 DEF PersistLedger
  <2>3. /\ new \in RunShape /\ new.at = "working" /\ new.owns = run.owns /\ new.mode = run.mode
        /\ new.spent = run.spent + run.used /\ TodoFits(new.todo)
    BY <1>1, <1>2, <2>1, UsesFit
  <2>4. MoneyFits(new)'
    BY <1>1, <1>4, <1>5, <1>7, <2>2, <2>3 DEF MoneyFits, Paying
  <2>5. QED
    BY <1>1, <1>2, <1>3, <1>4, <1>7, <1>8, <2>2, <2>3, <2>4, SpendMoves
<1>12. QED
  BY <1>10, <1>11

LEMMA PostflightSpends == ASSUME SpendInv, NEW r \in Runs, Postflight(r) PROVE SpendInv'
<1>1. /\ journal' = journal /\ callsSent' = callsSent /\ lock' = lock /\ corpus' = corpus
      /\ reports' = reports
  BY DEF Postflight
<1>2. journal \in JournalShape /\ callsSent \in Nat /\ reports \in [Runs -> ReportShape]
  BY DEF SpendInv, ReleaseTyped
<1>3. PICK at \in {"reporting", "reporting-failure"} : RunAt(r, at)
  BY DEF Postflight, RunFails
<1>4. at \in RunPlaces \ (Paying \cup {"verified"})
  BY DEF RunPlaces, Paying
<1>5. QED
  BY <1>1, <1>2, <1>3, <1>4, SpendLeaves

LEMMA ReportSpends == ASSUME SpendInv, NEW r \in Runs, Report(r) PROVE SpendInv'
<1>1. /\ journal' = journal /\ callsSent' = callsSent /\ lock' = lock /\ corpus' = corpus
      /\ RunAt(r, "closing")
  BY DEF Report
<1>2. journal \in JournalShape /\ callsSent \in Nat /\ reports \in [Runs -> ReportShape]
  BY DEF SpendInv, ReleaseTyped
<1>3. reports' \in [Runs -> ReportShape]
  <2>1. PICK run \in RunShape : run = release[r]
    BY SpendTyped
  <2>2. PICK failed \in BOOLEAN : failed = (run.at = "reporting-failure")
    OBVIOUS
  <2>3. PICK gate \in BOOLEAN : gate = (~failed /\ Gate(r))
    OBVIOUS
  <2>4. PICK new : new = [mode |-> run.mode, failed |-> failed, gate |-> gate,
                          recalled |-> run.recalled, rows |-> run.rows, print |-> run.print]
    OBVIOUS
  <2>5. reports' = reports \/ reports' = [reports EXCEPT ![r] = new]
    BY <2>1, <2>2, <2>3, <2>4 DEF Report
  <2>6. /\ run.mode \in AllModes /\ run.recalled \in BOOLEAN /\ run.rows \in SUBSET RowShape
        /\ run.print \in Prints
    BY DEF RunShape
  <2>7. new \in ReportShape
    BY <2>4, <2>6 DEF ReportShape
  <2>8. QED
    BY <1>2, <2>5, <2>7
<1>4. "closing" \in RunPlaces \ (Paying \cup {"verified"})
  BY DEF RunPlaces, Paying, RunOver
<1>5. QED
  BY <1>1, <1>2, <1>3, <1>4, SpendLeaves

LEMMA CloseSpends == ASSUME SpendInv, NEW r \in Runs, Close(r) PROVE SpendInv'
<1>1. /\ journal' = journal /\ callsSent' = callsSent /\ corpus' = corpus /\ reports' = reports
      /\ lock' = (lock /\ ~release[r].owns)
  BY DEF Close
<1>2. /\ journal \in JournalShape /\ callsSent \in Nat /\ reports \in [Runs -> ReportShape]
      /\ corpus \in DOMAIN Corpora /\ lock \in BOOLEAN /\ JournalFits
  BY DEF SpendInv, ReleaseTyped
<1>3. PICK run \in RunShape : run = release[r]
  BY SpendTyped
<1>4. PICK new : new = [run EXCEPT !.at = "done", !.owns = FALSE]
  OBVIOUS
<1>5. release' = [release EXCEPT ![r] = new]
  BY <1>3, <1>4 DEF Close
<1>6. new \in RunShape /\ new.at = "done" /\ new.owns = FALSE
  BY <1>4 DEF RunShape, RunPlaces, RunOver
<1>7. MoneyFits(new)' /\ JournalFits'
  BY <1>1, <1>2, <1>6 DEF MoneyFits, Paying, JournalFits
<1>8. lock' \in BOOLEAN /\ (lock => lock' \/ release[r].owns)
  BY <1>1
<1>9. QED
  BY <1>1, <1>2, <1>5, <1>6, <1>7, <1>8, SpendMoves

LEMMA DiesSpends == ASSUME SpendInv, NEW r \in Runs, Dies(r) PROVE SpendInv'
<1>1. /\ journal' = journal /\ callsSent' = callsSent /\ lock' = lock /\ corpus' = corpus
      /\ reports' = reports /\ RunAt(r, "dead")
  BY DEF Dies
<1>2. journal \in JournalShape /\ callsSent \in Nat /\ reports \in [Runs -> ReportShape]
  BY DEF SpendInv, ReleaseTyped
<1>3. "dead" \in RunPlaces \ (Paying \cup {"verified"})
  BY DEF RunPlaces, Paying, RunOver
<1>4. QED
  BY <1>1, <1>2, <1>3, SpendLeaves

LEMMA UnlockSpends == ASSUME SpendInv, Unlock PROVE SpendInv'
<1>1. /\ journal' = journal /\ callsSent' = callsSent /\ corpus' = corpus /\ reports' = reports
      /\ lock' = FALSE /\ \A r \in Runs : release[r].owns => release[r].at = "dead"
      /\ release' = [r \in Runs |-> [release[r] EXCEPT !.owns = FALSE]]
  BY DEF Unlock
<1>2. ASSUME NEW r \in Runs
      PROVE  release'[r] \in RunShape /\ ~release'[r].owns /\ MoneyFits(release[r])'
  <2>1. PICK run \in RunShape : run = release[r]
    BY SpendTyped
  <2>2. PICK new : new = [run EXCEPT !.owns = FALSE]
    OBVIOUS
  <2>3. release'[r] = new
    BY <1>1, <2>1, <2>2
  <2>4. new \in RunShape /\ ~new.owns /\ new.at = run.at /\ new.mode = run.mode
    BY <2>2 DEF RunShape
  <2>5. MoneyFits(run)
    BY <2>1, SpendTyped
  <2>6. run.at \notin Paying
    BY <1>1, <2>1, <2>5 DEF MoneyFits, Paying
  <2>7. MoneyFits(new)'
    BY <2>4, <2>5, <2>6 DEF MoneyFits, Paying
  <2>8. QED
    BY <2>3, <2>4, <2>7 DEF MoneyFits
<1>3. ReleaseTyped' /\ JournalFits' /\ OneOwner'
  BY <1>1, <1>2 DEF SpendInv, ReleaseTyped, JournalFits, OneOwner
<1>4. QED
  BY <1>2, <1>3 DEF SpendInv

\* What neither the journal nor a process takes part in.
LEMMA SpendStays ==
    ASSUME SpendInv, corpus' \in DOMAIN Corpora,
           UNCHANGED <<journal, lock, release, reports, callsSent>>
    PROVE  SpendInv'
<1>1. ReleaseTyped' /\ JournalFits' /\ OneOwner'
  BY DEF SpendInv, ReleaseTyped, JournalFits, OneOwner
<1>2. \A r \in Runs : MoneyFits(release[r])'
  BY DEF SpendInv, MoneyFits
<1>3. QED
  BY <1>1, <1>2 DEF SpendInv

LEMMA SpendNext == ASSUME SpendInv, [ReleaseNext]_releaseVars PROVE SpendInv'
<1>1. corpus \in DOMAIN Corpora
  BY DEF SpendInv, ReleaseTyped
<1>2. CASE UNCHANGED releaseVars
  BY <1>1, <1>2, SpendStays DEF releaseVars
<1>3. CASE CorpusMoves
  <2>1. corpus' \in DOMAIN Corpora
    BY <1>1, <1>3, ReleaseNumbers DEF CorpusMoves
  <2>2. QED
    BY <1>3, <2>1, SpendStays DEF CorpusMoves
<1>4. CASE Unlock
  BY <1>4, UnlockSpends
<1>5. ASSUME NEW r \in Runs, RunSteps(r) PROVE SpendInv'
  <2>1. ASSUME NEW mode \in Modes, NEW s \in Runs \cup {NoRun}, Begin(r, mode, s) PROVE SpendInv'
    BY <2>1, BeginSpends
  <2>2. CASE Review(r)
    BY <1>1, <2>2, SpendStays DEF Review
  <2>3. QED
    BY <1>5, <2>1, <2>2, PreflightSpends, OpenSpends, ReserveSpends, CallOutSpends, SettleSpends,
       PostflightSpends, ReportSpends, CloseSpends, DiesSpends DEF RunSteps
<1>6. QED
  BY <1>2, <1>3, <1>4, <1>5 DEF ReleaseNext

\* Over all the processes that ever ran, whichever died or found a torn
\* line, a reservation is on disk before its call leaves, at most one call
\* has an outcome that is not recorded, and the allowance holds
\* (release-budget.ts, createReleaseBudget and openReleaseJournal).
THEOREM PaidCallsStayBounded == ReleaseSpec => []PaidCallsBounded
<1>1. ReleaseInit => SpendInv
  BY SpendInit
<1>2. SpendInv /\ [ReleaseNext]_releaseVars => SpendInv'
  BY SpendNext
<1>3. SpendInv => PaidCallsBounded
  BY DEF SpendInv, JournalFits, PaidCallsBounded
<1>4. QED
  BY <1>1, <1>2, <1>3, PTL DEF ReleaseSpec

(***************************************************************************)
(* The measure.  Between the preflight and the postflight a run judges its *)
(* rows on states of the corpus that lie between two with the fingerprint  *)
(* it printed, and a run that resumes takes rows that have it as well.     *)
(***************************************************************************)
LEMMA MeasureMoves ==
    ASSUME SpendInv, MeasureInv, NEW r \in Runs, NEW new, release' = [release EXCEPT ![r] = new],
           corpus' = corpus, reports' = reports, MeasureFits(new),
           release[r].at \in RunOver => new.at \in RunOver
    PROVE  MeasureInv'
<1>1. release \in [Runs -> RunShape]
  BY DEF SpendInv, ReleaseTyped
<1>2. release'[r] = new /\ \A q \in Runs \ {r} : release'[q] = release[q]
  BY <1>1
<1>3. ASSUME NEW q \in Runs PROVE MeasureFits(release[q])' /\ ReportFits(q)'
  <2>1. PICK run : run = release'[q]
    OBVIOUS
  <2>2. MeasureFits(run)
    BY <1>2, <2>1 DEF MeasureInv
  <2>3. MeasureFits(release[q])'
    BY <2>1, <2>2 DEF MeasureFits, Measured, OnOne
  <2>4. release[q].at \in RunOver => run.at \in RunOver
    BY <1>2, <2>1
  <2>5. ReportFits(q)'
    BY <2>1, <2>4 DEF MeasureInv, ReportFits, OnOne, AllPass
  <2>6. QED
    BY <2>3, <2>5
<1>4. QED
  BY <1>3 DEF MeasureInv

\* A run that stops measuring.
LEMMA MeasureLeaves ==
    ASSUME SpendInv, MeasureInv, NEW r \in Runs,
           NEW at \in {"reporting-failure", "closing", "done", "dead"}, RunAt(r, at),
           corpus' = corpus, reports' = reports,
           release[r].at \in RunOver => at # "reporting-failure"
    PROVE  MeasureInv'
<1>1. PICK run \in RunShape : run = release[r]
  BY SpendTyped
<1>2. PICK new : new = [run EXCEPT !.at = at]
  OBVIOUS
<1>3. release' = [release EXCEPT ![r] = new] /\ new.at = at
  BY <1>1, <1>2 DEF RunAt, RunShape
<1>4. MeasureFits(new) /\ (release[r].at \in RunOver => new.at \in RunOver)
  BY <1>3 DEF MeasureFits, Paying, RunOver
<1>5. QED
  BY <1>3, <1>4, MeasureMoves

LEMMA BeginMeasures ==
    ASSUME SpendInv, MeasureInv, NEW r \in Runs, NEW mode \in Modes, NEW s \in Runs \cup {NoRun},
           Begin(r, mode, s)
    PROVE  MeasureInv'
<1>1. PICK run \in RunShape : run = release[r]
  BY SpendTyped
<1>2. /\ run.at = "idle" /\ corpus' = corpus /\ reports' = reports
      /\ s # NoRun => mode = "live"
  BY <1>1 DEF Begin
<1>3. PICK at : at = IF s # NoRun /\ ~Resumable(s, r) THEN "reporting-failure"
                     ELSE IF mode = "plan" THEN "reporting" ELSE "ready"
  OBVIOUS
<1>4. PICK new : new = [run EXCEPT !.mode = mode, !.from = s, !.at = at]
  OBVIOUS
<1>5. release' = [release EXCEPT ![r] = new] /\ new.at = at /\ new.from = s /\ new.rows = run.rows
  BY <1>1, <1>3, <1>4 DEF Begin, RunShape
<1>6. run.rows = {}
  BY <1>1, <1>2 DEF MeasureInv, MeasureFits
<1>7. at \in {"reporting-failure", "reporting", "ready"}
  BY <1>3
<1>8. at = "ready" /\ s # NoRun => reports[s].mode = "live" /\ ~reports[s].failed
  BY <1>3 DEF Resumable, SourceSound
<1>9. MeasureFits(new)
  BY <1>5, <1>6, <1>7, <1>8 DEF MeasureFits, Paying, OnOne
<1>10. release[r].at \notin RunOver
  BY <1>1, <1>2 DEF RunOver
<1>11. QED
  BY <1>2, <1>5, <1>9, <1>10, MeasureMoves

LEMMA PreflightMeasures == ASSUME SpendInv, MeasureInv, NEW r \in Runs, Preflight(r) PROVE MeasureInv'
<1>1. PICK run \in RunShape : run = release[r]
  BY SpendTyped
<1>2. run.at = "ready" /\ corpus' = corpus /\ reports' = reports /\ release[r].at \notin RunOver
  BY <1>1 DEF Preflight, RunOver
<1>3. CASE RunFails(r)
  BY <1>2, <1>3, MeasureLeaves DEF RunFails
<1>4. CASE ~RunFails(r)
  <2>1. PICK at : at = IF run.mode = "live" THEN "verified" ELSE "reporting"
    OBVIOUS
  <2>2. PICK new : new = [run EXCEPT !.at = at, !.print = Fingerprint]
    OBVIOUS
  <2>3. release' = [release EXCEPT ![r] = new]
    BY <1>1, <1>4, <2>1, <2>2 DEF Preflight
  <2>4. run.from = NoRun \/ reports[run.from].print = Fingerprint
    BY <1>1, <1>4 DEF Preflight, FreshRun
  <2>5. /\ new.at = at /\ new.print = Fingerprint /\ new.rows = run.rows /\ new.from = run.from
        /\ at \in {"verified", "reporting"}
    BY <2>1, <2>2 DEF RunShape
  <2>6. MeasureFits(run)
    BY <1>1 DEF MeasureInv
  <2>7. run.rows = {}
    BY <1>2, <2>6 DEF MeasureFits
  <2>8. Measured({}, Fingerprint)
    <3>1. corpus \in 1 .. corpus
      BY ReleaseNumbers DEF SpendInv, ReleaseTyped
    <3>2. QED
      BY <3>1 DEF Measured, Fingerprint, Now
  <2>9. MeasureFits(new)
    BY <1>2, <2>4, <2>5, <2>6, <2>7, <2>8 DEF MeasureFits, Paying, OnOne
  <2>10. QED
    BY <1>2, <2>3, <2>9, MeasureMoves
<1>5. QED
  BY <1>3, <1>4

LEMMA OpenMeasures == ASSUME SpendInv, MeasureInv, NEW r \in Runs, Open(r) PROVE MeasureInv'
<1>1. PICK run \in RunShape : run = release[r]
  BY SpendTyped
<1>2. run.at = "verified" /\ corpus' = corpus /\ reports' = reports /\ release[r].at \notin RunOver
  BY <1>1 DEF Open, RunOver
<1>3. CASE RunFails(r)
  BY <1>2, <1>3, MeasureLeaves DEF RunFails
<1>4. CASE ~RunFails(r)
  <2>1. PICK at \in {"working", "reporting-failure"} : at = IF Ready(r) THEN "working" ELSE "reporting-failure"
    OBVIOUS
  <2>2. PICK new : new = [run EXCEPT !.owns = TRUE, !.spent = journal.spent, !.todo = Work(r),
                                     !.rows = Reused(r), !.at = at]
    OBVIOUS
  <2>3. release' = [release EXCEPT ![r] = new]
    BY <1>1, <1>4, <2>1, <2>2 DEF Open
  <2>4. new.at = at /\ new.rows = Reused(r) /\ new.print = run.print
    BY <2>2 DEF RunShape
  <2>5. MeasureFits(run) /\ run.from \in Runs \cup {NoRun}
    BY <1>1 DEF MeasureInv, RunShape
  <2>6. Measured({}, run.print)
    BY <1>2, <2>5 DEF MeasureFits
  <2>7. OnOne(Reused(r), run.print)
    <3>1. CASE run.from = NoRun
      BY <1>1, <3>1 DEF Reused, FreshRun, OnOne
    <3>2. CASE run.from # NoRun
      <4>1. /\ reports[run.from].mode = "live" /\ ~reports[run.from].failed
            /\ reports[run.from].print = run.print /\ run.from \in Runs
        BY <1>2, <2>5, <3>2 DEF MeasureFits
      <4>2. OnOne(reports[run.from].rows, run.print)
        BY <4>1 DEF MeasureInv, ReportFits
      <4>3. QED
        BY <1>1, <3>2, <4>2 DEF Reused, FreshRun, OnOne
    <3>3. QED
      BY <3>1, <3>2
  <2>8. Measured(Reused(r), run.print)
    BY <2>6, <2>7 DEF Measured, OnOne
  <2>9. MeasureFits(new)
    BY <2>1, <2>4, <2>8 DEF MeasureFits, Paying
  <2>10. QED
    BY <1>2, <2>3, <2>9, MeasureMoves
<1>5. QED
  BY <1>3, <1>4

\* A run that goes on measuring what it measured.
LEMMA MeasureGoesOn ==
    ASSUME SpendInv, MeasureInv, NEW r \in Runs, release[r].at \in Paying, NEW new \in RunShape,
           release' = [release EXCEPT ![r] = new], corpus' = corpus, reports' = reports,
           new.at \in Paying, new.print = release[r].print,
           \A x \in new.rows : x \in release[r].rows \/ x.on = corpus
    PROVE  MeasureInv'
<1>1. MeasureFits(release[r])
  BY DEF MeasureInv
<1>2. Measured(release[r].rows, new.print)
  BY <1>1 DEF MeasureFits
<1>3. corpus \in Nat /\ corpus >= 1
  BY ReleaseNumbers DEF SpendInv, ReleaseTyped
<1>4. Measured(new.rows, new.print)
  BY <1>2, <1>3 DEF Measured
<1>5. MeasureFits(new) /\ release[r].at \notin RunOver
  BY <1>4 DEF MeasureFits, Paying, RunOver
<1>6. QED
  BY <1>5, MeasureMoves

\* A payment changes neither the rows nor the fingerprint of its run.
LEMMA PaymentMeasures ==
    ASSUME SpendInv, MeasureInv, NEW r \in Runs, Reserve(r) \/ CallOut(r) PROVE MeasureInv'
<1>1. PICK run \in RunShape : run = release[r]
  BY SpendTyped
<1>2. run.at \in Paying /\ corpus' = corpus /\ reports' = reports /\ release[r].at \notin RunOver
  BY <1>1 DEF Reserve, CallOut, Paying, RunOver
<1>3. CASE RunFails(r) \/ RunAt(r, "dead")
  BY <1>2, <1>3, MeasureLeaves DEF RunFails
<1>4. CASE ~(RunFails(r) \/ RunAt(r, "dead"))
  <2>1. PICK new : /\ release' = [release EXCEPT ![r] = new] /\ new \in RunShape /\ new.at \in Paying
                   /\ new.rows = run.rows /\ new.print = run.print
    <3>1. CASE Reserve(r)
      <4>1. PICK k \in Kinds : k = Next1(r).kind
        <5>1. run.todo \in Seq(CallShape) /\ run.todo # <<>> /\ TodoFits(run.todo)
          BY <1>1, <1>2, <3>1, SpendTyped DEF MoneyFits, Reserve
        <5>2. Head(run.todo) \in CallShape
          BY <5>1, TailFits
        <5>3. QED
          BY <1>1, <5>2 DEF Next1, CallShape
      <4>2. PICK e \in Nat, c \in Nat :
                /\ e = run.embeddings + (IF k = "embedding" THEN 1 ELSE 0)
                /\ c = run.chats + (IF k = "chat" THEN 1 ELSE 0)
        BY DEF RunShape
      <4>3. release' = [release EXCEPT ![r].at = "reserved",
                            ![r].embeddings = @ + (IF k = "embedding" THEN 1 ELSE 0),
                            ![r].chats = @ + (IF k = "chat" THEN 1 ELSE 0)]
        BY <1>4, <3>1, <4>1 DEF Reserve, PersistLedger
      <4>4. PICK new : new = [run EXCEPT !.at = "reserved", !.embeddings = e, !.chats = c]
        OBVIOUS
      <4>5. release' = [release EXCEPT ![r] = new]
        BY <1>1, <4>2, <4>3, <4>4 DEF RunShape
      <4>6. new \in RunShape /\ new.at = "reserved" /\ new.rows = run.rows /\ new.print = run.print
        BY <4>2, <4>4 DEF RunShape, RunPlaces, Paying
      <4>7. QED
        BY <4>5, <4>6 DEF Paying
    <3>2. CASE CallOut(r)
      <4>1. PICK u \in 1 .. Reserves[Next1(r).kind] :
                release' = [release EXCEPT ![r].at = "called", ![r].used = u]
        BY <1>4, <3>2 DEF CallOut
      <4>2. u \in Nat
        BY <4>1
      <4>3. PICK new : new = [run EXCEPT !.at = "called", !.used = u]
        OBVIOUS
      <4>4. release' = [release EXCEPT ![r] = new]
        BY <1>1, <4>1, <4>3
      <4>5. new \in RunShape /\ new.at = "called" /\ new.rows = run.rows /\ new.print = run.print
        BY <4>2, <4>3 DEF RunShape, RunPlaces, Paying
      <4>6. QED
        BY <4>4, <4>5 DEF Paying
    <3>3. QED
      BY <3>1, <3>2
  <2>2. QED
    BY <1>1, <1>2, <2>1, MeasureGoesOn
<1>5. QED
  BY <1>3, <1>4

LEMMA SettleMeasures == ASSUME SpendInv, MeasureInv, NEW r \in Runs, SettleRunCall(r) PROVE MeasureInv'
<1>1. /\ release[r].at = "called" /\ release[r].at \in Paying /\ release[r].at \notin RunOver
      /\ corpus' = corpus /\ reports' = reports
  BY DEF SettleRunCall, Paying, RunOver
<1>2. CASE RunFails(r) \/ RunAt(r, "dead")
  BY <1>1, <1>2, MeasureLeaves DEF RunFails
<1>3. CASE ~(RunFails(r) \/ RunAt(r, "dead"))
  <2>1. PICK hits \in SUBSET DOMAIN Fingerprint, passed \in BOOLEAN :
            release' = [release EXCEPT ![r] = Uses(r, Next1(r), hits, passed)]
    BY <1>3 DEF SettleRunCall, PersistLedger
  <2>2. PICK new : new = Uses(r, Next1(r), hits, passed)
    OBVIOUS
  <2>3. /\ new \in RunShape /\ new.at = "working" /\ new.print = release[r].print
        /\ \A x \in new.rows : x \in release[r].rows \/ x.on = corpus
    BY <1>1, <2>2, UsesFit
  <2>4. QED
    BY <1>1, <2>1, <2>2, <2>3, MeasureGoesOn DEF Paying
<1>4. QED
  BY <1>2, <1>3

\* The fingerprint of the postflight is the one of the preflight: what lies
\* between them has it too.
LEMMA PostflightMeasures ==
    ASSUME CorpusKeepsGoing, SpendInv, MeasureInv, NEW r \in Runs, Postflight(r) PROVE MeasureInv'
<1>1. PICK run \in RunShape : run = release[r]
  BY SpendTyped
<1>2. run.at = "working" /\ corpus' = corpus /\ reports' = reports /\ release[r].at \notin RunOver
  BY <1>1 DEF Postflight, RunOver
<1>3. CASE RunFails(r)
  BY <1>2, <1>3, MeasureLeaves DEF RunFails
<1>4. CASE ~RunFails(r)
  <2>1. PICK new : new = [run EXCEPT !.at = "reporting"]
    OBVIOUS
  <2>2. Corpora[corpus].chunks = run.print /\ release' = [release EXCEPT ![r] = new]
    BY <1>1, <1>4, <2>1 DEF Postflight, RunAt, Fingerprint, Now
  <2>3. new.at = "reporting" /\ new.rows = run.rows /\ new.print = run.print
    BY <2>1 DEF RunShape
  <2>4. Measured(run.rows, run.print)
    BY <1>1, <1>2 DEF MeasureInv, MeasureFits, Paying
  <2>5. PICK p \in 1 .. corpus :
            /\ Corpora[p].chunks = run.print
            /\ \A x \in run.rows : Corpora[x.on].chunks = run.print \/ (p <= x.on /\ x.on <= corpus)
    BY <2>4 DEF Measured
  <2>6. ASSUME NEW x \in run.rows PROVE Corpora[x.on].chunks = run.print
    <3>1. x.on \in DOMAIN Corpora
      BY DEF RunShape, RowShape
    <3>2. corpus \in DOMAIN Corpora /\ p \in DOMAIN Corpora
      BY ReleaseNumbers DEF SpendInv, ReleaseTyped
    <3>3. QED
      BY <2>2, <2>5, <3>1, <3>2 DEF CorpusKeepsGoing
  <2>7. MeasureFits(new)
    BY <2>3, <2>6 DEF MeasureFits, Paying, OnOne
  <2>8. QED
    BY <1>2, <2>2, <2>7, MeasureMoves
<1>5. QED
  BY <1>3, <1>4

LEMMA ReportMeasures == ASSUME SpendInv, MeasureInv, NEW r \in Runs, Report(r) PROVE MeasureInv'
<1>1. PICK run \in RunShape : run = release[r]
  BY SpendTyped
<1>2. /\ run.at \in {"reporting", "reporting-failure"} /\ run.at \notin RunOver
      /\ corpus' = corpus /\ RunAt(r, "closing")
  BY <1>1 DEF Report, RunOver
<1>3. CASE reports' = reports
  BY <1>1, <1>2, <1>3, MeasureLeaves
<1>4. CASE reports' # reports
  <2>1. PICK new : new = [mode |-> run.mode, failed |-> run.at = "reporting-failure",
                          gate |-> run.at # "reporting-failure" /\ Gate(r),
                          recalled |-> run.recalled, rows |-> run.rows, print |-> run.print]
    OBVIOUS
  <2>2. reports' = [reports EXCEPT ![r] = new]
    BY <1>1, <1>4, <2>1 DEF Report
  <2>3. reports \in [Runs -> ReportShape] /\ release \in [Runs -> RunShape]
    BY DEF SpendInv, ReleaseTyped
  <2>4. reports'[r] = new /\ \A q \in Runs \ {r} : reports'[q] = reports[q] /\ release'[q] = release[q]
    BY <1>2, <2>2, <2>3 DEF RunAt
  <2>5. release'[r].at = "closing"
    BY <1>2, <2>3 DEF RunAt, RunShape
  <2>6. reports[r].mode = "none"
    BY <1>1, <1>2, <2>3 DEF MeasureInv, ReportFits, ReportShape
  <2>7. ReportFits(r)'
    <3>1. run.at = "reporting" => OnOne(run.rows, run.print)
      BY <1>1 DEF MeasureInv, MeasureFits
    <3>2. /\ new.mode = run.mode /\ new.failed = (run.at = "reporting-failure")
          /\ new.gate = (run.at # "reporting-failure" /\ Gate(r))
          /\ new.rows = run.rows /\ new.print = run.print
      BY <2>1
    <3>3. ~new.failed => OnOne(new.rows, new.print)
      BY <1>2, <3>1, <3>2
    <3>4. new.gate => new.mode = "live" /\ ~new.failed /\ AllPass(new.rows)
      BY <1>1, <3>2 DEF Gate
    <3>5. QED
      BY <2>4, <2>5, <3>3, <3>4 DEF ReportFits, OnOne, AllPass, RunOver
  <2>8. MeasureFits(release[r])'
    BY <2>5 DEF MeasureFits, Paying
  <2>9. ASSUME NEW q \in Runs, q # r PROVE MeasureFits(release[q])' /\ ReportFits(q)'
    <3>1. PICK other : other = release[q] /\ other = release'[q]
      BY <2>4, <2>9
    <3>2. MeasureFits(other) /\ ReportFits(q)
      BY <3>1 DEF MeasureInv
    <3>3. other.at \in {"ready", "verified"} /\ other.from # NoRun =>
              other.from # r /\ other.from \in Runs
      <4>1. other.from \in Runs \cup {NoRun}
        BY <2>3, <3>1 DEF RunShape
      <4>2. QED
        BY <2>6, <3>2, <4>1 DEF MeasureFits
    <3>4. MeasureFits(other)'
      BY <1>2, <2>4, <3>2, <3>3 DEF MeasureFits, Measured, OnOne
    <3>5. ReportFits(q)'
      BY <2>4, <2>9, <3>1, <3>2 DEF ReportFits, OnOne, AllPass
    <3>6. QED
      BY <3>1, <3>4, <3>5 DEF MeasureFits
  <2>10. QED
    BY <2>7, <2>8, <2>9 DEF MeasureInv
<1>5. QED
  BY <1>3, <1>4

LEMMA EndsMeasure ==
    ASSUME SpendInv, MeasureInv, NEW r \in Runs, Close(r) \/ Dies(r) PROVE MeasureInv'
<1>1. PICK run \in RunShape : run = release[r]
  BY SpendTyped
<1>2. PICK at \in {"done", "dead"}, owns \in BOOLEAN :
          release' = [release EXCEPT ![r] = [run EXCEPT !.at = at, !.owns = owns]]
  <2>1. CASE Close(r)
    BY <1>1, <2>1 DEF Close
  <2>2. CASE Dies(r)
    <3>1. release' = [release EXCEPT ![r] = [run EXCEPT !.at = "dead", !.owns = run.owns]]
      BY <1>1, <2>2 DEF Dies, RunAt, RunShape
    <3>2. run.owns \in BOOLEAN
      BY DEF RunShape
    <3>3. QED
      BY <3>1, <3>2
  <2>3. QED
    BY <2>1, <2>2
<1>3. PICK new : new = [run EXCEPT !.at = at, !.owns = owns]
  OBVIOUS
<1>4. new.at = at
  BY <1>3 DEF RunShape
<1>5. MeasureFits(new) /\ new.at \in RunOver
  BY <1>4 DEF MeasureFits, Paying, RunOver
<1>6. corpus' = corpus /\ reports' = reports
  BY DEF Close, Dies
<1>7. QED
  BY <1>2, <1>3, <1>5, <1>6, MeasureMoves

\* A step that leaves the reports and what the runs measured, and takes the
\* corpus on.
LEMMA MeasureStays ==
    ASSUME SpendInv, MeasureInv, reports' = reports, corpus' \in Nat, corpus <= corpus',
           \A r \in Runs : \A f \in {"at", "from", "print", "rows"} : release'[r][f] = release[r][f]
    PROVE  MeasureInv'
<1>1. corpus \in Nat
  BY ReleaseNumbers DEF SpendInv, ReleaseTyped
<1>2. ASSUME NEW r \in Runs PROVE MeasureFits(release[r])' /\ ReportFits(r)'
  <2>1. PICK run, new : run = release[r] /\ new = release'[r]
    OBVIOUS
  <2>2. new.at = run.at /\ new.from = run.from /\ new.print = run.print /\ new.rows = run.rows
    BY <2>1
  <2>3. MeasureFits(run) /\ ReportFits(r)
    BY <2>1 DEF MeasureInv
  <2>4. Measured(run.rows, run.print) => Measured(run.rows, run.print)'
    <3>1. ASSUME NEW p \in 1 .. corpus PROVE p \in 1 .. corpus'
      BY <1>1
    <3>2. ASSUME NEW x, x <= corpus, x \in Nat PROVE x <= corpus'
      BY <1>1, <3>2
    <3>3. \A x \in run.rows : x.on \in Nat
      <4>1. run \in RunShape
        BY <2>1, SpendTyped
      <4>2. QED
        BY <4>1, ReleaseNumbers DEF RunShape, RowShape
    <3>4. QED
      BY <3>1, <3>2, <3>3 DEF Measured
  <2>5. MeasureFits(new)'
    BY <2>2, <2>3, <2>4 DEF MeasureFits, OnOne, Measured
  <2>6. ReportFits(r)'
    BY <2>1, <2>2, <2>3 DEF ReportFits, OnOne, AllPass
  <2>7. QED
    BY <2>1, <2>5, <2>6 DEF MeasureFits
<1>3. QED
  BY <1>2 DEF MeasureInv

LEMMA MeasureNext ==
    ASSUME CorpusKeepsGoing, SpendInv, MeasureInv, [ReleaseNext]_releaseVars PROVE MeasureInv'
<1>1. corpus \in Nat
  BY ReleaseNumbers DEF SpendInv, ReleaseTyped
<1>2. CASE UNCHANGED releaseVars
  BY <1>1, <1>2, MeasureStays DEF releaseVars
<1>3. CASE CorpusMoves
  BY <1>1, <1>3, MeasureStays DEF CorpusMoves
<1>4. CASE Unlock
  <2>1. ASSUME NEW r \in Runs
        PROVE  \A f \in {"at", "from", "print", "rows"} : release'[r][f] = release[r][f]
    <3>1. PICK run \in RunShape : run = release[r]
      BY SpendTyped
    <3>2. release'[r] = [run EXCEPT !.owns = FALSE]
      BY <1>4, <3>1 DEF Unlock
    <3>3. QED
      BY <3>1, <3>2 DEF RunShape
  <2>2. reports' = reports /\ corpus' = corpus
    BY <1>4 DEF Unlock
  <2>3. QED
    BY <1>1, <2>1, <2>2, MeasureStays
<1>5. ASSUME NEW r \in Runs, RunSteps(r) PROVE MeasureInv'
  <2>1. ASSUME NEW mode \in Modes, NEW s \in Runs \cup {NoRun}, Begin(r, mode, s) PROVE MeasureInv'
    BY <2>1, BeginMeasures
  <2>2. CASE Review(r)
    BY <1>1, <2>2, MeasureStays DEF Review
  <2>3. QED
    BY <1>5, <2>1, <2>2, PreflightMeasures, OpenMeasures, PaymentMeasures, SettleMeasures,
       PostflightMeasures, ReportMeasures, EndsMeasure DEF RunSteps
<1>6. QED
  BY <1>2, <1>3, <1>4, <1>5 DEF ReleaseNext

LEMMA MeasureInit == ReleaseInit => MeasureInv
<1> SUFFICES ASSUME ReleaseInit, NEW r \in Runs PROVE MeasureFits(release[r]) /\ ReportFits(r)
  BY DEF MeasureInv
<1>1. release[r] = Idle /\ reports[r] = Unwritten
  BY DEF ReleaseInit
<1>2. /\ release[r].at = "idle" /\ release[r].rows = {}
      /\ reports[r].mode = "none" /\ ~reports[r].gate
  BY <1>1 DEF Idle, Unwritten
<1>3. QED
  BY <1>2 DEF MeasureFits, ReportFits, Paying

\* Both halves: the money, and that a report which passes the gate was
\* measured on one corpus in all its rows, those of an earlier report too.
\* The command compares the fingerprint before the calls with the one after
\* them, so this is for a corpus that does not go away and come back in
\* between (release-evaluation-cli.ts, runReleaseEvaluation).
THEOREM ReleaseStaysBounded ==
    ASSUME CorpusKeepsGoing PROVE ReleaseSpec => []ReleaseIsBounded
<1>1. ReleaseInit => SpendInv /\ MeasureInv
  BY SpendInit, MeasureInit
<1>2. SpendInv /\ MeasureInv /\ [ReleaseNext]_releaseVars => SpendInv' /\ MeasureInv'
  BY SpendNext, MeasureNext
<1>3. SpendInv /\ MeasureInv => ReleaseIsBounded
  <2>1. SpendInv => PaidCallsBounded
    BY DEF SpendInv, JournalFits, PaidCallsBounded
  <2>2. MeasureInv => GateOnOneCorpus
    BY DEF MeasureInv, ReportFits, OnOne, GateOnOneCorpus
  <2>3. QED
    BY <2>1, <2>2 DEF ReleaseIsBounded
<1>4. QED
  BY <1>1, <1>2, <1>3, PTL DEF ReleaseSpec

(***************************************************************************)
(* The ingestion of a run.  What a call stored as new is new to every      *)
(* other call, so the items that calls have in hand are apart and each is  *)
(* published by the call that has it.  Without a throw a stored item is    *)
(* in the hands of a call, or published and noted.                         *)
(***************************************************************************)
RunStates == {"absent", "running", "succeeded", "failed", "cancelled"}
CountsShape == [fetched : Nat, persisted : Nat, skipped : Nat, published : Nat]
RunRowShape == [status : RunStates, before : PlacesOrNone, after : PlacesOrNone, counts : CountsShape]
IngestVerdicts == FetchEnds \cup {"none", "source_not_found", "cancelled", "rejected", "already",
                                  "transient", "succeeded"}
IngestShape ==
    [at : IngestSteps, asked : PlacesOrNone, before : PlacesOrNone, place : PlacesOrNone,
     known : BOOLEAN, left : Seq(FeedItems), fresh : Seq(FeedItems), skipped : Nat, sent : Nat,
     isNew : BOOLEAN, verdict : IngestVerdicts]
IngestTyped ==
    /\ runRow \in RunRowShape /\ storedRows \subseteq FeedItems
    /\ savedEvents \in [FeedItems -> Nat] /\ stageJobs \in [FeedItems -> Nat]
    /\ ingest \in [Ingesters -> IngestShape]
    /\ ingestFaults \in Nat

Storing == {"saving", "noting"}
Handing == {"publishing", "closing"}
PageOf(c) == PageAt[c.place].items
InHand(c, i) == \E n \in DOMAIN c.fresh : c.fresh[n] = i
Noting(c, i) == c.at = "noting" /\ c.isNew /\ Head(c.left) = i

\* How far a call is, and what of its page it has seen
CallFits(c) ==
    /\ c.at \notin Storing \cup Handing \cup {"failing"} => c.left = <<>> /\ c.fresh = <<>> /\ c.skipped = 0
    /\ c.at \notin Handing => c.sent = 0
    /\ c.at \in Storing => c.left # <<>>
    /\ c.at \in Handing => c.left = <<>>
    /\ c.at = "publishing" => Publishes /\ c.sent < Len(c.fresh)
    /\ c.at = "closing" => c.sent = IF Publishes THEN Len(c.fresh) ELSE 0
    /\ c.at \in {"saving"} \cup Handing =>
           Len(c.left) + Len(c.fresh) + c.skipped = Len(PageOf(c))
    /\ c.at = "noting" => Len(c.left) + Len(c.fresh) + c.skipped = Len(PageOf(c)) + 1
SeenFits(c) ==
    /\ c.at \in Storing \cup Handing =>
           \A n \in DOMAIN PageOf(c) :
               PageOf(c)[n] \in storedRows \/ \E m \in DOMAIN c.left : c.left[m] = PageOf(c)[n]
    /\ c.at = "noting" => Head(c.left) \in storedRows
    /\ c.at = "failing" /\ ingestFaults = 0 => c.fresh = <<>>
HandFits(c) ==
    /\ \A n \in DOMAIN c.fresh :
           c.fresh[n] \in storedRows /\ stageJobs[c.fresh[n]] = IF n <= c.sent THEN 1 ELSE 0
    /\ \A m, n \in DOMAIN c.fresh : c.fresh[m] = c.fresh[n] => m = n
    /\ c.at = "noting" /\ c.isNew => InHand(c, Head(c.left)) /\ savedEvents[Head(c.left)] = 0
HandsApart ==
    \A e, f \in Ingesters : \A i \in FeedItems : InHand(ingest[e], i) /\ InHand(ingest[f], i) => e = f
ItemsFit ==
    \A i \in FeedItems :
        /\ stageJobs[i] <= 1
        /\ i \notin storedRows => stageJobs[i] = 0 /\ savedEvents[i] = 0
        /\ i \in storedRows /\ ingestFaults = 0 =>
               /\ Publishes => stageJobs[i] = 1 \/ \E e \in Ingesters : InHand(ingest[e], i)
               /\ Notes => savedEvents[i] = 1 \/ \E e \in Ingesters : Noting(ingest[e], i)
RowFits ==
    runRow.status = "succeeded" =>
        LET n == runRow.counts
        IN  /\ n.fetched = n.persisted + n.skipped
            /\ n.published = IF Publishes THEN n.persisted ELSE 0
            /\ \E c \in PlacesOrNone :
                  /\ n.fetched = Len(PageAt[c].items)
                  /\ \A k \in DOMAIN PageAt[c].items : PageAt[c].items[k] \in storedRows
IngestInv ==
    /\ IngestTyped /\ HandsApart /\ ItemsFit /\ RowFits
    /\ \A e \in Ingesters : CallFits(ingest[e]) /\ SeenFits(ingest[e]) /\ HandFits(ingest[e])

LEMMA IngestStep ==
    ASSUME IngestInv, NEW e \in Ingesters, NEW c \in IngestShape, IngestMoves(e, c),
           storedRows \subseteq storedRows', storedRows' \subseteq FeedItems,
           savedEvents' \in [FeedItems -> Nat], stageJobs' \in [FeedItems -> Nat],
           ingestFaults' \in Nat, ingestFaults <= ingestFaults', runRow' \in RunRowShape, RowFits',
           CallFits(c), SeenFits(c)', HandFits(c)',
           \A i \in FeedItems :
               /\ InHand(c, i) => InHand(ingest[e], i) \/ i \notin storedRows
               /\ ~InHand(ingest[e], i) => stageJobs'[i] = stageJobs[i]
               /\ ~Noting(ingest[e], i) => savedEvents'[i] = savedEvents[i]
               /\ stageJobs'[i] <= 1
               /\ i \notin storedRows' => stageJobs'[i] = 0 /\ savedEvents'[i] = 0
               /\ i \in storedRows' /\ ingestFaults' = 0 =>
                      /\ i \in storedRows \/ (InHand(c, i) /\ Noting(c, i))
                      /\ Publishes /\ InHand(ingest[e], i) => InHand(c, i) \/ stageJobs'[i] = 1
                      /\ Notes /\ Noting(ingest[e], i) => Noting(c, i) \/ savedEvents'[i] = 1
    PROVE  IngestInv'
<1>1. /\ ingest \in [Ingesters -> IngestShape] /\ ingest' = [ingest EXCEPT ![e] = c]
      /\ ingest' \in [Ingesters -> IngestShape] /\ ingest'[e] = c
      /\ \A f \in Ingesters \ {e} : ingest'[f] = ingest[f]
  BY DEF IngestInv, IngestTyped, IngestMoves
<1>2. \A f \in Ingesters \ {e} : \A i \in FeedItems : InHand(ingest[f], i) => ~InHand(ingest[e], i) /\ i \in storedRows
  BY DEF IngestInv, HandsApart, HandFits, InHand
<1>3. \A f \in Ingesters : \A i \in FeedItems : Noting(ingest[f], i) => InHand(ingest[f], i)
  BY DEF IngestInv, HandFits, Noting
<1>4. IngestTyped'
  BY <1>1 DEF IngestTyped
<1>5. HandsApart'
  <2>1. ASSUME NEW f \in Ingesters, NEW g \in Ingesters, NEW i \in FeedItems,
               InHand(ingest[f]', i), InHand(ingest[g]', i)
        PROVE  f = g
    <3>1. CASE f # e /\ g # e
      BY <1>1, <2>1, <3>1 DEF IngestInv, HandsApart
    <3>2. CASE f = e /\ g # e
      BY <1>1, <1>2, <2>1, <3>2
    <3>3. CASE g = e /\ f # e
      BY <1>1, <1>2, <2>1, <3>3
    <3>4. QED
      BY <3>1, <3>2, <3>3
  <2>2. QED
    BY <2>1 DEF HandsApart, InHand
<1>6. ItemsFit'
  <2>1. ASSUME NEW i \in FeedItems, i \in storedRows', ingestFaults' = 0
        PROVE  /\ Publishes => stageJobs'[i] = 1 \/ \E f \in Ingesters : InHand(ingest[f]', i)
               /\ Notes => savedEvents'[i] = 1 \/ \E f \in Ingesters : Noting(ingest[f]', i)
    <3>1. CASE i \notin storedRows
      BY <1>1, <2>1, <3>1
    <3>2. CASE i \in storedRows
      <4>0. ingestFaults = 0
        BY <2>1 DEF IngestInv, IngestTyped
      <4>1. /\ Publishes => stageJobs[i] = 1 \/ \E f \in Ingesters : InHand(ingest[f], i)
            /\ Notes => savedEvents[i] = 1 \/ \E f \in Ingesters : Noting(ingest[f], i)
        BY <3>2, <4>0 DEF IngestInv, ItemsFit
      <4>2. Publishes => stageJobs'[i] = 1 \/ \E f \in Ingesters : InHand(ingest[f]', i)
        <5>1. CASE InHand(ingest[e], i)
          BY <1>1, <2>1, <5>1
        <5>2. CASE ~InHand(ingest[e], i)
          BY <1>1, <4>1, <5>2
        <5>3. QED
          BY <5>1, <5>2
      <4>3. Notes => savedEvents'[i] = 1 \/ \E f \in Ingesters : Noting(ingest[f]', i)
        <5>1. CASE Noting(ingest[e], i)
          BY <1>1, <2>1, <5>1
        <5>2. CASE ~Noting(ingest[e], i)
          BY <1>1, <4>1, <5>2
        <5>3. QED
          BY <5>1, <5>2
      <4>4. QED
        BY <4>2, <4>3
    <3>3. QED
      BY <3>1, <3>2
  <2>2. QED
    BY <2>1 DEF ItemsFit, InHand, Noting
<1>7. ASSUME NEW f \in Ingesters \ {e}
      PROVE  CallFits(ingest[f])' /\ SeenFits(ingest[f])' /\ HandFits(ingest[f])'
  <2>1. ingest'[f] = ingest[f] /\ CallFits(ingest[f]) /\ SeenFits(ingest[f]) /\ HandFits(ingest[f])
    BY <1>1 DEF IngestInv
  <2>0. ingestFaults' = 0 => ingestFaults = 0
    BY DEF IngestInv, IngestTyped
  <2>2. CallFits(ingest[f])'
    BY <2>1
  <2>3. SeenFits(ingest[f])'
    BY <2>0, <2>1 DEF SeenFits, PageOf
  <2>4. HandFits(ingest[f])'
    <3>1. \A n \in DOMAIN ingest[f].fresh : ingest[f].fresh[n] \in FeedItems /\ InHand(ingest[f], ingest[f].fresh[n])
      BY <2>1 DEF HandFits, InHand, IngestInv, IngestTyped
    <3>2. \A n \in DOMAIN ingest[f].fresh : stageJobs'[ingest[f].fresh[n]] = stageJobs[ingest[f].fresh[n]]
      BY <1>2, <3>1
    <3>3. ASSUME ingest[f].at = "noting", ingest[f].isNew
          PROVE  savedEvents'[Head(ingest[f].left)] = 0 /\ InHand(ingest[f], Head(ingest[f].left))
      <4>1. PICK i : i = Head(ingest[f].left)
        OBVIOUS
      <4>2. InHand(ingest[f], i) /\ savedEvents[i] = 0
        BY <2>1, <3>3, <4>1 DEF HandFits
      <4>3. i \in FeedItems
        BY <3>1, <4>2 DEF InHand
      <4>4. ~Noting(ingest[e], i)
        BY <1>2, <1>3, <4>2, <4>3
      <4>5. QED
        BY <4>1, <4>2, <4>3, <4>4
    <3>4. QED
      BY <2>1, <3>2, <3>3 DEF HandFits, InHand
  <2>5. QED
    BY <2>2, <2>3, <2>4
<1>8. ASSUME NEW f \in Ingesters
      PROVE  CallFits(ingest[f])' /\ SeenFits(ingest[f])' /\ HandFits(ingest[f])'
  <2>1. CASE f = e
    <3>1. ingest'[f] = c
      BY <1>1, <2>1
    <3>2. CallFits(ingest[f])'
      BY <3>1
    <3>3. SeenFits(ingest[f])'
      BY <3>1 DEF SeenFits, PageOf
    <3>4. HandFits(ingest[f])'
      BY <3>1 DEF HandFits, InHand
    <3>5. QED
      BY <3>2, <3>3, <3>4
  <2>2. QED
    BY <1>7, <2>1
<1>9. QED
  BY <1>4, <1>5, <1>6, <1>8 DEF IngestInv

\* What one call has and where it is
LEMMA CallFacts ==
    ASSUME IngestInv, NEW e \in Ingesters
    PROVE  /\ ingest[e] \in IngestShape /\ CallFits(ingest[e]) /\ SeenFits(ingest[e]) /\ HandFits(ingest[e])
           /\ runRow \in RunRowShape /\ RowFits /\ storedRows \subseteq FeedItems
           /\ savedEvents \in [FeedItems -> Nat] /\ stageJobs \in [FeedItems -> Nat]
           /\ ingestFaults \in Nat
           /\ \A i \in FeedItems :
                 /\ stageJobs[i] <= 1
                 /\ i \notin storedRows => stageJobs[i] = 0 /\ savedEvents[i] = 0
                 /\ InHand(ingest[e], i) => i \in storedRows
                 /\ Noting(ingest[e], i) => InHand(ingest[e], i)
BY DEF IngestInv, IngestTyped, ItemsFit, HandFits, InHand, Noting

\* A call moves on; what it had in hand it keeps, or has handed on, or something was thrown.
LEMMA IngestTurn ==
    ASSUME IngestInv, NEW e \in Ingesters, NEW c \in IngestShape, IngestMoves(e, c),
           UNCHANGED <<storedRows, savedEvents, stageJobs>>,
           ingestFaults' \in Nat, ingestFaults <= ingestFaults', runRow' \in RunRowShape, RowFits',
           CallFits(c), SeenFits(c)', HandFits(c)',
           c.fresh = ingest[e].fresh \/ c.fresh = <<>>,
           ingestFaults' = 0 =>
               /\ ingest[e].at # "noting"
               /\ Publishes =>
                      \/ c.fresh = ingest[e].fresh
                      \/ \A n \in DOMAIN ingest[e].fresh : stageJobs[ingest[e].fresh[n]] = 1
    PROVE  IngestInv'
<1>1. ASSUME NEW i \in FeedItems
      PROVE  /\ InHand(c, i) => InHand(ingest[e], i) \/ i \notin storedRows
             /\ ingestFaults' = 0 => (Publishes /\ InHand(ingest[e], i) => InHand(c, i) \/ stageJobs'[i] = 1)
             /\ ingestFaults' = 0 => ~Noting(ingest[e], i)
  <2>1. InHand(c, i) => InHand(ingest[e], i)
    BY DEF InHand
  <2>2. ingestFaults' = 0 => (Publishes /\ InHand(ingest[e], i) => InHand(c, i) \/ stageJobs'[i] = 1)
    BY DEF InHand
  <2>3. QED
    BY <2>1, <2>2 DEF Noting
<1>2. \A i \in FeedItems : stageJobs[i] <= 1 /\ (i \notin storedRows => stageJobs[i] = 0 /\ savedEvents[i] = 0)
  BY CallFacts
<1>3. QED
  BY <1>1, <1>2, CallFacts, IngestStep

Early == IngestSteps \ (Storing \cup Handing \cup {"failing"})

LEMMA IngestInvInit == IngestInit => IngestInv
<1> SUFFICES ASSUME IngestInit PROVE IngestInv
  OBVIOUS
<1>1. NoIngest \in IngestShape
  <2>1. <<>> \in Seq(FeedItems)
    OBVIOUS
  <2>2. QED
    BY <2>1 DEF NoIngest, IngestShape, IngestSteps, PlacesOrNone, IngestVerdicts
<1>2. \A e \in Ingesters : ingest[e] = NoIngest
  BY DEF IngestInit
<1>3. NoRunRow \in RunRowShape
  BY DEF NoRunRow, RunRowShape, RunStates, CountsShape, NoCounts, PlacesOrNone
<1>4. IngestTyped
  BY <1>1, <1>3 DEF IngestInit, IngestTyped
<1>5. RowFits
  BY DEF IngestInit, RowFits, NoRunRow
<1>6. /\ NoIngest.at = "idle" /\ NoIngest.left = <<>> /\ NoIngest.fresh = <<>> /\ NoIngest.skipped = 0
      /\ NoIngest.sent = 0 /\ DOMAIN NoIngest.fresh = {}
  BY DEF NoIngest
<1>7. CallFits(NoIngest) /\ SeenFits(NoIngest) /\ HandFits(NoIngest)
  BY <1>6 DEF CallFits, SeenFits, HandFits, Storing, Handing
<1>8. HandsApart
  BY <1>2, <1>6 DEF HandsApart, InHand
<1>9. ItemsFit
  BY DEF IngestInit, ItemsFit
<1>10. QED
  BY <1>2, <1>4, <1>5, <1>7, <1>8, <1>9 DEF IngestInv

\* The row says the same as long as items are only added.
LEMMA RowStays ==
    ASSUME RowFits, runRow' = runRow \/ runRow'.status # "succeeded", storedRows \subseteq storedRows'
    PROVE  RowFits'
BY DEF RowFits

LEMMA EarlyKeeps ==
    ASSUME IngestInv, NEW e \in Ingesters, ingest[e].at \in Early,
           NEW c \in IngestShape, c.at \in Early,
           c.left = <<>>, c.fresh = <<>>, c.skipped = 0, c.sent = 0, IngestMoves(e, c),
           UNCHANGED <<storedRows, savedEvents, stageJobs, ingestFaults>>,
           runRow' \in RunRowShape, runRow' = runRow \/ runRow'.status # "succeeded"
    PROVE  IngestInv'
<1>1. RowFits'
  BY RowStays, CallFacts
<1>2. ingest[e].at # "noting" /\ ingest[e].fresh = <<>>
  BY CallFacts DEF Early, CallFits, Storing
<1>3. CallFits(c) /\ SeenFits(c)' /\ HandFits(c)'
  BY DEF CallFits, SeenFits, HandFits, Storing, Handing, Early, InHand
<1>4. QED
  BY <1>1, <1>2, <1>3, CallFacts, IngestTurn

LEMMA IngestEndKeeps ==
    ASSUME IngestInv, NEW e \in Ingesters, NEW verdict \in IngestVerdicts, IngestEnds(e, verdict),
           UNCHANGED <<storedRows, savedEvents, stageJobs>>,
           ingestFaults' \in Nat, ingestFaults <= ingestFaults', runRow' \in RunRowShape, RowFits',
           ingestFaults' = 0 =>
               /\ ingest[e].at # "noting"
               /\ Publishes => \A n \in DOMAIN ingest[e].fresh : stageJobs[ingest[e].fresh[n]] = 1
    PROVE  IngestInv'
<1> DEFINE c == [NoIngest EXCEPT !.verdict = verdict]
<1>1. c \in IngestShape
  <2>1. <<>> \in Seq(FeedItems)
    OBVIOUS
  <2>2. QED
    BY <2>1 DEF NoIngest, IngestShape, IngestSteps, PlacesOrNone, IngestVerdicts
<1>2. c.at = "idle" /\ c.left = <<>> /\ c.fresh = <<>> /\ c.skipped = 0 /\ c.sent = 0
  BY DEF NoIngest
<1>3. IngestMoves(e, c)
  BY DEF IngestEnds
<1> HIDE DEF c
<1>4. CallFits(c) /\ SeenFits(c)' /\ HandFits(c)'
  BY <1>2 DEF CallFits, SeenFits, HandFits, Storing, Handing, InHand
<1>5. QED
  BY <1>1, <1>2, <1>3, <1>4, IngestTurn

LEMMA EarlyEndKeeps ==
    ASSUME IngestInv, NEW e \in Ingesters, NEW verdict \in IngestVerdicts, IngestEnds(e, verdict),
           ingest[e].at \in Early, UNCHANGED <<storedRows, savedEvents, stageJobs, ingestFaults>>,
           runRow' \in RunRowShape, runRow' = runRow \/ runRow'.status # "succeeded"
    PROVE  IngestInv'
<1>1. RowFits'
  BY RowStays, CallFacts
<1>2. ingest[e].at # "noting" /\ ingest[e].fresh = <<>>
  BY CallFacts DEF Early, CallFits, Storing
<1>3. ingestFaults' \in Nat /\ ingestFaults <= ingestFaults'
  BY CallFacts
<1>4. QED
  BY <1>1, <1>2, <1>3, IngestEndKeeps

LEMMA IngestBegins ==
    ASSUME IngestInv, NEW e \in Ingesters,
           \/ \E c \in PlacesOrNone : AskIngestion(e, c)
           \/ FindSource(e) \/ LookToCancel(e) \/ LookUpRun(e)
    PROVE  IngestInv'
<1>1. ingest[e] \in IngestShape /\ runRow \in RunRowShape /\ CallFits(ingest[e])
  BY CallFacts
<1>2. ASSUME NEW p \in PlacesOrNone, AskIngestion(e, p) PROVE IngestInv'
  <2> DEFINE c == [NoIngest EXCEPT !.at = "finding", !.asked = p]
  <2>1. c \in IngestShape
    <3>1. <<>> \in Seq(FeedItems)
      OBVIOUS
    <3>2. QED
      BY <3>1 DEF NoIngest, IngestShape, IngestSteps, PlacesOrNone, IngestVerdicts
  <2>2. c.at = "finding" /\ c.left = <<>> /\ c.fresh = <<>> /\ c.skipped = 0 /\ c.sent = 0
    BY DEF NoIngest
  <2>3. IngestMoves(e, c) /\ ingest[e].at = "idle" /\ UNCHANGED <<storedRows, savedEvents, stageJobs, ingestFaults, runRow>>
    BY <1>2 DEF AskIngestion, AtStep
  <2> HIDE DEF c
  <2>4. ingest[e].at \in Early /\ c.at \in Early
    BY <2>2, <2>3 DEF Early, IngestSteps, Storing, Handing
  <2>5. QED
    BY <1>1, <2>1, <2>2, <2>3, <2>4, EarlyKeeps
<1>3. ASSUME ingest[e].at \in Early, NEW at \in Early, NEW k \in BOOLEAN, NEW b \in PlacesOrNone,
             IngestMoves(e, [ingest[e] EXCEPT !.at = at, !.known = k, !.before = b]),
             UNCHANGED <<storedRows, savedEvents, stageJobs, ingestFaults, runRow>>
      PROVE  IngestInv'
  <2> DEFINE c == [ingest[e] EXCEPT !.at = at, !.known = k, !.before = b]
  <2>1. c \in IngestShape /\ c.at = at
    BY <1>1, <1>3 DEF IngestShape, Early
  <2>2. c.left = ingest[e].left /\ c.fresh = ingest[e].fresh /\ c.skipped = ingest[e].skipped /\ c.sent = ingest[e].sent
    BY <1>1 DEF IngestShape
  <2>3. c.left = <<>> /\ c.fresh = <<>> /\ c.skipped = 0 /\ c.sent = 0
    BY <1>1, <1>3, <2>2 DEF CallFits, Early
  <2> HIDE DEF c
  <2>4. IngestMoves(e, c)
    BY <1>3 DEF c
  <2>5. QED
    BY <1>1, <1>3, <2>1, <2>3, <2>4, EarlyKeeps
<1>4. {"finding", "looking_to_cancel", "looking", "cancelling", "opening"} \subseteq Early
  BY DEF Early, IngestSteps, Storing, Handing
<1>5. ASSUME FindSource(e) PROVE IngestInv'
  <2>1. ingest[e].at \in Early /\ UNCHANGED <<storedRows, savedEvents, stageJobs, ingestFaults, runRow>>
    BY <1>4, <1>5 DEF FindSource, AtStep
  <2>2. CASE IngestEnds(e, "source_not_found")
    BY <1>1, <2>1, <2>2, EarlyEndKeeps DEF IngestVerdicts
  <2>3. ASSUME NEW at \in {"looking_to_cancel", "looking"}, IngestMoves(e, [ingest[e] EXCEPT !.at = at])
        PROVE  IngestInv'
    <3>1. [ingest[e] EXCEPT !.at = at]
              = [ingest[e] EXCEPT !.at = at, !.known = ingest[e].known, !.before = ingest[e].before]
      BY <1>1 DEF IngestShape
    <3>2. ingest[e].known \in BOOLEAN /\ ingest[e].before \in PlacesOrNone
      BY <1>1 DEF IngestShape
    <3>3. QED
      BY <1>3, <1>4, <2>1, <2>3, <3>1, <3>2
  <2>4. QED
    BY <1>5, <2>2, <2>3 DEF FindSource
<1>6. ASSUME LookToCancel(e) PROVE IngestInv'
  <2>1. ingest[e].at \in Early /\ UNCHANGED <<storedRows, savedEvents, stageJobs, ingestFaults, runRow>>
    BY <1>4, <1>6 DEF LookToCancel, AtStep
  <2>2. PICK k \in BOOLEAN : k = (runRow # NoRunRow)
    OBVIOUS
  <2>3. IngestMoves(e, [ingest[e] EXCEPT !.at = "cancelling", !.known = k])
    BY <1>6, <2>2 DEF LookToCancel
  <2>4. [ingest[e] EXCEPT !.at = "cancelling", !.known = k]
            = [ingest[e] EXCEPT !.at = "cancelling", !.known = k, !.before = ingest[e].before]
    BY <1>1 DEF IngestShape
  <2>5. ingest[e].before \in PlacesOrNone
    BY <1>1 DEF IngestShape
  <2>6. QED
    BY <1>3, <1>4, <2>1, <2>3, <2>4, <2>5
<1>7. ASSUME LookUpRun(e) PROVE IngestInv'
  <2>1. ingest[e].at \in Early /\ UNCHANGED <<storedRows, savedEvents, stageJobs, ingestFaults, runRow>>
    BY <1>4, <1>7 DEF LookUpRun, AtStep
  <2>2. CASE IngestEnds(e, "already")
    BY <1>1, <2>1, <2>2, EarlyEndKeeps DEF IngestVerdicts
  <2>3. PICK k, b :
            /\ k = (runRow # NoRunRow)
            /\ b = IF ingest[e].asked # NoPlace THEN ingest[e].asked ELSE runRow.before
    OBVIOUS
  <2>4. b \in PlacesOrNone /\ k \in BOOLEAN
    BY <1>1, <2>3 DEF IngestShape, RunRowShape
  <2>5. CASE IngestMoves(e, [ingest[e] EXCEPT !.at = "opening", !.known = k, !.before = b])
    BY <1>3, <1>4, <2>1, <2>4, <2>5
  <2>6. QED
    BY <1>7, <2>2, <2>3, <2>5 DEF LookUpRun
<1>8. QED
  BY <1>2, <1>5, <1>6, <1>7

LEMMA IngestOpens ==
    ASSUME IngestInv, NEW e \in Ingesters, CancelRun(e) \/ OpenRun(e)
    PROVE  IngestInv'
<1>1. ingest[e] \in IngestShape /\ runRow \in RunRowShape /\ CallFits(ingest[e])
  BY CallFacts
<1>2. UNCHANGED <<storedRows, savedEvents, stageJobs, ingestFaults>> /\ ingest[e].at \in Early
  BY DEF CancelRun, OpenRun, AtStep, Early, IngestSteps, Storing, Handing
<1>3. ASSUME NEW s \in {"cancelled", "running"}, Creates(e, s)
      PROVE  runRow' \in RunRowShape /\ runRow'.status # "succeeded"
  <2>1. NoRunRow \in RunRowShape
    BY DEF NoRunRow, RunRowShape, RunStates, CountsShape, NoCounts, PlacesOrNone
  <2>2. runRow' = [NoRunRow EXCEPT !.status = s, !.before = ingest[e].asked]
    BY <1>3 DEF Creates
  <2>3. s \in RunStates /\ s # "succeeded" /\ ingest[e].asked \in PlacesOrNone
    BY <1>1, <1>3 DEF RunStates, IngestShape
  <2>4. QED
    BY <2>1, <2>2, <2>3 DEF RunRowShape
<1>4. ASSUME CancelRun(e) PROVE IngestInv'
  <2>1. CASE runRow' = [runRow EXCEPT !.status = "cancelled"] /\ IngestEnds(e, "cancelled")
    <3>1. runRow' \in RunRowShape /\ runRow'.status # "succeeded"
      BY <1>1, <2>1 DEF RunRowShape, RunStates
    <3>2. QED
      BY <1>2, <2>1, <3>1, EarlyEndKeeps DEF IngestVerdicts
  <2>2. CASE Creates(e, "cancelled") /\ IngestEnds(e, "cancelled")
    <3>1. runRow' \in RunRowShape /\ runRow'.status # "succeeded"
      BY <1>3, <2>2
    <3>2. QED
      BY <1>2, <2>2, <3>1, EarlyEndKeeps DEF IngestVerdicts
  <2>3. CASE UNCHANGED runRow /\ IngestEnds(e, "rejected")
    BY <1>1, <1>2, <2>3, EarlyEndKeeps DEF IngestVerdicts
  <2>4. QED
    BY <1>4, <2>1, <2>2, <2>3 DEF CancelRun
<1>5. ASSUME Collects(e), runRow' \in RunRowShape, runRow'.status # "succeeded" PROVE IngestInv'
  <2>1. PICK p : p = IF ingest[e].asked # NoPlace THEN ingest[e].asked ELSE runRow'.before
    OBVIOUS
  <2>2. p \in PlacesOrNone
    BY <1>1, <1>5, <2>1 DEF IngestShape, RunRowShape
  <2> DEFINE c == [ingest[e] EXCEPT !.at = "collecting", !.place = p]
  <2>3. IngestMoves(e, c)
    BY <1>5, <2>1 DEF Collects
  <2>4. c \in IngestShape /\ c.at = "collecting"
    BY <1>1, <2>2 DEF IngestShape, IngestSteps
  <2>5. c.left = ingest[e].left /\ c.fresh = ingest[e].fresh /\ c.skipped = ingest[e].skipped /\ c.sent = ingest[e].sent
    BY <1>1 DEF IngestShape
  <2> HIDE DEF c
  <2>6. c.left = <<>> /\ c.fresh = <<>> /\ c.skipped = 0 /\ c.sent = 0 /\ c.at \in Early
    BY <1>1, <1>2, <2>4, <2>5 DEF CallFits, Early, IngestSteps, Storing, Handing
  <2>7. QED
    BY <1>2, <1>5, <2>3, <2>4, <2>6, EarlyKeeps
<1>6. ASSUME OpenRun(e) PROVE IngestInv'
  <2>1. CASE /\ runRow' = [runRow EXCEPT !.status = "running",
                             !.before = IF ingest[e].before # NoPlace THEN ingest[e].before ELSE @]
             /\ Collects(e)
    <3>1. PICK b : b = IF ingest[e].before # NoPlace THEN ingest[e].before ELSE runRow.before
      OBVIOUS
    <3>2. b \in PlacesOrNone
      BY <1>1, <3>1 DEF IngestShape, RunRowShape
    <3>3. runRow' = [runRow EXCEPT !.status = "running", !.before = b]
      BY <2>1, <3>1
    <3>4. runRow' \in RunRowShape /\ runRow'.status # "succeeded"
      BY <1>1, <3>2, <3>3 DEF RunRowShape, RunStates
    <3>5. QED
      BY <1>5, <2>1, <3>4
  <2>2. CASE Creates(e, "running") /\ Collects(e)
    BY <1>3, <1>5, <2>2
  <2>3. CASE UNCHANGED runRow /\ IngestEnds(e, "rejected")
    BY <1>1, <1>2, <2>3, EarlyEndKeeps DEF IngestVerdicts
  <2>4. QED
    BY <1>6, <2>1, <2>2, <2>3 DEF OpenRun
<1>7. QED
  BY <1>4, <1>6

LEMMA PageItems ==
    ASSUME NEW p \in PlacesOrNone
    PROVE  /\ PageAt[p].items \in Seq(FeedItems) /\ PageAt[p].next \in PlacesOrNone
           /\ ItemsOf(p) = {PageAt[p].items[n] : n \in DOMAIN PageAt[p].items}
<1>1. PageAt[p].items \in Seq(ItemsOf(p)) /\ PageAt[p].next \in PlacesOrNone
  BY IngestAssumption DEF PlacesOrNone, ItemsOf
<1>2. ItemsOf(p) \subseteq FeedItems
  BY DEF FeedItems
<1>3. ItemsOf(p) = {PageAt[p].items[n] : n \in DOMAIN PageAt[p].items}
  BY DEF ItemsOf, ToSet
<1>4. PageAt[p].items \in Seq(FeedItems)
  BY <1>1, <1>2
<1>5. QED
  BY <1>1, <1>3, <1>4

\* Where Onward leads
LEMMA OnwardIs ==
    ASSUME NEW c \in IngestShape
    PROVE  /\ Onward(c) \in IngestShape
           /\ Onward(c).at = IF c.left # <<>> THEN "saving"
                             ELSE IF Publishes /\ c.sent < Len(c.fresh) THEN "publishing" ELSE "closing"
           /\ Onward(c).left = c.left /\ Onward(c).fresh = c.fresh /\ Onward(c).place = c.place
           /\ Onward(c).skipped = c.skipped /\ Onward(c).sent = c.sent
<1>1. PICK at : at = IF c.left # <<>> THEN "saving"
                     ELSE IF Publishes /\ c.sent < Len(c.fresh) THEN "publishing" ELSE "closing"
  OBVIOUS
<1>2. Onward(c) = [c EXCEPT !.at = at]
  BY <1>1 DEF Onward
<1>3. at \in IngestSteps
  BY <1>1 DEF IngestSteps
<1>4. QED
  BY <1>1, <1>2, <1>3 DEF IngestShape

LEMMA CollectKeeps == ASSUME IngestInv, NEW e \in Ingesters, CollectPage(e) PROVE IngestInv'
<1>1. ingest[e] \in IngestShape /\ CallFits(ingest[e]) /\ ingest[e].at = "collecting"
  BY CallFacts DEF CollectPage, AtStep
<1>2. /\ UNCHANGED <<storedRows, savedEvents, stageJobs, ingestFaults, runRow>>
      /\ ingest[e].left = <<>> /\ ingest[e].fresh = <<>> /\ ingest[e].skipped = 0 /\ ingest[e].sent = 0
  BY <1>1 DEF CollectPage, CallFits, Storing, Handing
<1>3. RowFits'
  BY <1>2, RowStays, CallFacts
<1>4. CASE IngestMoves(e, Onward([ingest[e] EXCEPT !.left = PageAt[ingest[e].place].items]))
  <2>0. PICK b, c : b = [ingest[e] EXCEPT !.left = PageAt[ingest[e].place].items] /\ c = Onward(b)
    OBVIOUS
  <2>1. PageAt[ingest[e].place].items \in Seq(FeedItems)
    BY <1>1, PageItems DEF IngestShape
  <2>2. /\ b \in IngestShape /\ b.left = PageAt[ingest[e].place].items /\ b.place = ingest[e].place
        /\ b.fresh = <<>> /\ b.skipped = 0 /\ b.sent = 0
    BY <1>1, <1>2, <2>0, <2>1 DEF IngestShape
  <2>3. /\ c \in IngestShape /\ c.left = b.left /\ c.fresh = <<>> /\ c.skipped = 0 /\ c.sent = 0
        /\ c.left = PageOf(c)
        /\ c.at = IF b.left # <<>> THEN "saving" ELSE "closing"
    <3>1. Len(<<>>) = 0 /\ ~(0 < 0)
      OBVIOUS
    <3>2. QED
      BY <2>0, <2>2, <3>1, OnwardIs DEF PageOf
  <2>4. Len(c.left) \in Nat /\ Len(c.fresh) = 0 /\ Len(c.left) + 0 + 0 = Len(c.left)
    <3>1. c.left \in Seq(FeedItems) /\ Len(<<>>) = 0
      BY <2>3 DEF IngestShape
    <3>2. QED
      BY <2>3, <3>1
  <2>5. CallFits(c)
    <3>1. c.at \in {"saving", "closing"} /\ (c.at = "saving" <=> c.left # <<>>)
      BY <2>3
    <3>2. Len(c.left) + Len(c.fresh) + c.skipped = Len(PageOf(c))
      BY <2>3, <2>4
    <3>3. c.sent = 0 /\ c.sent = IF Publishes THEN Len(c.fresh) ELSE 0
      BY <2>3, <2>4
    <3>4. QED
      BY <3>1, <3>2, <3>3 DEF CallFits, Storing, Handing
  <2>6. SeenFits(c)' /\ HandFits(c)'
    BY <2>3 DEF SeenFits, HandFits, Storing, Handing, InHand, PageOf
  <2>7. IngestMoves(e, c)
    BY <1>4, <2>0
  <2>8. QED
    BY <1>1, <1>2, <1>3, <2>3, <2>5, <2>6, <2>7, CallFacts, IngestTurn
<1>5. ASSUME NEW end \in FetchEnds, IngestMoves(e, [ingest[e] EXCEPT !.at = "failing", !.verdict = end])
      PROVE  IngestInv'
  <2>0. PICK c : c = [ingest[e] EXCEPT !.at = "failing", !.verdict = end]
    OBVIOUS
  <2>1. /\ c \in IngestShape /\ c.at = "failing" /\ c.left = <<>> /\ c.fresh = <<>>
        /\ c.skipped = 0 /\ c.sent = 0
    BY <1>1, <1>2, <2>0 DEF IngestShape, IngestSteps, IngestVerdicts
  <2>2. IngestMoves(e, c)
    BY <1>5, <2>0
  <2>3. CallFits(c) /\ SeenFits(c)' /\ HandFits(c)'
    BY <2>1 DEF CallFits, SeenFits, HandFits, Storing, Handing, InHand
  <2>4. QED
    BY <1>1, <1>2, <1>3, <2>1, <2>2, <2>3, CallFacts, IngestTurn
<1>6. QED
  BY <1>4, <1>5 DEF CollectPage

LEMMA IngestFails ==
    ASSUME IngestInv, NEW e \in Ingesters, FailRun(e) \/ IngestionRejects(e)
    PROVE  IngestInv'
<1>1. ingest[e] \in IngestShape /\ runRow \in RunRowShape /\ SeenFits(ingest[e]) /\ ingestFaults \in Nat
  BY CallFacts
<1>2. CASE FailRun(e)
  <2>1. /\ UNCHANGED <<storedRows, savedEvents, stageJobs, ingestFaults>>
        /\ runRow' = [runRow EXCEPT !.status = "failed"] /\ ingest[e].at = "failing"
        /\ IngestEnds(e, ingest[e].verdict)
    BY <1>2 DEF FailRun, AtStep
  <2>2. runRow' \in RunRowShape /\ runRow'.status # "succeeded"
    BY <1>1, <2>1 DEF RunRowShape, RunStates
  <2>3. RowFits'
    BY <2>1, <2>2, RowStays, CallFacts
  <2>4. ingestFaults' = 0 => ingest[e].fresh = <<>>
    BY <1>1, <2>1 DEF SeenFits
  <2>5. ingest[e].verdict \in IngestVerdicts
    BY <1>1 DEF IngestShape
  <2>6. QED
    BY <1>1, <2>1, <2>2, <2>3, <2>4, <2>5, IngestEndKeeps
<1>3. CASE IngestionRejects(e)
  <2>1. /\ UNCHANGED <<storedRows, savedEvents, stageJobs, runRow>>
        /\ IngestEnds(e, "rejected") /\ ingestFaults' = ingestFaults + 1
    BY <1>3 DEF IngestionRejects, IngestFault
  <2>2. RowFits'
    BY <2>1, RowStays, CallFacts
  <2>3. ingestFaults' \in Nat /\ ingestFaults <= ingestFaults' /\ ingestFaults' # 0
    BY <1>1, <2>1
  <2>4. QED
    BY <1>1, <2>1, <2>2, <2>3, IngestEndKeeps DEF IngestVerdicts
<1>4. QED
  BY <1>2, <1>3

\* A call that stores or hands on, with its numbers
LEMMA StoringCall ==
    ASSUME IngestInv, NEW e \in Ingesters, ingest[e].at \in Storing \cup Handing
    PROVE  /\ ingest[e] \in IngestShape /\ ingest[e].left \in Seq(FeedItems)
           /\ ingest[e].fresh \in Seq(FeedItems) /\ ingest[e].skipped \in Nat
           /\ Len(PageOf(ingest[e])) \in Nat /\ Len(ingest[e].left) \in Nat /\ Len(ingest[e].fresh) \in Nat
           /\ ingest[e].at \in Storing =>
                  /\ ingest[e].left # <<>> /\ ingest[e].sent = 0
                  /\ Head(ingest[e].left) \in FeedItems /\ ingest[e].left[1] = Head(ingest[e].left)
                  /\ 1 \in DOMAIN ingest[e].left
<1>1. ingest[e] \in IngestShape /\ CallFits(ingest[e])
  BY CallFacts
<1>2. /\ ingest[e].left \in Seq(FeedItems) /\ ingest[e].fresh \in Seq(FeedItems)
      /\ ingest[e].skipped \in Nat /\ ingest[e].place \in PlacesOrNone
  BY <1>1 DEF IngestShape
<1>3. PageOf(ingest[e]) \in Seq(FeedItems)
  BY <1>2, PageItems DEF PageOf
<1>4. Len(PageOf(ingest[e])) \in Nat /\ Len(ingest[e].left) \in Nat /\ Len(ingest[e].fresh) \in Nat
  BY <1>2, <1>3
<1>5. ingest[e].at \in Storing => ingest[e].left # <<>> /\ ingest[e].sent = 0
  BY <1>1 DEF CallFits, Storing, Handing
<1>6. ingest[e].left # <<>> =>
          /\ Head(ingest[e].left) \in FeedItems /\ ingest[e].left[1] = Head(ingest[e].left)
          /\ 1 \in DOMAIN ingest[e].left
  BY <1>2
<1>7. QED
  BY <1>1, <1>2, <1>4, <1>5, <1>6

LEMMA OneMore ==
    ASSUME NEW l \in Nat, NEW f \in Nat, NEW s \in Nat, NEW p \in Nat
    PROVE  /\ l + f + s = p => l + f + (s + 1) = p + 1 /\ l + (f + 1) + s = p + 1
           /\ l + f + s = p + 1 => l - 1 + f + s = p
  OBVIOUS

\* A call that has looked at the first item it has left has still seen its page.
LEMMA SeenAgain ==
    ASSUME NEW b, NEW c, NEW i, SeenFits(b), b.at \in Storing, Head(b.left) = i,
           c.at = "noting", c.left = b.left, c.place = b.place,
           storedRows \subseteq storedRows', i \in storedRows'
    PROVE  SeenFits(c)'
<1>1. PageOf(c) = PageOf(b)
  BY DEF PageOf
<1>2. \A n \in DOMAIN PageOf(b) :
          PageOf(b)[n] \in storedRows \/ \E m \in DOMAIN b.left : b.left[m] = PageOf(b)[n]
  BY DEF SeenFits
<1>3. \A n \in DOMAIN PageOf(c) :
          PageOf(c)[n] \in storedRows' \/ \E m \in DOMAIN c.left : c.left[m] = PageOf(c)[n]
  BY <1>1, <1>2
<1>4. Head(c.left) \in storedRows'
  OBVIOUS
<1>5. c.at # "failing"
  OBVIOUS
<1>6. QED
  BY <1>3, <1>4, <1>5 DEF SeenFits, PageOf

LEMMA SaveKeeps == ASSUME IngestInv, NEW e \in Ingesters, SaveItem(e) PROVE IngestInv'
<1>1. /\ ingest[e] \in IngestShape /\ CallFits(ingest[e]) /\ SeenFits(ingest[e]) /\ HandFits(ingest[e])
      /\ storedRows \subseteq FeedItems /\ ingest[e].at = "saving"
  BY CallFacts DEF SaveItem, AtStep
<1>2. PICK b, i, c : b = ingest[e] /\ i = Head(b.left) /\ c = KeptItem(b, i)
  OBVIOUS
<1>3. /\ b \in IngestShape /\ b.at = "saving" /\ b.left \in Seq(FeedItems) /\ b.left # <<>>
      /\ b.fresh \in Seq(FeedItems) /\ b.sent = 0 /\ b.skipped \in Nat
      /\ Len(b.left) + Len(b.fresh) + b.skipped = Len(PageOf(b))
      /\ i \in FeedItems /\ b.left[1] = i /\ 1 \in DOMAIN b.left
  <2>1. ingest[e].at \in Storing
    BY <1>1 DEF Storing
  <2>2. Len(ingest[e].left) + Len(ingest[e].fresh) + ingest[e].skipped = Len(PageOf(ingest[e]))
    BY <1>1 DEF CallFits
  <2>3. QED
    BY <1>1, <1>2, <2>1, <2>2, StoringCall
<1>4. /\ UNCHANGED <<runRow, savedEvents, stageJobs, ingestFaults>> /\ storedRows' = storedRows \cup {i}
      /\ IngestMoves(e, c) /\ storedRows' \subseteq FeedItems
  BY <1>1, <1>2, <1>3 DEF SaveItem
<1>5. RowFits'
  BY <1>4, RowStays, CallFacts
<1>6. \A n \in DOMAIN b.fresh : b.fresh[n] \in storedRows /\ stageJobs[b.fresh[n]] = 0
  BY <1>1, <1>2, <1>3 DEF HandFits
<1>7. CASE i \in storedRows
  <2>1. c = [b EXCEPT !.at = "noting", !.isNew = FALSE, !.skipped = @ + 1]
    BY <1>2, <1>7 DEF KeptItem
  <2>2. /\ c \in IngestShape /\ c.at = "noting" /\ c.left = b.left /\ c.fresh = b.fresh /\ c.sent = 0
        /\ c.skipped = b.skipped + 1 /\ ~c.isNew /\ c.place = b.place
    <3>1. PICK k : k = b.skipped + 1
      OBVIOUS
    <3>2. c = [b EXCEPT !.at = "noting", !.isNew = FALSE, !.skipped = k] /\ k \in Nat
      BY <1>3, <2>1, <3>1
    <3>3. QED
      BY <1>3, <3>1, <3>2 DEF IngestShape, IngestSteps
  <2>3. CallFits(c)
    <3>1. Len(c.left) + Len(c.fresh) + c.skipped = Len(PageOf(c)) + 1
      <4>1. Len(b.left) \in Nat /\ Len(b.fresh) \in Nat /\ Len(PageOf(b)) \in Nat
        BY <1>1, <1>2, StoringCall DEF Storing
      <4>2. Len(b.left) + Len(b.fresh) + (b.skipped + 1) = Len(PageOf(b)) + 1
        <5>1. PICK l \in Nat, f \in Nat, s \in Nat, p \in Nat :
                  l = Len(b.left) /\ f = Len(b.fresh) /\ s = b.skipped /\ p = Len(PageOf(b))
          BY <1>3, <4>1
        <5>2. l + f + s = p
          BY <1>3, <5>1
        <5>3. l + f + (s + 1) = p + 1
          BY <5>2, OneMore
        <5>4. QED
          BY <5>1, <5>3
      <4>3. QED
        BY <2>2, <4>2 DEF PageOf
    <3>2. QED
      BY <1>3, <2>2, <3>1 DEF CallFits, Storing, Handing
  <2>4. SeenFits(c)'
    <3>1. storedRows \subseteq storedRows' /\ i \in storedRows'
      BY <1>4
    <3>2. Head(b.left) = i
      BY <1>2
    <3>3. SeenFits(b) /\ b.at \in Storing
      BY <1>1, <1>2, <1>3 DEF Storing
    <3>4. c.at = "noting" /\ c.left = b.left /\ c.place = b.place
      BY <2>2
    <3>5. QED
      BY <3>1, <3>2, <3>3, <3>4, SeenAgain
  <2>5. HandFits(c)'
    <3>1. \A n \in DOMAIN c.fresh :
              c.fresh[n] \in storedRows' /\ stageJobs'[c.fresh[n]] = IF n <= c.sent THEN 1 ELSE 0
      <4>1. ASSUME NEW n \in DOMAIN c.fresh
            PROVE  c.fresh[n] \in storedRows' /\ stageJobs'[c.fresh[n]] = 0 /\ ~(n <= c.sent)
        <5>1. n \in DOMAIN b.fresh /\ n \in Nat \ {0} /\ c.sent = 0
          BY <1>3, <2>2
        <5>2. c.fresh[n] \in storedRows /\ stageJobs[c.fresh[n]] = 0
          BY <1>6, <2>2, <5>1
        <5>3. ~(n <= c.sent)
          BY <5>1
        <5>4. QED
          BY <1>4, <5>2, <5>3
      <4>2. QED
        BY <4>1
    <3>2. \A m, n \in DOMAIN c.fresh : c.fresh[m] = c.fresh[n] => m = n
      BY <1>1, <1>2, <2>2 DEF HandFits
    <3>3. QED
      BY <2>2, <3>1, <3>2 DEF HandFits
  <2>6. storedRows' = storedRows
    BY <1>4, <1>7
  <2>7. ~Noting(ingest[e], i)
    BY <1>1 DEF Noting
  <2>8. ingestFaults' \in Nat /\ ingestFaults <= ingestFaults' /\ runRow' \in RunRowShape
    BY <1>4, CallFacts
  <2>9. c.fresh = ingest[e].fresh
    BY <1>2, <2>2
  <2>10. QED
    BY <1>1, <1>4, <1>5, <2>2, <2>3, <2>4, <2>5, <2>6, <2>8, <2>9, IngestTurn
<1>8. CASE i \notin storedRows
  <2>1. c = [b EXCEPT !.at = "noting", !.isNew = TRUE, !.fresh = Append(@, i)]
    BY <1>2, <1>8 DEF KeptItem
  <2>2. PICK fresh : fresh = Append(b.fresh, i)
    OBVIOUS
  <2>3. /\ fresh \in Seq(FeedItems) /\ Len(fresh) = Len(b.fresh) + 1 /\ Len(b.fresh) \in Nat
        /\ DOMAIN fresh = 1 .. Len(b.fresh) + 1 /\ DOMAIN b.fresh = 1 .. Len(b.fresh)
        /\ fresh[Len(b.fresh) + 1] = i /\ \A n \in 1 .. Len(b.fresh) : fresh[n] = b.fresh[n]
    BY <1>3, <2>2, AppendProperties
  <2>4. /\ c \in IngestShape /\ c.at = "noting" /\ c.left = b.left /\ c.fresh = fresh /\ c.sent = 0
        /\ c.skipped = b.skipped /\ c.isNew /\ c.place = b.place
    BY <1>3, <2>1, <2>2, <2>3 DEF IngestShape, IngestSteps
  <2>5. CallFits(c)
    <3>1. Len(b.left) \in Nat /\ Len(PageOf(b)) \in Nat /\ Len(b.fresh) \in Nat
      BY <1>1, <1>2, StoringCall DEF Storing
    <3>2. Len(c.left) + Len(c.fresh) + c.skipped = Len(PageOf(c)) + 1
      <4>1. Len(b.left) + (Len(b.fresh) + 1) + b.skipped = Len(PageOf(b)) + 1
        <5>1. PICK l \in Nat, f \in Nat, s \in Nat, p \in Nat :
                  l = Len(b.left) /\ f = Len(b.fresh) /\ s = b.skipped /\ p = Len(PageOf(b))
          BY <1>3, <3>1
        <5>2. l + f + s = p
          BY <1>3, <5>1
        <5>3. l + (f + 1) + s = p + 1
          BY <5>2, OneMore
        <5>4. QED
          BY <5>1, <5>3
      <4>2. QED
        BY <2>3, <2>4, <4>1 DEF PageOf
    <3>3. QED
      BY <1>3, <2>4, <3>2 DEF CallFits, Storing, Handing
  <2>6. SeenFits(c)'
    <3>1. storedRows \subseteq storedRows' /\ i \in storedRows'
      BY <1>4
    <3>2. Head(b.left) = i
      BY <1>2
    <3>3. SeenFits(b) /\ b.at \in Storing
      BY <1>1, <1>2, <1>3 DEF Storing
    <3>4. c.at = "noting" /\ c.left = b.left /\ c.place = b.place
      BY <2>4
    <3>5. QED
      BY <3>1, <3>2, <3>3, <3>4, SeenAgain
  <2>7. /\ \A j \in FeedItems : InHand(c, j) <=> InHand(b, j) \/ j = i
        /\ \A n \in DOMAIN fresh : fresh[n] \in storedRows' /\ stageJobs'[fresh[n]] = 0
        /\ \A m, n \in DOMAIN fresh : fresh[m] = fresh[n] => m = n
    <3>1. \A n \in DOMAIN fresh : (n \in DOMAIN b.fresh /\ fresh[n] = b.fresh[n]) \/ (n = Len(b.fresh) + 1 /\ fresh[n] = i)
      <4>1. \A n \in 1 .. Len(b.fresh) + 1 : n \in 1 .. Len(b.fresh) \/ n = Len(b.fresh) + 1
        <5>1. PICK f \in Nat : f = Len(b.fresh)
          BY <2>3
        <5>2. \A n \in 1 .. f + 1 : n \in 1 .. f \/ n = f + 1
          OBVIOUS
        <5>3. QED
          BY <5>1, <5>2
      <4>2. ASSUME NEW n \in DOMAIN fresh
            PROVE  (n \in DOMAIN b.fresh /\ fresh[n] = b.fresh[n]) \/ (n = Len(b.fresh) + 1 /\ fresh[n] = i)
        <5>1. n \in 1 .. Len(b.fresh) + 1
          BY <2>3
        <5>2. CASE n \in 1 .. Len(b.fresh)
          <6>1. DOMAIN b.fresh = 1 .. Len(b.fresh)
            BY <2>3
          <6>2. \A k \in 1 .. Len(b.fresh) : fresh[k] = b.fresh[k]
            BY <2>3
          <6>3. QED
            BY <5>2, <6>1, <6>2, Zenon
        <5>3. CASE n = Len(b.fresh) + 1
          BY <2>3, <5>3
        <5>4. QED
          BY <4>1, <5>1, <5>2, <5>3
      <4>3. QED
        BY <4>2
    <3>2. stageJobs[i] = 0 /\ stageJobs' = stageJobs /\ storedRows' = storedRows \cup {i}
      BY <1>3, <1>4, <1>8, CallFacts
    <3>3. \A j \in FeedItems : InHand(c, j) <=> InHand(b, j) \/ j = i
      BY <2>3, <2>4, <3>1 DEF InHand
    <3>4. \A n \in DOMAIN fresh : fresh[n] \in storedRows' /\ stageJobs'[fresh[n]] = 0
      BY <1>6, <3>1, <3>2
    <3>5. \A n \in DOMAIN b.fresh : b.fresh[n] # i
      BY <1>6, <1>8
    <3>6. \A m, n \in DOMAIN b.fresh : b.fresh[m] = b.fresh[n] => m = n
      BY <1>1, <1>2 DEF HandFits
    <3>7. \A m, n \in DOMAIN fresh : fresh[m] = fresh[n] => m = n
      BY <3>1, <3>5, <3>6
    <3>8. QED
      BY <3>3, <3>4, <3>7
  <2>8. savedEvents[i] = 0 /\ stageJobs[i] = 0
    BY <1>3, <1>8, CallFacts
  <2>9. HandFits(c)'
    <3>1. Head(c.left) = i /\ savedEvents'[i] = 0 /\ InHand(c, i)
      BY <1>2, <1>3, <1>4, <2>4, <2>7, <2>8
    <3>2. \A n \in DOMAIN c.fresh : ~(n <= c.sent)
      BY <2>3, <2>4
    <3>3. QED
      BY <2>4, <2>7, <3>1, <3>2 DEF HandFits, InHand
  <2>10. ASSUME NEW j \in FeedItems
         PROVE  /\ InHand(c, j) => InHand(ingest[e], j) \/ j \notin storedRows
                /\ ~InHand(ingest[e], j) => stageJobs'[j] = stageJobs[j]
                /\ ~Noting(ingest[e], j) => savedEvents'[j] = savedEvents[j]
                /\ stageJobs'[j] <= 1
                /\ j \notin storedRows' => stageJobs'[j] = 0 /\ savedEvents'[j] = 0
                /\ j \in storedRows' /\ ingestFaults' = 0 =>
                       /\ j \in storedRows \/ (InHand(c, j) /\ Noting(c, j))
                       /\ InHand(ingest[e], j) => InHand(c, j) \/ stageJobs'[j] = 1
                       /\ Noting(ingest[e], j) => Noting(c, j) \/ savedEvents'[j] = 1
    <3>1. stageJobs[j] <= 1 /\ (j \notin storedRows => stageJobs[j] = 0 /\ savedEvents[j] = 0)
      BY CallFacts
    <3>2. (InHand(c, j) <=> InHand(ingest[e], j) \/ j = i) /\ ~Noting(ingest[e], j)
      BY <1>1, <1>2, <2>7 DEF Noting
    <3>3. Noting(c, i)
      BY <1>2, <2>4 DEF Noting
    <3>4. QED
      BY <1>4, <1>8, <3>1, <3>2, <3>3
  <2>11. /\ savedEvents' \in [FeedItems -> Nat] /\ stageJobs' \in [FeedItems -> Nat]
         /\ ingestFaults' \in Nat /\ ingestFaults <= ingestFaults' /\ runRow' \in RunRowShape
         /\ storedRows \subseteq storedRows'
    BY <1>4, CallFacts
  <2>12. QED
    BY <1>4, <1>5, <2>4, <2>5, <2>6, <2>9, <2>10, <2>11, IngestStep
<1>9. QED
  BY <1>7, <1>8

LEMMA NoteKeeps == ASSUME IngestInv, NEW e \in Ingesters, NoteSaved(e) PROVE IngestInv'
<1>1. /\ ingest[e] \in IngestShape /\ CallFits(ingest[e]) /\ SeenFits(ingest[e]) /\ HandFits(ingest[e])
      /\ ingest[e].at = "noting"
  BY CallFacts DEF NoteSaved, AtStep
<1>2. PICK a, i, b, c :
          a = ingest[e] /\ i = Head(a.left) /\ b = [a EXCEPT !.left = Tail(@)] /\ c = Onward(b)
  OBVIOUS
<1>3. /\ a \in IngestShape /\ a.at = "noting" /\ a.left \in Seq(FeedItems) /\ a.left # <<>>
      /\ a.fresh \in Seq(FeedItems) /\ a.sent = 0 /\ a.skipped \in Nat
      /\ Len(a.left) + Len(a.fresh) + a.skipped = Len(PageOf(a)) + 1
      /\ i \in FeedItems /\ i \in storedRows /\ a.left[1] = i
  <2>1. ingest[e].at \in Storing
    BY <1>1 DEF Storing
  <2>2. Len(ingest[e].left) + Len(ingest[e].fresh) + ingest[e].skipped = Len(PageOf(ingest[e])) + 1
    BY <1>1 DEF CallFits
  <2>3. Head(ingest[e].left) \in storedRows
    BY <1>1 DEF SeenFits
  <2>4. QED
    BY <1>1, <1>2, <2>1, <2>2, <2>3, StoringCall
<1>4. /\ UNCHANGED <<runRow, storedRows, stageJobs, ingestFaults>> /\ IngestMoves(e, c)
      /\ savedEvents' = [savedEvents EXCEPT ![i] = @ + (IF Notes /\ a.isNew THEN 1 ELSE 0)]
  BY <1>2 DEF NoteSaved
<1>5. RowFits'
  BY <1>4, RowStays, CallFacts
<1>6. PICK rest : rest = Tail(a.left)
  OBVIOUS
<1>7. /\ rest \in Seq(FeedItems) /\ Len(rest) = Len(a.left) - 1 /\ Len(a.left) \in Nat
      /\ DOMAIN a.left = 1 .. Len(a.left) /\ DOMAIN rest = 1 .. Len(a.left) - 1
      /\ \A n \in DOMAIN rest : rest[n] = a.left[n + 1]
  BY <1>3, <1>6
<1>8. /\ b \in IngestShape /\ b.left = rest /\ b.fresh = a.fresh /\ b.skipped = a.skipped
      /\ b.sent = 0 /\ b.place = a.place
  BY <1>2, <1>3, <1>6, <1>7 DEF IngestShape
<1>9. /\ c \in IngestShape /\ c.left = rest /\ c.fresh = a.fresh /\ c.skipped = a.skipped
      /\ c.sent = 0 /\ c.place = a.place
      /\ c.at = IF rest # <<>> THEN "saving" ELSE IF Publishes /\ 0 < Len(a.fresh) THEN "publishing" ELSE "closing"
  BY <1>2, <1>8, OnwardIs
<1>10. CallFits(c)
  <2>1. Len(a.fresh) \in Nat /\ Len(PageOf(a)) \in Nat
    BY <1>1, <1>2, StoringCall DEF Storing
  <2>2. Len(c.left) + Len(c.fresh) + c.skipped = Len(PageOf(c))
    <3>1. Len(a.left) - 1 + Len(a.fresh) + a.skipped = Len(PageOf(a))
      <4>1. PICK l \in Nat, f \in Nat, s \in Nat, p \in Nat :
                l = Len(a.left) /\ f = Len(a.fresh) /\ s = a.skipped /\ p = Len(PageOf(a))
        BY <1>3, <1>7, <2>1
      <4>2. l + f + s = p + 1
        BY <1>3, <4>1
      <4>3. l - 1 + f + s = p
        BY <4>2, OneMore
      <4>4. QED
        BY <4>1, <4>3
    <3>2. QED
      BY <1>7, <1>9, <3>1 DEF PageOf
  <2>3. c.at \in {"saving", "publishing", "closing"} /\ (c.at = "saving" <=> c.left # <<>>)
    BY <1>9
  <2>4. /\ c.at = "publishing" => Publishes /\ 0 < Len(c.fresh)
        /\ c.at = "closing" => 0 = IF Publishes THEN Len(c.fresh) ELSE 0
    BY <1>9, <2>1
  <2>5. QED
    BY <1>9, <2>2, <2>3, <2>4 DEF CallFits, Storing, Handing
<1>11. SeenFits(c)'
  <2>1. c.at \in {"saving", "publishing", "closing"} /\ PageOf(c) = PageOf(a)
    BY <1>9 DEF PageOf
  <2>2. ASSUME NEW n \in DOMAIN PageOf(a)
        PROVE  PageOf(a)[n] \in storedRows \/ \E m \in DOMAIN rest : rest[m] = PageOf(a)[n]
    <3>1. PageOf(a)[n] \in storedRows \/ \E m \in DOMAIN a.left : a.left[m] = PageOf(a)[n]
      BY <1>1, <1>2, <1>3 DEF SeenFits, Storing
    <3>2. ASSUME NEW m \in DOMAIN a.left PROVE a.left[m] \in storedRows \/ \E k \in DOMAIN rest : rest[k] = a.left[m]
      <4>1. CASE m = 1
        BY <1>3, <4>1
      <4>2. CASE m # 1
        <5>1. m - 1 \in DOMAIN rest /\ rest[m - 1] = a.left[m]
          BY <1>7, <4>2
        <5>2. QED
          BY <5>1
      <4>3. QED
        BY <4>1, <4>2
    <3>3. QED
      BY <3>1, <3>2
  <2>3. QED
    BY <1>4, <1>9, <2>1, <2>2 DEF SeenFits
<1>12. HandFits(c)'
  <2>1. c.at # "noting"
    BY <1>9
  <2>2. QED
    <3>1. c.fresh = ingest[e].fresh /\ c.sent = ingest[e].sent /\ stageJobs' = stageJobs /\ storedRows' = storedRows
      BY <1>2, <1>3, <1>4, <1>9
    <3>2. QED
      BY <1>1, <2>1, <3>1 DEF HandFits
<1>13. /\ savedEvents \in [FeedItems -> Nat] /\ stageJobs' \in [FeedItems -> Nat]
       /\ ingestFaults' \in Nat /\ ingestFaults <= ingestFaults' /\ runRow' \in RunRowShape
       /\ storedRows \subseteq storedRows' /\ storedRows' \subseteq FeedItems
  BY <1>4, CallFacts
<1>14. savedEvents' \in [FeedItems -> Nat]
  BY <1>3, <1>4, <1>13
<1>15. ASSUME NEW j \in FeedItems
       PROVE  /\ InHand(c, j) <=> InHand(ingest[e], j)
              /\ ~Noting(ingest[e], j) => savedEvents'[j] = savedEvents[j]
              /\ j \notin storedRows => savedEvents'[j] = 0
              /\ Notes /\ Noting(ingest[e], j) => savedEvents'[j] = 1
  <2>1. InHand(c, j) <=> InHand(ingest[e], j)
    BY <1>2, <1>9 DEF InHand
  <2>2. CASE j # i
    <3>1. savedEvents'[j] = savedEvents[j] /\ ~Noting(ingest[e], j)
      BY <1>2, <1>3, <1>4, <1>13, <2>2 DEF Noting
    <3>2. QED
      BY <2>1, <3>1, CallFacts
  <2>3. CASE j = i
    <3>1. Noting(ingest[e], i) <=> a.isNew
      BY <1>1, <1>2 DEF Noting
    <3>2. a.isNew => savedEvents[i] = 0
      BY <1>1, <1>2 DEF HandFits
    <3>3. savedEvents'[i] = savedEvents[i] + (IF Notes /\ a.isNew THEN 1 ELSE 0) /\ savedEvents[i] \in Nat
      BY <1>3, <1>4, <1>13
    <3>4. CASE a.isNew
      BY <1>3, <2>1, <2>3, <3>1, <3>2, <3>3, <3>4
    <3>5. CASE ~a.isNew
      BY <1>3, <2>1, <2>3, <3>1, <3>3, <3>5
    <3>6. QED
      BY <3>4, <3>5
  <2>4. QED
    BY <2>2, <2>3
<1>16. \A j \in FeedItems : stageJobs'[j] <= 1 /\ (j \notin storedRows => stageJobs'[j] = 0)
  BY <1>4, CallFacts
<1>17. QED
  BY <1>4, <1>5, <1>9, <1>10, <1>11, <1>12, <1>13, <1>14, <1>15, <1>16, IngestStep

LEMMA SaveThrowsKeeps == ASSUME IngestInv, NEW e \in Ingesters, SaveThrows(e) PROVE IngestInv'
<1>1. /\ ingest[e] \in IngestShape /\ HandFits(ingest[e]) /\ storedRows \subseteq FeedItems
      /\ ingestFaults \in Nat /\ runRow \in RunRowShape
  BY CallFacts
<1>2. PICK b, c : b = ingest[e] /\ c = [b EXCEPT !.at = "failing", !.verdict = "transient"]
  OBVIOUS
<1>3. b \in IngestShape /\ ingest[e].at \in Storing /\ b.sent = 0 /\ Head(b.left) \in FeedItems
  BY <1>1, <1>2, StoringCall DEF SaveThrows, Storing
<1>4. /\ UNCHANGED <<runRow, savedEvents, stageJobs>> /\ IngestMoves(e, c) /\ ingestFaults' = ingestFaults + 1
      /\ storedRows \subseteq storedRows' /\ storedRows' \subseteq FeedItems
  BY <1>1, <1>2, <1>3 DEF SaveThrows, IngestFault
<1>5. RowFits'
  BY <1>4, RowStays, CallFacts
<1>6. c \in IngestShape /\ c.at = "failing" /\ c.fresh = b.fresh /\ c.sent = 0
  BY <1>2, <1>3 DEF IngestShape, IngestSteps, IngestVerdicts
<1>7. ingestFaults' \in Nat /\ ingestFaults <= ingestFaults' /\ ingestFaults' # 0
  BY <1>1, <1>4
<1>8. CallFits(c) /\ SeenFits(c)'
  BY <1>6, <1>7 DEF CallFits, SeenFits, Storing, Handing
<1>9. HandFits(c)'
  <2>1. c.at # "noting" /\ c.fresh = ingest[e].fresh /\ c.sent = ingest[e].sent /\ stageJobs' = stageJobs
    BY <1>2, <1>3, <1>4, <1>6
  <2>2. QED
    BY <1>1, <1>4, <2>1 DEF HandFits
<1>10. ASSUME NEW j \in FeedItems
       PROVE  /\ InHand(c, j) => InHand(ingest[e], j)
              /\ stageJobs[j] <= 1
              /\ j \notin storedRows' => stageJobs[j] = 0 /\ savedEvents[j] = 0
  <2>1. InHand(c, j) => InHand(ingest[e], j)
    BY <1>2, <1>6 DEF InHand
  <2>2. QED
    BY <1>4, <2>1, CallFacts
<1>11. /\ savedEvents' \in [FeedItems -> Nat] /\ stageJobs' \in [FeedItems -> Nat] /\ runRow' \in RunRowShape
  BY <1>1, <1>4, CallFacts
<1>12. QED
  BY <1>4, <1>5, <1>6, <1>7, <1>8, <1>9, <1>10, <1>11, IngestStep

LEMMA PublishKeeps == ASSUME IngestInv, NEW e \in Ingesters, PublishStageJob(e) PROVE IngestInv'
<1>1. /\ ingest[e] \in IngestShape /\ CallFits(ingest[e]) /\ SeenFits(ingest[e]) /\ HandFits(ingest[e])
      /\ ingest[e].at = "publishing" /\ stageJobs \in [FeedItems -> Nat]
  BY CallFacts DEF PublishStageJob, AtStep
<1>2. PICK a, k, i, b, c :
          /\ a = ingest[e] /\ k = a.sent + 1 /\ i = a.fresh[k]
          /\ b = [a EXCEPT !.sent = @ + 1] /\ c = Onward(b)
  OBVIOUS
<1>3. /\ a \in IngestShape /\ a.left = <<>> /\ a.fresh \in Seq(FeedItems) /\ a.sent \in Nat
      /\ Publishes /\ a.sent < Len(a.fresh) /\ Len(a.fresh) \in Nat
      /\ Len(a.left) + Len(a.fresh) + a.skipped = Len(PageOf(a))
  <2>1. /\ a \in IngestShape /\ a.left = <<>> /\ a.fresh \in Seq(FeedItems) /\ a.sent \in Nat
    BY <1>1, <1>2 DEF IngestShape, CallFits, Handing
  <2>2. Publishes /\ a.sent < Len(a.fresh) /\ Len(a.left) + Len(a.fresh) + a.skipped = Len(PageOf(a))
    BY <1>1, <1>2 DEF CallFits, Handing
  <2>3. QED
    BY <2>1, <2>2
<1>4. k \in Nat /\ k \in DOMAIN a.fresh /\ i \in FeedItems /\ k <= Len(a.fresh)
  <2>1. k \in Nat /\ k \in 1 .. Len(a.fresh)
    BY <1>2, <1>3
  <2>2. QED
    BY <1>2, <1>3, <2>1
<1>5. /\ UNCHANGED <<runRow, storedRows, savedEvents, ingestFaults>> /\ IngestMoves(e, c)
      /\ stageJobs' = [stageJobs EXCEPT ![i] = @ + 1]
  BY <1>2 DEF PublishStageJob
<1>6. RowFits'
  BY <1>5, RowStays, CallFacts
<1>7. /\ b \in IngestShape /\ b.left = <<>> /\ b.fresh = a.fresh /\ b.skipped = a.skipped
      /\ b.sent = k /\ b.place = a.place
  <2>1. b = [a EXCEPT !.sent = k]
    BY <1>2, <1>3
  <2>2. QED
    BY <1>3, <1>4, <2>1 DEF IngestShape
<1>8. /\ c \in IngestShape /\ c.left = <<>> /\ c.fresh = a.fresh /\ c.skipped = a.skipped
      /\ c.sent = k /\ c.place = a.place
      /\ c.at = IF Publishes /\ k < Len(a.fresh) THEN "publishing" ELSE "closing"
  BY <1>2, <1>7, OnwardIs
<1>9. CallFits(c)
  <2>1. c.at \in {"publishing", "closing"} /\ (c.at = "publishing" => Publishes /\ c.sent < Len(c.fresh))
    BY <1>8
  <2>2. c.at = "closing" => c.sent = IF Publishes THEN Len(c.fresh) ELSE 0
    BY <1>3, <1>4, <1>8
  <2>3. Len(c.left) + Len(c.fresh) + c.skipped = Len(PageOf(c))
    BY <1>3, <1>8 DEF PageOf
  <2>4. QED
    BY <1>8, <2>1, <2>2, <2>3 DEF CallFits, Storing, Handing
<1>10. SeenFits(c)'
  <2>1. c.at \in {"publishing", "closing"} /\ PageOf(c) = PageOf(a) /\ c.left = a.left
    BY <1>3, <1>8 DEF PageOf
  <2>2. a.at = "publishing" /\ SeenFits(a)
    BY <1>1, <1>2
  <2>3. QED
    BY <1>5, <2>1, <2>2 DEF SeenFits, Storing, Handing
<1>11. stageJobs[i] = 0 /\ i \in storedRows
  <2>1. ~(k <= a.sent)
    BY <1>2, <1>3
  <2>2. QED
    BY <1>1, <1>2, <1>4, <2>1 DEF HandFits
<1>12. stageJobs' \in [FeedItems -> Nat] /\ stageJobs'[i] = 1 /\ \A j \in FeedItems \ {i} : stageJobs'[j] = stageJobs[j]
  BY <1>1, <1>4, <1>5, <1>11
<1>13. HandFits(c)'
  <2>1. ASSUME NEW n \in DOMAIN a.fresh
        PROVE  a.fresh[n] \in storedRows /\ stageJobs'[a.fresh[n]] = IF n <= k THEN 1 ELSE 0
    <3>1. n \in Nat /\ a.fresh[n] \in FeedItems
      BY <1>3
    <3>2. /\ a.fresh[n] \in storedRows /\ stageJobs[a.fresh[n]] = (IF n <= a.sent THEN 1 ELSE 0)
          /\ a.fresh[n] = i => n = k
      BY <1>1, <1>2, <1>4 DEF HandFits
    <3>3. CASE n = k
      BY <1>2, <1>4, <1>12, <3>2, <3>3
    <3>4. CASE n # k
      <4>1. n <= k <=> n <= a.sent
        BY <1>2, <1>3, <3>1, <3>4
      <4>2. stageJobs'[a.fresh[n]] = stageJobs[a.fresh[n]]
        BY <1>12, <3>1, <3>2, <3>4
      <4>3. QED
        BY <3>2, <4>1, <4>2
    <3>5. QED
      BY <3>3, <3>4
  <2>2. \A m, n \in DOMAIN a.fresh : a.fresh[m] = a.fresh[n] => m = n
    BY <1>1, <1>2 DEF HandFits
  <2>3. c.at # "noting"
    BY <1>8
  <2>4. QED
    BY <1>5, <1>8, <2>1, <2>2, <2>3 DEF HandFits
<1>14. ASSUME NEW j \in FeedItems
       PROVE  /\ InHand(c, j) <=> InHand(ingest[e], j)
              /\ ~InHand(ingest[e], j) => stageJobs'[j] = stageJobs[j]
              /\ ~Noting(ingest[e], j) /\ stageJobs'[j] <= 1
              /\ j \notin storedRows => stageJobs'[j] = 0 /\ savedEvents[j] = 0
  <2>1. InHand(c, j) <=> InHand(ingest[e], j)
    BY <1>2, <1>8 DEF InHand
  <2>2. InHand(ingest[e], i)
    BY <1>2, <1>4 DEF InHand
  <2>3. ~Noting(ingest[e], j)
    BY <1>1 DEF Noting
  <2>4. CASE j = i
    BY <1>11, <1>12, <2>1, <2>2, <2>3, <2>4
  <2>5. CASE j # i
    BY <1>12, <2>1, <2>3, <2>5, CallFacts
  <2>6. QED
    BY <2>4, <2>5
<1>15. /\ savedEvents' \in [FeedItems -> Nat] /\ ingestFaults' \in Nat /\ ingestFaults <= ingestFaults'
       /\ runRow' \in RunRowShape /\ storedRows \subseteq storedRows' /\ storedRows' \subseteq FeedItems
  BY <1>5, CallFacts
<1>16. QED
  BY <1>5, <1>6, <1>8, <1>9, <1>10, <1>12, <1>13, <1>14, <1>15, IngestStep

LEMMA CloseKeeps == ASSUME IngestInv, NEW e \in Ingesters, CloseRun(e) PROVE IngestInv'
<1>1. /\ ingest[e] \in IngestShape /\ CallFits(ingest[e]) /\ SeenFits(ingest[e]) /\ HandFits(ingest[e])
      /\ ingest[e].at = "closing" /\ runRow \in RunRowShape /\ ingestFaults \in Nat
  BY CallFacts DEF CloseRun, AtStep
<1>2. PICK c : c = ingest[e]
  OBVIOUS
<1>3. /\ c.place \in PlacesOrNone /\ c.left = <<>> /\ c.fresh \in Seq(FeedItems) /\ c.skipped \in Nat
      /\ c.sent = (IF Publishes THEN Len(c.fresh) ELSE 0) /\ Len(c.fresh) \in Nat
      /\ Len(c.left) + Len(c.fresh) + c.skipped = Len(PageOf(c))
  <2>1. c.left = <<>> /\ c.sent = (IF Publishes THEN Len(c.fresh) ELSE 0) /\ Len(c.left) + Len(c.fresh) + c.skipped = Len(PageOf(c))
    BY <1>1, <1>2 DEF CallFits, Handing
  <2>2. c.place \in PlacesOrNone /\ c.fresh \in Seq(FeedItems) /\ c.skipped \in Nat
    BY <1>1, <1>2 DEF IngestShape
  <2>3. QED
    BY <2>1, <2>2
<1>4. PICK after, counts :
          /\ after = IF PageAt[c.place].next # NoPlace THEN PageAt[c.place].next ELSE runRow.after
          /\ counts = [fetched |-> Len(PageOf(c)), persisted |-> Len(c.fresh),
                       skipped |-> c.skipped, published |-> c.sent]
  OBVIOUS
<1>5. /\ UNCHANGED <<storedRows, savedEvents, stageJobs, ingestFaults>> /\ IngestEnds(e, "succeeded")
      /\ runRow' = [runRow EXCEPT !.status = "succeeded", !.after = after, !.counts = counts]
  BY <1>2, <1>4 DEF CloseRun, PageOf
<1>6. PageOf(c) \in Seq(FeedItems) /\ Len(PageOf(c)) \in Nat /\ after \in PlacesOrNone
  <2>1. PageOf(c) \in Seq(FeedItems) /\ PageAt[c.place].next \in PlacesOrNone /\ runRow.after \in PlacesOrNone
    BY <1>1, <1>3, PageItems DEF PageOf, RunRowShape
  <2>2. QED
    BY <1>4, <2>1
<1>7. counts \in CountsShape
  BY <1>3, <1>4, <1>6 DEF CountsShape
<1>8. runRow' \in RunRowShape /\ runRow'.counts = counts
  BY <1>1, <1>5, <1>6, <1>7 DEF RunRowShape, RunStates
<1>9. RowFits'
  <2>1. PICK l \in Nat, f \in Nat, s \in Nat : l = Len(PageOf(c)) /\ f = Len(c.fresh) /\ s = c.skipped
    BY <1>3, <1>6
  <2>2. l = f + s
    <3>1. Len(<<>>) + f + s = l
      BY <1>3, <2>1
    <3>2. QED
      BY <3>1
  <2>3. /\ counts.fetched = counts.persisted + counts.skipped
        /\ counts.published = IF Publishes THEN counts.persisted ELSE 0
        /\ counts.fetched = Len(PageAt[c.place].items)
    BY <1>3, <1>4, <2>1, <2>2 DEF PageOf
  <2>4. \A k \in DOMAIN PageAt[c.place].items : PageAt[c.place].items[k] \in storedRows
    <3>1. \A m \in DOMAIN c.left : FALSE
      BY <1>3
    <3>2. QED
      BY <1>1, <1>2, <3>1 DEF SeenFits, PageOf, Handing
  <2>5. QED
    BY <1>3, <1>5, <1>8, <2>3, <2>4 DEF RowFits
<1>10. Publishes => \A n \in DOMAIN ingest[e].fresh : stageJobs[ingest[e].fresh[n]] = 1
  <2>1. Publishes => \A n \in DOMAIN c.fresh : n <= c.sent
    BY <1>3
  <2>2. QED
    BY <1>1, <1>2, <2>1 DEF HandFits
<1>11. ingestFaults' \in Nat /\ ingestFaults <= ingestFaults' /\ ingest[e].at # "noting"
  BY <1>1, <1>5
<1>12. QED
  BY <1>5, <1>8, <1>9, <1>10, <1>11, IngestEndKeeps DEF IngestVerdicts

LEMMA IngestInvNext == IngestInv /\ [IngestNext]_ingestVars => IngestInv'
<1> SUFFICES ASSUME IngestInv, [IngestNext]_ingestVars PROVE IngestInv'
  OBVIOUS
<1>1. ASSUME UNCHANGED <<runRow, storedRows, savedEvents, stageJobs, ingest, ingestFaults>> PROVE IngestInv'
  <2>1. IngestTyped' /\ RowFits'
    BY <1>1 DEF IngestInv, IngestTyped, RowFits
  <2>2. HandsApart' /\ ItemsFit'
    BY <1>1 DEF IngestInv, HandsApart, ItemsFit
  <2>3. ASSUME NEW e \in Ingesters
        PROVE  CallFits(ingest[e])' /\ SeenFits(ingest[e])' /\ HandFits(ingest[e])'
    <3>1. ingest'[e] = ingest[e] /\ CallFits(ingest[e]) /\ SeenFits(ingest[e]) /\ HandFits(ingest[e])
      BY <1>1 DEF IngestInv
    <3>2. CallFits(ingest[e])'
      BY <3>1
    <3>3. SeenFits(ingest[e])'
      BY <1>1, <3>1 DEF SeenFits
    <3>4. HandFits(ingest[e])'
      BY <1>1, <3>1 DEF HandFits
    <3>5. QED
      BY <3>2, <3>3, <3>4
  <2>4. QED
    BY <2>1, <2>2, <2>3 DEF IngestInv
<1>2. CASE UNCHANGED ingestVars
  BY <1>1, <1>2 DEF ingestVars
<1>3. CASE SwitchFeed
  BY <1>1, <1>3 DEF SwitchFeed
<1>4. ASSUME NEW e \in Ingesters,
             \/ \E c \in PlacesOrNone : AskIngestion(e, c)
             \/ FindSource(e) \/ LookToCancel(e) \/ CancelRun(e) \/ LookUpRun(e) \/ OpenRun(e)
             \/ CollectPage(e) \/ SaveItem(e) \/ NoteSaved(e) \/ SaveThrows(e) \/ FailRun(e)
             \/ PublishStageJob(e) \/ CloseRun(e) \/ IngestionRejects(e)
      PROVE  IngestInv'
  BY <1>4, IngestBegins, IngestOpens, CollectKeeps, IngestFails, SaveKeeps, NoteKeeps, SaveThrowsKeeps,
     PublishKeeps, CloseKeeps
<1>5. QED
  BY <1>2, <1>3, <1>4 DEF IngestNext

LEMMA IngestFollows == IngestInv => StageJobsFollowItems
<1> SUFFICES ASSUME IngestInv PROVE StageJobsFollowItems
  OBVIOUS
<1>1. ASSUME NEW i \in FeedItems PROVE stageJobs[i] <= 1 /\ (stageJobs[i] = 1 => i \in storedRows)
  BY DEF IngestInv, ItemsFit
<1>2. ASSUME runRow.status = "succeeded"
      PROVE  LET n == runRow.counts
             IN  /\ n.fetched = n.persisted + n.skipped
                 /\ n.published = IF Publishes THEN n.persisted ELSE 0
                 /\ \E c \in PlacesOrNone :
                        n.fetched = Len(PageAt[c].items) /\ ItemsOf(c) \subseteq storedRows
  <2>1. \A c \in PlacesOrNone :
            (\A k \in DOMAIN PageAt[c].items : PageAt[c].items[k] \in storedRows) => ItemsOf(c) \subseteq storedRows
    BY PageItems
  <2>2. QED
    BY <1>2, <2>1 DEF IngestInv, RowFits
<1>3. ASSUME ingestFaults = 0, \A e \in Ingesters : AtStep(e, "idle"), NEW i \in storedRows
      PROVE  (Publishes => stageJobs[i] = 1) /\ (Notes => savedEvents[i] = 1)
  <2>1. i \in FeedItems
    BY DEF IngestInv, IngestTyped
  <2>2. ASSUME NEW e \in Ingesters PROVE ~InHand(ingest[e], i) /\ ~Noting(ingest[e], i)
    <3>1. ingest[e].at = "idle"
      BY <1>3 DEF AtStep
    <3>2. ingest[e].fresh = <<>>
      BY <3>1, CallFacts DEF CallFits, Storing, Handing
    <3>3. QED
      BY <3>1, <3>2 DEF InHand, Noting
  <2>3. QED
    BY <1>3, <2>1, <2>2 DEF IngestInv, ItemsFit
<1>4. QED
  BY <1>1, <1>2, <1>3 DEF StageJobsFollowItems

(***************************************************************************)
(* The feed of articles.                                                   *)
(***************************************************************************)
\* What OnceEach keeps of a list: one entry for every URL
UrlsIn(s) == {ArticleAt[s[n]] : n \in DOMAIN s}

LEMMA UrlsAdd ==
    ASSUME NEW s \in Seq(FeedEntries), NEW e \in FeedEntries
    PROVE  Append(s, e) \in Seq(FeedEntries) /\ UrlsIn(Append(s, e)) = UrlsIn(s) \cup {ArticleAt[e]}
<1>1. PICK t : t = Append(s, e)
  OBVIOUS
<1>2. /\ t \in Seq(FeedEntries) /\ DOMAIN t = 1 .. Len(s) + 1 /\ DOMAIN s = 1 .. Len(s) /\ Len(s) \in Nat
      /\ t[Len(s) + 1] = e /\ \A n \in DOMAIN s : t[n] = s[n]
  BY <1>1, AppendProperties
<1>3. \A n \in DOMAIN t : n \in DOMAIN s \/ n = Len(s) + 1
  BY <1>2
<1>4. DOMAIN s \subseteq DOMAIN t /\ Len(s) + 1 \in DOMAIN t
  BY <1>2
<1>5. UrlsIn(t) = UrlsIn(s) \cup {ArticleAt[e]}
  <2>1. ASSUME NEW u PROVE u \in UrlsIn(t) <=> u \in UrlsIn(s) \cup {ArticleAt[e]}
    <3>1. u \in UrlsIn(t) <=> \E n \in DOMAIN t : u = ArticleAt[t[n]]
      BY DEF UrlsIn
    <3>2. u \in UrlsIn(s) <=> \E n \in DOMAIN s : u = ArticleAt[s[n]]
      BY DEF UrlsIn
    <3>3. QED
      BY <1>2, <1>3, <1>4, <3>1, <3>2, Zenon
  <2>2. QED
    BY <2>1
<1>6. QED
  BY <1>1, <1>2, <1>5

KeptOnce(kept, e) ==
    IF \E n \in DOMAIN kept : ArticleAt[kept[n]] = ArticleAt[e] THEN kept ELSE Append(kept, e)
OnceFolds(g, s) ==
    g = [S \in SUBSET (DOMAIN s) |->
            IF S = {} THEN <<>> ELSE KeptOnce(g[S \ {Max(S)}], s[Max(S)])]

LEMMA OnceUnfolds ==
    ASSUME NEW s
    PROVE  OnceEach(s) = (CHOOSE g : OnceFolds(g, s))[DOMAIN s]
BY DEF OnceEach, FoldLeft, MapThenFoldSet, OnceFolds, KeptOnce

LEMMA OnceEachNames ==
    ASSUME NEW s \in Seq(FeedEntries)
    PROVE  OnceEach(s) \in Seq(FeedEntries) /\ UrlsIn(OnceEach(s)) = UrlsIn(s)
<1> DEFINE n == Len(s)
           Acc == Seq(FeedEntries)
           step == [p \in Acc \X (1 .. n) |-> KeptOnce(p[1], s[p[2]])]
<1>1. n \in Nat /\ DOMAIN s = 1 .. n /\ \A i \in 1 .. n : s[i] \in FeedEntries
  OBVIOUS
<1>2. ASSUME NEW a \in Acc, NEW e \in FeedEntries
      PROVE  KeptOnce(a, e) \in Acc /\ UrlsIn(KeptOnce(a, e)) = UrlsIn(a) \cup {ArticleAt[e]}
  <2>1. CASE \E k \in DOMAIN a : ArticleAt[a[k]] = ArticleAt[e]
    BY <2>1 DEF KeptOnce, UrlsIn
  <2>2. CASE ~\E k \in DOMAIN a : ArticleAt[a[k]] = ArticleAt[e]
    <3>1. KeptOnce(a, e) = Append(a, e)
      BY <2>2 DEF KeptOnce
    <3>2. QED
      BY <3>1, UrlsAdd
  <2>3. QED
    BY <2>1, <2>2
<1>0. <<>> \in Acc
  OBVIOUS
<1> HIDE DEF n, Acc
<1>3. \A a \in Acc : \A i \in 1 .. n : step[<<a, i>>] = KeptOnce(a, s[i])
  OBVIOUS
<1>14. step \in [Acc \X (1 .. n) -> Acc]
  BY <1>1, <1>2
<1> HIDE DEF step
<1>4. PICK h : LeftFolds(h, n, Acc, <<>>, step)
  BY <1>0, <1>1, <1>14, LeftFoldExists
<1>5. OnceFolds(h, s)
  <2>1. \A S \in SUBSET (1 .. n) :
            h[S] = IF S = {} THEN <<>> ELSE KeptOnce(h[S \ {Max(S)}], s[Max(S)])
    BY <1>3, <1>4 DEF LeftFolds
  <2>2. h = [S \in SUBSET (1 .. n) |-> h[S]]
    BY <1>4 DEF LeftFolds
  <2>3. QED
    BY <1>1, <2>1, <2>2 DEF OnceFolds
<1>6. PICK g : g = CHOOSE f : OnceFolds(f, s)
  OBVIOUS
<1>7. OnceFolds(g, s) /\ OnceEach(s) = g[1 .. n]
  BY <1>1, <1>5, <1>6, OnceUnfolds
<1>8. \A S \in SUBSET (1 .. n) : g[S] = IF S = {} THEN <<>> ELSE KeptOnce(g[S \ {Max(S)}], s[Max(S)])
  BY <1>1, <1>7 DEF OnceFolds
<1> DEFINE Good == {m \in Nat : m <= n => /\ g[1 .. m] \in Acc
                                          /\ UrlsIn(g[1 .. m]) = {ArticleAt[s[k]] : k \in 1 .. m}}
<1>9. 0 \in Good
  <2>1. 1 .. 0 = {} /\ {} \in SUBSET (1 .. n)
    BY LastOfPrefix
  <2>2. g[1 .. 0] = <<>>
    BY <1>8, <2>1
  <2>3. UrlsIn(<<>>) = {}
    BY DEF UrlsIn
  <2>4. QED
    BY <1>0, <2>1, <2>2, <2>3
<1>10. ASSUME NEW m \in Good PROVE m + 1 \in Good
  <2>1. m \in Nat /\ m + 1 \in Nat
    OBVIOUS
  <2>2. ASSUME m + 1 <= n
        PROVE  g[1 .. m + 1] \in Acc /\ UrlsIn(g[1 .. m + 1]) = {ArticleAt[s[k]] : k \in 1 .. m + 1}
    <3>1. /\ 1 .. m + 1 \in SUBSET (1 .. n) /\ m <= n /\ m + 1 \in 1 .. n
          /\ 1 .. m + 1 = (1 .. m) \cup {m + 1}
      BY <1>1, <2>1, <2>2
    <3>2. Max(1 .. m + 1) = m + 1 /\ (1 .. m + 1) \ {m + 1} = 1 .. m /\ 1 .. m + 1 # {}
      <4>1. m + 1 # 0 /\ m + 1 - 1 = m
        BY <2>1
      <4>2. QED
        BY <2>1, <4>1, LastOfPrefix
    <3>3. g[1 .. m + 1] = KeptOnce(g[1 .. m], s[m + 1])
      BY <1>8, <3>1, <3>2
    <3>4. g[1 .. m] \in Acc /\ UrlsIn(g[1 .. m]) = {ArticleAt[s[k]] : k \in 1 .. m}
      BY <1>10, <3>1
    <3>5. s[m + 1] \in FeedEntries
      BY <1>1, <3>1
    <3>6. {ArticleAt[s[k]] : k \in 1 .. m + 1} = {ArticleAt[s[k]] : k \in 1 .. m} \cup {ArticleAt[s[m + 1]]}
      BY <3>1
    <3>7. QED
      BY <1>2, <3>3, <3>4, <3>5, <3>6
  <2>3. QED
    BY <2>1, <2>2
<1>11. Good = Nat
  <2> HIDE DEF Good
  <2>1. Good \in SUBSET Nat
    BY DEF Good
  <2>2. QED
    BY <1>9, <1>10, <2>1, NatSetInduction
<1>12. g[1 .. n] \in Acc /\ UrlsIn(g[1 .. n]) = {ArticleAt[s[k]] : k \in 1 .. n}
  <2>1. n <= n
    BY <1>1
  <2>2. n \in Good
    <3> HIDE DEF Good
    <3>1. QED
      BY <1>1, <1>11
  <2>3. QED
    BY <2>1, <2>2
<1>13. QED
  BY <1>1, <1>7, <1>12 DEF Acc, UrlsIn

\* What is left after the entries that were processed are passed over
FeedShape ==
    [at : {"idle", "asking", "reading", "storing"}, page : BOOLEAN,
     from : [tag : Nat, seen : SUBSET ArticleUrls, cut : BOOLEAN],
     left : Seq(FeedEntries), found : Seq(ArticleUrls), tag : Nat]
Continues(c, a) ==
    /\ a \in FeedShape /\ a.at \in {"reading", "storing"}
    /\ a.page = c.page /\ a.from = c.from /\ a.found = c.found /\ a.tag = c.tag
    /\ UrlsIn(c.left) \subseteq Seen(c) \cup UrlsIn(a.left)
    /\ a.at = "reading" =>
           a.left # <<>> /\ ArticleAt[Head(a.left)] \notin Seen(c) /\ Len(c.found) < ArticleLimit

LEMMA AwaitedFacts ==
    ASSUME NEW c \in FeedShape
    PROVE  Continues(c, Awaited(c))
<1>1. PICK s, n : s = c.left /\ n = Len(c.left)
  OBVIOUS
<1>2. s \in Seq(FeedEntries) /\ n = Len(s) /\ n \in Nat /\ DOMAIN s = 1 .. n
  BY <1>1 DEF FeedShape
<1> DEFINE I == {i \in 1 .. Len(s) : ArticleAt[s[i]] \notin Seen(c)}
<1>3. PICK k : k = SelectInSeq(s, LAMBDA e : ArticleAt[e] \notin Seen(c))
  OBVIOUS
<1>4. k = IF I # {} THEN Min(I) ELSE 0
  BY <1>3 DEF SelectInSeq
<1>5. \/ k = 0 /\ I = {}
      \/ k \in I /\ \A i \in I : k <= i
  <2>1. I \in SUBSET (1 .. n)
    BY <1>2
  <2>2. I # {} => Min(I) \in I /\ \A y \in I : Min(I) <= y
    <3> HIDE DEF I
    <3>1. QED
      BY <1>2, <2>1, FirstIsOf
  <2>3. QED
    BY <1>4, <2>2
<1>6. PICK r : r = IF k = 0 THEN <<>> ELSE SubSeq(s, k, n)
  OBVIOUS
<1>7. /\ r \in Seq(FeedEntries)
      /\ \A i \in 1 .. n : ArticleAt[s[i]] \in Seen(c) \/ \E j \in DOMAIN r : r[j] = s[i]
      /\ r # <<>> => ArticleAt[Head(r)] \notin Seen(c)
  <2>1. CASE k = 0
    BY <1>2, <1>5, <1>6, <2>1
  <2>2. CASE k # 0
    <3>1. k \in I /\ k \in 1 .. n /\ \A i \in I : k <= i
      BY <1>2, <1>5, <2>2
    <3>2. r = SubSeq(s, k, n)
      BY <1>6, <2>2
    <3>3. /\ r \in Seq(FeedEntries) /\ Len(r) = n - k + 1 /\ DOMAIN r = 1 .. n - k + 1
          /\ \A j \in 1 .. n - k + 1 : r[j] = s[k + j - 1]
      BY <1>2, <3>1, <3>2, SubSeqProperties
    <3>4. Head(r) = s[k]
      <4>1. Head(r) = r[1] /\ 1 \in 1 .. n - k + 1 /\ k + 1 - 1 = k
        BY <1>2, <3>1, <3>3
      <4>2. QED
        BY <3>3, <4>1
    <3>5. ASSUME NEW i \in 1 .. n, ArticleAt[s[i]] \notin Seen(c) PROVE \E j \in DOMAIN r : r[j] = s[i]
      <4>1. i \in I
        BY <1>2, <3>5
      <4>2. k <= i
        BY <3>1, <4>1
      <4>3. i - k + 1 \in 1 .. n - k + 1 /\ k + (i - k + 1) - 1 = i
        BY <1>2, <3>1, <4>2
      <4>4. QED
        BY <3>3, <4>3
    <3>6. QED
      BY <3>1, <3>3, <3>4, <3>5
  <2>3. QED
    BY <2>1, <2>2
<1>8. PICK a : a = Awaited(c)
  OBVIOUS
<1>9. a = [c EXCEPT !.left = r, !.at = IF r = <<>> \/ AtLimit(c) THEN "storing" ELSE "reading"]
  BY <1>1, <1>3, <1>6, <1>8 DEF Awaited
<1>10. /\ a \in FeedShape /\ a.left = r
       /\ a.page = c.page /\ a.from = c.from /\ a.found = c.found /\ a.tag = c.tag
       /\ a.at = IF r = <<>> \/ AtLimit(c) THEN "storing" ELSE "reading"
  BY <1>7, <1>9 DEF FeedShape
<1>11. ~AtLimit(c) => Len(c.found) < ArticleLimit
  <2>1. c.found \in Seq(ArticleUrls) /\ Len(c.found) \in Nat
    BY DEF FeedShape
  <2>2. QED
    BY <2>1, ArticleAssumption DEF AtLimit
<1>12. UrlsIn(c.left) \subseteq Seen(c) \cup UrlsIn(r)
  BY <1>1, <1>2, <1>7 DEF UrlsIn
<1>13. Continues(c, a)
  BY <1>7, <1>10, <1>11, <1>12 DEF Continues
<1>14. QED
  BY <1>8, <1>13

(***************************************************************************)
(* The invariant.                                                          *)
(***************************************************************************)
FeedTyped ==
    /\ feedCall \in FeedShape /\ listed \in Seq(FeedEntries) /\ feedTag \in Nat \ {0}
    /\ feedCursor \in [tag : Nat, seen : SUBSET ArticleUrls, cut : BOOLEAN]
    /\ handed \in [ArticleUrls -> Nat] /\ pagesRead \in Nat
    /\ feedCursor.tag <= feedTag
HandedFit ==
    \A u \in ArticleUrls :
        /\ u \in feedCursor.seen => handed[u] <= pagesRead + 1 /\ handed[u] > 0
        /\ u \notin feedCursor.seen => handed[u] <= pagesRead
\* What the cursor names covers what the provider lists under its tag.
Covers(tag, names) ==
    tag = feedTag => UrlsIn(listed) \subseteq names
FeedCallFits(c) ==
    /\ c.at # "idle" => c.from = IF c.page THEN NoFeedCursor ELSE feedCursor
    /\ c.at = "asking" => c.left = <<>>
    /\ c.at \notin {"reading", "storing"} => c.found = <<>>
    /\ Once(c.found, ArticleUrls) /\ Len(c.found) <= ArticleLimit
    /\ ToSet(c.found) \cap c.from.seen = {}
    /\ c.at = "reading" =>
           c.left # <<>> /\ ArticleAt[Head(c.left)] \notin Seen(c) /\ Len(c.found) < ArticleLimit
    /\ c.tag <= feedTag
    /\ c.at \in {"reading", "storing"} => Covers(c.tag, Seen(c) \cup UrlsIn(c.left))
FeedInv ==
    /\ FeedTyped /\ HandedFit
    /\ ~feedCursor.cut => Covers(feedCursor.tag, feedCursor.seen)
    /\ FeedCallFits(feedCall)

LEMMA NoCallFits ==
    ASSUME FeedTyped
    PROVE  NoFeedCall \in FeedShape /\ FeedCallFits(NoFeedCall)
<1>1. NoFeedCall \in FeedShape
  BY DEF NoFeedCall, NoFeedCursor, FeedShape
<1>2. /\ NoFeedCall.at = "idle" /\ NoFeedCall.left = <<>> /\ NoFeedCall.found = <<>>
      /\ NoFeedCall.tag = 0 /\ NoFeedCall.from.seen = {}
  BY DEF NoFeedCall, NoFeedCursor
<1>3. Once(<<>>, ArticleUrls) /\ ToSet(<<>>) = {} /\ Len(<<>>) = 0 /\ 0 <= ArticleLimit /\ 0 <= feedTag
  BY NobodyQueues, ArticleAssumption DEF FeedTyped
<1>4. QED
  BY <1>1, <1>2, <1>3 DEF FeedCallFits

LEMMA FeedInvInit == ArticleInit => FeedInv
<1> SUFFICES ASSUME ArticleInit PROVE FeedInv
  OBVIOUS
<1>1. FeedTyped
  <2>1. NoFeedCall \in FeedShape
    BY DEF NoFeedCall, NoFeedCursor, FeedShape
  <2>2. QED
    BY <2>1 DEF ArticleInit, FeedTyped, NoFeedCursor
<1>2. HandedFit
  BY DEF ArticleInit, HandedFit, NoFeedCursor
<1>3. ~feedCursor.cut => Covers(feedCursor.tag, feedCursor.seen)
  BY DEF ArticleInit, Covers, NoFeedCursor
<1>4. QED
  BY <1>1, <1>2, <1>3, NoCallFits DEF FeedInv, ArticleInit

\* A call that ends, or that begins with the cursor it is given
LEMMA FeedCallEnds ==
    ASSUME FeedInv, feedCall' = NoFeedCall,
           UNCHANGED <<listed, feedTag, feedCursor, handed, pagesRead>>
    PROVE  FeedInv'
<1>1. NoFeedCall \in FeedShape /\ FeedCallFits(NoFeedCall)
  BY NoCallFits DEF FeedInv
<1>2. FeedTyped' /\ HandedFit'
  BY <1>1 DEF FeedInv, FeedTyped, HandedFit
<1>3. (~feedCursor.cut => Covers(feedCursor.tag, feedCursor.seen))'
  BY DEF FeedInv, Covers
<1>4. FeedCallFits(feedCall)'
  BY <1>1 DEF FeedCallFits, Covers, Seen, NoFeedCall
<1>5. QED
  BY <1>2, <1>3, <1>4 DEF FeedInv

LEMMA AskKeeps == ASSUME FeedInv, NEW page \in BOOLEAN, AskForArticles(page) PROVE FeedInv'
<1>1. PICK c : c = feedCall'
  OBVIOUS
<1>2. /\ c = [NoFeedCall EXCEPT !.at = "asking", !.page = page,
                                !.from = IF page THEN NoFeedCursor ELSE feedCursor]
      /\ UNCHANGED <<listed, feedTag, feedCursor, handed, pagesRead>>
  BY <1>1 DEF AskForArticles
<1>3. /\ c \in FeedShape /\ c.at = "asking" /\ c.left = <<>> /\ c.found = <<>> /\ c.tag = 0
      /\ c.from = IF c.page THEN NoFeedCursor ELSE feedCursor
  <2>1. PICK f : f = IF page THEN NoFeedCursor ELSE feedCursor
    OBVIOUS
  <2>2. f \in [tag : Nat, seen : SUBSET ArticleUrls, cut : BOOLEAN]
    BY <2>1 DEF FeedInv, FeedTyped, NoFeedCursor
  <2>3. c = [at |-> "asking", page |-> page, from |-> f, left |-> <<>>, found |-> <<>>, tag |-> 0]
    BY <1>2, <2>1 DEF NoFeedCall
  <2>4. QED
    BY <2>1, <2>2, <2>3 DEF FeedShape
<1>4. Once(<<>>, ArticleUrls) /\ ToSet(<<>>) = {} /\ Len(<<>>) = 0 /\ 0 <= ArticleLimit /\ 0 <= feedTag
  BY NobodyQueues, ArticleAssumption DEF FeedInv, FeedTyped
<1>5. FeedCallFits(feedCall)'
  BY <1>1, <1>2, <1>3, <1>4 DEF FeedCallFits
<1>6. FeedTyped' /\ HandedFit'
  BY <1>1, <1>2, <1>3 DEF FeedInv, FeedTyped, HandedFit
<1>7. (~feedCursor.cut => Covers(feedCursor.tag, feedCursor.seen))'
  BY <1>2 DEF FeedInv, Covers
<1>8. QED
  BY <1>5, <1>6, <1>7 DEF FeedInv

\* A call goes on to the next entry that it did not process.
LEMMA ContinueKeeps ==
    ASSUME FeedInv, UNCHANGED <<listed, feedTag, feedCursor, handed, pagesRead>>,
           NEW c \in FeedShape, feedCall' = Awaited(c),
           c.from = IF c.page THEN NoFeedCursor ELSE feedCursor,
           Once(c.found, ArticleUrls), Len(c.found) <= ArticleLimit,
           ToSet(c.found) \cap c.from.seen = {}, c.tag <= feedTag,
           Covers(c.tag, Seen(c) \cup UrlsIn(c.left))
    PROVE  FeedInv'
<1>1. PICK a : a = Awaited(c)
  OBVIOUS
<1>2. Continues(c, a)
  BY <1>1, AwaitedFacts
<1>3. Seen(a) = Seen(c)
  BY <1>2 DEF Continues, Seen
<1>4. Covers(a.tag, Seen(a) \cup UrlsIn(a.left))
  BY <1>2, <1>3 DEF Continues, Covers
<1>5. FeedCallFits(a)
  BY <1>2, <1>3, <1>4 DEF Continues, FeedCallFits
<1>6. FeedCallFits(feedCall)'
  BY <1>1, <1>5 DEF FeedCallFits, Covers, Seen, UrlsIn
<1>7. FeedTyped' /\ HandedFit'
  BY <1>1, <1>2 DEF Continues, FeedInv, FeedTyped, HandedFit
<1>8. (~feedCursor.cut => Covers(feedCursor.tag, feedCursor.seen))'
  BY DEF FeedInv, Covers
<1>9. QED
  BY <1>6, <1>7, <1>8 DEF FeedInv

LEMMA DiscoverKeeps == ASSUME FeedInv, Discover PROVE FeedInv'
<1>1. CASE feedCall' = NoFeedCall
  BY <1>1, FeedCallEnds DEF Discover
<1>2. ASSUME NEW tag \in {0, feedTag},
             feedCall' = Awaited([feedCall EXCEPT !.left = Entries, !.tag = tag])
      PROVE  FeedInv'
  <2>1. PICK c, s : c = [feedCall EXCEPT !.left = s, !.tag = tag] /\ s = Entries
    OBVIOUS
  <2>2. s \in Seq(FeedEntries) /\ UrlsIn(s) = UrlsIn(listed)
    BY <2>1, OnceEachNames DEF Entries, FeedInv, FeedTyped
  <2>3. feedCall \in FeedShape /\ feedTag \in Nat \ {0} /\ FeedCallFits(feedCall) /\ feedCall.at = "asking"
    BY DEF Discover, FeedInv, FeedTyped
  <2>4. c \in FeedShape
    <3>1. tag \in Nat
      BY <2>3
    <3>2. QED
      BY <2>1, <2>2, <2>3, <3>1 DEF FeedShape
  <2>5. /\ c.at = "asking" /\ c.left = s /\ c.tag = tag /\ c.found = feedCall.found
        /\ c.page = feedCall.page /\ c.from = feedCall.from
    BY <2>1, <2>3 DEF FeedShape
  <2>6. Covers(c.tag, Seen(c) \cup UrlsIn(c.left))
    BY <2>2, <2>5 DEF Covers
  <2>7. /\ c.from = IF c.page THEN NoFeedCursor ELSE feedCursor
        /\ Once(c.found, ArticleUrls) /\ Len(c.found) <= ArticleLimit
        /\ ToSet(c.found) \cap c.from.seen = {} /\ c.tag <= feedTag
    BY <2>3, <2>5 DEF FeedCallFits
  <2>8. feedCall' = Awaited(c) /\ UNCHANGED <<listed, feedTag, feedCursor, handed, pagesRead>>
    BY <1>2, <2>1 DEF Discover
  <2>9. QED
    BY <2>4, <2>6, <2>7, <2>8, ContinueKeeps
<1>3. QED
  BY <1>1, <1>2 DEF Discover

LEMMA ReadKeeps == ASSUME FeedInv, ReadArticle PROVE FeedInv'
<1>1. PICK u, c : u = ArticleAt[Head(feedCall.left)] /\ c = [feedCall EXCEPT !.found = Append(@, u)]
  OBVIOUS
<1>2. feedCall \in FeedShape /\ FeedCallFits(feedCall) /\ feedCall.at = "reading" /\ ArticleLimit \in Nat
  BY ArticleAssumption DEF ReadArticle, FeedInv, FeedTyped
<1>3. PICK f, l : f = feedCall.found /\ l = feedCall.left
  OBVIOUS
<1>4. Once(f, ArticleUrls) /\ l \in Seq(FeedEntries) /\ l # <<>> /\ Len(f) < ArticleLimit
  BY <1>2, <1>3 DEF FeedCallFits, FeedShape
<1>5. Head(l) \in FeedEntries /\ u \in ArticleUrls /\ u \notin Seen(feedCall)
  <2>1. Head(l) \in FeedEntries
    BY <1>4
  <2>2. QED
    BY <1>1, <1>2, <1>3, <2>1 DEF FeedCallFits, ArticleUrls
<1>6. PICK g : g = Append(f, u)
  OBVIOUS
<1>7. Once(g, ArticleUrls) /\ Len(g) = Len(f) + 1 /\ ToSet(g) = ToSet(f) \cup {u}
  BY <1>3, <1>4, <1>5, <1>6, LastQueues DEF Seen
<1>8. c \in FeedShape /\ c.at = "reading" /\ c.left = l /\ c.tag = feedCall.tag /\ c.found = g
      /\ c.page = feedCall.page /\ c.from = feedCall.from
  BY <1>1, <1>2, <1>3, <1>6, <1>7 DEF FeedShape, Once
<1>9. Seen(c) = Seen(feedCall) \cup {u} /\ ToSet(g) \cap c.from.seen = {}
  BY <1>2, <1>3, <1>5, <1>7, <1>8 DEF Seen, FeedCallFits
<1>10. Covers(c.tag, Seen(c) \cup UrlsIn(c.left))
  BY <1>2, <1>3, <1>8, <1>9 DEF FeedCallFits, Covers
<1>11. Len(g) <= ArticleLimit
  <2>1. Len(f) \in Nat
    BY <1>4 DEF Once
  <2>2. QED
    BY <1>2, <1>4, <1>7, <2>1
<1>12. /\ c.from = IF c.page THEN NoFeedCursor ELSE feedCursor
       /\ c.tag <= feedTag
  BY <1>2, <1>8 DEF FeedCallFits
<1>13. feedCall' = Awaited(c) /\ UNCHANGED <<listed, feedTag, feedCursor, handed, pagesRead>>
  BY <1>1 DEF ReadArticle
<1>14. QED
  BY <1>7, <1>8, <1>9, <1>10, <1>11, <1>12, <1>13, ContinueKeeps

LEMMA StoreKeeps == ASSUME FeedInv, StoreArticles PROVE FeedInv'
<1>1. PICK c : c = feedCall
  OBVIOUS
<1>2. /\ c \in FeedShape /\ FeedCallFits(c) /\ c.at = "storing" /\ FeedTyped /\ HandedFit
      /\ feedCall' = NoFeedCall
      /\ handed' = [u \in ArticleUrls |-> handed[u] + (IF u \in ToSet(c.found) THEN 1 ELSE 0)]
      /\ feedCursor' = IF c.page THEN feedCursor ELSE NextCursor(c)
      /\ pagesRead' = IF c.page THEN pagesRead + 1 ELSE pagesRead
      /\ listed' = listed /\ feedTag' = feedTag
  BY <1>1 DEF StoreArticles, FeedInv, FeedTyped
<1>3. ToSet(c.found) \subseteq ArticleUrls /\ ToSet(c.found) \cap c.from.seen = {}
  BY <1>2 DEF FeedCallFits, FeedShape, ToSet
<1>4. PICK d : d = NextCursor(c)
  OBVIOUS
<1>5. /\ d \in [tag : Nat, seen : SUBSET ArticleUrls, cut : BOOLEAN]
      /\ d.tag = c.tag /\ d.seen = c.from.seen \cup ToSet(c.found) /\ d.cut = (c.left # <<>>)
  <2>1. c.from.seen \subseteq ArticleUrls /\ c.tag \in Nat
    BY <1>2 DEF FeedShape
  <2>2. QED
    BY <1>3, <1>4, <2>1 DEF NextCursor, Seen
<1>6. feedTag \in Nat \ {0} /\ pagesRead \in Nat /\ handed \in [ArticleUrls -> Nat] /\ c.tag <= feedTag
  BY <1>2 DEF FeedTyped, FeedCallFits
<1>7. FeedTyped'
  <2>1. handed' \in [ArticleUrls -> Nat] /\ pagesRead' \in Nat
    BY <1>2, <1>6
  <2>2. feedCursor' \in [tag : Nat, seen : SUBSET ArticleUrls, cut : BOOLEAN] /\ feedCursor'.tag <= feedTag
    BY <1>2, <1>4, <1>5, <1>6 DEF FeedTyped
  <2>3. NoFeedCall \in FeedShape
    BY <1>2, NoCallFits
  <2>4. QED
    BY <1>2, <2>1, <2>2, <2>3 DEF FeedTyped
<1>8. HandedFit'
  <2>1. ASSUME NEW u \in ArticleUrls
        PROVE  /\ u \in feedCursor'.seen => handed'[u] <= pagesRead' + 1 /\ handed'[u] > 0
               /\ u \notin feedCursor'.seen => handed'[u] <= pagesRead'
    <3>1. PICK h : h = handed[u]
      OBVIOUS
    <3>2. /\ h \in Nat /\ handed'[u] = h + (IF u \in ToSet(c.found) THEN 1 ELSE 0)
          /\ u \in feedCursor.seen => h <= pagesRead + 1 /\ h > 0
          /\ u \notin feedCursor.seen => h <= pagesRead
      BY <1>2, <1>6, <3>1 DEF HandedFit
    <3>3. CASE c.page
      BY <1>2, <1>6, <3>2, <3>3
    <3>4. CASE ~c.page
      <4>1. c.from = feedCursor
        BY <1>2, <3>4 DEF FeedCallFits
      <4>2. pagesRead' = pagesRead /\ feedCursor'.seen = feedCursor.seen \cup ToSet(c.found)
        BY <1>2, <1>4, <1>5, <3>4, <4>1
      <4>3. ToSet(c.found) \cap feedCursor.seen = {}
        BY <1>3, <4>1
      <4>4. QED
        BY <1>6, <3>2, <4>2, <4>3
    <3>5. QED
      BY <3>3, <3>4
  <2>2. QED
    BY <2>1 DEF HandedFit
<1>9. (~feedCursor.cut => Covers(feedCursor.tag, feedCursor.seen))'
  <2>1. CASE c.page
    BY <1>2, <2>1 DEF FeedInv, Covers
  <2>2. CASE ~c.page
    <3>1. feedCursor' = d
      BY <1>2, <1>4, <2>2
    <3>2. ASSUME ~d.cut PROVE Covers(d.tag, d.seen)
      <4>1. c.left = <<>> /\ UrlsIn(<<>>) = {}
        BY <1>5, <3>2 DEF UrlsIn
      <4>2. Covers(c.tag, Seen(c) \cup UrlsIn(c.left))
        BY <1>2 DEF FeedCallFits
      <4>3. QED
        BY <1>5, <4>1, <4>2 DEF Covers, Seen
    <3>3. QED
      BY <1>2, <3>1, <3>2 DEF Covers
  <2>3. QED
    BY <2>1, <2>2
<1>10. FeedCallFits(feedCall)'
  <2>1. FeedCallFits(NoFeedCall)
    BY <1>2, NoCallFits
  <2>2. NoFeedCall.at = "idle"
    BY DEF NoFeedCall
  <2>3. QED
    BY <1>2, <2>1, <2>2 DEF FeedCallFits
<1>11. QED
  BY <1>7, <1>8, <1>9, <1>10 DEF FeedInv

LEMMA FeedMovesKeeps == ASSUME FeedInv, FeedMoves PROVE FeedInv'
<1>1. /\ feedTag' = feedTag + 1 /\ feedTag \in Nat \ {0} /\ FeedTyped /\ FeedCallFits(feedCall)
      /\ UNCHANGED <<feedCursor, feedCall, handed, pagesRead>>
  BY DEF FeedMoves, FeedInv, FeedTyped
<1>2. listed' \in Seq(FeedEntries)
  <2>1. listed \in Seq(FeedEntries)
    BY <1>1 DEF FeedTyped
  <2>2. ASSUME NEW e \in FeedEntries, listed' = <<e>> \o listed PROVE listed' \in Seq(FeedEntries)
    <3>1. <<e>> \in Seq(FeedEntries)
      OBVIOUS
    <3>2. QED
      BY <2>1, <2>2, <3>1, ConcatProperties
  <2>3. ASSUME listed # <<>>, listed' = Front(listed) PROVE listed' \in Seq(FeedEntries)
    <3>1. Len(listed) - 1 \in 0 .. Len(listed)
      BY <2>1, <2>3
    <3>2. SubSeq(listed, 1, Len(listed) - 1) \in Seq(FeedEntries)
      BY <2>1, <3>1, SubSeqProperties
    <3>3. QED
      BY <2>3, <3>2 DEF Front
  <2>4. QED
    BY <2>2, <2>3 DEF FeedMoves
<1>3. PICK t, u : t = feedCursor.tag /\ u = feedCall.tag
  OBVIOUS
<1>4. t \in Nat /\ u \in Nat /\ t <= feedTag /\ u <= feedTag
  BY <1>1, <1>3 DEF FeedTyped, FeedShape, FeedCallFits
<1>5. t < feedTag' /\ u < feedTag' /\ feedTag' \in Nat \ {0}
  BY <1>1, <1>4
<1>6. t # feedTag' /\ u # feedTag' /\ t <= feedTag' /\ u <= feedTag'
  BY <1>4, <1>5
<1>7. FeedTyped' /\ HandedFit'
  <2>1. FeedTyped'
    BY <1>1, <1>2, <1>3, <1>5, <1>6 DEF FeedTyped
  <2>2. HandedFit'
    BY <1>1 DEF FeedInv, HandedFit
  <2>3. QED
    BY <2>1, <2>2
<1>8. Covers(feedCursor.tag, feedCursor.seen)'
  BY <1>1, <1>3, <1>6 DEF Covers
<1>9. FeedCallFits(feedCall)'
  BY <1>1, <1>3, <1>6 DEF FeedCallFits, Covers, Seen
<1>10. QED
  BY <1>7, <1>8, <1>9 DEF FeedInv

LEMMA FeedInvNext == FeedInv /\ [FeedNext]_articleVars => FeedInv'
<1> SUFFICES ASSUME FeedInv, [FeedNext]_articleVars PROVE FeedInv'
  OBVIOUS
<1>1. CASE UNCHANGED articleVars
  <2>1. UNCHANGED <<feedCall, listed, feedTag, feedCursor, handed, pagesRead>>
    BY <1>1 DEF articleVars, feedVars
  <2>2. FeedTyped' /\ HandedFit' /\ (~feedCursor.cut => Covers(feedCursor.tag, feedCursor.seen))'
    BY <2>1 DEF FeedInv, FeedTyped, HandedFit, Covers
  <2>3. FeedCallFits(feedCall)'
    BY <2>1 DEF FeedInv, FeedCallFits, Covers, Seen, UrlsIn
  <2>4. QED
    BY <2>2, <2>3 DEF FeedInv
<1>2. ASSUME NEW page \in BOOLEAN, AskForArticles(page) PROVE FeedInv'
  BY <1>2, AskKeeps
<1>3. CASE RefuseArticle
  BY <1>3, FeedCallEnds DEF RefuseArticle
<1>4. CASE ArticlesAreLost
  BY <1>4, FeedCallEnds DEF ArticlesAreLost
<1>5. CASE Discover \/ ReadArticle \/ StoreArticles \/ FeedMoves
  BY <1>5, DiscoverKeeps, ReadKeeps, StoreKeeps, FeedMovesKeeps
<1>6. QED
  BY <1>1, <1>2, <1>3, <1>4, <1>5 DEF FeedNext

LEMMA FeedFollows == FeedInv => FeedIsRead
<1> SUFFICES ASSUME FeedInv PROVE FeedIsRead
  OBVIOUS
<1>1. pagesRead \in Nat /\ handed \in [ArticleUrls -> Nat] /\ feedCursor.seen \subseteq ArticleUrls
  BY DEF FeedInv, FeedTyped
<1>2. ASSUME NEW u \in ArticleUrls PROVE handed[u] <= 1 + pagesRead
  <2>1. PICK h : h = handed[u] /\ h \in Nat
    BY <1>1
  <2>2. h <= pagesRead + 1 \/ h <= pagesRead
    BY <2>1 DEF FeedInv, HandedFit
  <2>3. QED
    BY <1>1, <2>1, <2>2
<1>3. \A u \in feedCursor.seen : handed[u] > 0
  BY <1>1 DEF FeedInv, HandedFit
<1>4. Len(feedCall.found) <= ArticleLimit /\ Cardinality(ToSet(feedCall.found)) = Len(feedCall.found)
  BY DEF FeedInv, FeedCallFits, Once
<1>5. ASSUME feedCursor.tag = feedTag, ~feedCursor.cut
      PROVE  \A n \in DOMAIN listed : ArticleAt[listed[n]] \in feedCursor.seen
  BY <1>5 DEF FeedInv, Covers, UrlsIn
<1>6. QED
  BY <1>2, <1>3, <1>4, <1>5 DEF FeedIsRead

\* What a list is after something was appended to it, whatever it is
LEMMA ListGrows ==
    ASSUME NEW s, s \in Seq(ToSet(s)), NEW x
    PROVE  /\ Append(s, x) \in Seq(ToSet(Append(s, x)))
           /\ Len(s) \in Nat /\ DOMAIN s = 1 .. Len(s)
           /\ Len(Append(s, x)) = Len(s) + 1 /\ DOMAIN Append(s, x) = 1 .. Len(s) + 1
           /\ Append(s, x)[Len(s) + 1] = x
           /\ \A n \in DOMAIN s : Append(s, x)[n] = s[n]
<1>1. PICK t, S : t = Append(s, x) /\ S = ToSet(s) \cup {x}
  OBVIOUS
<1>2. s \in Seq(S) /\ x \in S
  <2>1. ToSet(s) \subseteq S
    BY <1>1
  <2>2. QED
    BY <1>1, <2>1
<1>3. /\ t \in Seq(S) /\ Len(t) = Len(s) + 1 /\ DOMAIN t = 1 .. Len(s) + 1
      /\ Len(s) \in Nat /\ DOMAIN s = 1 .. Len(s)
      /\ t[Len(s) + 1] = x /\ \A n \in DOMAIN s : t[n] = s[n]
  BY <1>1, <1>2, AppendProperties
<1>4. t \in Seq(ToSet(t))
  <2>1. t = [n \in 1 .. Len(t) |-> t[n]] /\ Len(t) \in Nat
    BY <1>3
  <2>2. \A n \in 1 .. Len(t) : t[n] \in ToSet(t)
    BY <1>3 DEF ToSet
  <2>3. QED
    BY <2>1, <2>2
<1>5. QED
  BY <1>1, <1>3, <1>4

(***************************************************************************)
(* Retention and restores.                                                 *)
(***************************************************************************)
KeeperSteps == {"idle", "counting_rows", "counting_logs", "purging", "auditing"}
\* A purge that is committed and has no audit event yet
Unaudited(k) == keeper[k].at = "auditing" /\ ~keeper[k].request.dry
Owing == {k \in Keepers : Unaudited(k)}

KeeperShape ==
    [at : KeeperSteps, request : RetentionRequests \cup {{}}, total : Nat, rows : Nat,
     verdict : {"none", "invalid", "refused", "rejected", "counted", "purged"}]
CustodyTyped ==
    /\ custodyTrail \in Seq(ToSet(custodyTrail)) /\ purges \in Seq(ToSet(purges))
    /\ keeper \in [Keepers -> KeeperShape] /\ custodyFaults \in Nat
    /\ eventsKept \subseteq DOMAIN EventOf /\ queriesKept \subseteq DOMAIN QueryDay
RowsFit ==
    /\ rawKept \subseteq DOMAIN RowOf /\ tied \cup derived \subseteq rawKept
    /\ \A e \in eventsKept : EventOf[e].row \in rawKept
KeeperFits(k) ==
    /\ keeper[k].at # "idle" => keeper[k].request \in RetentionRequests
    /\ keeper[k].at = "purging" => keeper[k].request.token /\ ~keeper[k].request.dry
    /\ Unaudited(k) => \E j \in DOMAIN purges : keeper[k].rows = SizeOf(purges[j])
PurgeFits(p) ==
    /\ p.request.token /\ ~p.request.dry
    /\ \A r \in p.rows : RowOf[r].day + DaysFor(p.request, RowOf[r].source) < p.request.day
    /\ \A e \in p.events : EventOf[e].status # "succeeded"
AuditsFit ==
    /\ \A n \in AuditsOf("retention_purge") :
           \E j \in DOMAIN purges : custodyTrail[n].rows = SizeOf(purges[j])
    /\ "purge_audit" \in custodyPorts =>
           Cardinality(AuditsOf("retention_purge")) + custodyFaults + Cardinality(Owing) >= Len(purges)
BereftFit == \A r \in bereft : \E n \in DOMAIN purges : r \in purges[n].rows
RetentionInv ==
    /\ CustodyTyped /\ RowsFit /\ AuditsFit /\ BereftFit
    /\ \A k \in Keepers : KeeperFits(k)
    /\ \A n \in DOMAIN purges : PurgeFits(purges[n])

Restoring == {"migrating", "restoring", "verifying"}
DrillShape ==
    [at : {"idle", "looking", "refusing", "migrating", "restoring", "verifying", "auditing"},
     manifest : Manifests \cup {{}}, request : DrillRequests \cup {{}},
     clean : BOOLEAN, looked : BOOLEAN, met : BOOLEAN, rows : {0} \cup {RowsIn(m) : m \in Manifests},
     verdict : {"none", "invalid", "refused", "rejected", "planned", "restored"}]
DrillFits ==
    /\ drill \in DrillShape
    /\ drill.at # "idle" => /\ drill.manifest \in Manifests /\ drill.request \in DrillRequests
                            /\ ValidateManifest(drill.manifest)
    /\ drill.at \in Restoring \/ (drill.at = "auditing" /\ ~drill.request.dry) =>
           ~drill.request.dry /\ (drill.met => drill.request.token \/ ~drill.looked)
    /\ drill.at = "verifying" \/ (drill.at = "auditing" /\ ~drill.request.dry) =>
           drill.rows = RowsIn(drill.manifest)
    /\ drill.at # "idle" => drill.verdict = "none"
    /\ drill.verdict = "restored" =>
           /\ drill.manifest \in Manifests /\ ValidateManifest(drill.manifest)
           /\ drill.rows = RowsIn(drill.manifest)
           /\ drill.met => drill.request.token \/ ~drill.looked
    /\ AuditsOf("restore_drill_execution") # {} => drill.verdict = "restored"
CustodyInv == RetentionInv /\ DrillFits

LEMMA CustodyInvInit == CustodyInit => CustodyInv
<1> SUFFICES ASSUME CustodyInit PROVE CustodyInv
  OBVIOUS
<1>1. <<>> \in Seq(ToSet(<<>>)) /\ DOMAIN <<>> = {} /\ Len(<<>>) = 0
  BY DEF ToSet
<1>2. CustodyTyped /\ RowsFit
  <2>1. NoKeeper \in KeeperShape
    BY DEF NoKeeper, KeeperShape, KeeperSteps
  <2>2. QED
    BY <1>1, <2>1 DEF CustodyInit, CustodyTyped, RowsFit
<1>3. ASSUME NEW k \in Keepers PROVE keeper[k].at = "idle" /\ KeeperFits(k)
  <2>1. keeper[k].at = "idle"
    BY DEF CustodyInit, NoKeeper
  <2>2. QED
    BY <2>1 DEF KeeperFits, Unaudited
<1>4. AuditsFit
  <2>1. AuditsOf("retention_purge") = {} /\ Owing = {}
    BY <1>1, <1>3 DEF CustodyInit, AuditsOf, Owing, Unaudited
  <2>2. Cardinality({}) = 0
    BY FS_EmptySet
  <2>3. custodyFaults = 0 /\ Len(purges) = 0
    BY <1>1 DEF CustodyInit
  <2>4. Cardinality(AuditsOf("retention_purge")) = 0 /\ Cardinality(Owing) = 0
    BY <2>1, <2>2
  <2>5. QED
    BY <2>1, <2>3, <2>4 DEF AuditsFit
<1>5. DrillFits
  <2>1. AuditsOf("restore_drill_execution") = {}
    BY <1>1 DEF CustodyInit, AuditsOf
  <2>2. drill \in DrillShape /\ drill.at = "idle" /\ drill.verdict = "none"
    BY DEF CustodyInit, NoDrill, DrillShape
  <2>3. QED
    BY <2>1, <2>2 DEF DrillFits, Restoring
<1>6. QED
  BY <1>1, <1>2, <1>3, <1>4, <1>5 DEF CustodyInv, RetentionInv, CustodyInit, BereftFit

LEMMA OwingIsFinite ==
    ASSUME NEW S \in SUBSET Keepers
    PROVE  IsFiniteSet(S) /\ Cardinality(S) \in Nat
<1>1. IsFiniteSet(Keepers)
  BY CustodyAssumption
<1>2. QED
  BY <1>1, FS_Subset, FS_CardinalityType

\* What a purge would delete can be counted.
LEMMA ExpiredIsFinite ==
    ASSUME CustodyTyped, RowsFit, NEW q
    PROVE  /\ Cardinality(ExpiredRows(q)) \in Nat /\ Cardinality(ExpiredEvents(q)) \in Nat
           /\ Cardinality(ExpiredQueries(q)) \in Nat
<1>1. IsFiniteSet(DOMAIN RowOf) /\ IsFiniteSet(DOMAIN EventOf) /\ IsFiniteSet(DOMAIN QueryDay)
  BY CustodyAssumption
<1>2. /\ ExpiredRows(q) \subseteq DOMAIN RowOf /\ ExpiredEvents(q) \subseteq DOMAIN EventOf
      /\ ExpiredQueries(q) \subseteq DOMAIN QueryDay
  BY DEF CustodyTyped, RowsFit, ExpiredRows, ExpiredEvents, ExpiredQueries
<1>3. QED
  BY <1>1, <1>2, FS_Subset, FS_CardinalityType

LEMMA AuditsAreFinite ==
    ASSUME CustodyTyped, NEW a
    PROVE  /\ IsFiniteSet(AuditsOf(a)) /\ Cardinality(AuditsOf(a)) \in Nat
           /\ AuditsOf(a) \subseteq 1 .. Len(custodyTrail) /\ Len(custodyTrail) \in Nat
<1>1. Len(custodyTrail) \in Nat /\ DOMAIN custodyTrail = 1 .. Len(custodyTrail)
  BY DEF CustodyTyped
<1>2. AuditsOf(a) \subseteq 1 .. Len(custodyTrail)
  BY <1>1 DEF AuditsOf
<1>3. IsFiniteSet(1 .. Len(custodyTrail))
  BY <1>1, FS_Interval
<1>4. QED
  BY <1>1, <1>2, <1>3, FS_Subset, FS_CardinalityType

\* The numbers that AuditsFit compares
LEMMA AccountNumbers ==
    ASSUME CustodyTyped, AuditsFit
    PROVE  /\ custodyFaults \in Nat /\ Len(purges) \in Nat
           /\ IsFiniteSet(Owing) /\ Cardinality(Owing) \in Nat
           /\ Cardinality(AuditsOf("retention_purge")) \in Nat
           /\ "purge_audit" \in custodyPorts =>
                  Cardinality(AuditsOf("retention_purge")) + custodyFaults + Cardinality(Owing) >= Len(purges)
<1>1. Owing \in SUBSET Keepers
  BY DEF Owing
<1>2. IsFiniteSet(Owing) /\ Cardinality(Owing) \in Nat
  BY <1>1, OwingIsFinite
<1>3. Len(purges) \in Nat /\ custodyFaults \in Nat
  BY DEF CustodyTyped
<1>4. QED
  BY <1>2, <1>3, AuditsAreFinite DEF AuditsFit

\* Without one of its members a finite set is smaller by one at most.
LEMMA OneFewer ==
    ASSUME NEW S, IsFiniteSet(S), NEW x
    PROVE  Cardinality(S \ {x}) \in Nat /\ Cardinality(S \ {x}) >= Cardinality(S) - 1
<1>1. Cardinality(S) \in Nat
  BY FS_CardinalityType
<1>2. CASE x \in S
  <2>1. IsFiniteSet(S \ {x}) /\ Cardinality(S \ {x}) = Cardinality(S) - 1
    BY <1>2, FS_RemoveElement
  <2>2. Cardinality(S \ {x}) \in Nat
    BY <2>1, FS_CardinalityType
  <2>3. QED
    BY <1>1, <2>1, <2>2
<1>3. CASE x \notin S
  <2>1. S \ {x} = S
    BY <1>3
  <2>2. QED
    BY <1>1, <2>1
<1>4. QED
  BY <1>2, <1>3

LEMMA StillOwed ==
    ASSUME NEW a \in Nat, NEW f \in Nat, NEW w \in Nat, NEW v \in Nat, NEW s \in Nat,
           a + f + w >= s, v >= w - 1
    PROVE  a + (f + 1) + v >= s
  OBVIOUS

\* One audit event more
LEMMA TrailGrows ==
    ASSUME CustodyTyped, NEW x, custodyTrail' = Append(custodyTrail, x), NEW a
    PROVE  /\ custodyTrail' \in Seq(ToSet(custodyTrail'))
           /\ x.action # a => AuditsOf(a)' = AuditsOf(a)
           /\ x.action = a => /\ AuditsOf(a)' = AuditsOf(a) \cup {Len(custodyTrail) + 1}
                              /\ Cardinality(AuditsOf(a)') = Cardinality(AuditsOf(a)) + 1
           /\ custodyTrail'[Len(custodyTrail) + 1] = x
           /\ \A n \in AuditsOf(a) : custodyTrail'[n] = custodyTrail[n]
<1>1. PICK t : t = Append(custodyTrail, x)
  OBVIOUS
<1>2. /\ t \in Seq(ToSet(t)) /\ Len(custodyTrail) \in Nat
      /\ DOMAIN custodyTrail = 1 .. Len(custodyTrail) /\ DOMAIN t = 1 .. Len(custodyTrail) + 1
      /\ t[Len(custodyTrail) + 1] = x
      /\ \A n \in DOMAIN custodyTrail : t[n] = custodyTrail[n]
  BY <1>1, ListGrows DEF CustodyTyped
<1>3. \A n : n \in DOMAIN t <=> n \in DOMAIN custodyTrail \/ n = Len(custodyTrail) + 1
  BY <1>2
<1>4. AuditsOf(a)' = {n \in DOMAIN t : t[n].action = a}
  BY <1>1 DEF AuditsOf
<1>5. x.action # a => AuditsOf(a)' = AuditsOf(a)
  BY <1>2, <1>3, <1>4 DEF AuditsOf
<1>6. x.action = a => AuditsOf(a)' = AuditsOf(a) \cup {Len(custodyTrail) + 1}
  BY <1>2, <1>3, <1>4 DEF AuditsOf
<1>7. Len(custodyTrail) + 1 \notin AuditsOf(a)
  BY <1>2 DEF AuditsOf
<1>8. Cardinality(AuditsOf(a) \cup {Len(custodyTrail) + 1}) = Cardinality(AuditsOf(a)) + 1
  BY <1>7, AuditsAreFinite, FS_AddElement
<1>9. \A n \in AuditsOf(a) : t[n] = custodyTrail[n]
  BY <1>2 DEF AuditsOf
<1>10. QED
  BY <1>1, <1>2, <1>5, <1>6, <1>8, <1>9

\* A call that moves and owes no audit event, before or after
LEMMA KeeperKeeps ==
    ASSUME RetentionInv, NEW k \in Keepers, NEW c, KeeperMoves(k, c), ~Unaudited(k),
           UNCHANGED <<custodyPorts, heldVars, purges, custodyTrail, custodyFaults>>,
           c \in KeeperShape, c.at # "idle" => c.request \in RetentionRequests,
           c.at = "purging" => c.request.token /\ ~c.request.dry,
           c.at = "auditing" => c.request.dry
    PROVE  RetentionInv'
<1>1. /\ keeper' \in [Keepers -> KeeperShape] /\ keeper'[k] = c
      /\ \A l \in Keepers : l # k => keeper'[l] = keeper[l]
  BY DEF KeeperMoves, RetentionInv, CustodyTyped
<1>2. CustodyTyped' /\ RowsFit'
  BY <1>1 DEF RetentionInv, CustodyTyped, RowsFit, heldVars
<1>3. Owing' = Owing
  BY <1>1 DEF Owing, Unaudited
<1>4. AuditsFit'
  BY <1>3 DEF RetentionInv, AuditsFit, AuditsOf
<1>5. ASSUME NEW l \in Keepers PROVE KeeperFits(l)'
  <2>1. CASE l = k
    BY <1>1, <2>1 DEF KeeperFits, Unaudited
  <2>2. CASE l # k
    BY <1>1, <2>2 DEF RetentionInv, KeeperFits, Unaudited
  <2>3. QED
    BY <2>1, <2>2
<1>6. (\A n \in DOMAIN purges : PurgeFits(purges[n]))' /\ BereftFit'
  BY DEF RetentionInv, BereftFit, heldVars
<1>7. QED
  BY <1>2, <1>4, <1>5, <1>6 DEF RetentionInv

LEMMA AskRetentionKeeps ==
    ASSUME RetentionInv, NEW k \in Keepers, UNCHANGED custodyPorts, NEW q \in RetentionRequests, AskRetention(k, q)
    PROVE  RetentionInv'
<1>1. /\ ~Unaudited(k)
      /\ UNCHANGED <<custodyPorts, heldVars, purges, custodyTrail, custodyFaults>>
  BY DEF AskRetention, Unaudited
<1>2. PICK c : KeeperMoves(k, c) /\ \/ c = [NoKeeper EXCEPT !.verdict = "invalid"]
                                    \/ c = [NoKeeper EXCEPT !.at = "counting_rows", !.request = q]
  BY DEF AskRetention
<1>3. c \in KeeperShape /\ (c.at = "idle" \/ (c.at = "counting_rows" /\ c.request = q))
  <2>1. CASE c = [NoKeeper EXCEPT !.verdict = "invalid"]
    BY <2>1 DEF NoKeeper, KeeperShape, KeeperSteps
  <2>2. CASE c = [NoKeeper EXCEPT !.at = "counting_rows", !.request = q]
    BY <2>2 DEF NoKeeper, KeeperShape, KeeperSteps
  <2>3. QED
    BY <1>2, <2>1, <2>2
<1>4. QED
  BY <1>1, <1>2, <1>3, KeeperKeeps

LEMMA CountsKeep ==
    ASSUME RetentionInv, NEW k \in Keepers, UNCHANGED custodyPorts, CountRows(k) \/ CountLogs(k)
    PROVE RetentionInv'
<1>1. /\ ~Unaudited(k) /\ keeper[k].at # "idle" /\ keeper[k].request \in RetentionRequests
      /\ UNCHANGED <<custodyPorts, heldVars, purges, custodyTrail, custodyFaults>>
  BY DEF CountRows, CountLogs, Unaudited, RetentionInv, KeeperFits
<1>2. PICK d : d = keeper[k]
  OBVIOUS
<1>3. d \in KeeperShape /\ d.request \in RetentionRequests
  BY <1>1, <1>2 DEF RetentionInv, CustodyTyped
<1>4. ASSUME NEW c \in KeeperShape, KeeperMoves(k, c), c.request = d.request,
             c.at = "purging" => d.request.token /\ ~d.request.dry,
             c.at = "auditing" => d.request.dry
      PROVE  RetentionInv'
  <2>1. c.at # "idle" => c.request \in RetentionRequests
    BY <1>3, <1>4
  <2>2. c.at = "purging" => c.request.token /\ ~c.request.dry
    BY <1>4
  <2>3. c.at = "auditing" => c.request.dry
    BY <1>4
  <2>4. QED
    BY <1>1, <1>4, <2>1, <2>2, <2>3, KeeperKeeps
<1>5. CASE CountRows(k)
  <2>1. PICK n \in Nat : KeeperMoves(k, [d EXCEPT !.at = "counting_logs", !.total = n])
    BY <1>2, <1>5, ExpiredIsFinite DEF CountRows, RetentionInv
  <2>2. PICK c : c = [d EXCEPT !.at = "counting_logs", !.total = n]
    OBVIOUS
  <2>3. c \in KeeperShape /\ c.at = "counting_logs" /\ c.request = d.request
    BY <1>3, <2>2 DEF KeeperShape, KeeperSteps
  <2>4. QED
    BY <1>4, <2>1, <2>2, <2>3
<1>6. CASE CountLogs(k)
  <2>1. PICK n : n = d.total + Cardinality(ExpiredEvents(d.request)) + Cardinality(ExpiredQueries(d.request))
    OBVIOUS
  <2>2. n \in Nat
    <3>1. d.total \in Nat
      BY <1>3 DEF KeeperShape
    <3>2. QED
      BY <2>1, <3>1, ExpiredIsFinite DEF RetentionInv
  <2>3. PICK c : /\ KeeperMoves(k, c)
                 /\ \/ d.request.dry /\ c = [d EXCEPT !.at = "auditing", !.total = n]
                    \/ /\ ~d.request.dry /\ d.request.token
                       /\ c = [d EXCEPT !.at = "purging", !.total = n]
                    \/ c = [d EXCEPT !.at = "idle", !.verdict = "refused"]
    BY <1>2, <1>6, <2>1 DEF CountLogs, KeeperEnds
  <2>4. /\ c \in KeeperShape /\ c.request = d.request
        /\ c.at = "purging" => d.request.token /\ ~d.request.dry
        /\ c.at = "auditing" => d.request.dry
    <3>1. CASE d.request.dry /\ c = [d EXCEPT !.at = "auditing", !.total = n]
      BY <1>3, <2>2, <3>1 DEF KeeperShape, KeeperSteps
    <3>2. CASE ~d.request.dry /\ d.request.token /\ c = [d EXCEPT !.at = "purging", !.total = n]
      BY <1>3, <2>2, <3>2 DEF KeeperShape, KeeperSteps
    <3>3. CASE c = [d EXCEPT !.at = "idle", !.verdict = "refused"]
      BY <1>3, <2>2, <3>3 DEF KeeperShape, KeeperSteps
    <3>4. QED
      BY <2>3, <3>1, <3>2, <3>3
  <2>5. QED
    BY <1>4, <2>3, <2>4
<1>7. QED
  BY <1>5, <1>6

\* What expired is older than the days of its source.
LEMMA ExpiredIsOld ==
    ASSUME NEW q \in RetentionRequests, rawKept \subseteq DOMAIN RowOf
    PROVE  /\ \A r \in ExpiredRows(q) : RowOf[r].day + DaysFor(q, RowOf[r].source) < q.day
           /\ \A e \in ExpiredEvents(q) : EventOf[e].status # "succeeded"
<1>1. ASSUME NEW r \in ExpiredRows(q)
      PROVE  RowOf[r].day + DaysFor(q, RowOf[r].source) < q.day
  <2>1. PICK d, n, m : d = RowOf[r].day /\ n = DaysFor(q, RowOf[r].source) /\ m = q.day
    OBVIOUS
  <2>2. d \in Int /\ m \in Int
    BY <2>1, CustodyAssumption DEF ExpiredRows
  <2>3. n \in Int
    BY <2>1, CustodyAssumption DEF ExpiredRows, DaysFor
  <2>4. d < m - n
    BY <1>1, <2>1 DEF ExpiredRows, Expired
  <2>5. QED
    BY <2>1, <2>2, <2>3, <2>4
<1>2. QED
  BY <1>1 DEF ExpiredEvents

LEMMA PurgeKeeps ==
    ASSUME RetentionInv, NEW k \in Keepers, UNCHANGED custodyPorts, PurgeExpired(k)
    PROVE RetentionInv'
<1>1. PICK d, q, rows, events, queries :
          /\ d = keeper[k] /\ q = d.request /\ rows = ExpiredRows(q)
          /\ events = ExpiredEvents(q) /\ queries = ExpiredQueries(q)
  OBVIOUS
<1>2. /\ d \in KeeperShape /\ d.at = "purging" /\ q \in RetentionRequests /\ q.token /\ ~q.dry
      /\ UNCHANGED <<custodyPorts, tied, custodyTrail, custodyFaults>>
      /\ CustodyTyped /\ RowsFit /\ AuditsFit
  BY <1>1 DEF PurgeExpired, RetentionInv, CustodyTyped, KeeperFits
<1>3. ~Unaudited(k)
  BY <1>1, <1>2 DEF Unaudited
<1>4. CASE \E r \in rows : HeldRow(r)
  <2>1. /\ KeeperEnds(k, "rejected")
        /\ UNCHANGED <<custodyPorts, heldVars, purges, custodyTrail, custodyFaults>>
    BY <1>1, <1>2, <1>4 DEF PurgeExpired
  <2>2. PICK c : c = [d EXCEPT !.at = "idle", !.verdict = "rejected"] /\ KeeperMoves(k, c)
    BY <1>1, <2>1 DEF KeeperEnds
  <2>3. c \in KeeperShape /\ c.at = "idle"
    BY <1>2, <2>2 DEF KeeperShape, KeeperSteps
  <2>4. QED
    BY <1>3, <2>1, <2>2, <2>3, KeeperKeeps
<1>5. CASE ~\E r \in rows : HeldRow(r)
  <2>1. PICK p, c :
            /\ p = [request |-> q, rows |-> rows, events |-> events, queries |-> queries]
            /\ c = [d EXCEPT !.at = "auditing",
                             !.rows = Cardinality(rows) + Cardinality(events) + Cardinality(queries)]
    OBVIOUS
  <2>2. /\ rawKept' = rawKept \ rows /\ eventsKept' = eventsKept \ events
        /\ queriesKept' = queriesKept \ queries /\ purges' = Append(purges, p) /\ KeeperMoves(k, c)
        /\ derived' = derived \ rows /\ bereft' = bereft \cup (derived \cap rows)
    BY <1>1, <1>5, <2>1 DEF PurgeExpired
  <2>3. SizeOf(p) = Cardinality(rows) + Cardinality(events) + Cardinality(queries) /\ SizeOf(p) \in Nat
    BY <1>1, <1>2, <2>1, ExpiredIsFinite DEF SizeOf
  <2>4. c \in KeeperShape /\ c.at = "auditing" /\ c.request = q /\ c.rows = SizeOf(p)
    BY <1>1, <1>2, <2>1, <2>3 DEF KeeperShape, KeeperSteps
  <2>5. keeper' \in [Keepers -> KeeperShape] /\ keeper'[k] = c /\ \A l \in Keepers : l # k => keeper'[l] = keeper[l]
    BY <1>2, <2>2, <2>4 DEF KeeperMoves, CustodyTyped
  <2>6. PICK n : n = Len(purges)
    OBVIOUS
  <2>7. /\ purges' \in Seq(ToSet(purges')) /\ n \in Nat /\ DOMAIN purges = 1 .. n
        /\ Len(purges') = n + 1 /\ DOMAIN purges' = 1 .. n + 1
        /\ purges'[n + 1] = p /\ \A j \in DOMAIN purges : purges'[j] = purges[j]
    <3>1. PICK s : s = Append(purges, p)
      OBVIOUS
    <3>2. /\ s \in Seq(ToSet(s)) /\ n \in Nat /\ DOMAIN purges = 1 .. n
          /\ Len(s) = n + 1 /\ DOMAIN s = 1 .. n + 1
          /\ s[n + 1] = p /\ \A j \in DOMAIN purges : s[j] = purges[j]
      BY <1>2, <2>6, <3>1, ListGrows DEF CustodyTyped
    <3>3. QED
      BY <2>2, <3>1, <3>2
  <2>8. CustodyTyped'
    <3>1. eventsKept' \subseteq DOMAIN EventOf /\ queriesKept' \subseteq DOMAIN QueryDay
      BY <1>2, <2>2 DEF CustodyTyped
    <3>2. QED
      BY <1>2, <2>5, <2>7, <3>1 DEF CustodyTyped
  <2>9. RowsFit'
    <3>1. \A r \in rows : r \notin tied /\ \A e \in eventsKept : EventOf[e].row # r
      BY <1>5 DEF HeldRow
    <3>2. QED
      BY <1>2, <2>2, <3>1 DEF RowsFit
  <2>10. Owing' = Owing \cup {k}
    BY <1>2, <2>4, <2>5 DEF Owing, Unaudited
  <2>11. AuditsFit'
    <3>1. AuditsOf("retention_purge")' = AuditsOf("retention_purge")
      BY <1>2 DEF AuditsOf
    <3>2. k \notin Owing
      BY <1>3 DEF Owing
    <3>3. Cardinality(Owing \cup {k}) = Cardinality(Owing) + 1 /\ Cardinality(Owing) \in Nat
      <4>1. Owing \in SUBSET Keepers
        BY DEF Owing
      <4>2. QED
        BY <3>2, <4>1, OwingIsFinite, FS_AddElement
    <3>4. PICK a, f, w : /\ a = Cardinality(AuditsOf("retention_purge")) /\ f = custodyFaults
                         /\ w = Cardinality(Owing) /\ a \in Nat /\ f \in Nat /\ w \in Nat
      BY <1>2, <3>3, AuditsAreFinite DEF CustodyTyped
    <3>5. "purge_audit" \in custodyPorts => a + f + w >= n
      BY <1>2, <2>6, <3>4 DEF AuditsFit
    <3>6. "purge_audit" \in custodyPorts => a + f + (w + 1) >= n + 1
      BY <2>7, <3>4, <3>5
    <3>7. ("purge_audit" \in custodyPorts =>
              Cardinality(AuditsOf("retention_purge")) + custodyFaults + Cardinality(Owing) >= Len(purges))'
      BY <1>2, <2>7, <2>10, <3>1, <3>3, <3>4, <3>6
    <3>8. (\A m \in AuditsOf("retention_purge") :
              \E j \in DOMAIN purges : custodyTrail[m].rows = SizeOf(purges[j]))'
      <4>1. ASSUME NEW m \in AuditsOf("retention_purge")
            PROVE  \E j \in DOMAIN purges' : custodyTrail[m].rows = SizeOf(purges'[j])
        <5>1. PICK j \in DOMAIN purges : custodyTrail[m].rows = SizeOf(purges[j])
          BY <1>2 DEF AuditsFit
        <5>2. j \in DOMAIN purges' /\ purges'[j] = purges[j]
          BY <2>7
        <5>3. QED
          BY <5>1, <5>2
      <4>2. QED
        BY <1>2, <3>1, <4>1
    <3>9. QED
      BY <3>7, <3>8 DEF AuditsFit
  <2>12. ASSUME NEW l \in Keepers PROVE KeeperFits(l)'
    <3>1. CASE l = k
      <4>1. n + 1 \in DOMAIN purges' /\ keeper'[k].rows = SizeOf(purges'[n + 1])
        BY <2>4, <2>5, <2>7
      <4>2. QED
        BY <1>2, <2>4, <2>5, <3>1, <4>1 DEF KeeperFits, Unaudited
    <3>2. CASE l # k
      <4>1. keeper'[l] = keeper[l] /\ KeeperFits(l)
        BY <2>5, <3>2 DEF RetentionInv
      <4>2. ASSUME Unaudited(l) PROVE \E j \in DOMAIN purges' : keeper[l].rows = SizeOf(purges'[j])
        <5>1. PICK j \in DOMAIN purges : keeper[l].rows = SizeOf(purges[j])
          BY <4>1, <4>2 DEF KeeperFits
        <5>2. j \in DOMAIN purges' /\ purges'[j] = purges[j]
          BY <2>7
        <5>3. QED
          BY <5>1, <5>2
      <4>3. QED
        BY <4>1, <4>2 DEF KeeperFits, Unaudited
    <3>3. QED
      BY <3>1, <3>2
  <2>13. ASSUME NEW j \in DOMAIN purges' PROVE PurgeFits(purges'[j])
    <3>1. PurgeFits(p)
      <4>1. rawKept \subseteq DOMAIN RowOf
        BY <1>2 DEF RowsFit
      <4>2. p.request = q /\ p.rows = ExpiredRows(q) /\ p.events = ExpiredEvents(q)
        BY <1>1, <2>1
      <4>3. QED
        BY <1>2, <4>1, <4>2, ExpiredIsOld DEF PurgeFits
    <3>2. j \in DOMAIN purges \/ j = n + 1
      BY <2>7
    <3>3. QED
      BY <2>7, <3>1, <3>2 DEF RetentionInv
  <2>14. BereftFit'
    <3>1. ASSUME NEW r \in bereft' PROVE \E j \in DOMAIN purges' : r \in purges'[j].rows
      <4>1. CASE r \in bereft
        <5>1. PICK j \in DOMAIN purges : r \in purges[j].rows
          BY <4>1 DEF RetentionInv, BereftFit
        <5>2. j \in DOMAIN purges' /\ purges'[j] = purges[j]
          BY <2>7
        <5>3. QED
          BY <5>1, <5>2
      <4>2. CASE r \notin bereft
        <5>1. r \in rows /\ p.rows = rows
          BY <2>1, <2>2, <3>1, <4>2
        <5>2. QED
          BY <2>7, <5>1
      <4>3. QED
        BY <4>1, <4>2
    <3>2. QED
      BY <3>1 DEF BereftFit
  <2>15. QED
    BY <2>8, <2>9, <2>11, <2>12, <2>13, <2>14 DEF RetentionInv
<1>6. QED
  BY <1>4, <1>5

LEMMA AuditKeeps ==
    ASSUME RetentionInv, NEW k \in Keepers, UNCHANGED custodyPorts, AuditRetention(k)
    PROVE RetentionInv'
<1>1. PICK d, c, x :
          /\ d = keeper[k]
          /\ c = [d EXCEPT !.at = "idle", !.verdict = IF d.request.dry THEN "counted" ELSE "purged"]
          /\ x = [action |-> IF d.request.dry THEN "retention_dry_run" ELSE "retention_purge",
                  total |-> d.total, rows |-> d.rows]
  OBVIOUS
<1>2. /\ d \in KeeperShape /\ d.at = "auditing"
      /\ custodyTrail' = IF "purge_audit" \in custodyPorts THEN Append(custodyTrail, x) ELSE custodyTrail
      /\ KeeperMoves(k, c) /\ CustodyTyped /\ AuditsFit
      /\ UNCHANGED <<custodyPorts, heldVars, purges, custodyFaults>>
  BY <1>1 DEF AuditRetention, Records, KeeperEnds, RetentionInv, CustodyTyped
<1>3. c \in KeeperShape /\ c.at = "idle"
  BY <1>1, <1>2 DEF KeeperShape, KeeperSteps
<1>4. /\ keeper' \in [Keepers -> KeeperShape] /\ keeper'[k] = c
      /\ \A l \in Keepers : l # k => keeper'[l] = keeper[l]
  BY <1>2, <1>3 DEF KeeperMoves, CustodyTyped
<1>5. PICK A, n : A = AuditsOf("retention_purge") /\ n = Len(custodyTrail)
  OBVIOUS
<1>6. /\ custodyTrail' \in Seq(ToSet(custodyTrail'))
      /\ d.request.dry \/ "purge_audit" \notin custodyPorts => AuditsOf("retention_purge")' = A
      /\ ~d.request.dry /\ "purge_audit" \in custodyPorts =>
             /\ AuditsOf("retention_purge")' = A \cup {n + 1}
             /\ Cardinality(AuditsOf("retention_purge")') = Cardinality(A) + 1
             /\ custodyTrail'[n + 1] = x
      /\ \A m \in A : custodyTrail'[m] = custodyTrail[m]
  <2>1. x.action = IF d.request.dry THEN "retention_dry_run" ELSE "retention_purge"
    BY <1>1
  <2>2. "retention_dry_run" # "retention_purge"
    OBVIOUS
  <2>3. PICK b : b = "retention_purge"
    OBVIOUS
  <2>4. CASE "purge_audit" \in custodyPorts
    <3>1. custodyTrail' = Append(custodyTrail, x)
      BY <1>2, <2>4
    <3>2. /\ custodyTrail' \in Seq(ToSet(custodyTrail'))
          /\ x.action # b => AuditsOf(b)' = AuditsOf(b)
          /\ x.action = b => /\ AuditsOf(b)' = AuditsOf(b) \cup {Len(custodyTrail) + 1}
                             /\ Cardinality(AuditsOf(b)') = Cardinality(AuditsOf(b)) + 1
          /\ custodyTrail'[Len(custodyTrail) + 1] = x
          /\ \A m \in AuditsOf(b) : custodyTrail'[m] = custodyTrail[m]
      BY <1>2, <3>1, TrailGrows
    <3>3. QED
      BY <1>5, <2>1, <2>2, <2>3, <2>4, <3>2
  <2>5. CASE "purge_audit" \notin custodyPorts
    <3>1. custodyTrail' = custodyTrail /\ custodyTrail \in Seq(ToSet(custodyTrail))
      BY <1>2, <2>5 DEF CustodyTyped
    <3>2. AuditsOf("retention_purge")' = A
      BY <1>5, <3>1 DEF AuditsOf
    <3>3. QED
      BY <2>5, <3>1, <3>2
  <2>6. QED
    BY <2>4, <2>5
<1>7. CustodyTyped' /\ RowsFit'
  BY <1>2, <1>4, <1>6 DEF RetentionInv, CustodyTyped, RowsFit, heldVars
<1>8. Owing' = Owing \ {k} /\ (k \in Owing <=> ~d.request.dry)
  BY <1>1, <1>2, <1>3, <1>4 DEF Owing, Unaudited
<1>9. ASSUME "purge_audit" \in custodyPorts
      PROVE  (Cardinality(AuditsOf("retention_purge")) + custodyFaults + Cardinality(Owing) >= Len(purges))'
  <2>1. /\ IsFiniteSet(Owing) /\ custodyFaults \in Nat /\ Len(purges) \in Nat
        /\ Cardinality(Owing) \in Nat /\ Cardinality(A) \in Nat
        /\ Cardinality(A) + custodyFaults + Cardinality(Owing) >= Len(purges)
    BY <1>2, <1>5, <1>9, AccountNumbers
  <2>2. PICK a, f, w, s : /\ a = Cardinality(A) /\ f = custodyFaults /\ w = Cardinality(Owing)
                          /\ s = Len(purges)
                          /\ a \in Nat /\ f \in Nat /\ w \in Nat /\ s \in Nat /\ a + f + w >= s
    BY <2>1
  <2>3. CASE d.request.dry
    <3>1. Owing' = Owing
      BY <1>8, <2>3
    <3>2. QED
      BY <1>2, <1>6, <2>2, <2>3, <3>1
  <2>4. CASE ~d.request.dry
    <3>1. Cardinality(Owing') = w - 1
      BY <1>8, <2>1, <2>2, <2>4, FS_RemoveElement
    <3>2. Cardinality(AuditsOf("retention_purge")') = a + 1
      BY <1>6, <1>9, <2>2, <2>4
    <3>3. (a + 1) + f + (w - 1) >= s
      BY <2>2
    <3>4. QED
      BY <1>2, <2>2, <3>1, <3>2, <3>3
  <2>5. QED
    BY <2>3, <2>4
<1>10. AuditsFit'
  <2>1. ASSUME NEW m \in AuditsOf("retention_purge")'
        PROVE  \E j \in DOMAIN purges : custodyTrail'[m].rows = SizeOf(purges[j])
    <3>1. CASE m \in A
      <4>1. \E j \in DOMAIN purges : custodyTrail[m].rows = SizeOf(purges[j])
        BY <1>2, <1>5, <3>1 DEF AuditsFit
      <4>2. QED
        BY <1>6, <3>1, <4>1
    <3>2. CASE m \notin A
      <4>1. ~d.request.dry /\ "purge_audit" \in custodyPorts /\ m = n + 1
        BY <1>6, <2>1, <3>2
      <4>2. \E j \in DOMAIN purges : d.rows = SizeOf(purges[j])
        BY <1>1, <1>2, <4>1 DEF RetentionInv, KeeperFits, Unaudited
      <4>3. custodyTrail'[m].rows = d.rows
        BY <1>1, <1>6, <4>1
      <4>4. QED
        BY <4>2, <4>3
    <3>3. QED
      BY <3>1, <3>2
  <2>2. QED
    BY <1>2, <1>9, <2>1 DEF AuditsFit
<1>11. ASSUME NEW l \in Keepers PROVE KeeperFits(l)'
  <2>1. CASE l = k
    BY <1>3, <1>4, <2>1 DEF KeeperFits, Unaudited
  <2>2. CASE l # k
    BY <1>2, <1>4, <2>2 DEF RetentionInv, KeeperFits, Unaudited
  <2>3. QED
    BY <2>1, <2>2
<1>12. (\A m \in DOMAIN purges : PurgeFits(purges[m]))' /\ BereftFit'
  BY <1>2 DEF RetentionInv, BereftFit, heldVars
<1>13. QED
  BY <1>7, <1>10, <1>11, <1>12 DEF RetentionInv

LEMMA ThrowKeeps ==
    ASSUME RetentionInv, NEW k \in Keepers, UNCHANGED custodyPorts, KeeperThrows(k)
    PROVE RetentionInv'
<1>1. PICK d, c : d = keeper[k] /\ c = [d EXCEPT !.at = "idle", !.verdict = "rejected"]
  OBVIOUS
<1>2. /\ d \in KeeperShape /\ KeeperMoves(k, c) /\ CustodyTyped /\ AuditsFit
      /\ custodyFaults' = custodyFaults + 1
      /\ UNCHANGED <<custodyPorts, heldVars, purges, custodyTrail>>
  BY <1>1 DEF KeeperThrows, KeeperEnds, CustodyFault, RetentionInv, CustodyTyped
<1>3. c \in KeeperShape /\ c.at = "idle"
  BY <1>1, <1>2 DEF KeeperShape, KeeperSteps
<1>4. /\ keeper' \in [Keepers -> KeeperShape] /\ keeper'[k] = c
      /\ \A l \in Keepers : l # k => keeper'[l] = keeper[l]
  BY <1>2, <1>3 DEF KeeperMoves, CustodyTyped
<1>5. CustodyTyped' /\ RowsFit'
  BY <1>2, <1>4 DEF RetentionInv, CustodyTyped, RowsFit, heldVars
<1>6. Owing' = Owing \ {k}
  BY <1>3, <1>4 DEF Owing, Unaudited
<1>7. AuditsFit'
  <2>1. /\ custodyFaults \in Nat /\ Len(purges) \in Nat
        /\ IsFiniteSet(Owing) /\ Cardinality(Owing) \in Nat
        /\ Cardinality(AuditsOf("retention_purge")) \in Nat
        /\ "purge_audit" \in custodyPorts =>
               Cardinality(AuditsOf("retention_purge")) + custodyFaults + Cardinality(Owing) >= Len(purges)
    BY <1>2, AccountNumbers
  <2>2. Cardinality(Owing \ {k}) \in Nat /\ Cardinality(Owing \ {k}) >= Cardinality(Owing) - 1
    BY <2>1, OneFewer
  <2>3. "purge_audit" \in custodyPorts =>
            Cardinality(AuditsOf("retention_purge")) + (custodyFaults + 1) + Cardinality(Owing \ {k})
                >= Len(purges)
    BY <2>1, <2>2, StillOwed
  <2>4. AuditsOf("retention_purge")' = AuditsOf("retention_purge")
    BY <1>2 DEF AuditsOf
  <2>5. QED
    BY <1>2, <1>6, <2>3, <2>4 DEF AuditsFit
<1>8. ASSUME NEW l \in Keepers PROVE KeeperFits(l)'
  <2>1. CASE l = k
    BY <1>3, <1>4, <2>1 DEF KeeperFits, Unaudited
  <2>2. CASE l # k
    BY <1>2, <1>4, <2>2 DEF RetentionInv, KeeperFits, Unaudited
  <2>3. QED
    BY <2>1, <2>2
<1>9. (\A m \in DOMAIN purges : PurgeFits(purges[m]))' /\ BereftFit'
  BY <1>2 DEF RetentionInv, BereftFit, heldVars
<1>10. QED
  BY <1>5, <1>7, <1>8, <1>9 DEF RetentionInv

\* What leaves the tables and the calls of retention alone
LEMMA RetentionStays ==
    ASSUME RetentionInv,
           UNCHANGED <<custodyPorts, rawKept, bereft, eventsKept, queriesKept, keeper, purges>>,
           tied' \cup derived' \subseteq rawKept,
           custodyFaults' \in Nat, custodyFaults' >= custodyFaults,
           custodyTrail' \in Seq(ToSet(custodyTrail')),
           AuditsOf("retention_purge")' = AuditsOf("retention_purge"),
           \A n \in AuditsOf("retention_purge") : custodyTrail'[n] = custodyTrail[n]
    PROVE  RetentionInv'
<1>1. CustodyTyped' /\ RowsFit'
  BY DEF RetentionInv, CustodyTyped, RowsFit
<1>2. Owing' = Owing
  BY DEF Owing, Unaudited
<1>3. AuditsFit'
  <2>1. /\ custodyFaults \in Nat /\ Len(purges) \in Nat /\ Cardinality(Owing) \in Nat
        /\ Cardinality(AuditsOf("retention_purge")) \in Nat
        /\ "purge_audit" \in custodyPorts =>
               Cardinality(AuditsOf("retention_purge")) + custodyFaults + Cardinality(Owing) >= Len(purges)
    BY AccountNumbers DEF RetentionInv
  <2>2. PICK a, f, g, w, s :
            /\ a = Cardinality(AuditsOf("retention_purge")) /\ f = custodyFaults /\ g = custodyFaults'
            /\ w = Cardinality(Owing) /\ s = Len(purges)
            /\ a \in Nat /\ f \in Nat /\ w \in Nat /\ g \in Nat /\ s \in Nat
            /\ "purge_audit" \in custodyPorts => a + f + w >= s
            /\ g >= f
    BY <2>1
  <2>3. "purge_audit" \in custodyPorts => a + g + w >= s
    BY <2>2
  <2>4. QED
    BY <1>2, <2>2, <2>3 DEF RetentionInv, AuditsFit
<1>4. ASSUME NEW l \in Keepers PROVE KeeperFits(l)'
  BY DEF RetentionInv, KeeperFits, Unaudited
<1>5. (\A m \in DOMAIN purges : PurgeFits(purges[m]))' /\ BereftFit'
  BY DEF RetentionInv, BereftFit
<1>6. QED
  BY <1>1, <1>3, <1>4, <1>5 DEF RetentionInv

LEMMA TieKeeps ==
    ASSUME RetentionInv, UNCHANGED custodyPorts, NEW r \in DOMAIN RowOf, TieRow(r)
    PROVE  RetentionInv'
<1>1. /\ UNCHANGED <<custodyPorts, rawKept, bereft, eventsKept, queriesKept, keeper, purges,
                     custodyTrail, custodyFaults>>
      /\ tied' \cup derived' \subseteq rawKept
  BY DEF TieRow, RetentionInv, RowsFit
<1>2. AuditsOf("retention_purge")' = AuditsOf("retention_purge")
  BY <1>1 DEF AuditsOf
<1>3. custodyFaults \in Nat /\ custodyTrail \in Seq(ToSet(custodyTrail))
  BY DEF RetentionInv, CustodyTyped
<1>4. custodyFaults' \in Nat /\ custodyFaults' >= custodyFaults /\ custodyTrail' \in Seq(ToSet(custodyTrail'))
  BY <1>1, <1>3
<1>5. QED
  BY <1>1, <1>2, <1>4, RetentionStays

\* Retention leaves the drill alone, and its audit events are others.
LEMMA DrillStays ==
    ASSUME CustodyTyped, DrillFits, drill' = drill,
           \/ custodyTrail' = custodyTrail
           \/ \E x : x.action # "restore_drill_execution" /\ custodyTrail' = Append(custodyTrail, x)
    PROVE  DrillFits'
<1>1. AuditsOf("restore_drill_execution")' = AuditsOf("restore_drill_execution")
  <2>1. CASE custodyTrail' = custodyTrail
    BY <2>1 DEF AuditsOf
  <2>2. CASE \E x : x.action # "restore_drill_execution" /\ custodyTrail' = Append(custodyTrail, x)
    BY <2>2, TrailGrows
  <2>3. QED
    BY <2>1, <2>2
<1>2. QED
  BY <1>1 DEF DrillFits

LEMMA RetentionKeeps == ASSUME CustodyInv, RetentionNext PROVE CustodyInv'
<1>1. RetentionInv /\ DrillFits /\ CustodyTyped
  BY DEF CustodyInv, RetentionInv
<1>2. RetentionInv'
  <2>0. UNCHANGED custodyPorts
    BY DEF RetentionNext
  <2>1. ASSUME NEW k \in Keepers,
               \/ \E q \in RetentionRequests : AskRetention(k, q)
               \/ CountRows(k) \/ CountLogs(k) \/ PurgeExpired(k) \/ AuditRetention(k) \/ KeeperThrows(k)
        PROVE  RetentionInv'
    BY <1>1, <2>0, <2>1, AskRetentionKeeps, CountsKeep, PurgeKeeps, AuditKeeps, ThrowKeeps
  <2>2. QED
    BY <1>1, <2>0, <2>1, TieKeeps DEF RetentionNext
<1>3. drill' = drill
  BY DEF RetentionNext, AskRetention, CountRows, CountLogs, PurgeExpired, AuditRetention, KeeperThrows,
         TieRow, drillVars
<1>4. \/ custodyTrail' = custodyTrail
      \/ \E x : x.action # "restore_drill_execution" /\ custodyTrail' = Append(custodyTrail, x)
  <2>1. ASSUME NEW k \in Keepers, AuditRetention(k)
        PROVE  \/ custodyTrail' = custodyTrail
               \/ \E x : x.action # "restore_drill_execution" /\ custodyTrail' = Append(custodyTrail, x)
    <3>1. PICK x : /\ x = [action |-> IF keeper[k].request.dry THEN "retention_dry_run" ELSE "retention_purge",
                           total |-> keeper[k].total, rows |-> keeper[k].rows]
                   /\ custodyTrail' = custodyTrail \/ custodyTrail' = Append(custodyTrail, x)
      BY <2>1 DEF AuditRetention, Records
    <3>2. x.action # "restore_drill_execution"
      BY <3>1
    <3>3. QED
      BY <3>1, <3>2
  <2>2. QED
    BY <2>1 DEF RetentionNext, AskRetention, CountRows, CountLogs, PurgeExpired, KeeperThrows, TieRow
<1>5. QED
  BY <1>1, <1>2, <1>3, <1>4, DrillStays DEF CustodyInv

\* A step of the drill that writes no audit event
LEMMA DrillMoves ==
    ASSUME CustodyInv, UNCHANGED <<custodyPorts, retentionVars, custodyTrail>>,
           custodyFaults' = custodyFaults \/ CustodyFault,
           NEW d \in DrillShape, drill' = d,
           d.at # "idle" => /\ d.manifest \in Manifests /\ d.request \in DrillRequests
                            /\ ValidateManifest(d.manifest),
           d.at \in Restoring \/ (d.at = "auditing" /\ ~d.request.dry) =>
               ~d.request.dry /\ (d.met => d.request.token \/ ~d.looked),
           d.at = "verifying" \/ (d.at = "auditing" /\ ~d.request.dry) => d.rows = RowsIn(d.manifest),
           d.at # "idle" => d.verdict = "none",
           d.verdict # "restored", drill.verdict # "restored"
    PROVE  CustodyInv'
<1>1. RetentionInv /\ DrillFits /\ custodyFaults \in Nat /\ custodyTrail \in Seq(ToSet(custodyTrail))
      /\ tied \cup derived \subseteq rawKept
  BY DEF CustodyInv, RetentionInv, CustodyTyped, RowsFit
<1>2. \A a : AuditsOf(a)' = AuditsOf(a)
  BY DEF AuditsOf
<1>3. custodyFaults' \in Nat /\ custodyFaults' >= custodyFaults
  BY <1>1 DEF CustodyFault
<1>4. RetentionInv'
  <2>1. /\ UNCHANGED <<custodyPorts, rawKept, bereft, eventsKept, queriesKept, keeper, purges>>
        /\ tied' \cup derived' \subseteq rawKept /\ custodyTrail' = custodyTrail
    BY <1>1 DEF retentionVars, heldVars
  <2>2. QED
    BY <1>1, <1>2, <1>3, <2>1, RetentionStays
<1>5. AuditsOf("restore_drill_execution")' = {}
  BY <1>1, <1>2 DEF DrillFits
<1>6. DrillFits'
  BY <1>5 DEF DrillFits
<1>7. QED
  BY <1>4, <1>6 DEF CustodyInv

LEMMA AskDrillKeeps ==
    ASSUME CustodyInv, UNCHANGED custodyPorts, NEW m \in Manifests, NEW q \in DrillRequests, AskDrill(m, q)
    PROVE  CustodyInv'
<1>1. PICK v : v = ValidateManifest(m) /\ v \in BOOLEAN
  BY DEF ValidateManifest
<1>2. PICK d : /\ drill' = d
               /\ d = [NoDrill EXCEPT !.manifest = m, !.request = q,
                          !.at = IF v THEN "looking" ELSE "idle", !.verdict = IF v THEN "none" ELSE "invalid"]
  BY <1>1 DEF AskDrill
<1>0. UNCHANGED <<retentionVars, custodyTrail, custodyFaults>> /\ drill.verdict = "none"
  BY DEF AskDrill
<1>3. CASE v
  <2>0. ValidateManifest(m)
    BY <1>1, <1>3
  <2>1. d \in DrillShape /\ d.at = "looking" /\ d.manifest = m /\ d.request = q /\ d.verdict = "none"
    BY <1>2, <1>3 DEF NoDrill, DrillShape
  <2>2. QED
    BY <1>0, <1>2, <2>0, <2>1, DrillMoves DEF Restoring
<1>4. CASE ~v
  <2>1. d \in DrillShape /\ d.at = "idle" /\ d.verdict = "invalid"
    BY <1>2, <1>4 DEF NoDrill, DrillShape
  <2>2. QED
    BY <1>0, <1>2, <2>1, DrillMoves DEF Restoring
<1>5. QED
  BY <1>1, <1>3, <1>4

LEMMA LookKeeps == ASSUME CustodyInv, UNCHANGED custodyPorts, LookAtShelf PROVE CustodyInv'
<1>1. /\ drill \in DrillShape /\ drill.at = "looking" /\ drill.verdict = "none"
      /\ drill.manifest \in Manifests /\ drill.request \in DrillRequests /\ ValidateManifest(drill.manifest)
      /\ UNCHANGED <<retentionVars, custodyTrail>>
  BY DEF LookAtShelf, CustodyInv, DrillFits
<1>2. drill.request.dry \in BOOLEAN /\ drill.request.token \in BOOLEAN
  BY <1>1, CustodyAssumption
<1>3. PICK looked \in {shelf # "missing", FALSE} :
          LET clean == looked => shelf = "empty"
          IN  /\ IF looked = (shelf # "missing") THEN UNCHANGED custodyFaults ELSE CustodyFault
              /\ drill' = [drill EXCEPT !.clean = clean, !.looked = looked, !.met = shelf = "filled",
                     !.at = CASE ~clean /\ ~drill.request.dry /\ ~drill.request.token -> "refusing"
                              [] drill.request.dry -> "auditing"
                              [] OTHER -> "migrating"]
  BY DEF LookAtShelf
<1>4. looked \in BOOLEAN /\ (custodyFaults' = custodyFaults \/ CustodyFault)
  BY <1>3
<1>5. PICK clean, met, at :
          /\ clean = (looked => shelf = "empty") /\ met = (shelf = "filled")
          /\ clean \in BOOLEAN /\ met \in BOOLEAN
          /\ at = CASE ~clean /\ ~drill.request.dry /\ ~drill.request.token -> "refusing"
                    [] drill.request.dry -> "auditing"
                    [] OTHER -> "migrating"
  BY <1>4
<1>6. met /\ looked => ~clean
  BY <1>5
<1>7. /\ at \in {"refusing", "auditing", "migrating"}
      /\ at = "auditing" => drill.request.dry
      /\ at = "migrating" => ~drill.request.dry /\ (met => drill.request.token \/ ~looked)
  BY <1>2, <1>5, <1>6
<1>8. PICK d : /\ drill' = d
               /\ d = [drill EXCEPT !.clean = clean, !.looked = looked, !.met = met, !.at = at]
  BY <1>3, <1>5
<1>9. /\ d \in DrillShape /\ d.at = at /\ d.met = met /\ d.looked = looked /\ d.verdict = "none"
      /\ d.manifest = drill.manifest /\ d.request = drill.request
  BY <1>1, <1>4, <1>5, <1>7, <1>8 DEF DrillShape
<1>10. QED
  BY <1>1, <1>4, <1>7, <1>8, <1>9, DrillMoves DEF Restoring

\* The steps from the migration to the verification, and those that end a drill
LEMMA RestoreKeeps ==
    ASSUME CustodyInv, UNCHANGED custodyPorts,
           RefuseRestore \/ MigrateShelf \/ RestoreTables \/ VerifyShelf \/ DrillThrows
    PROVE  CustodyInv'
<1>1. PICK c : c = drill
  OBVIOUS
<1>2. /\ c \in DrillShape /\ c.at # "idle" /\ c.verdict = "none"
      /\ c.manifest \in Manifests /\ c.request \in DrillRequests /\ ValidateManifest(c.manifest)
      /\ c.at \in Restoring => ~c.request.dry /\ (c.met => c.request.token \/ ~c.looked)
      /\ c.at = "verifying" => c.rows = RowsIn(c.manifest)
  BY <1>1 DEF RefuseRestore, MigrateShelf, RestoreTables, VerifyShelf, DrillThrows, CustodyInv, DrillFits
<1>3. UNCHANGED <<retentionVars, custodyTrail>> /\ (custodyFaults' = custodyFaults \/ CustodyFault)
  BY DEF RefuseRestore, MigrateShelf, RestoreTables, VerifyShelf, DrillThrows
<1>4. CASE RefuseRestore \/ DrillThrows
  <2>1. PICK v \in {"refused", "rejected"} : drill' = [c EXCEPT !.at = "idle", !.verdict = v]
    BY <1>1, <1>4 DEF RefuseRestore, DrillThrows, DrillEnds
  <2>2. PICK d : drill' = d /\ d = [c EXCEPT !.at = "idle", !.verdict = v]
    BY <2>1
  <2>3. d \in DrillShape /\ d.at = "idle" /\ d.verdict = v
    BY <1>2, <2>1, <2>2 DEF DrillShape
  <2>4. QED
    BY <1>1, <1>2, <1>3, <2>1, <2>2, <2>3, DrillMoves DEF Restoring
<1>5. CASE MigrateShelf
  <2>1. PICK d : drill' = d /\ d = [c EXCEPT !.at = "restoring"]
    BY <1>1, <1>5 DEF MigrateShelf
  <2>2. /\ d \in DrillShape /\ d.at = "restoring" /\ d.manifest = c.manifest /\ d.request = c.request
        /\ d.met = c.met /\ d.looked = c.looked /\ d.verdict = "none" /\ c.at \in Restoring
    BY <1>1, <1>2, <1>5, <2>1 DEF DrillShape, MigrateShelf, Restoring
  <2>3. QED
    BY <1>1, <1>2, <1>3, <2>1, <2>2, DrillMoves
<1>6. CASE RestoreTables
  <2>1. PICK d, r : drill' = d /\ d = [c EXCEPT !.at = "verifying", !.rows = r] /\ r = RowsIn(c.manifest)
    BY <1>1, <1>6 DEF RestoreTables
  <2>2. /\ d \in DrillShape /\ d.at = "verifying" /\ d.manifest = c.manifest /\ d.request = c.request
        /\ d.met = c.met /\ d.looked = c.looked /\ d.verdict = "none" /\ c.at \in Restoring
        /\ d.rows = r
    BY <1>1, <1>2, <1>6, <2>1 DEF DrillShape, RestoreTables, Restoring
  <2>3. QED
    BY <1>1, <1>2, <1>3, <2>1, <2>2, DrillMoves
<1>7. CASE VerifyShelf
  <2>1. PICK d : drill' = d /\ d = [c EXCEPT !.at = "auditing"]
    BY <1>1, <1>7 DEF VerifyShelf
  <2>2. /\ d \in DrillShape /\ d.at = "auditing" /\ d.manifest = c.manifest /\ d.request = c.request
        /\ d.met = c.met /\ d.looked = c.looked /\ d.verdict = "none" /\ c.at = "verifying"
        /\ d.rows = c.rows
    BY <1>1, <1>2, <1>7, <2>1 DEF DrillShape, VerifyShelf
  <2>3. QED
    BY <1>1, <1>2, <1>3, <2>1, <2>2, DrillMoves DEF Restoring
<1>8. QED
  BY <1>4, <1>5, <1>6, <1>7

LEMMA AuditDrillKeeps == ASSUME CustodyInv, UNCHANGED custodyPorts, AuditDrill PROVE CustodyInv'
<1>1. PICK c, x, v :
          /\ c = drill
          /\ x = [action |-> IF c.request.dry THEN "restore_drill_dry_run" ELSE "restore_drill_execution",
                  total |-> c.manifest.total, rows |-> c.rows]
          /\ v = IF c.request.dry THEN "planned" ELSE "restored"
  OBVIOUS
<1>2. /\ c \in DrillShape /\ c.at = "auditing" /\ c.verdict = "none"
      /\ c.manifest \in Manifests /\ c.request \in DrillRequests /\ ValidateManifest(c.manifest)
      /\ ~c.request.dry => (c.met => c.request.token \/ ~c.looked) /\ c.rows = RowsIn(c.manifest)
      /\ RetentionInv /\ CustodyTyped /\ AuditsOf("restore_drill_execution") = {}
      /\ UNCHANGED <<retentionVars, custodyFaults>>
      /\ custodyTrail' = IF "drill_audit" \in custodyPorts THEN Append(custodyTrail, x) ELSE custodyTrail
  BY <1>1 DEF AuditDrill, Records, CustodyInv, DrillFits, RetentionInv
<1>3. PICK d : drill' = d /\ d = [c EXCEPT !.at = "idle", !.verdict = v]
  BY <1>1 DEF AuditDrill, DrillEnds
<1>4. /\ d \in DrillShape /\ d.at = "idle" /\ d.verdict = v /\ d.manifest = c.manifest
      /\ d.request = c.request /\ d.met = c.met /\ d.looked = c.looked /\ d.rows = c.rows
  BY <1>1, <1>2, <1>3 DEF DrillShape
<1>5. RetentionInv'
  <2>1. x.action # "retention_purge"
    BY <1>1
  <2>2. /\ custodyTrail' \in Seq(ToSet(custodyTrail'))
        /\ AuditsOf("retention_purge")' = AuditsOf("retention_purge")
        /\ \A n \in AuditsOf("retention_purge") : custodyTrail'[n] = custodyTrail[n]
    <3>1. CASE "drill_audit" \in custodyPorts
      BY <1>2, <2>1, <3>1, TrailGrows
    <3>2. CASE "drill_audit" \notin custodyPorts
      BY <1>2, <3>2 DEF AuditsOf, CustodyTyped
    <3>3. QED
      BY <3>1, <3>2
  <2>3. /\ UNCHANGED <<custodyPorts, rawKept, bereft, eventsKept, queriesKept, keeper, purges>>
        /\ tied' = tied /\ derived' = derived
    BY <1>2 DEF retentionVars, heldVars
  <2>4. custodyFaults' \in Nat /\ custodyFaults' >= custodyFaults /\ tied' \cup derived' \subseteq rawKept
    BY <1>2, <2>3 DEF RetentionInv, CustodyTyped, RowsFit
  <2>5. QED
    BY <1>2, <2>2, <2>3, <2>4, RetentionStays
<1>6. AuditsOf("restore_drill_execution")' # {} => v = "restored"
  <2>1. c.request.dry => x.action # "restore_drill_execution"
    BY <1>1
  <2>2. c.request.dry => AuditsOf("restore_drill_execution")' = {}
    <3>1. CASE "drill_audit" \in custodyPorts
      BY <1>2, <2>1, <3>1, TrailGrows
    <3>2. CASE "drill_audit" \notin custodyPorts
      BY <1>2, <3>2 DEF AuditsOf
    <3>3. QED
      BY <3>1, <3>2
  <2>3. QED
    BY <1>1, <2>2
<1>7. v = "restored" => ~c.request.dry
  BY <1>1
<1>8. DrillFits'
  BY <1>2, <1>3, <1>4, <1>6, <1>7 DEF DrillFits, Restoring
<1>9. QED
  BY <1>5, <1>8 DEF CustodyInv

LEMMA FillKeeps == ASSUME CustodyInv, UNCHANGED custodyPorts, FillShelf PROVE CustodyInv'
<1>1. UNCHANGED <<retentionVars, drill, custodyTrail, custodyFaults>>
  BY DEF FillShelf
<1>2. UNCHANGED <<custodyPorts, heldVars, keeper, purges>>
  BY <1>1 DEF retentionVars
<1>3. RetentionInv'
  BY <1>1, <1>2 DEF CustodyInv, RetentionInv, CustodyTyped, RowsFit, AuditsFit, BereftFit, KeeperFits, AuditsOf,
         Owing, Unaudited, heldVars
<1>4. DrillFits'
  BY <1>1, DrillStays DEF CustodyInv, RetentionInv
<1>5. QED
  BY <1>3, <1>4 DEF CustodyInv

LEMMA CustodyInvNext == CustodyInv /\ [RetentionNext \/ DrillNext]_custodyVars => CustodyInv'
<1> SUFFICES ASSUME CustodyInv, [RetentionNext \/ DrillNext]_custodyVars PROVE CustodyInv'
  OBVIOUS
<1>1. CASE RetentionNext
  BY <1>1, RetentionKeeps
<1>2. CASE DrillNext
  BY <1>2, AskDrillKeeps, LookKeeps, RestoreKeeps, AuditDrillKeeps, FillKeeps DEF DrillNext
<1>3. CASE UNCHANGED custodyVars
  <2>1. UNCHANGED <<custodyPorts, heldVars, keeper, purges, drill, custodyTrail, custodyFaults>>
    BY <1>3 DEF custodyVars, retentionVars, drillVars
  <2>2. RetentionInv'
    BY <2>1 DEF CustodyInv, RetentionInv, CustodyTyped, RowsFit, AuditsFit, BereftFit, KeeperFits, AuditsOf,
           Owing, Unaudited, heldVars
  <2>3. DrillFits'
    BY <2>1, DrillStays DEF CustodyInv, RetentionInv
  <2>4. QED
    BY <2>2, <2>3 DEF CustodyInv
<1>4. QED
  BY <1>1, <1>2, <1>3

LEMMA PurgesFollow == CustodyInv => PurgesAreAccounted
<1> SUFFICES ASSUME CustodyInv PROVE PurgesAreAccounted
  OBVIOUS
<1>1. RetentionInv /\ AuditsFit /\ RowsFit
  BY DEF CustodyInv, RetentionInv
<1>2. Owing = {k \in Keepers : keeper[k].at = "auditing" /\ ~keeper[k].request.dry}
  BY DEF Owing, Unaudited
<1>3. \A n \in DOMAIN purges : PurgeFits(purges[n])
  BY <1>1 DEF RetentionInv
<1>4. QED
  BY <1>1, <1>2, <1>3 DEF PurgesAreAccounted, AuditsFit, RowsFit, PurgeFits, RetentionInv, BereftFit

\* The sum of a manifest that is valid is its total, where it names one.
LEMMA TotalIsSum ==
    ASSUME NEW m \in Manifests, ValidateManifest(m)
    PROVE  /\ RowsIn(m) = IF m.total = -1 THEN RowsIn(m) ELSE m.total
           /\ \A n \in DOMAIN m.tables : m.tables[n].checksum
<1>1. \A n \in DOMAIN m.tables : ~(m.tables[n].rows < 0)
  <2>1. ASSUME NEW n \in DOMAIN m.tables PROVE ~(m.tables[n].rows < 0)
    <3>1. PICK r : r = m.tables[n].rows
      OBVIOUS
    <3>2. r \in Int /\ r >= 0
      BY <3>1, CustodyAssumption DEF ValidateManifest
    <3>3. QED
      BY <3>1, <3>2
  <2>2. QED
    BY <2>1
<1>2. m.total = -1 \/ m.total = RowsIn(m)
  BY <1>1 DEF ValidateManifest, TotalFits
<1>3. QED
  BY <1>2 DEF ValidateManifest

LEMMA DrillsFollow == CustodyInv => DrillsAreGuarded
<1> SUFFICES ASSUME CustodyInv PROVE DrillsAreGuarded
  OBVIOUS
<1>1. DrillFits
  BY DEF CustodyInv
<1>2. ASSUME drill.verdict = "restored"
      PROVE  /\ \A n \in DOMAIN drill.manifest.tables : drill.manifest.tables[n].checksum
             /\ drill.rows = IF drill.manifest.total = -1 THEN RowsIn(drill.manifest) ELSE drill.manifest.total
             /\ drill.met => drill.request.token \/ ~drill.looked
  <2>1. PICK m : m = drill.manifest /\ m \in Manifests /\ ValidateManifest(m) /\ drill.rows = RowsIn(m)
    BY <1>1, <1>2 DEF DrillFits
  <2>2. drill.met => drill.request.token \/ ~drill.looked
    BY <1>1, <1>2 DEF DrillFits
  <2>3. QED
    BY <2>1, <2>2, TotalIsSum
<1>3. QED
  BY <1>1, <1>2 DEF DrillsAreGuarded, DrillFits

CustodyParts == IngestInv /\ FeedInv /\ CustodyInv

LEMMA PartsNext ==
    CustodyParts /\ [CustodyNext]_<<ingestVars, articleVars, custodyVars>> => CustodyParts'
<1> SUFFICES ASSUME CustodyParts, [CustodyNext]_<<ingestVars, articleVars, custodyVars>>
             PROVE  CustodyParts'
  OBVIOUS
<1>1. [IngestNext]_ingestVars /\ [FeedNext]_articleVars /\ [RetentionNext \/ DrillNext]_custodyVars
  BY DEF CustodyNext
<1>2. QED
  BY <1>1, IngestInvNext, FeedInvNext, CustodyInvNext DEF CustodyParts

\* However calls for one run overlap, fail and are repeated, an item is handed
\* to normalization at most once and only when it is stored, and what a run
\* counts is so (RawIngestion); however a feed moves and its calls fail, no
\* article is stored twice except by a page, and the provider's 304 hides none
\* unless the limit cut a reading short (ArticleFeed); however purges, ties and
\* drills meet, a committed purge deleted only what was old and left no
\* reference without its row: what restricts undoes the purge, and revisions and
\* observations let their rows go.  Where there is an audit, the purge's event
\* has its rows; and a restore had a whole manifest (DataCustody).
THEOREM CustodyStaysKept == CustodySpec => []CustodyIsKept
<1>1. IngestInit /\ ArticleInit /\ CustodyInit => CustodyParts
  BY IngestInvInit, FeedInvInit, CustodyInvInit DEF CustodyParts
<1>2. CustodyParts => CustodyIsKept
  BY IngestFollows, FeedFollows, PurgesFollow, DrillsFollow DEF CustodyParts, CustodyIsKept
<1>3. QED
  BY <1>1, <1>2, PartsNext, PTL DEF CustodySpec
=============================================================================
