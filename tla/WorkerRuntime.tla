--------------------------- MODULE WorkerRuntime ---------------------------
(***************************************************************************)
(* The life of a worker process, apps/worker/src/index.ts with              *)
(* partition-runtime.ts, scheduler.ts and health.ts, and the planner of     *)
(* partition-runtime.ts.                                                    *)
(*                                                                         *)
(* A loop claims deliveries lane by lane and puts each into the Redis queue *)
(* of its lane; the two BullMQ workers take them out and run the handler.   *)
(* stop() takes the parts down in an order: status, health server, loop,    *)
(* workers, database.  SIGTERM and SIGINT each call it once.  What a        *)
(* handler does with a delivery is the business of DocumentPipeline: here   *)
(* it completes it or throws.                                               *)
(***************************************************************************)
EXTENDS SourceSlots

CONSTANTS Backfills, Incrementals, Others,  \* deliveries by the lane that claims them
          Stops,                            \* calls of stop()
          BatchLimit, Degraded, Unhealthy,
          PlanRequests,   \* requests of the planner, records
          Cadence, Overlap, PlanTimes,
          RuntimeFaults   \* bound: failing calls, crashes and lapsed leases

Deliveries == Backfills \cup Incrementals \cup Others
QueueLanes == {"incremental", "backfill"}
ASSUME RuntimeAssumption ==
  /\ BatchLimit \in Nat \ {0} /\ RuntimeFaults \in Nat
  /\ {Degraded, Unhealthy} \subseteq Nat \ {0} /\ Degraded < Unhealthy
  /\ \A r \in PlanRequests :
       /\ r.mode \in {"backfill", "incremental", "on_demand"} /\ r.slice \in Nat \ {0}
       /\ r.window \in {<<>>} \cup (Int \X Int)

VARIABLES process,     \* "down", "assembling", "up"
          looping, timer,           \* isRunning, pollTimer
          tickLane,                 \* the lane whose batch is being dispatched
          claimed, tickFailed,      \* the rest of the batch; a failure so far
          leased, completed,        \* rows of the deliveries table
          jobQueue, handling,          \* jobs in Redis, jobs with a worker
          taking,                   \* the BullMQ workers that take jobs
          stopStep, database, healthServer,
          status, consecutiveErrors,
          made, planStep, planAt,   \* per request: windows, progress, currentFrom
          runtimeFaults

loopVars == <<looping, timer, tickLane, claimed, tickFailed>>
rowVars == <<leased, completed>>
queueVars == <<jobQueue, handling, taking>>
lifeVars == <<process, stopStep, database, healthServer, status, consecutiveErrors>>
planVars == <<made, planStep, planAt>>
runtimeVars == <<loopVars, rowVars, queueVars, lifeVars, planVars, runtimeFaults>>

RuntimeInit ==
  /\ process = "down" /\ database = "closed" /\ healthServer = "closed"
  /\ status = "starting" /\ consecutiveErrors = 0
  /\ looping = FALSE /\ timer = FALSE /\ tickLane = "none" /\ claimed = {} /\ tickFailed = FALSE
  /\ leased = {} /\ completed = {} /\ jobQueue = {} /\ handling = {} /\ taking = {}
  /\ stopStep = [s \in Stops |-> "none"]
  /\ made = [r \in PlanRequests |-> {}] /\ planStep = [r \in PlanRequests |-> "none"]
  /\ planAt = [r \in PlanRequests |-> 0]
  /\ runtimeFaults = 0

RuntimeFault == runtimeFaults < RuntimeFaults /\ runtimeFaults' = runtimeFaults + 1
QueueOf(d) == IF d \in Backfills THEN "backfill" ELSE "incremental"

-----------------------------------------------------------------------------
(* Assembly: the database, then the workers, which take jobs as soon as they  *)
(* exist; the loop starts when both are ready.                               *)

AssembleWorker ==
  /\ process = "down"
  /\ process' = "assembling" /\ database' = "open"
  /\ status' = "starting" /\ consecutiveErrors' = 0
  /\ stopStep' = [s \in Stops |-> "none"]
  /\ UNCHANGED <<loopVars, rowVars, queueVars, healthServer, planVars, runtimeFaults>>

\* No Redis, or a scheduler that cannot be made: the database is closed again.
AssembleFails ==
  /\ process = "assembling" /\ taking = {} /\ RuntimeFault
  /\ process' = "down" /\ database' = "closed"
  /\ UNCHANGED <<loopVars, rowVars, queueVars, stopStep, healthServer, status, consecutiveErrors,
                 planVars>>

CreateScheduler ==
  /\ process = "assembling" /\ taking = {}
  /\ taking' = QueueLanes
  /\ UNCHANGED <<loopVars, rowVars, jobQueue, handling, lifeVars, planVars, runtimeFaults>>

Start ==
  /\ process = "assembling" /\ taking = QueueLanes
  /\ process' = "up" /\ looping' = TRUE /\ timer' = TRUE
  /\ status' = "healthy" /\ consecutiveErrors' = 0 /\ healthServer' = "open"
  /\ UNCHANGED <<tickLane, claimed, tickFailed, rowVars, queueVars, stopStep, database, planVars,
                 runtimeFaults>>

-----------------------------------------------------------------------------
(* The loop: one tick dispatches the incremental lane, then the backfill     *)
(* lane, then whatever is left.                                              *)

DueIn(lane) ==
  CASE lane = "incremental" -> Incrementals \ (leased \cup completed)
    [] lane = "backfill" -> Backfills \ (leased \cup completed)
    [] OTHER -> Deliveries \ (leased \cup completed)

\* claimDeliveries as the first statement of a batch.
Claim(lane) ==
  \E batch \in SUBSET DueIn(lane) :
    /\ Cardinality(batch) <= BatchLimit
    /\ (Cardinality(batch) < BatchLimit => batch = DueIn(lane))
    /\ claimed' = batch /\ leased' = leased \cup batch

TickBegins ==
  /\ timer /\ looping
  /\ timer' = FALSE /\ tickLane' = "incremental" /\ tickFailed' = FALSE
  /\ Claim("incremental")
  /\ UNCHANGED <<looping, completed, queueVars, lifeVars, planVars, runtimeFaults>>

\* The job id is the delivery's: a second add of a job that is there is none.
Enqueue(d) ==
  /\ d \in claimed
  /\ claimed' = claimed \ {d}
  /\ jobQueue' = IF d \in handling THEN jobQueue ELSE jobQueue \cup {d}
  /\ UNCHANGED <<looping, timer, tickLane, tickFailed, rowVars, handling, taking, lifeVars, planVars,
                 runtimeFaults>>

\* An enqueue that fails is counted and the batch goes on.
EnqueueFails(d) ==
  /\ d \in claimed /\ RuntimeFault
  /\ claimed' = claimed \ {d} /\ tickFailed' = TRUE
  /\ UNCHANGED <<looping, timer, tickLane, rowVars, queueVars, lifeVars, planVars>>

NextLane ==
  /\ tickLane \in QueueLanes /\ claimed = {}
  /\ \E lane \in {"backfill", "general"} :
       /\ lane = "backfill" <=> tickLane = "incremental"
       /\ tickLane' = lane /\ Claim(lane)
  /\ UNCHANGED <<looping, timer, tickFailed, completed, queueVars, lifeVars, planVars, runtimeFaults>>

\* recordTick: a success makes the worker healthy unless it is stopped; the
\* failures are counted whatever the status is, and overwrite it.
RecordTick(success) ==
  LET n == consecutiveErrors + 1
  IN  /\ consecutiveErrors' = IF success THEN 0 ELSE IF n > Unhealthy THEN Unhealthy ELSE n
      /\ status' = CASE success -> IF status = "stopped" THEN status ELSE "healthy"
                     [] ~success /\ n >= Unhealthy -> "unhealthy"
                     [] ~success /\ n < Unhealthy /\ n >= Degraded -> "degraded"
                     [] OTHER -> status

TickDone(success) ==
  /\ RecordTick(success)
  /\ tickLane' = "none" /\ claimed' = {} /\ tickFailed' = FALSE /\ timer' = looping
  /\ UNCHANGED <<looping, rowVars, queueVars, process, stopStep, database, healthServer, planVars>>

TickEnds ==
  tickLane = "general" /\ claimed = {} /\ TickDone(~tickFailed) /\ UNCHANGED runtimeFaults

\* claimDeliveries throws, as the first of a tick or for a later lane.
TickThrows ==
  /\ (timer /\ looping) \/ tickLane \in QueueLanes
  /\ claimed = {} /\ RuntimeFault /\ TickDone(FALSE)

-----------------------------------------------------------------------------
(* The queue workers.                                                        *)

Take(d) ==
  /\ d \in jobQueue /\ QueueOf(d) \in taking
  /\ jobQueue' = jobQueue \ {d} /\ handling' = handling \cup {d}
  /\ UNCHANGED <<loopVars, rowVars, taking, lifeVars, planVars, runtimeFaults>>

\* A job goes away however its handler ends; a delivery that is not completed
\* comes back with a later claim.  A completed one is left alone.
Handled(d) ==
  /\ d \in handling /\ handling' = handling \ {d}
  /\ completed' = completed \cup {d} /\ leased' = leased \ {d}
  /\ UNCHANGED <<loopVars, jobQueue, taking, lifeVars, planVars, runtimeFaults>>

HandlerThrows(d) ==
  /\ d \in handling \ completed /\ RuntimeFault /\ handling' = handling \ {d}
  /\ UNCHANGED <<loopVars, rowVars, jobQueue, taking, lifeVars, planVars>>

LeaseLapses(d) ==
  /\ d \in leased \ claimed /\ RuntimeFault /\ leased' = leased \ {d}
  /\ UNCHANGED <<loopVars, completed, queueVars, lifeVars, planVars>>

-----------------------------------------------------------------------------
(* stop(), one step for each await.  A second call finds the parts closed.   *)

StepTo(s, step) == stopStep' = [stopStep EXCEPT ![s] = step]

StopCalled(s) ==
  /\ process = "up" /\ stopStep[s] = "none"
  /\ status' = "stopped" /\ StepTo(s, "server")
  /\ UNCHANGED <<loopVars, rowVars, queueVars, process, database, healthServer, consecutiveErrors,
                 planVars, runtimeFaults>>

StopServer(s) ==
  /\ stopStep[s] = "server" /\ process = "up"
  /\ healthServer' = "closed" /\ StepTo(s, "loop")
  /\ UNCHANGED <<loopVars, rowVars, queueVars, process, database, status, consecutiveErrors,
                 planVars, runtimeFaults>>

\* runtime.stop() up to its await.
StopLoop(s) ==
  /\ stopStep[s] = "loop" /\ process = "up"
  /\ looping' = FALSE /\ timer' = FALSE /\ StepTo(s, "tick")
  /\ UNCHANGED <<tickLane, claimed, tickFailed, rowVars, queueVars, process, database, healthServer,
                 status, consecutiveErrors, planVars, runtimeFaults>>

\* Faulty variant: runtime.stop() does not await the tick that is under way.
TickNotAwaited(s) ==
  /\ stopStep[s] = "tick" /\ process = "up"
  /\ StepTo(s, "incremental")
  /\ UNCHANGED <<loopVars, rowVars, queueVars, process, database, healthServer, status,
                 consecutiveErrors, planVars, runtimeFaults>>

TickAwaited(s) ==
  /\ stopStep[s] = "tick" /\ process = "up" /\ tickLane = "none"
  /\ StepTo(s, "incremental")
  /\ UNCHANGED <<loopVars, rowVars, queueVars, process, database, healthServer, status,
                 consecutiveErrors, planVars, runtimeFaults>>

\* worker.close() takes no more jobs and waits for the ones it has.
CloseWorker(s) ==
  /\ stopStep[s] \in QueueLanes /\ process = "up"
  /\ taking' = taking \ {stopStep[s]}
  /\ \A d \in handling : QueueOf(d) # stopStep[s]
  /\ StepTo(s, IF stopStep[s] = "incremental" THEN "backfill" ELSE "database")
  /\ UNCHANGED <<loopVars, rowVars, jobQueue, handling, process, database, healthServer, status,
                 consecutiveErrors, planVars, runtimeFaults>>

ClosingWorker(s) ==
  /\ stopStep[s] \in QueueLanes \cap taking /\ process = "up"
  /\ taking' = taking \ {stopStep[s]}
  /\ UNCHANGED <<loopVars, rowVars, jobQueue, handling, lifeVars, planVars, runtimeFaults>>

CloseDatabase(s) ==
  /\ stopStep[s] = "database" /\ process = "up"
  /\ database' = "closed" /\ process' = "down" /\ StepTo(s, "done")
  /\ UNCHANGED <<loopVars, rowVars, queueVars, healthServer, status, consecutiveErrors, planVars,
                 runtimeFaults>>

\* The process is killed, or a worker never gets ready; a job that a worker held is stalled and goes back.
Crash ==
  /\ process # "down" /\ RuntimeFault
  /\ process' = "down" /\ database' = "closed" /\ healthServer' = "closed"
  /\ looping' = FALSE /\ timer' = FALSE /\ tickLane' = "none" /\ claimed' = {} /\ tickFailed' = FALSE
  /\ jobQueue' = jobQueue \cup handling /\ handling' = {} /\ taking' = {}
  /\ UNCHANGED <<rowVars, stopStep, status, consecutiveErrors, planVars>>

RedisIsLost ==
  /\ RuntimeFault /\ jobQueue' = {} /\ jobQueue # {}
  /\ UNCHANGED <<loopVars, rowVars, handling, taking, lifeVars, planVars>>

-----------------------------------------------------------------------------
(* planTargetPartitions: a backfill window is cut into slices, each planned  *)
(* in a transaction of its own; a slice that is there already is found by    *)
(* its key.                                                                  *)

Earlier(x, y) == IF x < y THEN x ELSE y
PlanRefused(r) ==
  \/ ~r.collectable
  \/ r.mode # "incremental" /\ (r.window = <<>> \/ (r.mode = "backfill" /\ (r.feedOnly \/ r.window[1] >= r.window[2])))

PlanBegins(r) ==
  /\ process = "up" /\ planStep[r] \in {"none", "failed"}
  /\ planStep' = [planStep EXCEPT ![r] = IF PlanRefused(r) THEN "refused" ELSE "planning"]
  /\ planAt' = [planAt EXCEPT ![r] = IF r.mode = "backfill" /\ ~PlanRefused(r) THEN r.window[1] ELSE 0]
  /\ UNCHANGED <<loopVars, rowVars, queueVars, lifeVars, made, runtimeFaults>>

PlanSlice(r) ==
  /\ r.mode = "backfill" /\ planStep[r] = "planning" /\ process = "up"
  /\ LET to == Earlier(planAt[r] + r.slice, r.window[2])
     IN  /\ made' = [made EXCEPT ![r] = @ \cup {<<planAt[r], to>>}]
         /\ planAt' = [planAt EXCEPT ![r] = to]
         /\ planStep' = [planStep EXCEPT ![r] = IF to < r.window[2] THEN @ ELSE "done"]
  /\ UNCHANGED <<loopVars, rowVars, queueVars, lifeVars, runtimeFaults>>

\* An incremental request reaches back over one cadence and its overlap.
PlanWindow(r) ==
  /\ r.mode # "backfill" /\ planStep[r] = "planning" /\ process = "up"
  /\ \E now \in PlanTimes :
       LET to == IF r.window = <<>> THEN now ELSE r.window[2]
           from == IF r.window = <<>> THEN to - Cadence - Overlap ELSE r.window[1]
       IN  \/ /\ from < to \/ r.mode = "on_demand"
              /\ made' = [made EXCEPT ![r] = @ \cup {<<from, to>>}]
              /\ planStep' = [planStep EXCEPT ![r] = "done"]
           \/ /\ from >= to /\ r.mode = "incremental"
              /\ planStep' = [planStep EXCEPT ![r] = "refused"] /\ UNCHANGED made
  /\ UNCHANGED <<loopVars, rowVars, queueVars, lifeVars, planAt, runtimeFaults>>

\* A transaction fails, or the process is gone: the caller asks again.
PlanFails(r) ==
  /\ planStep[r] = "planning"
  /\ \/ process = "up" /\ RuntimeFault
     \/ process # "up" /\ UNCHANGED runtimeFaults
  /\ planStep' = [planStep EXCEPT ![r] = "failed"]
  /\ UNCHANGED <<loopVars, rowVars, queueVars, lifeVars, made, planAt>>

PlanNext == \E r \in PlanRequests : PlanBegins(r) \/ PlanSlice(r) \/ PlanWindow(r) \/ PlanFails(r)

StopNext ==
  \E s \in Stops : \/ StopCalled(s) \/ StopServer(s) \/ StopLoop(s) \/ TickAwaited(s)
                   \/ ClosingWorker(s) \/ CloseWorker(s) \/ CloseDatabase(s)

LoopNext ==
  \/ TickBegins \/ NextLane \/ TickEnds \/ TickThrows
  \/ \E d \in Deliveries : Enqueue(d) \/ EnqueueFails(d) \/ LeaseLapses(d)

WorkNext == \E d \in Deliveries : Take(d) \/ Handled(d) \/ HandlerThrows(d)

ProcessNext == AssembleWorker \/ AssembleFails \/ CreateScheduler \/ Start \/ Crash \/ RedisIsLost

\* A worker and the slots of its sources, which each step leaves alone or uses.
WorkerNext ==
  \/ (RedisNext \/ LocalNext) /\ UNCHANGED runtimeVars
  \/ (ProcessNext \/ LoopNext \/ WorkNext \/ StopNext \/ PlanNext) /\ UNCHANGED slotVars

WorkerSpec == SlotInit /\ RuntimeInit /\ [][WorkerNext]_<<slotVars, runtimeVars>>

-----------------------------------------------------------------------------
RuntimeTypeOK ==
  /\ process \in {"down", "assembling", "up"} /\ tickLane \in {"none", "incremental", "backfill", "general"}
  /\ claimed \cup leased \cup completed \cup jobQueue \cup handling \subseteq Deliveries
  /\ status \in {"starting", "healthy", "degraded", "unhealthy", "stopped"}
  /\ stopStep \in [Stops -> {"none", "server", "loop", "tick", "incremental", "backfill", "database", "done"}]

\* The stop order of index.ts: the database is closed under nobody's hands, so
\* no tick is under way and no handler runs then; once a stop has waited for the
\* tick no delivery is claimed any more; and a job is in the queue or with a
\* worker, never both, however often it was claimed and added.
StopIsClean ==
  /\ database = "closed" => tickLane = "none" /\ handling = {} /\ taking = {} /\ ~looping
  /\ \A s \in Stops : process = "up" /\ stopStep[s] \in {"incremental", "backfill", "database"}
                        => tickLane = "none" /\ ~timer
  /\ jobQueue \cap handling = {}

\* planTargetPartitions, with what a failed attempt left behind: the slices of a
\* planned backfill window tile it, every instant in exactly one, and a target
\* that may not be collected gets none.
PlansCoverTheWindow ==
  \A r \in PlanRequests :
    /\ PlanRefused(r) => made[r] = {}
    /\ r.mode = "backfill" /\ planStep[r] = "done" =>
         \A t \in r.window[1]..(r.window[2] - 1) :
           Cardinality({w \in made[r] : w[1] <= t /\ t < w[2]}) = 1

\* A source is used within its slots, a plan covers its window, and a worker
\* stops with nothing in its hands.
WorkerIsOrderly == SlotsAreLeased /\ PlansCoverTheWindow /\ StopIsClean
=============================================================================
