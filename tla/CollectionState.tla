--------------------------- MODULE CollectionState ---------------------------
(***************************************************************************)
(* Collection of one target: the page lease of a partition, its commits,   *)
(* failures and resumes, the PostgreSQL delivery outbox, the Redis job     *)
(* queue that carries delivery ids, and the workers that execute pages.    *)
(*                                                                         *)
(* Every action that calls a method of createCollectionStateRepository is  *)
(* one PostgreSQL transaction; what a worker keeps between two calls is in *)
(* worker[w].  Time is abstracted to what the code compares it with: a     *)
(* lease is live or expired, nextDueAt and notBefore have passed or not.   *)
(***************************************************************************)
EXTENDS Integers, Sequences, FiniteSets

CONSTANTS
    Workers,      \* concurrent executors of delivery jobs
    Partitions,   \* natural keys of collection_partitions, all of one target
    Revisions,    \* revisions of that target
    Approved,     \* the revisions whose policy and capability allow collection
    RevisionOf,   \* the target revision a partition is planned for
    Cursors,      \* opaque page cursors
    NoCursor,     \* the null cursor
    Items,        \* (external id, payload hash) of a raw item
    MaxPage,      \* bound: the collector ends a partition at this page
    MaxFaults     \* bound: failures and operator actions in one behaviour

ASSUME CollectionConstants ==
    /\ Approved \subseteq Revisions
    /\ RevisionOf \in [Partitions -> Revisions]
    /\ NoCursor \notin Cursors
    /\ MaxPage \in Nat
    /\ MaxFaults \in Nat

VARIABLES
    current,      \* collection_targets.current_revision_id
    enabled,      \* sources.enabled /\ collection_targets.enabled
    pstate,       \* collection_partitions.state, "absent" before planPartition
    page,         \* ... .page_sequence
    cursor,       \* ... .cursor
    epoch,        \* ... .lease_epoch; attempts and run_id move with it
    lease,        \* ... .lease_until: null, after now, or not after now
    due,          \* ... .next_due_at <= now
    runs,         \* collection_runs.status of the run that each epoch created
    attempts,     \* collection_page_attempts.page_sequence, by epoch
    checkpoints,  \* collection_checkpoints, with the cursor the items came from
    raw,          \* raw_items
    acquired,     \* acquisition_memberships: <<partition, item>>
    normalize,    \* items with a normalization delivery
    outbox,       \* collection deliveries: <<partition, page>>
    done,         \* ... those with completed_at
    future,       \* ... those with not_before > now
    leased,       \* ... those with lease_until > now
    batch,        \* deliveries claimed by dispatchBatch, not yet enqueued
    queue,        \* delivery ids waiting in Redis
    worker,       \* what each executor holds between two transactions
    faults        \* failures and operator actions so far

targetVars    == <<current, enabled>>
leaseVars     == <<pstate, page, cursor, epoch, lease, due>>
runVars       == <<runs, attempts>>
itemVars      == <<raw, acquired, normalize>>
outboxVars    == <<outbox, done, future, leased>>
transportVars == <<batch, queue>>
databaseVars  == <<targetVars, leaseVars, runVars, checkpoints, itemVars, outboxVars>>
vars == <<databaseVars, transportVars, worker, faults>>

(***************************************************************************)
(* Types.                                                                  *)
(***************************************************************************)
Open        == {"pending", "running", "deferred"}  \* claimPage accepts these
Closed      == {"completed", "partial"}            \* resumePartition refuses these
States      == Open \cup Closed \cup {"absent", "failed"}
LeaseKind   == {"none", "live", "expired"}
RunStatus   == {"running", "succeeded", "failed"}
Cursor      == Cursors \cup {NoCursor}
Epoch       == Nat \ {0}
Delivery    == Partitions \X Nat
Disposition == {"continue", "complete", "deferred", "partial"}

PageResult == [disposition : Disposition, next : Cursor, items : SUBSET Items,
               verdict : {"ok", "malformed", "blocked"}]
Checkpoint == [partition : Partitions, page : Nat, epoch : Epoch,
               before : Cursor, after : Cursor, disposition : Disposition,
               content : Cursor]

Idle       == [pc : {"idle"}]
Loaded     == [pc : {"loaded"}, partition : Partitions, page : Nat]
Collecting == [pc : {"collecting"}, partition : Partitions, page : Nat,
               epoch : Epoch, cursor : Cursor, renewFailed : BOOLEAN]
Committing == [pc : {"committing"}, partition : Partitions, page : Nat,
               epoch : Epoch, cursor : Cursor, renewFailed : BOOLEAN,
               result : PageResult]
Failing    == [pc : {"failing"}, partition : Partitions, page : Nat,
               epoch : Epoch, cursor : Cursor, retry : BOOLEAN]
WorkerState == Idle \cup Loaded \cup Collecting \cup Committing \cup Failing

TypeOK ==
    /\ current \in Revisions
    /\ enabled \in BOOLEAN
    /\ pstate \in [Partitions -> States]
    /\ page \in [Partitions -> Nat]
    /\ cursor \in [Partitions -> Cursor]
    /\ epoch \in [Partitions -> Nat]
    /\ lease \in [Partitions -> LeaseKind]
    /\ due \in [Partitions -> BOOLEAN]
    /\ runs \in [Partitions -> Seq(RunStatus)]
    /\ attempts \in [Partitions -> Seq(Nat)]
    /\ \A p \in Partitions : Len(runs[p]) = epoch[p] /\ Len(attempts[p]) = epoch[p]
    /\ checkpoints \subseteq Checkpoint
    /\ raw \subseteq Items
    /\ normalize \subseteq Items
    /\ acquired \subseteq Partitions \X Items
    /\ outbox \subseteq Delivery
    /\ done \subseteq outbox
    /\ future \subseteq outbox
    /\ leased \subseteq outbox
    /\ batch \subseteq outbox
    /\ queue \subseteq outbox
    /\ worker \in [Workers -> WorkerState]
    /\ faults \in 0 .. MaxFaults

(***************************************************************************)
(* Guards the repository methods share.                                    *)
(***************************************************************************)

\* assertCollectableTarget of the revision, as readTarget joins it.
Collectable(r) == enabled /\ current = r /\ r \in Approved

CanCollect(p) == Collectable(RevisionOf[p])

\* Faulty variants: the lease epoch and run, or the page as well, are not compared.
MatchesNoEpoch(c)   == pstate[c.partition] = "running" /\ page[c.partition] = c.page
MatchesStateOnly(c) == pstate[c.partition] = "running"

\* The columns fencePage compares, leaseUntil apart.
Matches(c) ==
    /\ pstate[c.partition] = "running"
    /\ page[c.partition] = c.page
    /\ epoch[c.partition] = c.epoch

(* The caller reads its clock before the transaction, which may then wait  *)
(* for row locks: an expired lease can still be later than that reading.   *)
FencePasses(c)  == Matches(c) /\ lease[c.partition] \in {"live", "expired"}
FenceRejects(c) == ~(Matches(c) /\ lease[c.partition] = "live")

\* validatePageResult, and the checks commitPage makes beside it.
Valid(c) ==
    /\ c.result.verdict # "malformed"
    /\ c.result.disposition = "continue" =>
           c.result.next # NoCursor /\ c.result.next # c.cursor

Current(p)     == <<p, page[p]>>
Become(w, s)   == worker' = [worker EXCEPT ![w] = s]
Release(w)     == Become(w, [pc |-> "idle"])
Fault          == faults < MaxFaults /\ faults' = faults + 1
NoFault        == UNCHANGED faults

(***************************************************************************)
(* The target and its partitions: the planner and the operator.            *)
(***************************************************************************)
Init ==
    /\ current \in Revisions
    /\ enabled \in BOOLEAN /\ (enabled => current \in Approved)
    /\ pstate = [p \in Partitions |-> "absent"]
    /\ page = [p \in Partitions |-> 0]
    /\ cursor = [p \in Partitions |-> NoCursor]
    /\ epoch = [p \in Partitions |-> 0]
    /\ lease = [p \in Partitions |-> "none"]
    /\ due = [p \in Partitions |-> FALSE]
    /\ runs = [p \in Partitions |-> << >>]
    /\ attempts = [p \in Partitions |-> << >>]
    /\ checkpoints = {}
    /\ raw \in SUBSET Items      \* rows of earlier runs, without a delivery
    /\ acquired = {}
    /\ normalize = {}
    /\ outbox = {} /\ done = {} /\ future = {} /\ leased = {}
    /\ batch = {} /\ queue = {}
    /\ worker = [w \in Workers |-> [pc |-> "idle"]]
    /\ faults = 0

\* registerTarget: another revision becomes current and must be enabled anew.
RegisterTarget(r) ==
    /\ Fault
    /\ current' = r
    /\ enabled' = (enabled /\ current = r)
    /\ UNCHANGED <<leaseVars, runVars, checkpoints, itemVars, outboxVars,
                   transportVars, worker>>

\* setTargetEnabled, and the source's own switch.
SetTargetEnabled(on) ==
    /\ on => current \in Approved
    /\ Fault
    /\ enabled' = on
    /\ UNCHANGED <<current, leaseVars, runVars, checkpoints, itemVars,
                   outboxVars, transportVars, worker>>

\* planPartition inserts the row unless its natural key exists.
PlanPartition(p) ==
    /\ CanCollect(p)
    /\ pstate[p] \in Open \cup {"absent"}
    /\ pstate' = [pstate EXCEPT ![p] = IF @ = "absent" THEN "pending" ELSE @]
    /\ due' = [due EXCEPT ![p] = IF pstate[p] = "absent" THEN TRUE ELSE @]
    /\ outbox' = outbox \cup {Current(p)}
    /\ future' = IF pstate[p] = "absent" \/ due[p] \/ Current(p) \in outbox
                 THEN future ELSE future \cup {Current(p)}
    /\ UNCHANGED <<targetVars, page, cursor, epoch, lease, runVars, checkpoints,
                   itemVars, done, leased, transportVars, worker>>
    /\ NoFault

\* Faulty variant: a partition that ended as partial is resumed too.
ResumableEvenPartial(p) == pstate[p] \in Open \cup {"failed", "partial"}

Resumable(p) == pstate[p] \in Open \cup {"failed"}

\* Faulty variant: the delivery that failPage completed stays completed.
ReopenForgotten(p) == done

Reopen(p) == done \ {Current(p)}

\* resumePartition: the page is due at once and its delivery is reopened.
ResumePartition(p) ==
    /\ CanCollect(p)
    /\ Resumable(p)
    /\ lease[p] # "live"
    /\ Fault
    /\ pstate' = [pstate EXCEPT ![p] = "pending"]
    /\ due' = [due EXCEPT ![p] = TRUE]
    /\ lease' = [lease EXCEPT ![p] = "none"]
    /\ outbox' = outbox \cup {Current(p)}
    /\ done' = Reopen(p)
    /\ future' = future \ {Current(p)}
    /\ UNCHANGED <<targetVars, page, cursor, epoch, runVars, checkpoints,
                   itemVars, leased, transportVars, worker>>

(***************************************************************************)
(* The dispatcher of one worker process, and Redis.                        *)
(***************************************************************************)

\* claimDeliveries compares the policy of the target's current revision only.
Deliverable(d) ==
    /\ d \in outbox \ (done \cup future \cup leased)
    /\ Collectable(current)

(* dispatchBatch takes any batch: the limit and the two lanes only choose  *)
(* among the deliverable rows.  sent_at stays null: the worker's markSent  *)
(* names epoch 0, which no claimed delivery has.                           *)
ClaimDeliveries(D) ==
    /\ batch = {} /\ D # {}
    /\ \A d \in D : Deliverable(d)
    /\ leased' = leased \cup D
    /\ batch' = D
    /\ UNCHANGED <<targetVars, leaseVars, runVars, checkpoints, itemVars, outbox,
                   done, future, queue, worker>>
    /\ NoFault

\* Some executor still holds a job with this id, so that queue.add ignores it.
Active(d) == \E w \in Workers : /\ worker[w].pc # "idle"
                                /\ <<worker[w].partition, worker[w].page>> = d

Enqueue(d) ==
    /\ d \in batch
    /\ batch' = batch \ {d}
    /\ \/ queue' = queue \cup {d}
       \/ Active(d) /\ queue' = queue
    /\ UNCHANGED <<databaseVars, worker>>
    /\ NoFault

\* Redis refuses the job, or the process dies before it is added.
EnqueueFails(d) ==
    /\ d \in batch
    /\ Fault
    /\ batch' = batch \ {d}
    /\ UNCHANGED <<databaseVars, queue, worker>>

LoseJob(d) ==
    /\ d \in queue
    /\ Fault
    /\ queue' = queue \ {d}
    /\ UNCHANGED <<databaseVars, batch, worker>>

(***************************************************************************)
(* Time passes.                                                            *)
(***************************************************************************)
NotBeforePasses(d) ==
    /\ d \in future
    /\ future' = future \ {d}
    /\ UNCHANGED <<targetVars, leaseVars, runVars, checkpoints, itemVars, outbox,
                   done, leased, transportVars, worker>>
    /\ NoFault

DeliveryLeaseExpires(d) ==
    /\ d \in leased
    /\ leased' = leased \ {d}
    /\ UNCHANGED <<targetVars, leaseVars, runVars, checkpoints, itemVars, outbox,
                   done, future, transportVars, worker>>
    /\ NoFault

DuePasses(p) ==
    /\ ~due[p] /\ pstate[p] # "absent"
    /\ due' = [due EXCEPT ![p] = TRUE]
    /\ UNCHANGED <<targetVars, pstate, page, cursor, epoch, lease, runVars,
                   checkpoints, itemVars, outboxVars, transportVars, worker>>
    /\ NoFault

Holds(w, p) ==
    /\ worker[w].pc \in {"collecting", "committing", "failing"}
    /\ worker[w].partition = p
    /\ Matches(worker[w])

\* A holder that misses its renewals loses the lease: that is a fault.
LeaseExpires(p) ==
    /\ lease[p] = "live"
    /\ lease' = [lease EXCEPT ![p] = "expired"]
    /\ IF \E w \in Workers : Holds(w, p) THEN Fault ELSE NoFault
    /\ UNCHANGED <<targetVars, pstate, page, cursor, epoch, due, runVars,
                   checkpoints, itemVars, outboxVars, transportVars, worker>>

(***************************************************************************)
(* An executor: handle, executePartitionPage and the calls it makes.       *)
(***************************************************************************)

\* handle: a delivery that is already complete is skipped.
TakeJob(w, d) ==
    /\ worker[w].pc = "idle"
    /\ d \in queue
    /\ queue' = queue \ {d}
    /\ IF d \in done
       THEN UNCHANGED worker
       ELSE Become(w, [pc |-> "loaded", partition |-> d[1], page |-> d[2]])
    /\ UNCHANGED <<databaseVars, batch>>
    /\ NoFault

Claimable(c) ==
    /\ CanCollect(c.partition)
    /\ page[c.partition] = c.page
    /\ pstate[c.partition] \in Open
    /\ due[c.partition]
    /\ lease[c.partition] # "live"

\* Faulty variants: the abandoned run keeps running; it gets a second row.
AbandonedKept(rs)  == rs
AbandonedTwice(rs) == IF rs # << >> /\ rs[Len(rs)] = "running"
                      THEN Append(rs, "failed") ELSE rs

\* The run of the last claim fails with lease_expired if it is still running.
EndAbandoned(rs) == IF rs # << >> /\ rs[Len(rs)] = "running"
                    THEN [rs EXCEPT ![Len(rs)] = "failed"] ELSE rs

\* claimPage: the next epoch, a new run, and the end of an abandoned one.
ClaimPage(w) ==
    /\ worker[w].pc = "loaded"
    /\ Claimable(worker[w])
    /\ LET p == worker[w].partition
           e == epoch[p] + 1
       IN  /\ pstate' = [pstate EXCEPT ![p] = "running"]
           /\ epoch' = [epoch EXCEPT ![p] = e]
           /\ lease' = [lease EXCEPT ![p] = "live"]
           /\ runs' = [runs EXCEPT ![p] = Append(EndAbandoned(@), "running")]
           /\ attempts' = [attempts EXCEPT ![p] = Append(@, page[p])]
           /\ Become(w, [pc |-> "collecting", partition |-> p, page |-> page[p],
                         epoch |-> e, cursor |-> cursor[p], renewFailed |-> FALSE])
    /\ UNCHANGED <<targetVars, page, cursor, due, checkpoints, itemVars,
                   outboxVars, transportVars>>
    /\ NoFault

\* claimPage returns null or throws policy_blocked, or the call fails.
SkipPage(w) ==
    /\ worker[w].pc = "loaded"
    /\ IF Claimable(worker[w]) THEN Fault ELSE NoFault
    /\ Release(w)
    /\ UNCHANGED <<databaseVars, transportVars>>

\* renewPage, from the interval timer; a call in flight outlives the timer.
RenewPage(w) ==
    /\ worker[w].pc \in {"collecting", "committing", "failing"}
    /\ CanCollect(worker[w].partition)
    /\ FencePasses(worker[w])
    /\ lease' = [lease EXCEPT ![worker[w].partition] = "live"]
    /\ UNCHANGED <<targetVars, pstate, page, cursor, epoch, due, runVars,
                   checkpoints, itemVars, outboxVars, transportVars, worker>>
    /\ NoFault

\* The renewal is refused or its call fails: the collection is aborted.
RenewFails(w) ==
    /\ worker[w].pc \in {"collecting", "committing"}
    /\ ~worker[w].renewFailed
    /\ \/ (~CanCollect(worker[w].partition) \/ FenceRejects(worker[w])) /\ NoFault
       \/ Fault
    /\ Become(w, [worker[w] EXCEPT !.renewFailed = TRUE])
    /\ UNCHANGED <<databaseVars, transportVars>>

\* A page that commitPage refuses is dropped whole: one stands for all.
Refused(verdict) == [disposition |-> "complete", next |-> NoCursor,
                     items |-> {}, verdict |-> verdict]

\* collectPage returns; a page that commitPage will refuse is a fault.
CollectPage(w, r) ==
    /\ worker[w].pc = "collecting"
    /\ r.disposition \in {"continue", "deferred"} => worker[w].page < MaxPage
    /\ LET c == [pc |-> "committing", partition |-> worker[w].partition,
                 page |-> worker[w].page, epoch |-> worker[w].epoch,
                 cursor |-> worker[w].cursor,
                 renewFailed |-> worker[w].renewFailed, result |-> r]
       IN  /\ Become(w, c)
           /\ IF r.verdict # "blocked" /\ Valid(c) THEN NoFault ELSE Fault
    /\ UNCHANGED <<databaseVars, transportVars>>

\* The catch of executePartitionPage: retry unless policy or renewal forbids it.
Fails(w, retry) ==
    Become(w, [pc |-> "failing", partition |-> worker[w].partition,
               page |-> worker[w].page, epoch |-> worker[w].epoch,
               cursor |-> worker[w].cursor,
               retry |-> retry /\ ~worker[w].renewFailed])

\* collectPage throws, with a policy error or another, or no collector exists.
CollectThrows(w, policy) ==
    /\ worker[w].pc = "collecting"
    /\ IF worker[w].renewFailed THEN NoFault ELSE Fault
    /\ Fails(w, ~policy)
    /\ UNCHANGED <<databaseVars, transportVars>>

NextState(r) == [continue |-> "pending", complete |-> "completed",
                 deferred |-> "deferred", partial |-> "partial"][r.disposition]

\* The row that commitPage inserts into collection_checkpoints.
CheckpointOf(c) ==
    [partition |-> c.partition, page |-> page[c.partition],
     epoch |-> epoch[c.partition], before |-> cursor[c.partition],
     after |-> c.result.next, disposition |-> c.result.disposition,
     content |-> c.cursor]

\* The normalization deliveries of a committed page.
\* Faulty variant: only a raw row that is new gets its delivery.
StagesOfNewRows(items) == normalize \cup (items \ raw)

Stages(items) == normalize \cup items

NextCursor(c) == c.result.next

\* commitPage: raw rows, memberships, stages, checkpoint, partition, run and
\* deliveries in one transaction, whose acknowledgement may be lost.
CommitPage(w) ==
    /\ worker[w].pc = "committing"
    /\ Valid(worker[w]) /\ worker[w].result.verdict # "blocked"
    /\ CanCollect(worker[w].partition)
    /\ FencePasses(worker[w])
    /\ LET c == worker[w]
           p == c.partition
           next == <<p, page[p] + 1>>
           waits == c.result.disposition = "deferred"
           more == waits \/ c.result.disposition = "continue"
       IN  /\ raw' = raw \cup c.result.items
           /\ acquired' = acquired \cup ({p} \X c.result.items)
           /\ normalize' = Stages(c.result.items)
           /\ checkpoints' = checkpoints \cup {CheckpointOf(c)}
           /\ page' = [page EXCEPT ![p] = @ + 1]
           /\ cursor' = [cursor EXCEPT ![p] = NextCursor(c)]
           /\ pstate' = [pstate EXCEPT ![p] = NextState(c.result)]
           /\ lease' = [lease EXCEPT ![p] = "none"]
           /\ due' = [due EXCEPT ![p] = ~waits]
           /\ runs' = [runs EXCEPT ![p][c.epoch] = "succeeded"]
           /\ done' = done \cup ({Current(p)} \cap outbox)
           /\ outbox' = IF more THEN outbox \cup {next} ELSE outbox
           /\ future' = IF waits /\ next \notin outbox
                        THEN future \cup {next} ELSE future
    /\ \/ Release(w) /\ NoFault
       \/ Fails(w, TRUE) /\ Fault
    /\ UNCHANGED <<targetVars, epoch, attempts, leased, transportVars>>

\* commitPage throws stale_lease: fenced out.
CommitFencedOut(w) ==
    /\ worker[w].pc = "committing"
    /\ Valid(worker[w])
    /\ CanCollect(worker[w].partition)
    /\ FenceRejects(worker[w])
    /\ Release(w)
    /\ UNCHANGED <<databaseVars, transportVars>>
    /\ NoFault

\* commitPage throws policy_blocked, for the target or for an item's rights:
\* the page is neither committed nor failed, its lease runs out.
CommitBlocked(w) ==
    /\ worker[w].pc = "committing"
    /\ Valid(worker[w])
    /\ \/ ~CanCollect(worker[w].partition)
       \/ FencePasses(worker[w]) /\ worker[w].result.verdict = "blocked"
    /\ Release(w)
    /\ UNCHANGED <<databaseVars, transportVars>>
    /\ NoFault

\* commitPage throws anything else: an invalid page, or the database is away.
CommitThrows(w) ==
    /\ worker[w].pc = "committing"
    /\ IF Valid(worker[w]) THEN Fault ELSE NoFault
    /\ Fails(w, TRUE)
    /\ UNCHANGED <<databaseVars, transportVars>>

\* Faulty variant: the delivery is completed although the page will be retried.
SettleAlways(p, retry) == done \cup ({Current(p)} \cap outbox)

Settle(p, retry) == IF retry THEN done \ {Current(p)}
                    ELSE done \cup ({Current(p)} \cap outbox)

\* failPage: deferred with its delivery postponed, or failed with it completed.
FailPage(w) ==
    /\ worker[w].pc = "failing"
    /\ FencePasses(worker[w])
    /\ LET c == worker[w]
           p == c.partition
           d == {Current(p)} \cap outbox
       IN  /\ pstate' = [pstate EXCEPT ![p] = IF c.retry THEN "deferred" ELSE "failed"]
           /\ due' = [due EXCEPT ![p] = ~c.retry]
           /\ lease' = [lease EXCEPT ![p] = "none"]
           /\ runs' = [runs EXCEPT ![p][c.epoch] = "failed"]
           /\ done' = Settle(p, c.retry)
           /\ future' = IF c.retry THEN future \cup d ELSE future \ d
    /\ Release(w)
    /\ UNCHANGED <<targetVars, page, cursor, epoch, attempts, checkpoints,
                   itemVars, outbox, leased, transportVars>>
    /\ NoFault

\* failPage throws stale_lease, or throws anything else and is ignored.
FailPageThrows(w) ==
    /\ worker[w].pc = "failing"
    /\ IF FenceRejects(worker[w]) THEN NoFault ELSE Fault
    /\ Release(w)
    /\ UNCHANGED <<databaseVars, transportVars>>

\* The process dies; Redis may hand the stalled job to another one.
Crash(w) ==
    /\ worker[w].pc # "idle"
    /\ Fault
    /\ Release(w)
    /\ queue' \in {queue, queue \cup
                          ({<<worker[w].partition, worker[w].page>>} \cap outbox)}
    /\ UNCHANGED <<databaseVars, batch>>

(***************************************************************************)
(* The specification.                                                      *)
(***************************************************************************)
Operate ==
    \/ \E r \in Revisions : RegisterTarget(r)
    \/ \E on \in BOOLEAN : SetTargetEnabled(on)
    \/ \E p \in Partitions : PlanPartition(p) \/ ResumePartition(p)

Dispatch ==
    \/ \E D \in SUBSET outbox : ClaimDeliveries(D)
    \/ \E d \in outbox : Enqueue(d) \/ EnqueueFails(d) \/ LoseJob(d)

TimePasses ==
    \/ \E d \in outbox : NotBeforePasses(d) \/ DeliveryLeaseExpires(d)
    \/ \E p \in Partitions : DuePasses(p) \/ LeaseExpires(p)

Collects(w) ==
    \/ \E disposition \in Disposition, next \in Cursor, items \in SUBSET Items :
          CollectPage(w, [disposition |-> disposition, next |-> next,
                          items |-> items, verdict |-> "ok"])
    \/ \E verdict \in {"malformed", "blocked"} : CollectPage(w, Refused(verdict))
    \/ \E policy \in BOOLEAN : CollectThrows(w, policy)

\* Every await of executePartitionPage returns or throws.
Returns(w) ==
    \/ ClaimPage(w) \/ SkipPage(w)
    \/ Collects(w)
    \/ CommitPage(w) \/ CommitFencedOut(w) \/ CommitBlocked(w) \/ CommitThrows(w)
    \/ FailPage(w) \/ FailPageThrows(w)

Execute(w) ==
    \/ \E d \in outbox : TakeJob(w, d)
    \/ Returns(w)
    \/ RenewPage(w) \/ RenewFails(w)
    \/ Crash(w)

Next == Operate \/ Dispatch \/ TimePasses \/ \E w \in Workers : Execute(w)

Spec == Init /\ [][Next]_vars

(* The scheduling the code relies on: the poll loop claims and enqueues    *)
(* again and again, a claimed row is leased so that the next poll reaches  *)
(* the rows behind it, clocks advance, BullMQ hands waiting jobs to free   *)
(* executors, and a call that started returns or throws.                   *)
ClaimRow(d) == \E D \in SUBSET outbox : d \in D /\ ClaimDeliveries(D)
Fairness ==
    /\ \A p \in Partitions : WF_vars(DuePasses(p)) /\ WF_vars(LeaseExpires(p))
    /\ \A d \in Partitions \X (0 .. MaxPage) :
          /\ SF_vars(ClaimRow(d))
          /\ WF_vars(Enqueue(d))
          /\ WF_vars(NotBeforePasses(d))
          /\ WF_vars(DeliveryLeaseExpires(d))
          /\ SF_vars(\E w \in Workers : TakeJob(w, d))
    /\ \A w \in Workers : WF_vars(Returns(w))

FairSpec == Spec /\ Fairness
(***************************************************************************)
(* Properties.                                                             *)
(***************************************************************************)

(* No page is ever forgotten: while a partition can still be collected,    *)
(* the delivery of its current page is in the outbox and not completed,    *)
(* whatever Redis lost and whoever crashed.                                *)
NoPageLost ==
    \A p \in Partitions : pstate[p] \in Open => Current(p) \in outbox \ done

(* The items stored with a page were fetched from the cursor the           *)
(* checkpoint starts at, never by a worker that read an older one.         *)
ContentMatchesCursor == \A c \in checkpoints : c.content = c.before

(* Two executors never hold the page of one partition at the same time:    *)
(* of all the claims still in memory at most one gets past fencePage.      *)
SingleHolder ==
    \A p \in Partitions : \A v, w \in Workers :
        Holds(v, p) /\ Holds(w, p) => v = w

(* A run that is still running is the run of the latest claim: an          *)
(* abandoned one is ended by the claim that takes the page over.           *)
NoOrphanRun ==
    \A p \in Partitions : \A e \in 1 .. epoch[p] :
        runs[p][e] = "running" => e = epoch[p]

(* Every acquired item has a raw row and a normalization delivery, the     *)
(* rows that earlier runs left without one included.                       *)
AcquiredIsStaged == \A a \in acquired : a[2] \in raw /\ a[2] \in normalize

(* The checkpoints of a partition are one per page, without a gap, each    *)
(* starting at the cursor where the one before it ended.                   *)
CheckpointChain ==
    /\ \A c \in checkpoints : c.page < page[c.partition]
    /\ \A c, d \in checkpoints :
          c.partition = d.partition /\ c.page = d.page => c = d
    /\ \A p \in Partitions : \A n \in 0 .. page[p] - 1 :
          \E c \in checkpoints : c.partition = p /\ c.page = n
    /\ \A c \in checkpoints :
          /\ c.page = 0 => c.before = NoCursor
          /\ c.page + 1 = page[c.partition] => c.after = cursor[c.partition]
    /\ \A c, d \in checkpoints :
          c.partition = d.partition /\ d.page = c.page + 1 => d.before = c.after

(* A run is recorded as succeeded exactly when it left a checkpoint.       *)
SucceededRunsCommitted ==
    \A p \in Partitions : \A e \in 1 .. epoch[p] :
        runs[p][e] = "succeeded" <=>
            \E c \in checkpoints : c.partition = p /\ c.epoch = e

(* A collection delivery is completed only when its page is committed or   *)
(* its partition waits for the operator.                                   *)
DoneIsSettled ==
    \A d \in done : \/ \E c \in checkpoints : <<c.partition, c.page>> = d
                    \/ pstate[d[1]] = "failed" /\ d = Current(d[1])

(* Checkpoints, runs, deliveries and the partition tell one history,       *)
(* whichever executor wrote them.                                          *)
HistoryIsWhole == CheckpointChain /\ SucceededRunsCommitted /\ DoneIsSettled

(* The verdict on a run is final: a stale worker never rewrites it.        *)
RunVerdictFinal ==
    [][\A p \in Partitions : \A e \in 1 .. epoch[p] :
           runs[p][e] # "running" => runs'[p][e] = runs[p][e]]_vars

(* Once nobody interferes any more, a partition of an enabled target       *)
(* reaches an end or the operator's desk.                                  *)
Finishes ==
    \A p \in Partitions :
        <>[](CanCollect(p)) =>
            (pstate[p] \in Open ~> pstate[p] \in Closed \cup {"failed"})

(* The abstract log of a partition: its checkpoints in page order.         *)
CheckpointAt(p, n) ==
    CHOOSE c \in checkpoints : c.partition = p /\ c.page = n

PageEntry(c) == [from |-> c.before, fetched |-> c.content, to |-> c.after]

LogOf == [p \in Partitions |-> [n \in 1 .. page[p] |-> PageEntry(CheckpointAt(p, n - 1))]]
StatusOf == [p \in Partitions |-> IF pstate[p] \in Closed THEN "closed"
                                 ELSE IF pstate[p] = "failed" THEN "failed" ELSE "open"]

Log == INSTANCE PageLog WITH log <- LogOf, status <- StatusOf

(* However workers, leases, deliveries and Redis interleave, a partition   *)
(* only ever does what PageLog allows.                                     *)
ImplementsPageLog == Log!Spec
==============================================================================
