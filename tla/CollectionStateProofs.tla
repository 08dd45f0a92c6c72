------------------------ MODULE CollectionStateProofs ------------------------
(***************************************************************************)
(* Theorems of CollectionState for every set of workers, partitions,       *)
(* cursors and items and for every value of the bounds.                    *)
(***************************************************************************)
EXTENDS CollectionState, SequenceTheorems, TLAPS

(***************************************************************************)
(* What the type of worker[w] says of its fields.                          *)
(***************************************************************************)
BusyPc    == {"collecting", "committing", "failing"}
BusyState == Collecting \cup Committing \cup Failing

LEMMA WorkerFields ==
    ASSUME TypeOK, NEW w \in Workers
    PROVE  /\ worker[w] \in WorkerState
           /\ worker[w].pc # "idle" =>
                  worker[w].partition \in Partitions /\ worker[w].page \in Nat
           /\ worker[w].pc \in BusyPc =>
                  /\ worker[w] \in BusyState
                  /\ worker[w].epoch \in Epoch
                  /\ worker[w].cursor \in Cursor
           /\ worker[w].pc \in {"collecting", "committing"} =>
                  worker[w].renewFailed \in BOOLEAN
           /\ worker[w].pc = "committing" => worker[w].result \in PageResult
           /\ worker[w].pc = "failing" => worker[w].retry \in BOOLEAN
<1>1. worker[w] \in WorkerState
  BY DEF TypeOK
<1>2. QED
  BY <1>1 DEF WorkerState, Idle, Loaded, Collecting, Committing, Failing,
              BusyPc, BusyState

LEMMA BecomeTyped ==
    ASSUME TypeOK, NEW w \in Workers, NEW s \in WorkerState, Become(w, s)
    PROVE  worker' \in [Workers -> WorkerState]
BY DEF TypeOK, Become

LEMMA ReleaseTyped ==
    ASSUME TypeOK, NEW w \in Workers, Release(w)
    PROVE  worker' \in [Workers -> WorkerState]
<1>1. [pc |-> "idle"] \in WorkerState
  BY DEF WorkerState, Idle
<1>2. QED
  BY <1>1, BecomeTyped DEF Release

LEMMA FailsTyped ==
    ASSUME TypeOK, NEW w \in Workers, NEW retry \in BOOLEAN, Fails(w, retry),
           worker[w].pc \in {"collecting", "committing"}
    PROVE  worker' \in [Workers -> WorkerState]
<1> DEFINE s == [pc |-> "failing", partition |-> worker[w].partition,
                 page |-> worker[w].page, epoch |-> worker[w].epoch,
                 cursor |-> worker[w].cursor,
                 retry |-> retry /\ ~worker[w].renewFailed]
<1>1. s \in Failing
  BY WorkerFields DEF Failing, BusyPc
<1>2. s \in WorkerState
  BY <1>1 DEF WorkerState
<1>3. Become(w, s)
  BY DEF Fails
<1>4. QED
  BY <1>2, <1>3, BecomeTyped

LEMMA FaultTyped ==
    ASSUME TypeOK, Fault \/ NoFault
    PROVE  faults' \in 0 .. MaxFaults
BY CollectionConstants DEF TypeOK, Fault, NoFault

(***************************************************************************)
(* Type correctness, one lemma per part of Next.                           *)
(***************************************************************************)
LEMMA TypeInit == Init => TypeOK
<1> SUFFICES ASSUME Init PROVE TypeOK
  OBVIOUS
<1>1. \A p \in Partitions : runs[p] = << >> /\ attempts[p] = << >> /\ epoch[p] = 0
  BY DEF Init
<1>2. worker \in [Workers -> WorkerState]
  BY DEF Init, WorkerState, Idle
<1>3. /\ runs \in [Partitions -> Seq(RunStatus)]
      /\ attempts \in [Partitions -> Seq(Nat)]
      /\ \A p \in Partitions : Len(runs[p]) = epoch[p] /\ Len(attempts[p]) = epoch[p]
  BY <1>1 DEF Init
<1>4. QED
  BY <1>2, <1>3, CollectionConstants
     DEF Init, TypeOK, States, Open, Closed, LeaseKind, Cursor

LEMMA TypeOperate == ASSUME TypeOK, Operate PROVE TypeOK'
<1> USE DEF databaseVars, targetVars, leaseVars, runVars, itemVars, outboxVars, transportVars
<1>1. ASSUME NEW r \in Revisions, RegisterTarget(r) PROVE TypeOK'
  BY <1>1, FaultTyped DEF TypeOK, RegisterTarget
<1>2. ASSUME NEW on \in BOOLEAN, SetTargetEnabled(on) PROVE TypeOK'
  BY <1>2, FaultTyped DEF TypeOK, SetTargetEnabled
<1>3. ASSUME NEW p \in Partitions, PlanPartition(p) PROVE TypeOK'
  <2>1. Current(p) \in Delivery
    BY DEF TypeOK, Current, Delivery
  <2>2. pstate' \in [Partitions -> States] /\ due' \in [Partitions -> BOOLEAN]
    BY <1>3 DEF TypeOK, PlanPartition, States, Open
  <2>3. QED
    BY <1>3, <2>1, <2>2, FaultTyped DEF TypeOK, PlanPartition
<1>4. ASSUME NEW p \in Partitions, ResumePartition(p) PROVE TypeOK'
  <2>1. Current(p) \in Delivery
    BY DEF TypeOK, Current, Delivery
  <2>2. /\ pstate' \in [Partitions -> States]
        /\ due' \in [Partitions -> BOOLEAN]
        /\ lease' \in [Partitions -> LeaseKind]
    BY <1>4 DEF TypeOK, ResumePartition, States, Open, LeaseKind
  <2>3. QED
    BY <1>4, <2>1, <2>2, FaultTyped DEF TypeOK, ResumePartition, Reopen
<1>5. QED
  BY <1>1, <1>2, <1>3, <1>4 DEF Operate

LEMMA TypeDispatch == ASSUME TypeOK, Dispatch PROVE TypeOK'
<1> USE DEF databaseVars, targetVars, leaseVars, runVars, itemVars, outboxVars, transportVars
<1>1. ASSUME NEW D \in SUBSET outbox, ClaimDeliveries(D) PROVE TypeOK'
  BY <1>1, FaultTyped DEF TypeOK, ClaimDeliveries
<1>2. ASSUME NEW d \in outbox, Enqueue(d) PROVE TypeOK'
  BY <1>2, FaultTyped DEF TypeOK, Enqueue
<1>3. ASSUME NEW d \in outbox, EnqueueFails(d) PROVE TypeOK'
  BY <1>3, FaultTyped DEF TypeOK, EnqueueFails
<1>4. ASSUME NEW d \in outbox, LoseJob(d) PROVE TypeOK'
  BY <1>4, FaultTyped DEF TypeOK, LoseJob
<1>5. QED
  BY <1>1, <1>2, <1>3, <1>4 DEF Dispatch

LEMMA TypeTimePasses == ASSUME TypeOK, TimePasses PROVE TypeOK'
<1> USE DEF databaseVars, targetVars, leaseVars, runVars, itemVars, outboxVars, transportVars
<1>1. ASSUME NEW d \in outbox, NotBeforePasses(d) PROVE TypeOK'
  BY <1>1, FaultTyped DEF TypeOK, NotBeforePasses
<1>2. ASSUME NEW d \in outbox, DeliveryLeaseExpires(d) PROVE TypeOK'
  BY <1>2, FaultTyped DEF TypeOK, DeliveryLeaseExpires
<1>3. ASSUME NEW p \in Partitions, DuePasses(p) PROVE TypeOK'
  BY <1>3, FaultTyped DEF TypeOK, DuePasses
<1>4. ASSUME NEW p \in Partitions, LeaseExpires(p) PROVE TypeOK'
  <2>1. lease' \in [Partitions -> LeaseKind]
    BY <1>4 DEF TypeOK, LeaseExpires, LeaseKind
  <2>2. faults' \in 0 .. MaxFaults
    BY <1>4, FaultTyped DEF LeaseExpires
  <2>3. QED
    BY <1>4, <2>1, <2>2 DEF TypeOK, LeaseExpires
<1>5. QED
  BY <1>1, <1>2, <1>3, <1>4 DEF TimePasses

LEMMA TypeClaim ==
    ASSUME TypeOK, NEW w \in Workers, ClaimPage(w) PROVE TypeOK'
<1> USE DEF databaseVars, targetVars, leaseVars, runVars, itemVars, outboxVars, transportVars
<1> DEFINE p == worker[w].partition
           e == epoch[p] + 1
           c == [pc |-> "collecting", partition |-> p, page |-> page[p],
                 epoch |-> e, cursor |-> cursor[p], renewFailed |-> FALSE]
<1>1. p \in Partitions
  BY WorkerFields DEF ClaimPage
<1>2. e \in Epoch /\ page[p] \in Nat /\ cursor[p] \in Cursor
  BY <1>1 DEF TypeOK, Epoch
<1>3. worker' \in [Workers -> WorkerState]
  <2>1. c \in WorkerState
    BY <1>1, <1>2 DEF WorkerState, Collecting
  <2>2. QED
    BY <2>1, BecomeTyped DEF ClaimPage
<1>4. /\ epoch' \in [Partitions -> Nat]
      /\ pstate' \in [Partitions -> States]
      /\ lease' \in [Partitions -> LeaseKind]
  BY <1>1, <1>2 DEF TypeOK, ClaimPage, States, Open, LeaseKind
<1>5. EndAbandoned(runs[p]) \in Seq(RunStatus) /\ Len(EndAbandoned(runs[p])) = Len(runs[p])
  <2>1. runs[p] \in Seq(RunStatus) /\ Len(runs[p]) \in Nat
    BY <1>1 DEF TypeOK
  <2>2. CASE runs[p] = << >>
    BY <2>1, <2>2 DEF EndAbandoned
  <2>3. CASE runs[p] # << >>
    <3>1. Len(runs[p]) \in 1 .. Len(runs[p])
      BY <2>1, <2>3, EmptySeq
    <3>2. /\ [runs[p] EXCEPT ![Len(runs[p])] = "failed"] \in Seq(RunStatus)
          /\ Len([runs[p] EXCEPT ![Len(runs[p])] = "failed"]) = Len(runs[p])
      BY <2>1, <3>1, ExceptSeq DEF RunStatus
    <3>3. QED
      BY <2>1, <3>2 DEF EndAbandoned
  <2>4. QED
    BY <2>2, <2>3
<1>6. /\ runs' = [runs EXCEPT ![p] = Append(EndAbandoned(runs[p]), "running")]
      /\ attempts' = [attempts EXCEPT ![p] = Append(attempts[p], page[p])]
      /\ epoch' = [epoch EXCEPT ![p] = e]
  BY DEF ClaimPage
<1>7. /\ Append(EndAbandoned(runs[p]), "running") \in Seq(RunStatus)
      /\ Len(Append(EndAbandoned(runs[p]), "running")) = e
  BY <1>1, <1>5, AppendProperties DEF TypeOK, RunStatus
<1>8. /\ Append(attempts[p], page[p]) \in Seq(Nat)
      /\ Len(Append(attempts[p], page[p])) = e
  BY <1>1, <1>2, AppendProperties DEF TypeOK
<1>9. /\ runs' \in [Partitions -> Seq(RunStatus)]
      /\ attempts' \in [Partitions -> Seq(Nat)]
      /\ \A q \in Partitions : Len(runs'[q]) = epoch'[q] /\ Len(attempts'[q]) = epoch'[q]
  BY <1>1, <1>6, <1>7, <1>8 DEF TypeOK
<1>10. QED
  BY <1>3, <1>4, <1>9, FaultTyped DEF TypeOK, ClaimPage

LEMMA TypeCommit ==
    ASSUME TypeOK, NEW w \in Workers, CommitPage(w) PROVE TypeOK'
<1> USE DEF databaseVars, targetVars, leaseVars, runVars, itemVars, outboxVars, transportVars
<1> DEFINE c == worker[w]
           p == c.partition
           next == <<p, page[p] + 1>>
<1>1. /\ p \in Partitions /\ c.page \in Nat /\ c.epoch \in Epoch
      /\ c.cursor \in Cursor /\ c.result \in PageResult
  BY WorkerFields DEF CommitPage, BusyPc
<1>2. /\ page[p] \in Nat /\ epoch[p] = c.epoch /\ cursor[p] \in Cursor
      /\ Len(runs[p]) = c.epoch
  BY <1>1 DEF TypeOK, CommitPage, FencePasses, Matches
<1>3. worker' \in [Workers -> WorkerState]
  BY ReleaseTyped, FailsTyped DEF CommitPage
<1>4. /\ page' \in [Partitions -> Nat]
      /\ cursor' \in [Partitions -> Cursor]
      /\ pstate' \in [Partitions -> States]
      /\ lease' \in [Partitions -> LeaseKind]
      /\ due' \in [Partitions -> BOOLEAN]
  BY <1>1, <1>2 DEF TypeOK, CommitPage, NextCursor, NextState, PageResult,
                    Disposition, States, Open, Closed, LeaseKind
<1>5. /\ runs' \in [Partitions -> Seq(RunStatus)]
      /\ \A q \in Partitions : Len(runs'[q]) = epoch[q]
  <2>1. runs' = [runs EXCEPT ![p] = [runs[p] EXCEPT ![c.epoch] = "succeeded"]]
    BY DEF CommitPage
  <2>2. /\ [runs[p] EXCEPT ![c.epoch] = "succeeded"] \in Seq(RunStatus)
        /\ Len([runs[p] EXCEPT ![c.epoch] = "succeeded"]) = Len(runs[p])
    BY <1>1, <1>2 DEF TypeOK, RunStatus, Epoch
  <2>3. QED
    BY <1>1, <2>1, <2>2 DEF TypeOK
<1>6. checkpoints' \subseteq Checkpoint
  <2>1. CheckpointOf(c) \in Checkpoint
    BY <1>1, <1>2 DEF CheckpointOf, Checkpoint, PageResult
  <2>2. QED
    BY <2>1 DEF TypeOK, CommitPage
<1>7. raw' \subseteq Items /\ normalize' \subseteq Items /\ acquired' \subseteq Partitions \X Items
  BY <1>1 DEF TypeOK, CommitPage, Stages, PageResult
<1>8. /\ outbox' \subseteq Delivery /\ done' \subseteq outbox' /\ future' \subseteq outbox'
      /\ leased' \subseteq outbox' /\ batch' \subseteq outbox' /\ queue' \subseteq outbox'
  <2>1. next \in Delivery
    BY <1>1, <1>2 DEF Delivery
  <2>2. outbox' = outbox \/ outbox' = outbox \cup {next}
    BY DEF CommitPage
  <2>3. done' \subseteq outbox
    BY DEF TypeOK, CommitPage
  <2>4. future' \subseteq outbox'
    BY DEF TypeOK, CommitPage
  <2>5. QED
    BY <2>1, <2>2, <2>3, <2>4 DEF TypeOK, CommitPage
<1>9. faults' \in 0 .. MaxFaults
  BY FaultTyped DEF CommitPage
<1>10. QED
  BY <1>3, <1>4, <1>5, <1>6, <1>7, <1>8, <1>9 DEF TypeOK, CommitPage

LEMMA TypeFailPage ==
    ASSUME TypeOK, NEW w \in Workers, FailPage(w) PROVE TypeOK'
<1> USE DEF databaseVars, targetVars, leaseVars, runVars, itemVars, outboxVars, transportVars
<1> DEFINE c == worker[w]
           p == c.partition
<1>1. p \in Partitions /\ c.epoch \in Epoch /\ c.retry \in BOOLEAN
  BY WorkerFields DEF FailPage, BusyPc
<1>2. Len(runs[p]) = c.epoch
  BY <1>1 DEF TypeOK, FailPage, FencePasses, Matches
<1>3. worker' \in [Workers -> WorkerState]
  BY ReleaseTyped DEF FailPage
<1>4. /\ pstate' \in [Partitions -> States]
      /\ lease' \in [Partitions -> LeaseKind]
      /\ due' \in [Partitions -> BOOLEAN]
  BY <1>1 DEF TypeOK, FailPage, States, Open, LeaseKind
<1>5. /\ runs' \in [Partitions -> Seq(RunStatus)]
      /\ \A q \in Partitions : Len(runs'[q]) = epoch[q]
  <2>1. runs' = [runs EXCEPT ![p] = [runs[p] EXCEPT ![c.epoch] = "failed"]]
    BY DEF FailPage
  <2>2. /\ [runs[p] EXCEPT ![c.epoch] = "failed"] \in Seq(RunStatus)
        /\ Len([runs[p] EXCEPT ![c.epoch] = "failed"]) = Len(runs[p])
    BY <1>1, <1>2 DEF TypeOK, RunStatus, Epoch
  <2>3. QED
    BY <1>1, <2>1, <2>2 DEF TypeOK
<1>6. done' \subseteq outbox /\ future' \subseteq outbox
  BY DEF TypeOK, FailPage, Settle
<1>7. QED
  BY <1>3, <1>4, <1>5, <1>6, FaultTyped DEF TypeOK, FailPage

LEMMA TypeCollect ==
    ASSUME TypeOK, NEW w \in Workers, NEW r \in PageResult, CollectPage(w, r)
    PROVE  TypeOK'
<1> USE DEF databaseVars, targetVars, leaseVars, runVars, itemVars, outboxVars, transportVars
<1> DEFINE c == [pc |-> "committing", partition |-> worker[w].partition,
                 page |-> worker[w].page, epoch |-> worker[w].epoch,
                 cursor |-> worker[w].cursor,
                 renewFailed |-> worker[w].renewFailed, result |-> r]
<1>1. c \in Committing
  BY WorkerFields DEF CollectPage, Committing, BusyPc
<1>2. Become(w, c)
  BY DEF CollectPage
<1>3. worker' \in [Workers -> WorkerState]
  BY <1>1, <1>2, BecomeTyped DEF WorkerState
<1>4. faults' \in 0 .. MaxFaults
  BY FaultTyped DEF CollectPage
<1>5. QED
  BY <1>3, <1>4 DEF TypeOK, CollectPage

LEMMA TypeRenewFails ==
    ASSUME TypeOK, NEW w \in Workers, RenewFails(w) PROVE TypeOK'
<1> USE DEF databaseVars, targetVars, leaseVars, runVars, itemVars, outboxVars, transportVars
<1> DEFINE c == [worker[w] EXCEPT !.renewFailed = TRUE]
<1>1. worker[w] \in Collecting \cup Committing
  BY WorkerFields DEF RenewFails, WorkerState, Idle, Loaded, Failing
<1>2. c \in WorkerState
  BY <1>1 DEF WorkerState, Collecting, Committing
<1>3. worker' \in [Workers -> WorkerState]
  BY <1>2, BecomeTyped DEF RenewFails
<1>4. faults' \in 0 .. MaxFaults
  BY FaultTyped DEF RenewFails
<1>5. QED
  BY <1>3, <1>4 DEF TypeOK, RenewFails

LEMMA TypeReturns ==
    ASSUME TypeOK, NEW w \in Workers, Returns(w) PROVE TypeOK'
<1> USE DEF databaseVars, targetVars, leaseVars, runVars, itemVars, outboxVars, transportVars
<1>1. CASE ClaimPage(w)
  BY <1>1, TypeClaim
<1>2. CASE SkipPage(w)
  BY <1>2, ReleaseTyped, FaultTyped DEF TypeOK, SkipPage
<1>3. CASE Collects(w)
  <2>1. ASSUME NEW disposition \in Disposition, NEW next \in Cursor,
               NEW items \in SUBSET Items,
               CollectPage(w, [disposition |-> disposition, next |-> next,
                               items |-> items, verdict |-> "ok"])
        PROVE  TypeOK'
    BY <2>1, TypeCollect DEF PageResult
  <2>2. ASSUME NEW verdict \in {"malformed", "blocked"}, CollectPage(w, Refused(verdict))
        PROVE  TypeOK'
    <3>1. Refused(verdict) \in PageResult
      BY DEF Refused, PageResult, Disposition, Cursor
    <3>2. QED
      BY <2>2, <3>1, TypeCollect
  <2>3. ASSUME NEW policy \in BOOLEAN, CollectThrows(w, policy) PROVE TypeOK'
    <3>1. worker' \in [Workers -> WorkerState] /\ faults' \in 0 .. MaxFaults
      BY <2>3, FailsTyped, FaultTyped DEF CollectThrows
    <3>2. QED
      BY <2>3, <3>1 DEF TypeOK, CollectThrows
  <2>4. QED
    BY <1>3, <2>1, <2>2, <2>3 DEF Collects
<1>4. CASE CommitPage(w)
  BY <1>4, TypeCommit
<1>5. CASE CommitFencedOut(w)
  BY <1>5, ReleaseTyped, FaultTyped DEF TypeOK, CommitFencedOut
<1>6. CASE CommitBlocked(w)
  BY <1>6, ReleaseTyped, FaultTyped DEF TypeOK, CommitBlocked
<1>7. CASE CommitThrows(w)
  <2>1. worker' \in [Workers -> WorkerState] /\ faults' \in 0 .. MaxFaults
    BY <1>7, FailsTyped, FaultTyped DEF CommitThrows
  <2>2. QED
    BY <1>7, <2>1 DEF TypeOK, CommitThrows
<1>8. CASE FailPage(w)
  BY <1>8, TypeFailPage
<1>9. CASE FailPageThrows(w)
  BY <1>9, ReleaseTyped, FaultTyped DEF TypeOK, FailPageThrows
<1>10. QED
  BY <1>1, <1>2, <1>3, <1>4, <1>5, <1>6, <1>7, <1>8, <1>9 DEF Returns

LEMMA TypeExecute ==
    ASSUME TypeOK, NEW w \in Workers, Execute(w) PROVE TypeOK'
<1> USE DEF databaseVars, targetVars, leaseVars, runVars, itemVars, outboxVars, transportVars
<1>1. ASSUME NEW d \in outbox, TakeJob(w, d) PROVE TypeOK'
  <2> DEFINE s == [pc |-> "loaded", partition |-> d[1], page |-> d[2]]
  <2>1. s \in WorkerState
    BY DEF TypeOK, Delivery, WorkerState, Loaded
  <2>2. worker' \in [Workers -> WorkerState]
    BY <1>1, <2>1, BecomeTyped DEF TakeJob, TypeOK
  <2>3. QED
    BY <1>1, <2>2, FaultTyped DEF TypeOK, TakeJob
<1>2. CASE Returns(w)
  BY <1>2, TypeReturns
<1>3. CASE RenewPage(w)
  <2>1. lease' \in [Partitions -> LeaseKind]
    BY <1>3 DEF TypeOK, RenewPage, LeaseKind
  <2>2. QED
    BY <1>3, <2>1, FaultTyped DEF TypeOK, RenewPage
<1>4. CASE RenewFails(w)
  BY <1>4, TypeRenewFails
<1>5. CASE Crash(w)
  <2>1. queue' \subseteq outbox
    BY <1>5 DEF TypeOK, Crash
  <2>2. QED
    BY <1>5, <2>1, ReleaseTyped, FaultTyped DEF TypeOK, Crash
<1>6. QED
  BY <1>1, <1>2, <1>3, <1>4, <1>5 DEF Execute

LEMMA TypeNext == TypeOK /\ [Next]_vars => TypeOK'
<1> SUFFICES ASSUME TypeOK, [Next]_vars PROVE TypeOK'
  OBVIOUS
<1>1. CASE Next
  BY <1>1, TypeOperate, TypeDispatch, TypeTimePasses, TypeExecute DEF Next
<1>2. CASE UNCHANGED vars
  BY <1>2 DEF TypeOK, vars, databaseVars, targetVars, leaseVars, runVars,
              itemVars, outboxVars, transportVars
<1>3. QED
  BY <1>1, <1>2

(***************************************************************************)
(* Every variable keeps its type, and every claim has exactly one run and  *)
(* one attempt, whatever the interleaving.                                 *)
(***************************************************************************)
THEOREM TypeCorrect == Spec => []TypeOK
<1>1. QED
  BY TypeInit, TypeNext, PTL DEF Spec

(***************************************************************************)
(* No page is lost.  The outbox never runs ahead of its partition, so that *)
(* the delivery of a new page cannot be one that was completed before.     *)
(***************************************************************************)
OutboxBounded ==
    \A d \in outbox : pstate[d[1]] # "absent" /\ d[2] <= page[d[1]]

PagesInv == NoPageLost /\ OutboxBounded

LEMMA PagesKept ==
    ASSUME PagesInv, UNCHANGED <<pstate, page, outbox, done>>
    PROVE  PagesInv'
BY DEF PagesInv, NoPageLost, OutboxBounded, Current

LEMMA PagesInit == Init => PagesInv
BY DEF Init, PagesInv, NoPageLost, OutboxBounded, Open

LEMMA PagesPlan ==
    ASSUME TypeOK, PagesInv, NEW p \in Partitions, PlanPartition(p)
    PROVE  PagesInv'
<1>1. Current(p) \notin done
  <2>1. CASE pstate[p] = "absent"
    BY <2>1 DEF TypeOK, PagesInv, OutboxBounded, Current
  <2>2. CASE pstate[p] \in Open
    BY <2>2 DEF PagesInv, NoPageLost
  <2>3. QED
    BY <2>1, <2>2 DEF PlanPartition
<1>2. NoPageLost'
  BY <1>1 DEF TypeOK, PagesInv, NoPageLost, PlanPartition, Current, Open
<1>3. OutboxBounded'
  BY DEF TypeOK, PagesInv, OutboxBounded, PlanPartition, Current, Delivery, Open
<1>4. QED
  BY <1>2, <1>3 DEF PagesInv

LEMMA PagesResume ==
    ASSUME TypeOK, PagesInv, NEW p \in Partitions, ResumePartition(p)
    PROVE  PagesInv'
<1>1. NoPageLost'
  BY DEF TypeOK, PagesInv, NoPageLost, ResumePartition, Reopen, Current, Open
<1>2. OutboxBounded'
  BY DEF TypeOK, PagesInv, OutboxBounded, ResumePartition, Current, Delivery
<1>3. QED
  BY <1>1, <1>2 DEF PagesInv

LEMMA PagesClaim ==
    ASSUME TypeOK, PagesInv, NEW w \in Workers, ClaimPage(w)
    PROVE  PagesInv'
<1>1. worker[w].partition \in Partitions
  BY WorkerFields DEF ClaimPage
<1>2. QED
  BY <1>1 DEF TypeOK, PagesInv, NoPageLost, OutboxBounded, ClaimPage, Claimable,
              Current, Open, outboxVars, Delivery

LEMMA PagesCommit ==
    ASSUME TypeOK, PagesInv, NEW w \in Workers, CommitPage(w)
    PROVE  PagesInv'
<1> DEFINE c == worker[w]
           p == c.partition
           next == <<p, page[p] + 1>>
<1>1. p \in Partitions /\ c.result \in PageResult
  BY WorkerFields DEF CommitPage
<1>2. page[p] \in Nat /\ pstate[p] = "running"
  BY <1>1 DEF TypeOK, CommitPage, FencePasses, Matches
<1>3. /\ page' = [page EXCEPT ![p] = page[p] + 1]
      /\ pstate' = [pstate EXCEPT ![p] = NextState(c.result)]
      /\ done' = done \cup ({Current(p)} \cap outbox)
      /\ outbox' \in {outbox, outbox \cup {next}}
      /\ c.result.disposition \in {"continue", "deferred"} => outbox' = outbox \cup {next}
  BY DEF CommitPage
<1>4. next \notin outbox
  BY <1>1, <1>2 DEF PagesInv, OutboxBounded
<1>5. NoPageLost'
  <2>1. ASSUME NEW q \in Partitions, pstate'[q] \in Open
        PROVE  Current(q)' \in outbox' \ done'
    <3>1. CASE q = p
      <4>1. c.result.disposition \in {"continue", "deferred"}
        BY <1>1, <1>3, <2>1, <3>1 DEF TypeOK, NextState, PageResult, Disposition, Open
      <4>2. Current(q)' = next
        BY <1>1, <1>3, <3>1 DEF TypeOK, Current
      <4>3. next \notin done /\ next # Current(p)
        BY <1>2, <1>4 DEF TypeOK, Current
      <4>4. QED
        BY <1>3, <4>1, <4>2, <4>3
    <3>2. CASE q # p
      <4>1. pstate[q] \in Open /\ Current(q)' = Current(q) /\ Current(q) # Current(p)
        BY <1>3, <2>1, <3>2 DEF TypeOK, Current
      <4>2. QED
        BY <1>3, <4>1 DEF PagesInv, NoPageLost
    <3>3. QED
      BY <3>1, <3>2
  <2>2. QED
    BY <2>1 DEF NoPageLost
<1>6. OutboxBounded'
  <2>1. \A q \in Partitions : page[q] <= page'[q] /\ page'[q] \in Nat
    BY <1>1, <1>2, <1>3 DEF TypeOK
  <2>2. \A q \in Partitions : pstate[q] # "absent" => pstate'[q] # "absent"
    BY <1>1, <1>3 DEF TypeOK, NextState, PageResult, Disposition
  <2>3. next[1] = p /\ next[2] <= page'[p] /\ pstate'[p] # "absent"
    BY <1>1, <1>2, <1>3, <2>2 DEF TypeOK
  <2>4. \A d \in outbox : d[1] \in Partitions /\ d[2] \in Nat /\ d[2] <= page[d[1]]
                          /\ pstate[d[1]] # "absent" /\ page[d[1]] \in Nat
    BY DEF TypeOK, Delivery, PagesInv, OutboxBounded
  <2>5. \A d \in outbox : d[2] <= page'[d[1]] /\ pstate'[d[1]] # "absent"
    BY <2>1, <2>2, <2>4
  <2>6. QED
    BY <1>3, <2>3, <2>5 DEF OutboxBounded
<1>7. QED
  BY <1>5, <1>6 DEF PagesInv

LEMMA PagesFail ==
    ASSUME TypeOK, PagesInv, NEW w \in Workers, FailPage(w)
    PROVE  PagesInv'
<1> DEFINE c == worker[w]
           p == c.partition
<1>1. p \in Partitions /\ c.retry \in BOOLEAN
  BY WorkerFields DEF FailPage, BusyPc
<1>2. Current(p) \in outbox \ done
  BY <1>1 DEF FailPage, FencePasses, Matches, Open, PagesInv, NoPageLost
<1>3. /\ pstate' = [pstate EXCEPT ![p] = IF c.retry THEN "deferred" ELSE "failed"]
      /\ done' = Settle(p, c.retry)
      /\ UNCHANGED <<page, outbox>>
  BY DEF FailPage, leaseVars
<1>4. NoPageLost'
  BY <1>1, <1>2, <1>3 DEF TypeOK, PagesInv, NoPageLost, Settle, Current, Open
<1>5. OutboxBounded'
  BY <1>1, <1>3 DEF TypeOK, PagesInv, OutboxBounded, Delivery
<1>6. QED
  BY <1>4, <1>5 DEF PagesInv

LEMMA PagesNext == TypeOK /\ PagesInv /\ [Next]_vars => PagesInv'
<1> SUFFICES ASSUME TypeOK, PagesInv, [Next]_vars PROVE PagesInv'
  OBVIOUS
<1> USE DEF databaseVars, leaseVars, outboxVars
<1>1. CASE Operate
  BY <1>1, PagesPlan, PagesResume, PagesKept DEF Operate, RegisterTarget, SetTargetEnabled
<1>2. CASE Dispatch
  BY <1>2, PagesKept DEF Dispatch, ClaimDeliveries, Enqueue, EnqueueFails, LoseJob
<1>3. CASE TimePasses
  BY <1>3, PagesKept
     DEF TimePasses, NotBeforePasses, DeliveryLeaseExpires, DuePasses, LeaseExpires
<1>4. ASSUME NEW w \in Workers, Execute(w) PROVE PagesInv'
  <2>1. CASE ClaimPage(w) \/ CommitPage(w) \/ FailPage(w)
    BY <2>1, PagesClaim, PagesCommit, PagesFail
  <2>2. CASE Collects(w)
    BY <2>2, PagesKept DEF Collects, CollectPage, CollectThrows
  <2>3. CASE SkipPage(w) \/ CommitFencedOut(w) \/ CommitBlocked(w) \/ CommitThrows(w)
             \/ FailPageThrows(w)
    BY <2>3, PagesKept
       DEF SkipPage, CommitFencedOut, CommitBlocked, CommitThrows, FailPageThrows
  <2>4. CASE RenewPage(w) \/ RenewFails(w) \/ Crash(w) \/ \E d \in outbox : TakeJob(w, d)
    BY <2>4, PagesKept DEF RenewPage, RenewFails, Crash, TakeJob
  <2>5. QED
    BY <1>4, <2>1, <2>2, <2>3, <2>4 DEF Execute, Returns
<1>5. CASE UNCHANGED vars
  BY <1>5, PagesKept DEF vars
<1>6. QED
  BY <1>1, <1>2, <1>3, <1>4, <1>5 DEF Next

(***************************************************************************)
(* As long as a partition can be collected, the delivery of its current    *)
(* page is in the outbox and not completed: Redis and the workers may lose *)
(* everything they hold.                                                   *)
(***************************************************************************)
THEOREM PagesAreKept == Spec => []NoPageLost
<1>1. Init => TypeOK /\ PagesInv
  BY TypeInit, PagesInit
<1>2. TypeOK /\ PagesInv /\ [Next]_vars => (TypeOK /\ PagesInv)'
  BY TypeNext, PagesNext
<1>3. PagesInv => NoPageLost
  BY DEF PagesInv
<1>4. QED
  BY <1>1, <1>2, <1>3, PTL DEF Spec

(***************************************************************************)
(* What fencing gives: claims that are still in a worker's memory differ   *)
(* in their epoch and never know a page later than the partition's, so     *)
(* that of all of them fencePage lets at most one pass, and what that one  *)
(* fetched belongs to the partition's cursor.                              *)
(***************************************************************************)
Busy(w) == worker[w].pc \in BusyPc

ClaimKnows(w) ==
    LET c == worker[w]
    IN  /\ c.epoch <= epoch[c.partition]
        /\ c.page <= page[c.partition]
        /\ c.page = page[c.partition] => c.cursor = cursor[c.partition]

ClaimsInv ==
    /\ \A w \in Workers : Busy(w) => ClaimKnows(w)
    /\ \A v, w \in Workers :
          /\ Busy(v) /\ Busy(w)
          /\ worker[v].partition = worker[w].partition
          /\ worker[v].epoch = worker[w].epoch
          => v = w

\* A step that makes no claim: whoever holds one afterwards held it before.
KeepsClaims ==
    \A w \in Workers : worker'[w].pc \in BusyPc =>
        /\ Busy(w)
        /\ worker'[w].partition = worker[w].partition
        /\ worker'[w].page = worker[w].page
        /\ worker'[w].epoch = worker[w].epoch
        /\ worker'[w].cursor = worker[w].cursor

LEMMA BecomeKeeps ==
    ASSUME TypeOK, NEW w \in Workers, NEW s, Become(w, s),
           s.pc \in BusyPc =>
               /\ Busy(w)
               /\ s.partition = worker[w].partition
               /\ s.page = worker[w].page
               /\ s.epoch = worker[w].epoch
               /\ s.cursor = worker[w].cursor
    PROVE  KeepsClaims
<1>1. \A v \in Workers : worker'[v] = IF v = w THEN s ELSE worker[v]
  BY DEF TypeOK, Become
<1>2. QED
  BY <1>1 DEF KeepsClaims, Busy

LEMMA SameKeeps == ASSUME UNCHANGED worker PROVE KeepsClaims
BY DEF KeepsClaims, Busy

LEMMA ReleaseKeeps ==
    ASSUME TypeOK, NEW w \in Workers, Release(w) PROVE KeepsClaims
<1>1. [pc |-> "idle"].pc \notin BusyPc
  BY DEF BusyPc
<1>2. QED
  BY <1>1, BecomeKeeps DEF Release

LEMMA FailsKeeps ==
    ASSUME TypeOK, NEW w \in Workers, NEW retry, Fails(w, retry), Busy(w)
    PROVE  KeepsClaims
BY BecomeKeeps DEF Fails

LEMMA ClaimsKept ==
    ASSUME TypeOK, ClaimsInv, KeepsClaims, UNCHANGED <<page, cursor, epoch>>
    PROVE  ClaimsInv'
<1>1. ASSUME NEW w \in Workers, Busy(w)' PROVE ClaimKnows(w)'
  BY <1>1 DEF ClaimsInv, KeepsClaims, Busy, ClaimKnows
<1>2. ASSUME NEW v \in Workers, NEW w \in Workers, Busy(v)', Busy(w)',
             worker'[v].partition = worker'[w].partition,
             worker'[v].epoch = worker'[w].epoch
      PROVE  v = w
  BY <1>2 DEF ClaimsInv, KeepsClaims, Busy
<1>3. QED
  BY <1>1, <1>2 DEF ClaimsInv

LEMMA ClaimsInit == Init => ClaimsInv
BY DEF Init, ClaimsInv, Busy, BusyPc

LEMMA ClaimsClaim ==
    ASSUME TypeOK, ClaimsInv, NEW w \in Workers, ClaimPage(w)
    PROVE  ClaimsInv'
<1> DEFINE p == worker[w].partition
           c == [pc |-> "collecting", partition |-> p, page |-> page[p],
                 epoch |-> epoch[p] + 1, cursor |-> cursor[p], renewFailed |-> FALSE]
<1>1. p \in Partitions
  BY WorkerFields DEF ClaimPage
<1>2. /\ epoch' = [epoch EXCEPT ![p] = epoch[p] + 1]
      /\ \A v \in Workers : worker'[v] = IF v = w THEN c ELSE worker[v]
      /\ UNCHANGED <<page, cursor>>
  BY DEF TypeOK, ClaimPage, Become
<1>3. epoch[p] \in Nat /\ page[p] \in Nat
  BY <1>1 DEF TypeOK
<1>4. ASSUME NEW v \in Workers, v # w, Busy(v)
      PROVE  /\ worker[v].partition \in Partitions
             /\ worker[v].epoch \in Nat
             /\ epoch[worker[v].partition] \in Nat
             /\ ClaimKnows(v)
  BY <1>4, WorkerFields DEF TypeOK, Busy, BusyPc, Epoch, ClaimsInv
<1>5. ASSUME NEW v \in Workers, Busy(v)' PROVE ClaimKnows(v)'
  <2>1. CASE v = w
    BY <1>1, <1>2, <1>3, <2>1 DEF TypeOK, ClaimKnows
  <2>2. CASE v # w
    <3>1. worker'[v] = worker[v] /\ Busy(v)
      BY <1>2, <1>5, <2>2 DEF Busy
    <3>2. epoch[worker[v].partition] <= epoch'[worker[v].partition]
      BY <1>1, <1>2, <1>3, <1>4, <2>2, <3>1 DEF TypeOK
    <3>3. epoch'[worker[v].partition] \in Nat
      BY <1>1, <1>2, <1>3, <1>4, <2>2, <3>1 DEF TypeOK
    <3>4. QED
      BY <1>2, <1>4, <2>2, <3>1, <3>2, <3>3 DEF ClaimKnows
  <2>3. QED
    BY <2>1, <2>2
<1>6. ASSUME NEW v \in Workers, v # w, Busy(v)', worker'[v].partition = p
      PROVE  worker'[v].epoch # c.epoch
  <2>1. worker'[v] = worker[v] /\ Busy(v)
    BY <1>2, <1>6 DEF Busy
  <2>2. QED
    BY <1>3, <1>4, <1>6, <2>1 DEF ClaimKnows
<1>7. ASSUME NEW u \in Workers, NEW v \in Workers, Busy(u)', Busy(v)',
             worker'[u].partition = worker'[v].partition,
             worker'[u].epoch = worker'[v].epoch
      PROVE  u = v
  <2>1. CASE u # w /\ v # w
    BY <1>2, <1>7, <2>1 DEF ClaimsInv, Busy
  <2>2. CASE u = w \/ v = w
    BY <1>2, <1>6, <1>7, <2>2
  <2>3. QED
    BY <2>1, <2>2
<1>8. QED
  BY <1>5, <1>7 DEF ClaimsInv

LEMMA ClaimsCommit ==
    ASSUME TypeOK, ClaimsInv, NEW w \in Workers, CommitPage(w)
    PROVE  ClaimsInv'
<1> DEFINE p == worker[w].partition
<1>1. p \in Partitions /\ page[p] \in Nat
  BY WorkerFields DEF CommitPage, TypeOK
<1>2. /\ page' = [page EXCEPT ![p] = page[p] + 1]
      /\ cursor' = [cursor EXCEPT ![p] = NextCursor(worker[w])]
      /\ UNCHANGED epoch
  BY DEF CommitPage
<1>3. KeepsClaims
  BY ReleaseKeeps, FailsKeeps DEF CommitPage, Busy, BusyPc
<1>4. ASSUME NEW v \in Workers, Busy(v)' PROVE ClaimKnows(v)'
  <2>1. /\ Busy(v) /\ ClaimKnows(v)
        /\ worker'[v].partition = worker[v].partition
        /\ worker'[v].page = worker[v].page
        /\ worker'[v].epoch = worker[v].epoch
        /\ worker'[v].cursor = worker[v].cursor
    BY <1>3, <1>4 DEF KeepsClaims, ClaimsInv, Busy
  <2>2. worker[v].partition \in Partitions /\ worker[v].page \in Nat
    BY <2>1, WorkerFields DEF Busy, BusyPc
  <2>3. CASE worker[v].partition = p
    <3>1. worker[v].page <= page[p] /\ page'[p] = page[p] + 1
      BY <1>1, <1>2, <2>1, <2>3 DEF ClaimKnows, TypeOK
    <3>2. worker[v].page < page'[p]
      BY <1>1, <2>2, <3>1
    <3>3. worker'[v].page <= page'[p] /\ worker'[v].page # page'[p]
      BY <1>1, <2>1, <2>2, <3>1, <3>2
    <3>4. QED
      BY <1>2, <2>1, <2>3, <3>3 DEF ClaimKnows
  <2>4. CASE worker[v].partition # p
    BY <1>1, <1>2, <2>1, <2>2, <2>4 DEF ClaimKnows, TypeOK
  <2>5. QED
    BY <2>3, <2>4
<1>5. ASSUME NEW u \in Workers, NEW v \in Workers, Busy(u)', Busy(v)',
             worker'[u].partition = worker'[v].partition,
             worker'[u].epoch = worker'[v].epoch
      PROVE  u = v
  BY <1>3, <1>5 DEF ClaimsInv, KeepsClaims, Busy
<1>6. QED
  BY <1>4, <1>5 DEF ClaimsInv

LEMMA ClaimsNext == TypeOK /\ ClaimsInv /\ [Next]_vars => ClaimsInv'
<1> SUFFICES ASSUME TypeOK, ClaimsInv, [Next]_vars PROVE ClaimsInv'
  OBVIOUS
<1> USE DEF databaseVars, leaseVars
<1>1. CASE Operate
  BY <1>1, ClaimsKept, SameKeeps
     DEF Operate, RegisterTarget, SetTargetEnabled, PlanPartition, ResumePartition
<1>2. CASE Dispatch
  BY <1>2, ClaimsKept, SameKeeps
     DEF Dispatch, ClaimDeliveries, Enqueue, EnqueueFails, LoseJob
<1>3. CASE TimePasses
  BY <1>3, ClaimsKept, SameKeeps
     DEF TimePasses, NotBeforePasses, DeliveryLeaseExpires, DuePasses, LeaseExpires
<1>4. ASSUME NEW w \in Workers, Execute(w) PROVE ClaimsInv'
  <2>1. CASE ClaimPage(w) \/ CommitPage(w)
    BY <2>1, ClaimsClaim, ClaimsCommit
  <2>2. CASE Collects(w)
    <3>1. ASSUME NEW r, CollectPage(w, r) PROVE ClaimsInv'
      <4>1. KeepsClaims
        BY <3>1, BecomeKeeps DEF CollectPage, Busy, BusyPc
      <4>2. QED
        BY <3>1, <4>1, ClaimsKept DEF CollectPage
    <3>2. ASSUME NEW policy \in BOOLEAN, CollectThrows(w, policy) PROVE ClaimsInv'
      BY <3>2, FailsKeeps, ClaimsKept DEF CollectThrows, Busy, BusyPc
    <3>3. QED
      BY <2>2, <3>1, <3>2 DEF Collects
  <2>3. CASE SkipPage(w) \/ CommitFencedOut(w) \/ CommitBlocked(w) \/ FailPage(w)
             \/ FailPageThrows(w) \/ Crash(w)
    BY <2>3, ReleaseKeeps, ClaimsKept
       DEF SkipPage, CommitFencedOut, CommitBlocked, FailPage, FailPageThrows, Crash
  <2>4. CASE CommitThrows(w)
    BY <2>4, FailsKeeps, ClaimsKept DEF CommitThrows, Busy, BusyPc
  <2>5. CASE RenewPage(w)
    BY <2>5, SameKeeps, ClaimsKept DEF RenewPage
  <2>6. CASE RenewFails(w)
    <3>1. /\ Become(w, [worker[w] EXCEPT !.renewFailed = TRUE])
          /\ Busy(w)
          /\ UNCHANGED <<page, cursor, epoch>>
      BY <2>6 DEF RenewFails, Busy, BusyPc
    <3>2. worker[w] \in Collecting \cup Committing
      BY <2>6, WorkerFields DEF RenewFails, WorkerState, Idle, Loaded, Failing
    <3>3. LET s == [worker[w] EXCEPT !.renewFailed = TRUE]
          IN  /\ s.partition = worker[w].partition
              /\ s.page = worker[w].page
              /\ s.epoch = worker[w].epoch
              /\ s.cursor = worker[w].cursor
      BY <3>2 DEF Collecting, Committing
    <3>4. KeepsClaims
      BY <3>1, <3>3, BecomeKeeps
    <3>5. QED
      BY <3>1, <3>4, ClaimsKept
  <2>7. ASSUME NEW d \in outbox, TakeJob(w, d) PROVE ClaimsInv'
    <3>1. KeepsClaims
      BY <2>7, SameKeeps, BecomeKeeps DEF TakeJob, BusyPc
    <3>2. QED
      BY <2>7, <3>1, ClaimsKept DEF TakeJob
  <2>8. QED
    BY <1>4, <2>1, <2>2, <2>3, <2>4, <2>5, <2>6, <2>7 DEF Execute, Returns
<1>5. CASE UNCHANGED vars
  BY <1>5, SameKeeps, ClaimsKept DEF vars
<1>6. QED
  BY <1>1, <1>2, <1>3, <1>4, <1>5 DEF Next

LEMMA ClaimsCorrect == Spec => [](TypeOK /\ ClaimsInv)
<1>1. Init => TypeOK /\ ClaimsInv
  BY TypeInit, ClaimsInit
<1>2. TypeOK /\ ClaimsInv /\ [Next]_vars => (TypeOK /\ ClaimsInv)'
  BY TypeNext, ClaimsNext
<1>3. QED
  BY <1>1, <1>2, PTL DEF Spec

(***************************************************************************)
(* Of all executors that claimed a page and have not yet let go of it, at  *)
(* most one gets past fencePage: leases may expire and clocks lag behind.  *)
(***************************************************************************)
THEOREM OneHolder == Spec => []SingleHolder
<1>1. ClaimsInv => SingleHolder
  BY DEF ClaimsInv, SingleHolder, Holds, Matches, Busy, BusyPc
<1>2. QED
  BY <1>1, ClaimsCorrect, PTL

LEMMA ContentNext ==
    TypeOK /\ ClaimsInv /\ ContentMatchesCursor /\ [Next]_vars => ContentMatchesCursor'
<1> SUFFICES ASSUME TypeOK, ClaimsInv, ContentMatchesCursor, [Next]_vars
             PROVE  ContentMatchesCursor'
  OBVIOUS
<1> USE DEF databaseVars
<1>1. ASSUME UNCHANGED checkpoints PROVE ContentMatchesCursor'
  BY <1>1 DEF ContentMatchesCursor
<1>2. ASSUME NEW w \in Workers, CommitPage(w) PROVE ContentMatchesCursor'
  <2>1. Busy(w) /\ worker[w].page = page[worker[w].partition]
    BY <1>2 DEF CommitPage, FencePasses, Matches, Busy, BusyPc
  <2>2. worker[w].cursor = cursor[worker[w].partition]
    BY <2>1 DEF ClaimsInv, ClaimKnows
  <2>3. checkpoints' = checkpoints \cup {CheckpointOf(worker[w])}
    BY <1>2 DEF CommitPage
  <2>4. QED
    BY <2>2, <2>3 DEF ContentMatchesCursor, CheckpointOf
<1>3. CASE Operate \/ Dispatch \/ TimePasses
  BY <1>1, <1>3
     DEF Operate, RegisterTarget, SetTargetEnabled, PlanPartition, ResumePartition,
         Dispatch, ClaimDeliveries, Enqueue, EnqueueFails, LoseJob,
         TimePasses, NotBeforePasses, DeliveryLeaseExpires, DuePasses, LeaseExpires
<1>4. ASSUME NEW w \in Workers, Execute(w), ~CommitPage(w) PROVE UNCHANGED checkpoints
  BY <1>4
     DEF Execute, Returns, Collects, TakeJob, RenewPage, RenewFails, Crash, ClaimPage,
         SkipPage, CollectPage, CollectThrows, CommitFencedOut, CommitBlocked,
         CommitThrows, FailPage, FailPageThrows
<1>5. CASE UNCHANGED vars
  BY <1>1, <1>5 DEF vars
<1>6. QED
  BY <1>1, <1>2, <1>3, <1>4, <1>5 DEF Next

(***************************************************************************)
(* The items of a page were fetched from the cursor its checkpoint starts  *)
(* at: commitPage takes nothing from a worker that read an older cursor.   *)
(***************************************************************************)
THEOREM ContentFollowsCursor == Spec => []ContentMatchesCursor
<1>1. Init => ContentMatchesCursor
  BY DEF Init, ContentMatchesCursor
<1>2. QED
  BY <1>1, ContentNext, ClaimsCorrect, PTL DEF Spec

(***************************************************************************)
(* Runs.  A partition that is running has the run of its latest claim      *)
(* running, so that a verdict is only ever given to a run without one.     *)
(***************************************************************************)
RunsInv ==
    /\ NoOrphanRun
    /\ \A p \in Partitions : pstate[p] = "running" =>
           epoch[p] # 0 /\ runs[p][epoch[p]] = "running"

VerdictsStay ==
    \A p \in Partitions : \A e \in 1 .. epoch[p] :
        runs[p][e] # "running" => runs'[p][e] = runs[p][e]

LEMMA RunsKept ==
    ASSUME TypeOK, RunsInv, UNCHANGED <<runs, epoch>>,
           \A p \in Partitions : pstate'[p] = "running" => pstate[p] = "running"
    PROVE  RunsInv' /\ VerdictsStay
BY DEF RunsInv, NoOrphanRun, VerdictsStay

LEMMA RunsClaim ==
    ASSUME TypeOK, RunsInv, NEW w \in Workers, ClaimPage(w)
    PROVE  RunsInv' /\ VerdictsStay
<1> DEFINE p == worker[w].partition
           rs == EndAbandoned(runs[p])
<1>1. p \in Partitions
  BY WorkerFields DEF ClaimPage
<1>2. /\ epoch' = [epoch EXCEPT ![p] = epoch[p] + 1]
      /\ runs' = [runs EXCEPT ![p] = Append(rs, "running")]
      /\ pstate' = [pstate EXCEPT ![p] = "running"]
  BY DEF ClaimPage
<1>3. runs[p] \in Seq(RunStatus) /\ Len(runs[p]) = epoch[p] /\ epoch[p] \in Nat
  BY <1>1 DEF TypeOK
<1>4. /\ rs \in Seq(RunStatus)
      /\ Len(rs) = epoch[p]
      /\ \A e \in 1 .. epoch[p] :
            rs[e] = IF e = epoch[p] /\ runs[p][e] = "running" THEN "failed" ELSE runs[p][e]
  <2>1. CASE epoch[p] = 0
    BY <1>3, <2>1, EmptySeq DEF EndAbandoned
  <2>2. CASE epoch[p] # 0
    <3>1. runs[p] # << >> /\ epoch[p] \in 1 .. Len(runs[p])
      BY <1>3, <2>2, EmptySeq
    <3>2. rs = IF runs[p][epoch[p]] = "running"
               THEN [runs[p] EXCEPT ![epoch[p]] = "failed"] ELSE runs[p]
      BY <1>3, <3>1 DEF EndAbandoned
    <3>3. CASE runs[p][epoch[p]] = "running"
      <4>1. rs \in Seq(RunStatus) /\ Len(rs) = Len(runs[p])
        BY <1>3, <3>1, <3>2, <3>3, ExceptSeq DEF RunStatus
      <4>2. \A e \in 1 .. epoch[p] : rs[e] = IF e = epoch[p] THEN "failed" ELSE runs[p][e]
        BY <1>3, <3>1, <3>2, <3>3, ExceptSeq DEF RunStatus
      <4>3. QED
        BY <1>3, <3>3, <4>1, <4>2
    <3>4. CASE runs[p][epoch[p]] # "running"
      BY <1>3, <3>2, <3>4
    <3>5. QED
      BY <3>3, <3>4
  <2>3. QED
    BY <2>1, <2>2
<1>5. /\ epoch'[p] = epoch[p] + 1
      /\ runs'[p][epoch'[p]] = "running"
      /\ \A e \in 1 .. epoch[p] : runs'[p][e] = rs[e]
  <2>1. runs'[p] = Append(rs, "running") /\ epoch'[p] = epoch[p] + 1
    BY <1>1, <1>2 DEF TypeOK
  <2>2. QED
    BY <1>3, <1>4, <2>1, AppendProperties DEF RunStatus
<1>6. \A q \in Partitions \ {p} :
          runs'[q] = runs[q] /\ epoch'[q] = epoch[q] /\ pstate'[q] = pstate[q]
  BY <1>1, <1>2 DEF TypeOK
<1>7. NoOrphanRun'
  <2>1. ASSUME NEW e \in 1 .. epoch'[p], runs'[p][e] = "running" PROVE e = epoch'[p]
    <3>1. CASE e = epoch[p] + 1
      BY <1>5, <3>1
    <3>2. CASE e \in 1 .. epoch[p]
      BY <1>1, <1>4, <1>5, <2>1, <3>2 DEF RunsInv, NoOrphanRun
    <3>3. QED
      BY <1>3, <1>5, <3>1, <3>2
  <2>2. QED
    BY <1>6, <2>1 DEF RunsInv, NoOrphanRun
<1>8. VerdictsStay
  BY <1>4, <1>5, <1>6 DEF VerdictsStay
<1>9. QED
  BY <1>3, <1>5, <1>6, <1>7, <1>8 DEF RunsInv

\* commitPage and failPage give their verdict to the latest run only.
LEMMA RunsVerdict ==
    ASSUME TypeOK, RunsInv, NEW w \in Workers, Busy(w), FencePasses(worker[w]),
           NEW verdict \in {"succeeded", "failed"},
           UNCHANGED epoch,
           runs' = [runs EXCEPT ![worker[w].partition][worker[w].epoch] = verdict],
           NEW state, state # "running",
           pstate' = [pstate EXCEPT ![worker[w].partition] = state]
    PROVE  RunsInv' /\ VerdictsStay
<1> DEFINE p == worker[w].partition
<1>1. p \in Partitions /\ epoch[p] \in Nat
  BY WorkerFields DEF Busy, BusyPc, TypeOK
<1>2. /\ worker[w].epoch = epoch[p]
      /\ pstate[p] = "running" /\ epoch[p] # 0 /\ runs[p][epoch[p]] = "running"
  BY <1>1 DEF FencePasses, Matches, RunsInv
<1>3. \A q \in Partitions : \A e \in 1 .. epoch[q] :
          runs'[q][e] = IF q = p /\ e = epoch[p] THEN verdict ELSE runs[q][e]
  BY <1>1, <1>2 DEF TypeOK
<1>4. pstate'[p] # "running" /\ \A q \in Partitions \ {p} : pstate'[q] = pstate[q]
  BY <1>1 DEF TypeOK
<1>5. NoOrphanRun'
  BY <1>3 DEF RunsInv, NoOrphanRun
<1>6. VerdictsStay
  BY <1>2, <1>3 DEF VerdictsStay
<1>7. ASSUME NEW q \in Partitions, pstate'[q] = "running"
      PROVE  epoch'[q] # 0 /\ runs'[q][epoch'[q]] = "running"
  <2>1. q # p /\ pstate[q] = "running"
    BY <1>4, <1>7
  <2>2. epoch[q] # 0 /\ runs[q][epoch[q]] = "running" /\ epoch[q] \in 1 .. epoch[q]
    BY <2>1 DEF RunsInv, TypeOK
  <2>3. QED
    BY <1>3, <2>1, <2>2
<1>8. QED
  BY <1>5, <1>6, <1>7 DEF RunsInv

LEMMA RunsNext == TypeOK /\ RunsInv /\ [Next]_vars => RunsInv' /\ VerdictsStay
<1> SUFFICES ASSUME TypeOK, RunsInv, [Next]_vars PROVE RunsInv' /\ VerdictsStay
  OBVIOUS
<1> USE DEF databaseVars, leaseVars, runVars
<1>1. ASSUME UNCHANGED <<runs, epoch, pstate>> PROVE RunsInv' /\ VerdictsStay
  BY <1>1, RunsKept
<1>2. CASE Operate
  <2>1. ASSUME NEW p \in Partitions, PlanPartition(p) \/ ResumePartition(p)
        PROVE  /\ UNCHANGED <<runs, epoch>>
               /\ \A q \in Partitions : pstate'[q] = "running" => pstate[q] = "running"
    BY <2>1 DEF PlanPartition, ResumePartition, TypeOK
  <2>2. QED
    BY <1>1, <1>2, <2>1, RunsKept DEF Operate, RegisterTarget, SetTargetEnabled
<1>3. CASE Dispatch \/ TimePasses
  BY <1>1, <1>3
     DEF Dispatch, ClaimDeliveries, Enqueue, EnqueueFails, LoseJob,
         TimePasses, NotBeforePasses, DeliveryLeaseExpires, DuePasses, LeaseExpires
<1>4. ASSUME NEW w \in Workers, Execute(w) PROVE RunsInv' /\ VerdictsStay
  <2>1. CASE ClaimPage(w)
    BY <2>1, RunsClaim
  <2>2. CASE CommitPage(w)
    <3>1. /\ Busy(w) /\ FencePasses(worker[w]) /\ UNCHANGED epoch
          /\ runs' = [runs EXCEPT ![worker[w].partition][worker[w].epoch] = "succeeded"]
          /\ pstate' = [pstate EXCEPT ![worker[w].partition] = NextState(worker[w].result)]
      BY <2>2 DEF CommitPage, Busy, BusyPc
    <3>2. worker[w].result \in PageResult
      BY <2>2, WorkerFields DEF CommitPage
    <3>3. NextState(worker[w].result) # "running"
      BY <3>2 DEF NextState, PageResult, Disposition
    <3>4. QED
      BY <3>1, <3>3, RunsVerdict
  <2>3. CASE FailPage(w)
    <3> DEFINE state == IF worker[w].retry THEN "deferred" ELSE "failed"
    <3>1. /\ Busy(w) /\ FencePasses(worker[w]) /\ UNCHANGED epoch
          /\ runs' = [runs EXCEPT ![worker[w].partition][worker[w].epoch] = "failed"]
          /\ pstate' = [pstate EXCEPT ![worker[w].partition] = state]
      BY <2>3 DEF FailPage, Busy, BusyPc
    <3>2. state # "running"
      OBVIOUS
    <3> HIDE DEF state
    <3>3. QED
      BY <3>1, <3>2, RunsVerdict
  <2>4. CASE \/ SkipPage(w) \/ Collects(w) \/ CommitFencedOut(w) \/ CommitBlocked(w)
             \/ CommitThrows(w) \/ FailPageThrows(w) \/ RenewPage(w) \/ RenewFails(w)
             \/ Crash(w) \/ \E d \in outbox : TakeJob(w, d)
    BY <1>1, <2>4
       DEF SkipPage, Collects, CollectPage, CollectThrows, CommitFencedOut,
           CommitBlocked, CommitThrows, FailPageThrows, RenewPage, RenewFails, Crash,
           TakeJob
  <2>5. QED
    BY <1>4, <2>1, <2>2, <2>3, <2>4 DEF Execute, Returns
<1>5. CASE UNCHANGED vars
  BY <1>1, <1>5 DEF vars
<1>6. QED
  BY <1>2, <1>3, <1>4, <1>5 DEF Next

LEMMA RunsCorrect == Spec => [](TypeOK /\ RunsInv)
<1>1. Init => TypeOK /\ RunsInv
  BY TypeInit DEF Init, RunsInv, NoOrphanRun
<1>2. TypeOK /\ RunsInv /\ [Next]_vars => (TypeOK /\ RunsInv)'
  BY TypeNext, RunsNext
<1>3. QED
  BY <1>1, <1>2, PTL DEF Spec

(***************************************************************************)
(* The claim that takes a page over ends the run it abandons.              *)
(***************************************************************************)
THEOREM RunsAreEnded == Spec => []NoOrphanRun
<1>1. RunsInv => NoOrphanRun
  BY DEF RunsInv
<1>2. QED
  BY <1>1, RunsCorrect, PTL

(***************************************************************************)
(* No step rewrites the verdict on a run: commitPage, failPage and the     *)
(* claim that ends an abandoned run only touch the latest, running one.    *)
(***************************************************************************)
THEOREM VerdictsAreFinal == Spec => RunVerdictFinal
<1>1. TypeOK /\ RunsInv /\ [Next]_vars => [VerdictsStay]_vars
  BY RunsNext
<1>2. Spec => [][VerdictsStay]_vars
  BY <1>1, RunsCorrect, PTL DEF Spec
<1>3. QED
  BY <1>2 DEF RunVerdictFinal, VerdictsStay

(***************************************************************************)
(* The history: checkpoints form one chain per partition, runs and         *)
(* deliveries agree with them, what was acquired is staged, and a          *)
(* partition implements PageLog.                                           *)
(***************************************************************************)

\* A partition without a page begins without a cursor.
FreshStart == \A p \in Partitions : page[p] = 0 => cursor[p] = NoCursor

\* A checkpoint was written under an epoch that its partition has reached.
EpochsReached == \A c \in checkpoints : c.epoch \in 1 .. epoch[c.partition]

HistoryInv == HistoryIsWhole /\ FreshStart /\ EpochsReached

historyVars == <<pstate, page, cursor, epoch, runs, checkpoints, done>>

LEMMA CheckpointFields ==
    ASSUME TypeOK, NEW c \in checkpoints
    PROVE  /\ c.partition \in Partitions /\ c.page \in Nat /\ c.epoch \in Epoch
           /\ c.before \in Cursor /\ c.after \in Cursor
BY DEF TypeOK, Checkpoint

LEMMA HistoryKept ==
    ASSUME HistoryInv, UNCHANGED historyVars
    PROVE  HistoryInv'
BY DEF HistoryInv, HistoryIsWhole, CheckpointChain, SucceededRunsCommitted, DoneIsSettled,
       FreshStart, EpochsReached, historyVars, Current

LEMMA HistoryInit == Init => HistoryInv
BY DEF Init, HistoryInv, HistoryIsWhole, CheckpointChain, SucceededRunsCommitted,
       DoneIsSettled, FreshStart, EpochsReached

(***************************************************************************)
(* Steps that write no checkpoint: the chain stays where pages, cursors    *)
(* and checkpoints stay.                                                   *)
(***************************************************************************)
LEMMA ChainKept ==
    ASSUME HistoryInv, UNCHANGED <<checkpoints, page, cursor>>
    PROVE  CheckpointChain' /\ FreshStart'
BY DEF HistoryInv, HistoryIsWhole, CheckpointChain, FreshStart

LEMMA HistoryPlan ==
    ASSUME TypeOK, HistoryInv, NEW p \in Partitions, PlanPartition(p)
    PROVE  HistoryInv'
<1>1. /\ UNCHANGED <<page, cursor, epoch, runs, checkpoints, done>>
      /\ pstate' = [pstate EXCEPT ![p] = IF pstate[p] = "absent" THEN "pending" ELSE pstate[p]]
  BY DEF PlanPartition, runVars
<1>2. \A q \in Partitions : pstate[q] = "failed" => pstate'[q] = "failed"
  BY <1>1 DEF TypeOK
<1>3. DoneIsSettled'
  BY <1>1, <1>2 DEF TypeOK, Delivery, HistoryInv, HistoryIsWhole, DoneIsSettled, Current
<1>4. SucceededRunsCommitted' /\ EpochsReached'
  BY <1>1 DEF HistoryInv, HistoryIsWhole, SucceededRunsCommitted, EpochsReached
<1>5. QED
  BY <1>1, <1>3, <1>4, ChainKept DEF HistoryInv, HistoryIsWhole

LEMMA HistoryResume ==
    ASSUME TypeOK, HistoryInv, NEW p \in Partitions, ResumePartition(p)
    PROVE  HistoryInv'
<1>1. /\ UNCHANGED <<page, cursor, epoch, runs, checkpoints>>
      /\ pstate' = [pstate EXCEPT ![p] = "pending"]
      /\ done' = done \ {Current(p)}
  BY DEF ResumePartition, Reopen, runVars
<1>2. DoneIsSettled'
  BY <1>1 DEF TypeOK, Delivery, HistoryInv, HistoryIsWhole, DoneIsSettled, Current
<1>3. SucceededRunsCommitted' /\ EpochsReached'
  BY <1>1 DEF HistoryInv, HistoryIsWhole, SucceededRunsCommitted, EpochsReached
<1>4. QED
  BY <1>1, <1>2, <1>3, ChainKept DEF HistoryInv, HistoryIsWhole

\* The runs after a claim: that of the last claim may have been ended.
LEMMA EndedRuns ==
    ASSUME TypeOK, NEW p \in Partitions,
           runs' = [runs EXCEPT ![p] = Append(EndAbandoned(runs[p]), "running")]
    PROVE  /\ \A e \in 1 .. epoch[p] :
                  runs'[p][e] = "succeeded" <=> runs[p][e] = "succeeded"
           /\ runs'[p][epoch[p] + 1] = "running"
<1> DEFINE rs == EndAbandoned(runs[p])
<1>1. runs[p] \in Seq(RunStatus) /\ Len(runs[p]) = epoch[p] /\ epoch[p] \in Nat
  BY DEF TypeOK
<1>2. /\ rs \in Seq(RunStatus) /\ Len(rs) = epoch[p]
      /\ \A e \in 1 .. epoch[p] : rs[e] = "succeeded" <=> runs[p][e] = "succeeded"
  <2>1. CASE epoch[p] = 0
    BY <1>1, <2>1, EmptySeq DEF EndAbandoned
  <2>2. CASE epoch[p] # 0 /\ runs[p][epoch[p]] = "running"
    <3>1. rs = [runs[p] EXCEPT ![epoch[p]] = "failed"] /\ epoch[p] \in 1 .. Len(runs[p])
      BY <1>1, <2>2, EmptySeq DEF EndAbandoned
    <3>2. QED
      BY <1>1, <2>2, <3>1, ExceptSeq DEF RunStatus
  <2>3. CASE epoch[p] # 0 /\ runs[p][epoch[p]] # "running"
    BY <1>1, <2>3 DEF EndAbandoned
  <2>4. QED
    BY <2>1, <2>2, <2>3
<1>3. runs'[p] = Append(rs, "running")
  BY DEF TypeOK
<1>4. QED
  BY <1>1, <1>2, <1>3, AppendProperties DEF RunStatus

\* The claim appends a running run and may end an abandoned one: neither is a
\* success, and no checkpoint has the new epoch.
LEMMA HistoryClaim ==
    ASSUME TypeOK, RunsInv, HistoryInv, NEW w \in Workers, ClaimPage(w)
    PROVE  HistoryInv'
<1> DEFINE p == worker[w].partition
           rs == EndAbandoned(runs[p])
<1>1. p \in Partitions
  BY WorkerFields DEF ClaimPage
<1>2. /\ UNCHANGED <<page, cursor, checkpoints, done>>
      /\ epoch' = [epoch EXCEPT ![p] = epoch[p] + 1]
      /\ runs' = [runs EXCEPT ![p] = Append(rs, "running")]
      /\ pstate' = [pstate EXCEPT ![p] = "running"]
  BY DEF ClaimPage, outboxVars
<1>3. pstate[p] \in Open /\ epoch[p] \in Nat
  BY <1>1 DEF ClaimPage, Claimable, TypeOK
<1>4. /\ epoch'[p] = epoch[p] + 1
      /\ \A q \in Partitions \ {p} : epoch'[q] = epoch[q] /\ runs'[q] = runs[q]
  BY <1>1, <1>2 DEF TypeOK
<1>5. \A e \in 1 .. epoch[p] : runs'[p][e] = "succeeded" <=> runs[p][e] = "succeeded"
  BY <1>1, <1>2, <1>3, EndedRuns
<1>6. runs'[p][epoch[p] + 1] = "running"
  BY <1>1, <1>2, <1>3, EndedRuns
<1>7. EpochsReached'
  <2>1. ASSUME NEW c \in checkpoints PROVE c.epoch \in 1 .. epoch'[c.partition]
    <3>1. c.epoch \in 1 .. epoch[c.partition] /\ c.partition \in Partitions
      BY CheckpointFields DEF HistoryInv, EpochsReached
    <3>2. CASE c.partition = p
      BY <1>3, <1>4, <3>1, <3>2
    <3>3. CASE c.partition # p
      BY <1>4, <3>1, <3>3
    <3>4. QED
      BY <3>2, <3>3
  <2>2. QED
    BY <1>2, <2>1 DEF EpochsReached
<1>8. SucceededRunsCommitted'
  <2>1. ASSUME NEW e \in 1 .. epoch'[p]
        PROVE  runs'[p][e] = "succeeded" <=>
                   \E c \in checkpoints : c.partition = p /\ c.epoch = e
    <3>1. CASE e = epoch[p] + 1
      BY <1>1, <1>3, <1>6, <3>1 DEF HistoryInv, EpochsReached
    <3>2. CASE e \in 1 .. epoch[p]
      BY <1>1, <1>5, <3>2 DEF HistoryInv, HistoryIsWhole, SucceededRunsCommitted
    <3>3. QED
      BY <1>3, <1>4, <3>1, <3>2
  <2>2. ASSUME NEW q \in Partitions \ {p}, NEW e \in 1 .. epoch'[q]
        PROVE  runs'[q][e] = "succeeded" <=>
                   \E c \in checkpoints : c.partition = q /\ c.epoch = e
    BY <1>4, <2>2 DEF HistoryInv, HistoryIsWhole, SucceededRunsCommitted
  <2>3. \A q \in Partitions : \A e \in 1 .. epoch'[q] :
            runs'[q][e] = "succeeded" <=>
                \E c \in checkpoints : c.partition = q /\ c.epoch = e
    BY <2>1, <2>2
  <2>4. QED
    BY <1>2, <2>3 DEF SucceededRunsCommitted
<1>9. DoneIsSettled'
  BY <1>1, <1>2, <1>3
     DEF TypeOK, Delivery, HistoryInv, HistoryIsWhole, DoneIsSettled, Current, Open
<1>10. QED
  BY <1>2, <1>7, <1>8, <1>9, ChainKept DEF HistoryInv, HistoryIsWhole

\* failPage gives its verdict to a run without one, hence without a checkpoint.
LEMMA HistoryFail ==
    ASSUME TypeOK, RunsInv, HistoryInv, NEW w \in Workers, FailPage(w)
    PROVE  HistoryInv'
<1> DEFINE p == worker[w].partition
<1>1. p \in Partitions /\ epoch[p] \in Nat /\ worker[w].retry \in BOOLEAN
  BY WorkerFields DEF FailPage, BusyPc, TypeOK
<1>2. /\ worker[w].epoch = epoch[p] /\ pstate[p] = "running"
      /\ epoch[p] \in 1 .. epoch[p] /\ runs[p][epoch[p]] = "running"
  BY <1>1 DEF FailPage, FencePasses, Matches, RunsInv
<1>3. /\ UNCHANGED <<page, cursor, epoch, checkpoints>>
      /\ runs' = [runs EXCEPT ![p][epoch[p]] = "failed"]
      /\ pstate' = [pstate EXCEPT ![p] = IF worker[w].retry THEN "deferred" ELSE "failed"]
      /\ done' = Settle(p, worker[w].retry)
  BY <1>2 DEF FailPage
<1>4. \A q \in Partitions : \A e \in 1 .. epoch[q] :
          runs'[q][e] = "succeeded" <=> runs[q][e] = "succeeded"
  BY <1>1, <1>2, <1>3 DEF TypeOK
<1>5. SucceededRunsCommitted' /\ EpochsReached'
  BY <1>3, <1>4 DEF HistoryInv, HistoryIsWhole, SucceededRunsCommitted, EpochsReached
<1>6. DoneIsSettled'
  <2>1. /\ \A q \in Partitions : Current(q)' = Current(q)
        /\ \A q \in Partitions : pstate[q] = "failed" => pstate'[q] = "failed"
        /\ \A d \in done : d[1] \in Partitions
    BY <1>2, <1>3 DEF TypeOK, Current, Delivery
  <2>2. CASE worker[w].retry
    BY <1>3, <2>1, <2>2 DEF Settle, HistoryInv, HistoryIsWhole, DoneIsSettled
  <2>3. CASE ~worker[w].retry
    <3>1. pstate'[p] = "failed" /\ Current(p)[1] = p /\ done' \subseteq done \cup {Current(p)}
      BY <1>1, <1>3, <2>3 DEF TypeOK, Settle, Current
    <3>2. QED
      BY <1>1, <1>3, <2>1, <3>1 DEF HistoryInv, HistoryIsWhole, DoneIsSettled
  <2>4. QED
    BY <2>2, <2>3
<1>7. QED
  BY <1>3, <1>5, <1>6, ChainKept DEF HistoryInv, HistoryIsWhole

(***************************************************************************)
(* The commit: a checkpoint for the page where the partition is, from the  *)
(* cursor where it is, under the running run.                              *)
(***************************************************************************)
LEMMA CommitFacts ==
    ASSUME TypeOK, RunsInv, ClaimsInv, NEW w \in Workers, CommitPage(w)
    PROVE  LET c == worker[w]
               p == c.partition
               new == CheckpointOf(c)
           IN  /\ p \in Partitions /\ page[p] \in Nat /\ epoch[p] \in Nat
               /\ pstate[p] = "running" /\ c.epoch = epoch[p] /\ c.cursor = cursor[p]
               /\ epoch[p] \in 1 .. epoch[p] /\ runs[p][epoch[p]] = "running"
               /\ c.result \in PageResult
               /\ page' = [page EXCEPT ![p] = page[p] + 1]
               /\ cursor' = [cursor EXCEPT ![p] = c.result.next]
               /\ pstate' = [pstate EXCEPT ![p] = NextState(c.result)]
               /\ runs' = [runs EXCEPT ![p][epoch[p]] = "succeeded"]
               /\ checkpoints' = checkpoints \cup {new}
               /\ done' = done \cup ({Current(p)} \cap outbox)
               /\ epoch' = epoch
               /\ new = [partition |-> p, page |-> page[p], epoch |-> epoch[p],
                         before |-> cursor[p], after |-> c.result.next,
                         disposition |-> c.result.disposition, content |-> cursor[p]]
<1> DEFINE c == worker[w]
           p == c.partition
<1>1. p \in Partitions /\ c.result \in PageResult /\ Busy(w)
  BY WorkerFields DEF CommitPage, Busy, BusyPc
<1>2. pstate[p] = "running" /\ c.epoch = epoch[p] /\ c.page = page[p]
  BY DEF CommitPage, FencePasses, Matches
<1>3. c.cursor = cursor[p]
  BY <1>1, <1>2 DEF ClaimsInv, ClaimKnows
<1>4. /\ page[p] \in Nat /\ epoch[p] \in Nat /\ epoch[p] \in 1 .. epoch[p]
      /\ runs[p][epoch[p]] = "running"
  BY <1>1, <1>2 DEF TypeOK, RunsInv
<1>5. QED
  BY <1>1, <1>2, <1>3, <1>4 DEF CommitPage, NextCursor, CheckpointOf

LEMMA ChainCommit ==
    ASSUME TypeOK, RunsInv, ClaimsInv, HistoryInv, NEW w \in Workers, CommitPage(w)
    PROVE  CheckpointChain' /\ FreshStart'
<1> DEFINE p == worker[w].partition
           new == CheckpointOf(worker[w])
<1>0. /\ page' = [page EXCEPT ![p] = page[p] + 1]
      /\ cursor' = [cursor EXCEPT ![p] = new.after]
      /\ page \in [Partitions -> Nat] /\ cursor \in [Partitions -> Cursor]
      /\ p \in Partitions /\ checkpoints' = checkpoints \cup {new}
      /\ new.partition = p /\ new.page = page[p] /\ new.before = cursor[p]
  BY CommitFacts DEF TypeOK, CheckpointOf
<1>1. /\ p \in Partitions /\ page[p] \in Nat
      /\ \A q \in Partitions : page'[q] = IF q = p THEN page[p] + 1 ELSE page[q]
      /\ \A q \in Partitions : cursor'[q] = IF q = p THEN new.after ELSE cursor[q]
      /\ checkpoints' = checkpoints \cup {new}
      /\ new.partition = p /\ new.page = page[p] /\ new.before = cursor[p]
  BY <1>0
<1>2. \A c \in checkpoints :
          /\ c.partition \in Partitions /\ c.page \in Nat /\ page[c.partition] \in Nat
          /\ c.page < page[c.partition]
          /\ c.page + 1 = page[c.partition] => c.after = cursor[c.partition]
  BY CheckpointFields DEF TypeOK, HistoryInv, HistoryIsWhole, CheckpointChain
<1> HIDE DEF new, p
<1>3. \A c \in checkpoints' : c.page < page'[c.partition]
  BY <1>1, <1>2
<1>4. \A c, d \in checkpoints' : c.partition = d.partition /\ c.page = d.page => c = d
  BY <1>1, <1>2 DEF HistoryInv, HistoryIsWhole, CheckpointChain
<1>5. ASSUME NEW q \in Partitions, NEW n \in 0 .. page'[q] - 1
      PROVE  \E c \in checkpoints' : c.partition = q /\ c.page = n
  <2>1. CASE q = p /\ n = page[p]
    BY <1>1, <2>1
  <2>2. CASE ~(q = p /\ n = page[p])
    <3>1. page[q] \in Nat /\ n \in 0 .. page[q] - 1
      BY <1>1, <2>2 DEF TypeOK
    <3>2. QED
      BY <1>1, <3>1 DEF HistoryInv, HistoryIsWhole, CheckpointChain
  <2>3. QED
    BY <2>1, <2>2
<1>6. \A c \in checkpoints' :
          /\ c.page = 0 => c.before = NoCursor
          /\ c.page + 1 = page'[c.partition] => c.after = cursor'[c.partition]
  BY <1>1, <1>2 DEF HistoryInv, HistoryIsWhole, CheckpointChain, FreshStart
<1>7. \A c, d \in checkpoints' :
          c.partition = d.partition /\ d.page = c.page + 1 => d.before = c.after
  <2>1. ASSUME NEW c \in checkpoints, c.partition = p, new.page = c.page + 1
        PROVE  new.before = c.after
    BY <1>1, <1>2, <2>1
  <2>2. ASSUME NEW d \in checkpoints', d.partition = p
        PROVE  d.page # new.page + 1
    BY <1>1, <1>2, <2>2
  <2>3. QED
    BY <1>1, <2>1, <2>2 DEF HistoryInv, HistoryIsWhole, CheckpointChain
<1>8. FreshStart'
  BY <1>1 DEF HistoryInv, FreshStart
<1>9. QED
  BY <1>3, <1>4, <1>5, <1>6, <1>7, <1>8 DEF CheckpointChain

LEMMA HistoryCommit ==
    ASSUME TypeOK, RunsInv, ClaimsInv, HistoryInv, NEW w \in Workers, CommitPage(w)
    PROVE  HistoryInv'
<1> DEFINE p == worker[w].partition
           new == CheckpointOf(worker[w])
<1>0. /\ page' = [page EXCEPT ![p] = page[p] + 1]
      /\ pstate' = [pstate EXCEPT ![p] = NextState(worker[w].result)]
      /\ runs' = [runs EXCEPT ![p][epoch[p]] = "succeeded"]
      /\ p \in Partitions /\ epoch[p] \in 1 .. epoch[p]
      /\ pstate[p] = "running" /\ runs[p][epoch[p]] = "running"
      /\ checkpoints' = checkpoints \cup {new}
      /\ done' = done \cup ({Current(p)} \cap outbox)
      /\ epoch' = epoch
      /\ new.partition = p /\ new.page = page[p] /\ new.epoch = epoch[p]
  BY CommitFacts DEF CheckpointOf
<1>types. /\ page \in [Partitions -> Nat] /\ pstate \in [Partitions -> States]
      /\ runs \in [Partitions -> Seq(RunStatus)]
      /\ \A q \in Partitions : epoch[q] \in Nat /\ Len(runs[q]) = epoch[q]
  BY DEF TypeOK
<1>1. /\ p \in Partitions /\ page[p] \in Nat /\ epoch[p] \in 1 .. epoch[p]
      /\ pstate[p] = "running" /\ runs[p][epoch[p]] = "running"
      /\ \A q \in Partitions \ {p} : /\ page'[q] = page[q] /\ pstate'[q] = pstate[q]
      /\ checkpoints' = checkpoints \cup {new}
      /\ done' = done \cup ({Current(p)} \cap outbox)
      /\ epoch' = epoch
      /\ new.partition = p /\ new.page = page[p] /\ new.epoch = epoch[p]
  BY <1>0, <1>types
<1>2. \A q \in Partitions : \A e \in 1 .. epoch[q] :
          runs'[q][e] = IF q = p /\ e = epoch[p] THEN "succeeded" ELSE runs[q][e]
  BY <1>0, <1>types
<1> HIDE DEF new, p
<1>3. EpochsReached'
  BY <1>1 DEF HistoryInv, EpochsReached
<1>4. SucceededRunsCommitted'
  BY <1>1, <1>2 DEF HistoryInv, HistoryIsWhole, SucceededRunsCommitted
<1>5. DoneIsSettled'
  <2>1. ASSUME NEW d \in done' \ done
        PROVE  \E c \in checkpoints' : <<c.partition, c.page>> = d
    BY <1>1, <2>1 DEF Current
  <2>2. ASSUME NEW d \in done, pstate[d[1]] = "failed", d = Current(d[1])
        PROVE  pstate'[d[1]] = "failed" /\ d = Current(d[1])'
    BY <1>1, <2>2 DEF TypeOK, Delivery, Current
  <2>3. QED
    BY <1>1, <2>1, <2>2 DEF HistoryInv, HistoryIsWhole, DoneIsSettled
<1>6. QED
  BY <1>3, <1>4, <1>5, ChainCommit DEF HistoryInv, HistoryIsWhole

LEMMA HistoryNext ==
    TypeOK /\ RunsInv /\ ClaimsInv /\ HistoryInv /\ [Next]_vars => HistoryInv'
<1> SUFFICES ASSUME TypeOK, RunsInv, ClaimsInv, HistoryInv, [Next]_vars PROVE HistoryInv'
  OBVIOUS
<1> USE DEF databaseVars, leaseVars, runVars, outboxVars, historyVars
<1>1. CASE Operate
  BY <1>1, HistoryPlan, HistoryResume, HistoryKept DEF Operate, RegisterTarget, SetTargetEnabled
<1>2. CASE Dispatch
  BY <1>2, HistoryKept DEF Dispatch, ClaimDeliveries, Enqueue, EnqueueFails, LoseJob
<1>3. CASE TimePasses
  BY <1>3, HistoryKept
     DEF TimePasses, NotBeforePasses, DeliveryLeaseExpires, DuePasses, LeaseExpires
<1>4. ASSUME NEW w \in Workers, Execute(w) PROVE HistoryInv'
  <2>1. CASE ClaimPage(w) \/ CommitPage(w) \/ FailPage(w)
    BY <2>1, HistoryClaim, HistoryCommit, HistoryFail
  <2>2. CASE Collects(w)
    BY <2>2, HistoryKept DEF Collects, CollectPage, CollectThrows
  <2>3. CASE SkipPage(w) \/ CommitFencedOut(w) \/ CommitBlocked(w) \/ CommitThrows(w)
             \/ FailPageThrows(w)
    BY <2>3, HistoryKept
       DEF SkipPage, CommitFencedOut, CommitBlocked, CommitThrows, FailPageThrows
  <2>4. CASE RenewPage(w) \/ RenewFails(w) \/ Crash(w) \/ \E d \in outbox : TakeJob(w, d)
    BY <2>4, HistoryKept DEF RenewPage, RenewFails, Crash, TakeJob
  <2>5. QED
    BY <1>4, <2>1, <2>2, <2>3, <2>4 DEF Execute, Returns
<1>5. CASE UNCHANGED vars
  BY <1>5, HistoryKept DEF vars
<1>6. QED
  BY <1>1, <1>2, <1>3, <1>4, <1>5 DEF Next

LEMMA HistoryCorrect == Spec => []HistoryInv
<1>1. QED
  BY HistoryInit, HistoryNext, RunsCorrect, ClaimsCorrect, PTL DEF Spec

(***************************************************************************)
(* Checkpoints, runs, deliveries and the partition tell one history: one   *)
(* checkpoint per page without a gap, each from the cursor where the one   *)
(* before it ended; a run that succeeded left one; a completed delivery    *)
(* has one, or its partition waits for the operator.                       *)
(***************************************************************************)
THEOREM HistoryStaysWhole == Spec => []HistoryIsWhole
<1>1. HistoryInv => HistoryIsWhole
  BY DEF HistoryInv
<1>2. QED
  BY <1>1, HistoryCorrect, PTL

(***************************************************************************)
(* A commit writes raw rows, memberships and deliveries of the same items, *)
(* also where the raw row was there before: nothing acquired is left       *)
(* without its normalization.                                              *)
(***************************************************************************)
THEOREM AcquiredStaysStaged == Spec => []AcquiredIsStaged
<1>1. Init => AcquiredIsStaged
  BY DEF Init, AcquiredIsStaged
<1>2. AcquiredIsStaged /\ [Next]_vars => AcquiredIsStaged'
  <2> SUFFICES ASSUME AcquiredIsStaged, [Next]_vars PROVE AcquiredIsStaged'
    OBVIOUS
  <2> USE DEF databaseVars, itemVars
  <2>1. ASSUME UNCHANGED itemVars PROVE AcquiredIsStaged'
    BY <2>1 DEF AcquiredIsStaged
  <2>2. ASSUME NEW w \in Workers, CommitPage(w) PROVE AcquiredIsStaged'
    <3>1. \E p, items : /\ raw' = raw \cup items /\ normalize' = normalize \cup items
                        /\ acquired' = acquired \cup ({p} \X items)
      BY <2>2 DEF CommitPage, Stages
    <3>2. QED
      BY <3>1 DEF AcquiredIsStaged
  <2>3. CASE Operate \/ Dispatch \/ TimePasses
    BY <2>1, <2>3
       DEF Operate, RegisterTarget, SetTargetEnabled, PlanPartition, ResumePartition,
           Dispatch, ClaimDeliveries, Enqueue, EnqueueFails, LoseJob,
           TimePasses, NotBeforePasses, DeliveryLeaseExpires, DuePasses, LeaseExpires
  <2>4. ASSUME NEW w \in Workers, Execute(w), ~CommitPage(w) PROVE UNCHANGED itemVars
    BY <2>4
       DEF Execute, Returns, Collects, TakeJob, RenewPage, RenewFails, Crash, ClaimPage,
           SkipPage, CollectPage, CollectThrows, CommitFencedOut, CommitBlocked,
           CommitThrows, FailPage, FailPageThrows
  <2>5. CASE UNCHANGED vars
    BY <2>1, <2>5 DEF vars
  <2>6. QED
    BY <2>1, <2>2, <2>3, <2>4, <2>5 DEF Next, databaseVars
<1>3. QED
  BY <1>1, <1>2, PTL DEF Spec

(***************************************************************************)
(* PageLog.  The page of a partition names its checkpoint, which no later  *)
(* step replaces; the cursor of a partition is the end of its log.         *)
(***************************************************************************)
Find(S, p, n) == CHOOSE c \in S : c.partition = p /\ c.page = n

LEMMA OnlyOne ==
    ASSUME NEW S, NEW c \in S, NEW p, NEW n, c.partition = p, c.page = n,
           \A d \in S : d.partition = p /\ d.page = n => d = c
    PROVE  Find(S, p, n) = c
BY DEF Find

LEMMA CheckpointFound ==
    ASSUME TypeOK, HistoryInv, NEW p \in Partitions, NEW n \in 0 .. page[p] - 1
    PROVE  /\ CheckpointAt(p, n) \in checkpoints
           /\ CheckpointAt(p, n).partition = p /\ CheckpointAt(p, n).page = n
BY DEF HistoryInv, HistoryIsWhole, CheckpointChain, CheckpointAt

Entry == [from : Cursor, fetched : Cursor, to : Cursor]

LEMMA FunctionIsSeq ==
    ASSUME NEW S, NEW n \in Nat, NEW f \in [1 .. n -> S]
    PROVE  f \in Seq(S) /\ Len(f) = n
OBVIOUS

LogIsTyped ==
    \A p \in Partitions :
        /\ LogOf[p] \in Seq(Entry)
        /\ Len(LogOf[p]) = page[p]
        /\ \A n \in 1 .. page[p] : LogOf[p][n] = PageEntry(CheckpointAt(p, n - 1))

LEMMA LogTyped == TypeOK /\ HistoryInv => LogIsTyped
<1> SUFFICES ASSUME TypeOK, HistoryInv, NEW p \in Partitions
             PROVE  /\ LogOf[p] \in Seq(Entry)
                    /\ Len(LogOf[p]) = page[p]
                    /\ \A n \in 1 .. page[p] : LogOf[p][n] = PageEntry(CheckpointAt(p, n - 1))
  BY DEF LogIsTyped
<1>1. page[p] \in Nat
  BY DEF TypeOK
<1>2. \A n \in 1 .. page[p] :
          PageEntry(CheckpointAt(p, n - 1)) \in Entry
  <2>1. ASSUME NEW n \in 1 .. page[p]
        PROVE  CheckpointAt(p, n - 1) \in Checkpoint
    <3>1. n - 1 \in 0 .. page[p] - 1
      BY <1>1
    <3>2. QED
      BY <3>1, CheckpointFound DEF TypeOK
  <2>2. QED
    BY <2>1 DEF PageEntry, Checkpoint, Entry
<1>3. LogOf[p] = [n \in 1 .. page[p] |-> PageEntry(CheckpointAt(p, n - 1))]
  BY DEF LogOf
<1>4. LogOf[p] \in [1 .. page[p] -> Entry]
  BY <1>2, <1>3
<1>5. QED
  BY <1>1, <1>3, <1>4, FunctionIsSeq

LEMMA LogTypedNext == TypeOK' /\ HistoryInv' => LogIsTyped'
BY LogTyped, PTL

LEMMA LogEnds ==
    ASSUME TypeOK, HistoryInv, NEW p \in Partitions
    PROVE  Log!End(p) = cursor[p]
<1>1. page[p] \in Nat
  BY DEF TypeOK
<1>2. CASE page[p] = 0
  BY <1>2, LogTyped DEF LogIsTyped, Log!End, HistoryInv, FreshStart
<1>3. CASE page[p] # 0
  <2>1. page[p] - 1 \in 0 .. page[p] - 1 /\ page[p] \in 1 .. page[p]
    BY <1>1, <1>3
  <2>2. CheckpointAt(p, page[p] - 1).after = cursor[p]
    BY <1>1, <2>1, CheckpointFound DEF HistoryInv, HistoryIsWhole, CheckpointChain
  <2>3. LogOf[p][page[p]] = PageEntry(CheckpointAt(p, page[p] - 1)) /\ Len(LogOf[p]) = page[p]
    BY <2>1, LogTyped DEF LogIsTyped
  <2>4. LogOf[p] # << >>
    BY <1>3, LogTyped DEF LogIsTyped
  <2>5. QED
    BY <2>2, <2>3, <2>4 DEF Log!End, PageEntry
<1>4. QED
  BY <1>2, <1>3

LEMMA LogKept ==
    ASSUME UNCHANGED <<page, checkpoints>>
    PROVE  UNCHANGED LogOf
BY DEF LogOf, CheckpointAt

LEMMA LogCommits ==
    ASSUME TypeOK, RunsInv, ClaimsInv, HistoryInv, HistoryInv', TypeOK',
           NEW w \in Workers, CommitPage(w), NEW p, p = worker[w].partition
    PROVE  LogOf' = [LogOf EXCEPT ![p] =
               Append(@, [from |-> Log!End(p), fetched |-> Log!End(p),
                          to |-> worker[w].result.next])]
<1> DEFINE new == CheckpointOf(worker[w])
           e == [from |-> Log!End(p), fetched |-> Log!End(p), to |-> worker[w].result.next]
<1>1. /\ p \in Partitions /\ page[p] \in Nat
      /\ page' = [page EXCEPT ![p] = page[p] + 1]
      /\ checkpoints' = checkpoints \cup {new}
      /\ new.partition = p /\ new.page = page[p]
      /\ new.before = cursor[p] /\ new.content = cursor[p]
      /\ new.after = worker[w].result.next /\ worker[w].result.next \in Cursor
      /\ cursor[p] \in Cursor
  BY CommitFacts DEF CheckpointOf, PageResult, TypeOK
<1>2. page'[p] = page[p] + 1 /\ \A q \in Partitions \ {p} : page'[q] = page[q]
  BY <1>1 DEF TypeOK
<1>3. \A c, d \in checkpoints' : c.partition = d.partition /\ c.page = d.page => c = d
  BY DEF HistoryInv, HistoryIsWhole, CheckpointChain
<1>4. ASSUME NEW q \in Partitions, NEW n \in 0 .. page[q] - 1
      PROVE  CheckpointAt(q, n)' = CheckpointAt(q, n)
  <2> DEFINE c == CheckpointAt(q, n)
  <2>1. c \in checkpoints' /\ c.partition = q /\ c.page = n
    BY <1>1, CheckpointFound
  <2> HIDE DEF c
  <2>2. Find(checkpoints', q, n) = c
    BY <1>3, <2>1, OnlyOne
  <2>3. QED
    BY <2>2 DEF CheckpointAt, Find, c
<1>5. ASSUME NEW n, n = page[p] PROVE CheckpointAt(p, n)' = new
  <2> HIDE DEF new
  <2>1. /\ new \in checkpoints' /\ new.partition = p /\ new.page = n
        /\ \A d \in checkpoints' : d.partition = p /\ d.page = n => d = new
    BY <1>1, <1>3, <1>5
  <2>2. Find(checkpoints', p, n) = new
    BY <2>1, OnlyOne
  <2>3. QED
    BY <2>2 DEF CheckpointAt, Find
<1>6. e = PageEntry(new) /\ e \in Entry
  BY <1>1, LogEnds DEF PageEntry, Entry
<1>7. LogOf'[p] = Append(LogOf[p], e)
  <2> HIDE DEF e
  <2>1. /\ page'[p] \in Nat
        /\ LogOf'[p] \in Seq(Entry) /\ Len(LogOf'[p]) = page'[p]
        /\ \A n \in 1 .. page'[p] : LogOf'[p][n] = PageEntry(CheckpointAt(p, n - 1)')
    BY <1>1, <1>2, LogTypedNext DEF LogIsTyped
  <2>2. \A n \in 1 .. page[p] : LogOf'[p][n] = LogOf[p][n]
    <3>1. ASSUME NEW n \in 1 .. page[p]
          PROVE  n - 1 \in 0 .. page[p] - 1 /\ n \in 1 .. page'[p]
      BY <1>1, <1>2
    <3>2. \A n \in 1 .. page[p] : LogOf[p][n] = PageEntry(CheckpointAt(p, n - 1))
      BY <1>1, LogTyped DEF LogIsTyped
    <3>3. QED
      BY <1>1, <1>4, <2>1, <3>1, <3>2
  <2>3. LogOf'[p][page[p] + 1] = e
    <3>1. page[p] + 1 \in 1 .. page'[p] /\ (page[p] + 1) - 1 = page[p]
      BY <1>1, <1>2
    <3>2. QED
      BY <1>5, <1>6, <2>1, <3>1 DEF PageEntry
  <2>4. LogOf[p] \in Seq(Entry) /\ Len(LogOf[p]) = page[p]
    BY <1>1, LogTyped DEF LogIsTyped
  <2>5. /\ Append(LogOf[p], e) \in Seq(Entry)
        /\ Len(Append(LogOf[p], e)) = page[p] + 1
        /\ \A n \in 1 .. page[p] : Append(LogOf[p], e)[n] = LogOf[p][n]
        /\ Append(LogOf[p], e)[page[p] + 1] = e
    BY <1>6, <2>4, AppendProperties
  <2>6. \A n \in 1 .. page[p] + 1 : LogOf'[p][n] = Append(LogOf[p], e)[n]
    BY <1>1, <2>2, <2>3, <2>5
  <2>7. PICK s, u : s = LogOf'[p] /\ u = Append(LogOf[p], e)
    OBVIOUS
  <2>8. s \in Seq(Entry) /\ u \in Seq(Entry) /\ Len(s) = Len(u)
    BY <1>1, <1>2, <2>1, <2>5, <2>7
  <2>9. \A n \in 1 .. Len(s) : s[n] = u[n]
    BY <1>1, <1>2, <2>1, <2>6, <2>7
  <2>10. s = u
    BY <2>8, <2>9, SeqEqual
  <2>11. QED
    BY <2>7, <2>10
<1>8. ASSUME NEW q \in Partitions, q # p PROVE LogOf'[q] = LogOf[q]
  <2>1. page'[q] = page[q] /\ page[q] \in Nat
    BY <1>2, <1>8 DEF TypeOK
  <2>2. ASSUME NEW n \in 1 .. page[q]
        PROVE  PageEntry(CheckpointAt(q, n - 1)') = PageEntry(CheckpointAt(q, n - 1))
    <3>1. n - 1 \in 0 .. page[q] - 1
      BY <2>1
    <3>2. QED
      BY <1>4, <3>1
  <2>3. LogOf'[q] = [n \in 1 .. page[q] |-> PageEntry(CheckpointAt(q, n - 1)')]
    BY <2>1 DEF LogOf, PageEntry
  <2>4. QED
    BY <2>2, <2>3 DEF LogOf
<1>9. LogOf' = [LogOf EXCEPT ![p] = Append(LogOf[p], e)]
  <2> HIDE DEF e
  <2>1. LogOf = [q \in Partitions |-> LogOf[q]] /\ LogOf' = [q \in Partitions |-> LogOf'[q]]
    BY DEF LogOf
  <2>2. QED
    BY <1>1, <1>7, <1>8, <2>1
<1>10. QED
  BY <1>9

(***************************************************************************)
(* Steps: a commit appends a page, an unretried failure gives up, a resume *)
(* takes up what was given up, and every other step changes nothing of it. *)
(***************************************************************************)
LEMMA StatusFacts ==
    ASSUME TypeOK, NEW p \in Partitions
    PROVE  /\ StatusOf[p] = "open" <=> pstate[p] \in Open \cup {"absent"}
           /\ StatusOf[p] = "failed" <=> pstate[p] = "failed"
           /\ StatusOf[p] = "closed" <=> pstate[p] \in Closed
BY DEF TypeOK, StatusOf, States, Open, Closed

LEMMA InitLogs == Init => Log!Init
BY DEF Init, Log!Init, LogOf, StatusOf, Closed

LEMMA CommitLogs ==
    ASSUME TypeOK, RunsInv, ClaimsInv, HistoryInv, TypeOK', HistoryInv',
           NEW w \in Workers, CommitPage(w)
    PROVE  Log!Next
<1>1. PICK p, r : p = worker[w].partition /\ r = worker[w].result
  OBVIOUS
<1>2. /\ p \in Partitions /\ r \in PageResult /\ pstate[p] = "running"
      /\ pstate' = [pstate EXCEPT ![p] = NextState(r)]
  BY <1>1, CommitFacts
<1>3. PICK last \in BOOLEAN : last <=> NextState(r) \in Closed
  OBVIOUS
<1>4. r.next \in Cursor /\ NextState(r) # "failed"
  BY <1>2 DEF PageResult, Disposition, NextState
<1>5. StatusOf[p] = "open"
  BY <1>2, StatusFacts DEF Open
<1>6. \A q \in Partitions : StatusOf'[q] =
          IF q = p THEN IF last THEN "closed" ELSE "open" ELSE StatusOf[q]
  BY <1>2, <1>3, <1>4 DEF TypeOK, StatusOf
<1>7. StatusOf' = [StatusOf EXCEPT ![p] = IF last THEN "closed" ELSE "open"]
  <2>1. /\ StatusOf = [q \in Partitions |-> StatusOf[q]]
        /\ StatusOf' = [q \in Partitions |-> StatusOf'[q]]
    BY DEF StatusOf
  <2>2. QED
    BY <1>2, <1>6, <2>1
<1>8. Log!AppendPage(p, r.next, last)
  BY <1>1, <1>5, <1>7, LogCommits DEF Log!AppendPage
<1>9. r.next \in Log!Cursor
  BY <1>4 DEF Log!Cursor, Cursor
<1>10. QED
  BY <1>2, <1>3, <1>8, <1>9 DEF Log!Next

LEMMA FailLogs ==
    ASSUME TypeOK, NEW w \in Workers, FailPage(w)
    PROVE  Log!Next \/ UNCHANGED Log!vars
<1>1. PICK p : p = worker[w].partition
  OBVIOUS
<1>2. p \in Partitions /\ pstate[p] = "running" /\ worker[w].retry \in BOOLEAN
  BY <1>1, WorkerFields DEF FailPage, FencePasses, Matches
<1>3. UNCHANGED LogOf
  BY LogKept DEF FailPage
<1>4. pstate' = [pstate EXCEPT ![p] = IF worker[w].retry THEN "deferred" ELSE "failed"]
  BY <1>1 DEF FailPage
<1>5. CASE worker[w].retry
  <2>1. UNCHANGED StatusOf
    BY <1>2, <1>4, <1>5 DEF TypeOK, StatusOf, Closed
  <2>2. QED
    BY <1>3, <2>1 DEF Log!vars
<1>6. CASE ~worker[w].retry
  <2>1. StatusOf' = [StatusOf EXCEPT ![p] = "failed"]
    BY <1>2, <1>4, <1>6 DEF TypeOK, StatusOf, Closed
  <2>2. StatusOf[p] = "open"
    BY <1>2, StatusFacts DEF Open
  <2>3. Log!GiveUp(p)
    BY <1>3, <2>1, <2>2 DEF Log!GiveUp
  <2>4. QED
    BY <1>2, <2>3 DEF Log!Next
<1>7. QED
  BY <1>5, <1>6

LEMMA ResumeLogs ==
    ASSUME TypeOK, NEW p \in Partitions, ResumePartition(p)
    PROVE  Log!Next \/ UNCHANGED Log!vars
<1>1. UNCHANGED LogOf
  BY LogKept DEF ResumePartition
<1>2. pstate[p] \in Open \cup {"failed"} /\ pstate' = [pstate EXCEPT ![p] = "pending"]
  BY DEF ResumePartition, Resumable
<1>3. CASE pstate[p] = "failed"
  <2>1. StatusOf' = [StatusOf EXCEPT ![p] = "open"] /\ StatusOf[p] = "failed"
    BY <1>2, <1>3 DEF TypeOK, StatusOf, Closed
  <2>2. Log!TakeUp(p)
    BY <1>1, <2>1 DEF Log!TakeUp
  <2>3. QED
    BY <2>2 DEF Log!Next
<1>4. CASE pstate[p] \in Open
  <2>1. UNCHANGED StatusOf
    BY <1>2, <1>4 DEF TypeOK, StatusOf, Closed, Open
  <2>2. QED
    BY <1>1, <2>1 DEF Log!vars
<1>5. QED
  BY <1>2, <1>3, <1>4

LEMMA StepLogs ==
    ASSUME TypeOK, RunsInv, ClaimsInv, HistoryInv, TypeOK', HistoryInv', [Next]_vars
    PROVE  Log!Next \/ UNCHANGED Log!vars
<1> USE DEF databaseVars, leaseVars
<1>1. ASSUME UNCHANGED <<page, checkpoints, pstate>> PROVE UNCHANGED Log!vars
  BY <1>1, LogKept DEF Log!vars, StatusOf
<1>2. ASSUME NEW p \in Partitions, PlanPartition(p) PROVE UNCHANGED Log!vars
  <2>1. UNCHANGED StatusOf
    BY <1>2 DEF PlanPartition, TypeOK, StatusOf, Closed
  <2>2. QED
    BY <1>2, <2>1, LogKept DEF PlanPartition, Log!vars
<1>3. ASSUME NEW w \in Workers, ClaimPage(w) PROVE UNCHANGED Log!vars
  <2>1. UNCHANGED StatusOf
    BY <1>3 DEF ClaimPage, Claimable, TypeOK, StatusOf, Closed, Open
  <2>2. QED
    BY <1>3, <2>1, LogKept DEF ClaimPage, Log!vars
<1>4. CASE Operate
  BY <1>1, <1>2, <1>4, ResumeLogs DEF Operate, RegisterTarget, SetTargetEnabled
<1>5. CASE Dispatch
  BY <1>1, <1>5 DEF Dispatch, ClaimDeliveries, Enqueue, EnqueueFails, LoseJob
<1>6. CASE TimePasses
  BY <1>1, <1>6 DEF TimePasses, NotBeforePasses, DeliveryLeaseExpires, DuePasses, LeaseExpires
<1>7. ASSUME NEW w \in Workers, Execute(w) PROVE Log!Next \/ UNCHANGED Log!vars
  <2>1. CASE ClaimPage(w) \/ CommitPage(w) \/ FailPage(w)
    BY <1>3, <2>1, CommitLogs, FailLogs
  <2>2. CASE Collects(w)
    BY <1>1, <2>2 DEF Collects, CollectPage, CollectThrows
  <2>3. CASE SkipPage(w) \/ CommitFencedOut(w) \/ CommitBlocked(w) \/ CommitThrows(w)
             \/ FailPageThrows(w)
    BY <1>1, <2>3 DEF SkipPage, CommitFencedOut, CommitBlocked, CommitThrows, FailPageThrows
  <2>4. CASE RenewPage(w) \/ RenewFails(w) \/ Crash(w) \/ \E d \in outbox : TakeJob(w, d)
    BY <1>1, <2>4 DEF RenewPage, RenewFails, Crash, TakeJob
  <2>5. QED
    BY <1>7, <2>1, <2>2, <2>3, <2>4 DEF Execute, Returns
<1>8. CASE UNCHANGED vars
  BY <1>1, <1>8 DEF vars
<1>9. QED
  BY <1>4, <1>5, <1>6, <1>7, <1>8 DEF Next

(***************************************************************************)
(* However workers, leases, deliveries and Redis interleave, a partition   *)
(* is the append-only log of PageLog: pages are appended at its end only,  *)
(* each fetched from where the one before it ended, none after the last.   *)
(***************************************************************************)
THEOREM PageLogRefined == Spec => ImplementsPageLog
<1>1. /\ TypeOK /\ RunsInv /\ ClaimsInv /\ HistoryInv
      /\ TypeOK' /\ HistoryInv' /\ [Next]_vars
      => [Log!Next]_(Log!vars)
  BY StepLogs
<1>2. QED
  BY InitLogs, TypeCorrect, RunsCorrect, ClaimsCorrect, HistoryCorrect, <1>1, PTL
     DEF Spec, ImplementsPageLog, Log!Spec
==============================================================================
