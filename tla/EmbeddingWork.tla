---------------------------- MODULE EmbeddingWork ----------------------------
(***************************************************************************)
(* Paid embedding of chunks: the durable work item of a chunk, the workers *)
(* that claim it, reserve budget, call the provider and record the         *)
(* outcome, and the ledger they share with the other lanes.                *)
(*                                                                         *)
(* An action is one transaction of createEmbeddingWorkRepository or of the *)
(* ledger, or one event of the provider call.  processChunk reads its      *)
(* clock once and passes that reading to every call, so that the lease     *)
(* checks of beginCall and completeWork always pass for the epoch they     *)
(* name: only another claim, with a clock of its own, sees a lease expire. *)
(***************************************************************************)
EXTENDS ProviderBudget

CONSTANTS
    Workers,   \* executors of embedding deliveries
    Chunks,    \* embedding work keys: chunk, input hash and profile
    NoAttempt, \* the null reservation id
    MaxEpoch   \* bound: claims of one work item

ASSUME WorkConstants ==
    /\ MaxEpoch \in Nat
    /\ Chunks \X (1 .. MaxEpoch) \subseteq Attempts \ Callers
    /\ NoAttempt \notin Attempts

VARIABLES
    work,         \* embedding_work_items.state
    epoch,        \* ... .lease_epoch
    lease,        \* ... .lease_until: null, after now, or not after now
    reservation,  \* ... .reservation_id
    rights,       \* checkWorkRights finds a row
    worker,       \* the processChunk that each executor runs
    sent,         \* history: attempts whose request reached the provider
    refused       \* history: attempts the provider refused for good

workVars == <<work, epoch, lease, reservation>>
vars == <<budgetVars, workVars, rights, worker, sent, refused>>

Terminal == {"completed", "outcome_unknown", "failed"}
WorkState == {"pending", "claimed", "calling"} \cup Terminal
BusyPc == {"claimed", "reserved", "sending", "waiting", "answered", "settled",
               "refused", "unclear", "marking", "holding", "releasing"}
Busy == [pc : BusyPc,
         chunk : Chunks, epoch : 1 .. MaxEpoch, day : Days, usage : Nat]

TypeOK ==
    /\ BudgetTypeOK
    /\ work \in [Chunks -> WorkState]
    /\ epoch \in [Chunks -> 0 .. MaxEpoch]
    /\ lease \in [Chunks -> {"none", "live", "expired"}]
    /\ reservation \in [Chunks -> Attempts \cup {NoAttempt}]
    /\ rights \in BOOLEAN
    /\ worker \in [Workers -> Busy \cup [pc : {"idle"}]]
    /\ sent \subseteq Attempts
    /\ refused \subseteq sent

\* `${work.id}:${work.epoch}`
AttemptOf(c) == <<c.chunk, c.epoch>>

Goes(w, pc)    == worker' = [worker EXCEPT ![w].pc = pc]
Finishes(w)    == worker' = [worker EXCEPT ![w] = [pc |-> "idle"]]
BudgetStays    == UNCHANGED <<approved, today, caller>>
HistoryStays   == UNCHANGED <<sent, refused>>

Init ==
    /\ BudgetInit
    /\ work = [k \in Chunks |-> "pending"]
    /\ epoch = [k \in Chunks |-> 0]
    /\ lease = [k \in Chunks |-> "none"]
    /\ reservation = [k \in Chunks |-> NoAttempt]
    /\ rights = TRUE
    /\ worker = [w \in Workers |-> [pc |-> "idle"]]
    /\ sent = {} /\ refused = {}

(***************************************************************************)
(* claimOrReadCompleted.  It changes nothing when the work is decided,     *)
(* when its lease is live or when the rights are missing.                  *)
(***************************************************************************)

\* Faulty variants: a call whose lease expired is claimed again; a claim
\* whose worker died is not.
ClaimableEvenCalling(k) == work[k] \in {"pending", "claimed", "calling"} /\ lease[k] # "live"

ClaimableOnce(k) == work[k] = "pending"

Claimable(k) == work[k] \in {"pending", "claimed"} /\ lease[k] # "live"

ClaimWork(w, k) ==
    /\ worker[w].pc = "idle"
    /\ rights
    /\ Claimable(k)
    /\ epoch[k] < MaxEpoch
    /\ work' = [work EXCEPT ![k] = "claimed"]
    /\ epoch' = [epoch EXCEPT ![k] = @ + 1]
    /\ lease' = [lease EXCEPT ![k] = "live"]
    /\ reservation' = [reservation EXCEPT ![k] = NoAttempt]
    /\ worker' = [worker EXCEPT ![w] = [pc |-> "claimed", chunk |-> k,
                     epoch |-> epoch[k] + 1, day |-> today, usage |-> 0]]
    /\ UNCHANGED <<budgetVars, rights, sent, refused>>

\* A call that outlived its lease is given up by the next claim.
GiveUpCall(k) ==
    /\ rights
    /\ work[k] = "calling" /\ lease[k] # "live"
    /\ work' = [work EXCEPT ![k] = "outcome_unknown"]
    /\ ledger' = Unknown(reservation[k])
    /\ UNCHANGED <<scopeVars, today, caller, faults, epoch, lease, reservation,
                   rights, worker, sent, refused>>

(***************************************************************************)
(* processChunk.                                                           *)
(***************************************************************************)
ReserveWork(w) ==
    /\ worker[w].pc = "claimed"
    /\ LET a == AttemptOf(worker[w])
       IN  IF Admits(a, worker[w].day)
           THEN ledger' = Reserved(a, worker[w].day) /\ Goes(w, "reserved")
           ELSE ledger' = ledger /\ Finishes(w)
    /\ UNCHANGED <<scopeVars, today, caller, faults, workVars, rights>>
    /\ HistoryStays

\* Faulty variant: the state of the reservation is not looked at.
MayBeginReleased(c) ==
    /\ work[c.chunk] = "claimed" /\ epoch[c.chunk] = c.epoch
    /\ approved /\ ~blocked /\ rights

MayBegin(c) ==
    /\ work[c.chunk] = "claimed" /\ epoch[c.chunk] = c.epoch
    /\ ledger[AttemptOf(c)].state = "reserved"
    /\ approved /\ ~blocked /\ rights

\* beginCall commits; if its acknowledgement is lost, the call is not made.
BeginCall(w) ==
    /\ worker[w].pc = "reserved"
    /\ MayBegin(worker[w])
    /\ work' = [work EXCEPT ![worker[w].chunk] = "calling"]
    /\ reservation' = [reservation EXCEPT ![worker[w].chunk] = AttemptOf(worker[w])]
    /\ \/ Goes(w, "sending") /\ NoFault
       \/ Goes(w, "releasing") /\ Fault
    /\ UNCHANGED <<scopeVars, today, ledger, caller, epoch, lease, rights>>
    /\ HistoryStays

BeginCallFails(w) ==
    /\ worker[w].pc = "reserved"
    /\ IF MayBegin(worker[w]) THEN Fault ELSE NoFault
    /\ Goes(w, "releasing")
    /\ UNCHANGED <<scopeVars, today, ledger, caller, workVars, rights>>
    /\ HistoryStays

SendCall(w) ==
    /\ worker[w].pc = "sending"
    /\ sent' = sent \cup {AttemptOf(worker[w])}
    /\ Goes(w, "waiting")
    /\ UNCHANGED <<budgetVars, workVars, rights, refused>>

\* The embedding returns with a valid vector and a usage within the maximum.
Answered(w, usage) ==
    /\ worker[w].pc = "waiting"
    /\ usage <= Units[AttemptOf(worker[w])]
    /\ worker' = [worker EXCEPT ![w].pc = "answered", ![w].usage = usage]
    /\ UNCHANGED <<budgetVars, workVars, rights, sent, refused>>

\* AiPortError that is not retryable: the provider refused the request.
Refused(w) ==
    /\ worker[w].pc = "waiting"
    /\ refused' = refused \cup {AttemptOf(worker[w])}
    /\ Goes(w, "refused")
    /\ UNCHANGED <<budgetVars, workVars, rights, sent>>

\* Any other error, and an answer without a valid vector or usage.
Unclear(w) ==
    /\ worker[w].pc = "waiting"
    /\ Goes(w, "unclear")
    /\ UNCHANGED <<budgetVars, workVars, rights, sent, refused>>

SettleWork(w) ==
    /\ worker[w].pc = "answered"
    /\ LET a == AttemptOf(worker[w])
           same == ledger[a].state = "settled" /\ ledger[a].actual = worker[w].usage
       IN  /\ Settle(a, worker[w].usage)
           /\ IF Settleable(a) \/ same THEN Goes(w, "settled") ELSE Finishes(w)
    /\ BudgetStays
    /\ UNCHANGED <<faults, workVars, rights>>
    /\ HistoryStays

\* Faulty variant: a call that was given up meanwhile is completed.
OwnsAnyState(c) == epoch[c.chunk] = c.epoch

\* The work is still this claim's call.
Owns(c) == work[c.chunk] = "calling" /\ epoch[c.chunk] = c.epoch

CompleteWork(w) ==
    /\ worker[w].pc = "settled"
    /\ Owns(worker[w]) /\ rights
    /\ work' = [work EXCEPT ![worker[w].chunk] = "completed"]
    /\ lease' = [lease EXCEPT ![worker[w].chunk] = "none"]
    /\ \/ Finishes(w) /\ NoFault
       \/ Goes(w, "marking") /\ Fault
    /\ UNCHANGED <<scopeVars, today, ledger, caller, epoch, reservation, rights>>
    /\ HistoryStays

CompleteWorkFails(w) ==
    /\ worker[w].pc = "settled"
    /\ IF Owns(worker[w]) /\ rights THEN Fault ELSE NoFault
    /\ Goes(w, "marking")
    /\ UNCHANGED <<scopeVars, today, ledger, caller, workVars, rights>>
    /\ HistoryStays

MarkOutcomeUnknown(w) ==
    /\ worker[w].pc \in {"marking", "unclear"}
    /\ LET k == worker[w].chunk
       IN  IF Owns(worker[w])
           THEN /\ work' = [work EXCEPT ![k] = "outcome_unknown"]
                /\ ledger' = Unknown(reservation[k])
           ELSE UNCHANGED <<work, ledger>>
    /\ IF worker[w].pc = "marking" THEN Finishes(w) ELSE Goes(w, "holding")
    /\ UNCHANGED <<scopeVars, today, caller, faults, epoch, lease, reservation, rights>>
    /\ HistoryStays

HoldUnknown(w) ==
    /\ worker[w].pc = "holding"
    /\ ledger' = Unknown(AttemptOf(worker[w]))
    /\ Finishes(w)
    /\ UNCHANGED <<scopeVars, today, caller, faults, workVars, rights>>
    /\ HistoryStays

MarkFailed(w) ==
    /\ worker[w].pc = "refused"
    /\ LET k == worker[w].chunk
       IN  IF Owns(worker[w])
           THEN /\ work' = [work EXCEPT ![k] = "failed"]
                /\ lease' = [lease EXCEPT ![k] = "none"]
           ELSE UNCHANGED <<work, lease>>
    /\ Goes(w, "releasing")
    /\ UNCHANGED <<budgetVars, epoch, reservation, rights>>
    /\ HistoryStays

\* Faulty variant: the work that the reservation pays for is not looked at.
UnsentUnlinked(a) == ledger[a].state = "reserved"

\* releaseUnsent refuses once a work item may have used the reservation.
Unsent(a) ==
    /\ ledger[a].state = "reserved"
    /\ \A k \in Chunks : reservation[k] = a =>
           work[k] \notin {"calling", "completed", "outcome_unknown"}

ReleaseWork(w) ==
    /\ worker[w].pc = "releasing"
    /\ ledger' = IF Unsent(AttemptOf(worker[w]))
                 THEN Released(AttemptOf(worker[w])) ELSE ledger
    /\ Finishes(w)
    /\ UNCHANGED <<scopeVars, today, caller, faults, workVars, rights>>
    /\ HistoryStays

\* A call that no catch covers throws, or the process dies.
Drop(w) ==
    /\ worker[w].pc # "idle"
    /\ Fault
    /\ Finishes(w)
    /\ UNCHANGED <<scopeVars, today, ledger, caller, workVars, rights>>
    /\ HistoryStays

(***************************************************************************)
(* The surroundings: leases, rights, the operator and the other lanes.     *)
(***************************************************************************)
Prepares(w, k) ==
    /\ worker[w].pc \in {"claimed", "reserved"}
    /\ worker[w].chunk = k /\ worker[w].epoch = epoch[k]

\* Thirty seconds pass: normal during a call, a fault before it.
LeaseExpires(k) ==
    /\ lease[k] = "live"
    /\ lease' = [lease EXCEPT ![k] = "expired"]
    /\ IF \E w \in Workers : Prepares(w, k) THEN Fault ELSE NoFault
    /\ UNCHANGED <<scopeVars, today, ledger, caller, work, epoch, reservation,
                   rights, worker, sent, refused>>

SetRights(on) ==
    /\ rights # on
    /\ Fault
    /\ rights' = on
    /\ UNCHANGED <<scopeVars, today, ledger, caller, workVars, worker, sent, refused>>

\* reconcile with not_executed, for an attempt of embedding work.
ReleaseUnsentWork(a) ==
    /\ a \notin Callers
    /\ Unsent(a)
    /\ Fault
    /\ ledger' = Released(a)
    /\ UNCHANGED <<scopeVars, today, caller, workVars, rights, worker, sent, refused>>

Process(w) ==
    \/ ReserveWork(w)
    \/ BeginCall(w) \/ BeginCallFails(w)
    \/ SendCall(w)
    \/ \E usage \in 0 .. MaxUsage : Answered(w, usage)
    \/ Refused(w) \/ Unclear(w)
    \/ SettleWork(w)
    \/ CompleteWork(w) \/ CompleteWorkFails(w)
    \/ MarkOutcomeUnknown(w) \/ HoldUnknown(w)
    \/ MarkFailed(w) \/ ReleaseWork(w)

Next ==
    \/ \E w \in Workers : Process(w) \/ Drop(w) \/ \E k \in Chunks : ClaimWork(w, k)
    \/ \E k \in Chunks : GiveUpCall(k) \/ LeaseExpires(k)
    \/ \E on \in BOOLEAN : SetRights(on)
    \/ \E a \in Attempts : ReleaseUnsentWork(a)
    \/ BudgetNext /\ UNCHANGED <<workVars, rights, worker, sent, refused>>

Spec == Init /\ [][Next]_vars

(* Deliveries of undecided chunks are claimed again and again, leases run  *)
(* out, and a call of processChunk returns or throws.                      *)
Fairness ==
    /\ \A k \in Chunks : WF_vars(LeaseExpires(k)) /\ WF_vars(GiveUpCall(k))
    /\ \A k \in Chunks : SF_vars(\E w \in Workers : ClaimWork(w, k))
    /\ \A w \in Workers : WF_vars(Process(w))

FairSpec == Spec /\ Fairness

(***************************************************************************)
(* Properties.                                                             *)
(***************************************************************************)

(* The provider is called at most once for a chunk and profile, however    *)
(* often its work is claimed, abandoned and claimed again.                 *)
AtMostOneCall == \A a, b \in sent : a[1] = b[1] => a = b

(* A call that the provider may charge keeps its place in the ledger: its  *)
(* reservation is never given back, neither by a worker nor by the         *)
(* operator, unless the provider refused the request.                      *)
SpendIsHeld ==
    \A a \in sent \ refused :
        ledger[a].state \in {"reserved", "settled", "outcome_unknown"}

(* Work and ledger agree on every call: one in progress is reserved or     *)
(* just settled, a completed one is settled, an unknown one is held or was *)
(* settled late.                                                           *)
WorkMatchesLedger ==
    \A k \in Chunks :
        /\ work[k] = "calling" =>
               ledger[reservation[k]].state \in {"reserved", "settled"}
        /\ work[k] = "completed" => ledger[reservation[k]].state = "settled"
        /\ work[k] = "outcome_unknown" =>
               ledger[reservation[k]].state \in {"outcome_unknown", "settled"}

(* A decided chunk stays as decided, and keeps the attempt it was decided  *)
(* with: a late answer changes the ledger only.                            *)
OutcomeIsFinal ==
    [][\A k \in Chunks : work[k] \in Terminal =>
          work'[k] = work[k] /\ reservation'[k] = reservation[k]]_vars

(* While rights, approval and budget last, every chunk gets its outcome:   *)
(* a claim whose worker died is claimed again and a call whose worker died *)
(* is given up.  (A chunk that used up the bound on claims is left out.)   *)
Decided ==
    <>[](rights /\ approved /\ ~blocked) =>
        \A k \in Chunks : <>(work[k] \in Terminal \/ epoch[k] = MaxEpoch)
==============================================================================
