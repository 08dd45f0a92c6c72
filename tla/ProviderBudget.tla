---------------------------- MODULE ProviderBudget ----------------------------
(***************************************************************************)
(* The ledger of paid provider calls: one budget scope, the reservations   *)
(* of its attempts, the callers that reserve before a chat or a query      *)
(* embedding and settle after it, and the operator who reconciles what     *)
(* they left behind.                                                       *)
(*                                                                         *)
(* Every method of createProviderBudgetRepository is one transaction that  *)
(* locks the scope row.  Units stand for money and tokens alike: both are  *)
(* summed and compared in the same way.                                    *)
(***************************************************************************)
EXTENDS Integers, FiniteSets, Functions

CONSTANTS
    Attempts,        \* attempt ids: each is reserved at most once
    Callers,         \* the attempts of chat and query embedding calls
    Lanes,           \* lanes of the scope
    LaneOf,          \* the lane an attempt reserves in
    Unchecked,       \* lanes whose reported usage is settled unchecked: chat
    Units,           \* the maximum an attempt reserves
    DailyCap,        \* provider_budget_scopes.max_daily_units
    LaneCap,         \* ... .lane_limits
    OutstandingCap,  \* ... .max_outstanding_units
    LastDay,         \* bound: the last UTC day
    MaxUsage,        \* bound: the largest usage a provider reports
    MaxFaults        \* bound: failures and operator actions

ASSUME BudgetConstants ==
    /\ Callers \subseteq Attempts
    /\ LaneOf \in [Attempts -> Lanes]
    /\ Unchecked \subseteq Lanes
    /\ Units \in [Attempts -> Nat]
    /\ LaneCap \in [Lanes -> Nat]
    /\ {DailyCap, OutstandingCap, LastDay, MaxUsage, MaxFaults} \subseteq Nat

VARIABLES
    approved,  \* provider_budget_scopes.approved
    blocked,   \* ... .blocked
    today,     \* the UTC day of the clock
    ledger,    \* provider_budget_reservations, by attempt
    caller,    \* what a call in memory has reached
    faults     \* failures and operator actions so far

scopeVars  == <<approved, blocked>>
budgetVars == <<scopeVars, today, ledger, caller, faults>>

Days   == 0 .. LastDay
Row    == [state : {"none", "reserved", "settled", "outcome_unknown", "released"},
           day : Days, actual : Nat]
Caller == [pc : {"idle", "reserving", "calling", "answered", "failed", "gone"},
           day : Days, usage : Nat]

BudgetTypeOK ==
    /\ approved \in BOOLEAN
    /\ blocked \in BOOLEAN
    /\ today \in Days
    /\ ledger \in [Attempts -> Row]
    /\ caller \in [Callers -> Caller]
    /\ faults \in 0 .. MaxFaults

Fault   == faults < MaxFaults /\ faults' = faults + 1
NoFault == UNCHANGED faults

(***************************************************************************)
(* The sums that reserve compares with the limits.                         *)
(***************************************************************************)
In(states) == {a \in Attempts : ledger[a].state \in states}

\* COALESCE(actual_units, units)
Amount(a) == IF ledger[a].state = "settled" THEN ledger[a].actual ELSE Units[a]

\* The reservations that count as outstanding, whatever day they are of.
Held(d) == In({"reserved", "outcome_unknown"})

OfDay(d) == {a \in In({"reserved", "settled", "outcome_unknown"}) : ledger[a].day = d}

OfLane(d, l) == {a \in OfDay(d) : LaneOf[a] = l}

Spent(S)   == SumFunctionOnSet([a \in Attempts |-> Amount(a)], S)
Exposed(S) == SumFunctionOnSet(Units, S)

\* Faulty variant: the lane's own limit is forgotten.
AdmitsAnyLane(a, d) ==
    /\ approved /\ ~blocked
    /\ Spent(OfDay(d)) + Units[a] <= DailyCap
    /\ Exposed(Held(d)) + Units[a] <= OutstandingCap

\* reserve on UTC day d; the day is that of a clock read before the call.
Admits(a, d) ==
    /\ approved /\ ~blocked
    /\ Spent(OfDay(d)) + Units[a] <= DailyCap
    /\ Exposed(Held(d)) + Units[a] <= OutstandingCap
    /\ Spent(OfLane(d, LaneOf[a])) + Units[a] <= LaneCap[LaneOf[a]]

\* Faulty variant: the bucket is that of the next day.
ReservedTomorrow(a, d) ==
    [ledger EXCEPT ![a] = [state |-> "reserved", day |-> d + 1, actual |-> 0]]

Reserved(a, d) ==
    [ledger EXCEPT ![a] = [state |-> "reserved", day |-> d, actual |-> 0]]

\* Faulty variants: a settled row is settled again; overuse goes unnoticed.
SettleableAgain(a) == ledger[a].state \in {"reserved", "outcome_unknown", "settled"}
OverusedNever(a, usage) == FALSE

\* settle changes the row once: later calls return or throw.
Settleable(a) == ledger[a].state \in {"reserved", "outcome_unknown"}

Overused(a, usage) == usage > Units[a]

Settle(a, usage) ==
    IF Settleable(a)
    THEN /\ ledger' = [ledger EXCEPT ![a].state = "settled", ![a].actual = usage]
         /\ blocked' = (blocked \/ Overused(a, usage))
    ELSE UNCHANGED <<ledger, blocked>>

\* holdUnknown, and the updates that embedding work makes of its reservation.
Unknown(a) ==
    IF ledger[a].state = "reserved"
    THEN [ledger EXCEPT ![a].state = "outcome_unknown"] ELSE ledger

Released(a) == [ledger EXCEPT ![a].state = "released"]

(***************************************************************************)
(* The scope and the clock.                                                *)
(***************************************************************************)
BudgetInit ==
    /\ approved = TRUE
    /\ blocked = FALSE
    /\ today = 0
    /\ ledger = [a \in Attempts |-> [state |-> "none", day |-> 0, actual |-> 0]]
    /\ caller = [c \in Callers |-> [pc |-> "idle", day |-> 0, usage |-> 0]]
    /\ faults = 0

\* configureScope rewrites the row: approval may go and come, blocked stays.
ConfigureScope(on) ==
    /\ approved # on
    /\ Fault
    /\ approved' = on
    /\ UNCHANGED <<blocked, today, ledger, caller>>

Midnight ==
    /\ today < LastDay
    /\ today' = today + 1
    /\ UNCHANGED <<scopeVars, ledger, caller, faults>>

(***************************************************************************)
(* executeChatWithBudget and executeQueryEmbeddingWithBudget.              *)
(***************************************************************************)
Moves(c, pc) == caller' = [caller EXCEPT ![c].pc = pc]

\* authorize, a read of the scope before the call; reserve looks again.
StartCall(c) ==
    /\ caller[c].pc = "idle"
    /\ approved /\ ~blocked
    /\ caller' = [caller EXCEPT ![c].pc = "reserving", ![c].day = today]
    /\ UNCHANGED <<scopeVars, today, ledger, faults>>

ReserveCall(c) ==
    /\ caller[c].pc = "reserving"
    /\ IF Admits(c, caller[c].day)
       THEN ledger' = Reserved(c, caller[c].day) /\ Moves(c, "calling")
       ELSE ledger' = ledger /\ Moves(c, "gone")
    /\ UNCHANGED <<scopeVars, today, faults>>

\* The provider answers; a chat answer may report more than was reserved.
CallAnswered(c, usage) ==
    /\ caller[c].pc = "calling"
    /\ usage > Units[c] => LaneOf[c] \in Unchecked
    /\ caller' = [caller EXCEPT ![c].pc = "answered", ![c].usage = usage]
    /\ UNCHANGED <<scopeVars, today, ledger, faults>>

\* The provider throws, or its answer is not usable.
CallFailed(c) ==
    /\ caller[c].pc = "calling"
    /\ Moves(c, "failed")
    /\ UNCHANGED <<scopeVars, today, ledger, faults>>

SettleCall(c) ==
    /\ caller[c].pc = "answered"
    /\ Settle(c, caller[c].usage)
    /\ Moves(c, "gone")
    /\ UNCHANGED <<approved, today, faults>>

HoldCall(c) ==
    /\ caller[c].pc = "failed"
    /\ ledger' = Unknown(c)
    /\ Moves(c, "gone")
    /\ UNCHANGED <<scopeVars, today, faults>>

\* The process dies or the database is away: the reservation stays behind.
DropCall(c) ==
    /\ caller[c].pc \in {"reserving", "calling", "answered", "failed"}
    /\ Fault
    /\ Moves(c, "gone")
    /\ \/ ledger' = ledger
       \/ /\ caller[c].pc = "reserving" /\ Admits(c, caller[c].day)
          /\ ledger' = Reserved(c, caller[c].day)
    /\ UNCHANGED <<scopeVars, today>>

(***************************************************************************)
(* POST /model-work/:id/reconcile.                                         *)
(***************************************************************************)
Reconcile(a, usage) ==
    /\ ledger[a].state # "none"
    /\ Fault
    /\ Settle(a, usage)
    /\ UNCHANGED <<approved, today, caller>>

\* outcome not_executed; the evidence excludes a call that is still running.
ReleaseUnsent(c) ==
    /\ ledger[c].state = "reserved"
    /\ caller[c].pc = "gone"
    /\ Fault
    /\ ledger' = Released(c)
    /\ UNCHANGED <<scopeVars, today, caller>>

CallSteps(c) ==
    \/ StartCall(c)
    \/ ReserveCall(c)
    \/ \E usage \in 0 .. MaxUsage : CallAnswered(c, usage)
    \/ CallFailed(c)
    \/ SettleCall(c)
    \/ HoldCall(c)
    \/ DropCall(c)
    \/ ReleaseUnsent(c)

BudgetNext ==
    \/ \E on \in BOOLEAN : ConfigureScope(on)
    \/ Midnight
    \/ \E c \in Callers : CallSteps(c)
    \/ \E a \in Attempts, usage \in 0 .. MaxUsage : Reconcile(a, usage)

BudgetSpec == BudgetInit /\ [][BudgetNext]_budgetVars

(***************************************************************************)
(* Properties.                                                             *)
(***************************************************************************)

(* What may still be charged never exceeds the outstanding limit: unknown  *)
(* outcomes of earlier days stay part of it until they are reconciled.     *)
OutstandingWithinCap ==
    Exposed(In({"reserved", "outcome_unknown"})) <= OutstandingCap

Overrun(S) ==
    SumFunctionOnSet([a \in Attempts |-> IF Amount(a) > Units[a]
                                         THEN Amount(a) - Units[a] ELSE 0], S)

(* A day, and a lane on a day, costs more than its limit only by what      *)
(* providers charged beyond the reserved maximum.                          *)
DailyWithinCap ==
    \A d \in Days :
        /\ Spent(OfDay(d)) <= DailyCap + Overrun(OfDay(d))
        /\ \A l \in Lanes : Spent(OfLane(d, l)) <= LaneCap[l] + Overrun(OfLane(d, l))

(* No interleaving of calls, midnights, crashes and operators breaks a     *)
(* limit of the scope.                                                     *)
CapsHold == OutstandingWithinCap /\ DailyWithinCap

(* Once a charge exceeded its reservation, the scope admits nothing more.  *)
OverrunBlocks == (\E a \in Attempts : Amount(a) > Units[a]) => blocked

(* The verdict on an attempt is final and stays in the bucket of its day,  *)
(* whichever of the caller and the operator comes first.                   *)
SettledOnce ==
    [][\A a \in Attempts :
          /\ ledger[a].state \in {"settled", "released"} => ledger'[a] = ledger[a]
          /\ ledger[a].state # "none" => ledger'[a].day = ledger[a].day]_budgetVars
==============================================================================
