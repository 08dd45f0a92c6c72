------------------------- MODULE EmbeddingWorkProofs -------------------------
(***************************************************************************)
(* What the ledger promises for any attempts, lanes, limits and days, and  *)
(* what EmbeddingWork does with it for any chunks, executors and bounds:   *)
(* no chunk is paid for twice, and work and ledger agree.                  *)
(***************************************************************************)
EXTENDS EmbeddingWork, DataLemmas

LEMMA BoundsAreNat ==
    /\ LastDay \in Nat /\ MaxUsage \in Nat /\ MaxFaults \in Nat
    /\ Callers \subseteq Attempts
    /\ Units \in [Attempts -> Nat]
BY BudgetConstants

(***************************************************************************)
(* Types.                                                                  *)
(***************************************************************************)
LedgerTyped == ledger \in [Attempts -> Row]
CallerTyped == caller \in [Callers -> Caller]

LEMMA FaultTyped ==
    ASSUME faults \in 0 .. MaxFaults, Fault PROVE faults' \in 0 .. MaxFaults
BY BoundsAreNat DEF Fault

LEMMA MovesTyped ==
    ASSUME CallerTyped, NEW c \in Callers, Moves(c, caller'[c].pc),
           caller'[c].pc \in {"calling", "answered", "failed", "gone"}
    PROVE  CallerTyped'
BY DEF CallerTyped, Moves, Caller

LEMMA SettleTyped ==
    ASSUME LedgerTyped, blocked \in BOOLEAN, NEW a \in Attempts, NEW usage \in Nat,
           Settle(a, usage)
    PROVE  LedgerTyped' /\ blocked' \in BOOLEAN
<1>1. CASE Settleable(a)
  <2>1. ledger' = [ledger EXCEPT ![a].state = "settled", ![a].actual = usage]
    BY <1>1 DEF Settle
  <2>2. [ledger[a] EXCEPT !.state = "settled", !.actual = usage] \in Row
    BY DEF LedgerTyped, Row
  <2>3. LedgerTyped'
    BY <2>1, <2>2 DEF LedgerTyped
  <2>4. blocked' \in BOOLEAN
    BY <1>1 DEF Settle
  <2>5. QED
    BY <2>3, <2>4
<1>2. CASE ~Settleable(a)
  BY <1>2 DEF Settle, LedgerTyped
<1>3. QED
  BY <1>1, <1>2

LEMMA LedgerUpdatesTyped ==
    ASSUME LedgerTyped, NEW a \in Attempts, NEW d \in Days
    PROVE  /\ Unknown(a) \in [Attempts -> Row]
           /\ Released(a) \in [Attempts -> Row]
           /\ Reserved(a, d) \in [Attempts -> Row]
BY DEF LedgerTyped, Row, Unknown, Released, Reserved

LEMMA BudgetTypeInit == BudgetInit => BudgetTypeOK
<1>1. 0 \in Days
  BY BoundsAreNat DEF Days
<1>2. [state |-> "none", day |-> 0, actual |-> 0] \in Row
  BY <1>1 DEF Row
<1>3. [pc |-> "idle", day |-> 0, usage |-> 0] \in Caller
  BY <1>1 DEF Caller
<1>4. 0 \in 0 .. MaxFaults
  BY BoundsAreNat
<1>5. QED
  BY <1>1, <1>2, <1>3, <1>4 DEF BudgetInit, BudgetTypeOK

LEMMA CallTyped ==
    ASSUME BudgetTypeOK, NEW c \in Callers, CallSteps(c) PROVE BudgetTypeOK'
<1> USE BoundsAreNat
<1>0. /\ LedgerTyped /\ CallerTyped /\ c \in Attempts
      /\ caller[c].day \in Days /\ caller[c].usage \in Nat
  BY DEF BudgetTypeOK, LedgerTyped, CallerTyped, Caller
<1>1. CASE StartCall(c)
  BY <1>0, <1>1 DEF StartCall, BudgetTypeOK, CallerTyped, Caller, scopeVars, Days
<1>2. CASE ReserveCall(c)
  <2>1. ledger' \in [Attempts -> Row]
    BY <1>0, <1>2, LedgerUpdatesTyped DEF ReserveCall, LedgerTyped
  <2>2. CallerTyped'
    BY <1>0, <1>2 DEF ReserveCall, Moves, CallerTyped, Caller
  <2>3. QED
    BY <1>2, <2>1, <2>2 DEF ReserveCall, BudgetTypeOK, CallerTyped, scopeVars
<1>3. ASSUME NEW usage \in 0 .. MaxUsage, CallAnswered(c, usage) PROVE BudgetTypeOK'
  <2>1. usage \in Nat
    OBVIOUS
  <2>2. CallerTyped'
    BY <1>0, <1>3, <2>1 DEF CallAnswered, CallerTyped, Caller
  <2>3. QED
    BY <1>3, <2>2 DEF CallAnswered, BudgetTypeOK, CallerTyped, scopeVars
<1>4. CASE CallFailed(c)
  BY <1>0, <1>4 DEF CallFailed, Moves, BudgetTypeOK, CallerTyped, Caller, scopeVars
<1>5. CASE SettleCall(c)
  <2>1. LedgerTyped' /\ blocked' \in BOOLEAN
    BY <1>0, <1>5, SettleTyped DEF SettleCall, BudgetTypeOK
  <2>2. CallerTyped'
    BY <1>0, <1>5 DEF SettleCall, Moves, CallerTyped, Caller
  <2>3. QED
    BY <1>5, <2>1, <2>2 DEF SettleCall, BudgetTypeOK, LedgerTyped, CallerTyped
<1>6. CASE HoldCall(c)
  <2>1. ledger' \in [Attempts -> Row]
    BY <1>0, <1>6, LedgerUpdatesTyped DEF HoldCall
  <2>2. CallerTyped'
    BY <1>0, <1>6 DEF HoldCall, Moves, CallerTyped, Caller
  <2>3. QED
    BY <1>6, <2>1, <2>2 DEF HoldCall, BudgetTypeOK, CallerTyped, scopeVars
<1>7. CASE DropCall(c)
  <2>1. ledger' \in [Attempts -> Row]
    BY <1>0, <1>7, LedgerUpdatesTyped DEF DropCall, LedgerTyped
  <2>2. CallerTyped'
    BY <1>0, <1>7 DEF DropCall, Moves, CallerTyped, Caller
  <2>3. faults' \in 0 .. MaxFaults
    BY <1>7, FaultTyped DEF DropCall, BudgetTypeOK
  <2>4. QED
    BY <1>7, <2>1, <2>2, <2>3 DEF DropCall, BudgetTypeOK, CallerTyped, scopeVars
<1>8. CASE ReleaseUnsent(c)
  <2>1. ledger' \in [Attempts -> Row]
    BY <1>0, <1>8, LedgerUpdatesTyped DEF ReleaseUnsent
  <2>2. faults' \in 0 .. MaxFaults
    BY <1>8, FaultTyped DEF ReleaseUnsent, BudgetTypeOK
  <2>3. QED
    BY <1>8, <2>1, <2>2 DEF ReleaseUnsent, BudgetTypeOK, scopeVars
<1>9. QED
  BY <1>1, <1>2, <1>3, <1>4, <1>5, <1>6, <1>7, <1>8 DEF CallSteps

LEMMA BudgetTypeNext == BudgetTypeOK /\ [BudgetNext]_budgetVars => BudgetTypeOK'
<1> SUFFICES ASSUME BudgetTypeOK, [BudgetNext]_budgetVars PROVE BudgetTypeOK'
  OBVIOUS
<1>1. ASSUME NEW on \in BOOLEAN, ConfigureScope(on) PROVE BudgetTypeOK'
  <2>1. faults' \in 0 .. MaxFaults
    BY <1>1, FaultTyped DEF ConfigureScope, BudgetTypeOK
  <2>2. QED
    BY <1>1, <2>1 DEF ConfigureScope, BudgetTypeOK
<1>2. CASE Midnight
  BY <1>2, BoundsAreNat DEF Midnight, BudgetTypeOK, scopeVars, Days
<1>3. ASSUME NEW c \in Callers, CallSteps(c) PROVE BudgetTypeOK'
  BY <1>3, CallTyped
<1>4. ASSUME NEW a \in Attempts, NEW usage \in 0 .. MaxUsage, Reconcile(a, usage)
      PROVE  BudgetTypeOK'
  <2>1. faults' \in 0 .. MaxFaults
    BY <1>4, FaultTyped DEF Reconcile, BudgetTypeOK
  <2>2. LedgerTyped' /\ blocked' \in BOOLEAN
    BY <1>4, SettleTyped, BoundsAreNat DEF Reconcile, BudgetTypeOK, LedgerTyped
  <2>3. QED
    BY <1>4, <2>1, <2>2 DEF Reconcile, BudgetTypeOK, LedgerTyped
<1>5. CASE UNCHANGED budgetVars
  BY <1>5 DEF budgetVars, scopeVars, BudgetTypeOK
<1>6. QED
  BY <1>1, <1>2, <1>3, <1>4, <1>5 DEF BudgetNext

\* The ledger, the scope and its callers keep their types.
THEOREM BudgetTypeCorrect == BudgetSpec => []BudgetTypeOK
<1>1. QED
  BY BudgetTypeInit, BudgetTypeNext, PTL DEF BudgetSpec

(***************************************************************************)
(* Verdicts.  An attempt is reserved only by the call it belongs to, so    *)
(* that a call that has not reserved yet has no row.                       *)
(***************************************************************************)
Unreserved ==
    \A c \in Callers :
        caller[c].pc \in {"idle", "reserving"} => ledger[c].state = "none"

\* What a step may do to a row that exists.
RowAdvances(a) ==
    \/ ledger'[a] = ledger[a]
    \/ /\ ledger[a].state \in {"reserved", "outcome_unknown"}
       /\ ledger'[a].state # "none"
       /\ ledger'[a].day = ledger[a].day

VerdictsStay ==
    \A a \in Attempts : ledger[a].state # "none" => RowAdvances(a)

LEMMA SettleAdvances ==
    ASSUME LedgerTyped, NEW a \in Attempts, NEW usage, Settle(a, usage)
    PROVE  /\ \A b \in Attempts : RowAdvances(b)
           /\ \A b \in Attempts : ledger[b].state = "none" => ledger'[b] = ledger[b]
BY DEF LedgerTyped, Row, Settle, Settleable, RowAdvances

LEMMA UpdatesAdvance ==
    ASSUME LedgerTyped, NEW a \in Attempts,
           \/ ledger' = ledger
           \/ ledger' = Unknown(a)
           \/ ledger' = Released(a) /\ ledger[a].state = "reserved"
    PROVE  /\ \A b \in Attempts : RowAdvances(b)
           /\ \A b \in Attempts : ledger[b].state = "none" => ledger'[b] = ledger[b]
BY DEF LedgerTyped, Row, Unknown, Released, RowAdvances

LEMMA ReserveAdvances ==
    ASSUME LedgerTyped, NEW a \in Attempts, NEW d \in Days,
           ledger[a].state = "none", ledger' = Reserved(a, d)
    PROVE  \A b \in Attempts : ledger[b].state # "none" \/ b # a => ledger'[b] = ledger[b]
BY DEF LedgerTyped, Row, Reserved

LEMMA CallVerdicts ==
    ASSUME BudgetTypeOK, Unreserved, NEW c \in Callers, CallSteps(c)
    PROVE  VerdictsStay /\ Unreserved'
<1>0. /\ LedgerTyped /\ CallerTyped /\ c \in Attempts /\ Callers \subseteq Attempts
      /\ caller[c].day \in Days
  BY BoundsAreNat DEF BudgetTypeOK, LedgerTyped, CallerTyped, Caller
<1>1. CASE StartCall(c)
  BY <1>0, <1>1 DEF StartCall, VerdictsStay, RowAdvances, Unreserved, CallerTyped
<1>2. ASSUME caller[c].pc = "reserving",
             \E pc \in {"calling", "gone"} : Moves(c, pc),
             ledger' = ledger \/ ledger' = Reserved(c, caller[c].day)
      PROVE  VerdictsStay /\ Unreserved'
  <2>1. \A b \in Attempts : ledger[b].state # "none" \/ b # c => ledger'[b] = ledger[b]
    BY <1>0, <1>2, ReserveAdvances DEF Unreserved
  <2>2. QED
    BY <1>0, <1>2, <2>1 DEF Moves, VerdictsStay, RowAdvances, Unreserved, CallerTyped
<1>3. ASSUME caller[c].pc \in {"calling", "answered", "failed"},
             caller'[c].pc \in {"answered", "failed", "gone"},
             \A b \in Callers : b # c => caller'[b] = caller[b],
             \A b \in Attempts : RowAdvances(b),
             \A b \in Attempts : ledger[b].state = "none" => ledger'[b] = ledger[b]
      PROVE  VerdictsStay /\ Unreserved'
  BY <1>0, <1>3 DEF VerdictsStay, Unreserved
<1>4. CASE ReserveCall(c)
  BY <1>2, <1>4 DEF ReserveCall
<1>5. CASE DropCall(c)
  <2>1. CASE caller[c].pc = "reserving"
    BY <1>2, <1>5, <2>1 DEF DropCall
  <2>2. CASE caller[c].pc # "reserving"
    <3>1. ledger' = ledger
      BY <1>5, <2>2 DEF DropCall
    <3>2. QED
      BY <1>0, <1>3, <1>5, <2>2, <3>1, UpdatesAdvance DEF DropCall, Moves, CallerTyped
  <2>3. QED
    BY <2>1, <2>2
<1>6. ASSUME NEW usage \in 0 .. MaxUsage, CallAnswered(c, usage)
      PROVE  VerdictsStay /\ Unreserved'
  BY <1>0, <1>3, <1>6, UpdatesAdvance DEF CallAnswered, CallerTyped
<1>7. CASE CallFailed(c)
  BY <1>0, <1>3, <1>7, UpdatesAdvance DEF CallFailed, Moves, CallerTyped
<1>8. CASE SettleCall(c)
  BY <1>0, <1>3, <1>8, SettleAdvances DEF SettleCall, Moves, CallerTyped
<1>9. CASE HoldCall(c)
  BY <1>0, <1>3, <1>9, UpdatesAdvance DEF HoldCall, Moves, CallerTyped
<1>10. CASE ReleaseUnsent(c)
  <2>1. /\ \A b \in Attempts : RowAdvances(b)
        /\ \A b \in Attempts : ledger[b].state = "none" => ledger'[b] = ledger[b]
    BY <1>0, <1>10, UpdatesAdvance DEF ReleaseUnsent
  <2>2. QED
    BY <1>0, <1>10, <2>1 DEF ReleaseUnsent, VerdictsStay, Unreserved
<1>11. QED
  BY <1>1, <1>4, <1>5, <1>6, <1>7, <1>8, <1>9, <1>10 DEF CallSteps

LEMMA BudgetVerdicts ==
    BudgetTypeOK /\ Unreserved /\ [BudgetNext]_budgetVars => VerdictsStay /\ Unreserved'
<1> SUFFICES ASSUME BudgetTypeOK, Unreserved, [BudgetNext]_budgetVars
             PROVE  VerdictsStay /\ Unreserved'
  OBVIOUS
<1>0. LedgerTyped /\ Callers \subseteq Attempts
  BY BoundsAreNat DEF BudgetTypeOK, LedgerTyped
<1>1. CASE UNCHANGED <<ledger, caller>>
  BY <1>0, <1>1 DEF VerdictsStay, RowAdvances, Unreserved
<1>2. ASSUME NEW c \in Callers, CallSteps(c) PROVE VerdictsStay /\ Unreserved'
  BY <1>2, CallVerdicts
<1>3. ASSUME NEW a \in Attempts, NEW usage \in 0 .. MaxUsage, Reconcile(a, usage)
      PROVE  VerdictsStay /\ Unreserved'
  <2>1. /\ \A b \in Attempts : RowAdvances(b)
        /\ \A b \in Attempts : ledger[b].state = "none" => ledger'[b] = ledger[b]
    BY <1>0, <1>3, SettleAdvances DEF Reconcile
  <2>2. QED
    BY <1>0, <1>3, <2>1 DEF Reconcile, VerdictsStay, Unreserved
<1>4. QED
  BY <1>1, <1>2, <1>3 DEF BudgetNext, ConfigureScope, Midnight, budgetVars

(* The verdict on an attempt is final and stays in the bucket of its day:  *)
(* a settled or released row is never written again.                       *)
THEOREM VerdictOnce == BudgetSpec => SettledOnce
<1>1. BudgetInit => Unreserved
  BY BoundsAreNat DEF BudgetInit, Unreserved
<1>2. VerdictsStay =>
          \A a \in Attempts :
              /\ ledger[a].state \in {"settled", "released"} => ledger'[a] = ledger[a]
              /\ ledger[a].state # "none" => ledger'[a].day = ledger[a].day
  BY DEF VerdictsStay, RowAdvances
<1>3. BudgetTypeOK /\ Unreserved /\ [BudgetNext]_budgetVars =>
          [\A a \in Attempts :
              /\ ledger[a].state \in {"settled", "released"} => ledger'[a] = ledger[a]
              /\ ledger[a].state # "none" => ledger'[a].day = ledger[a].day]_budgetVars
  BY <1>2, BudgetVerdicts
<1>4. QED
  BY <1>1, <1>3, BudgetVerdicts, BudgetTypeCorrect, PTL DEF BudgetSpec, SettledOnce

(***************************************************************************)
(* Overruns.                                                               *)
(***************************************************************************)

\* A settlement beyond the reserved maximum blocks the scope with it.
LEMMA SettleBlocks ==
    ASSUME BudgetTypeOK, OverrunBlocks, NEW a \in Attempts, NEW usage \in Nat,
           Settle(a, usage)
    PROVE  OverrunBlocks'
<1>1. /\ ledger \in [Attempts -> Row] /\ Units \in [Attempts -> Nat]
      /\ blocked \in BOOLEAN
  BY BoundsAreNat DEF BudgetTypeOK
<1>2. CASE Settleable(a)
  <2>1. SUFFICES ASSUME NEW b \in Attempts, Amount(b)' > Units[b] PROVE blocked'
    BY DEF OverrunBlocks
  <2>2. CASE b = a
    <3>1. ledger'[a].state = "settled" /\ ledger'[a].actual = usage
      BY <1>1, <1>2 DEF Settle, Row
    <3>2. Overused(a, usage)
      BY <2>1, <2>2, <3>1 DEF Amount, Overused
    <3>3. QED
      BY <1>2, <3>2 DEF Settle
  <2>3. CASE b # a
    <3>1. ledger'[b] = ledger[b] /\ (blocked => blocked')
      BY <1>1, <1>2, <2>3 DEF Settle
    <3>2. Amount(b) > Units[b]
      BY <2>1, <3>1 DEF Amount
    <3>3. QED
      BY <3>1, <3>2 DEF OverrunBlocks
  <2>4. QED
    BY <2>2, <2>3
<1>3. CASE ~Settleable(a)
  BY <1>3 DEF Settle, OverrunBlocks, Amount
<1>4. QED
  BY <1>2, <1>3

\* Every other update leaves the amount of a row at its maximum.
LEMMA UpdatesBlock ==
    ASSUME BudgetTypeOK, OverrunBlocks, blocked' = blocked, NEW a \in Attempts,
           NEW d \in Days,
           \/ ledger' = ledger
           \/ ledger' = Unknown(a)
           \/ ledger' = Released(a)
           \/ ledger' = Reserved(a, d)
    PROVE  OverrunBlocks'
<1>1. /\ ledger \in [Attempts -> Row] /\ Units \in [Attempts -> Nat]
  BY BoundsAreNat DEF BudgetTypeOK
<1>2. SUFFICES ASSUME NEW b \in Attempts, Amount(b)' > Units[b]
               PROVE  Amount(b) > Units[b]
  BY DEF OverrunBlocks
<1>3. QED
  BY <1>1, <1>2 DEF Amount, Unknown, Released, Reserved, Row

LEMMA BudgetBlocks ==
    BudgetTypeOK /\ OverrunBlocks /\ [BudgetNext]_budgetVars => OverrunBlocks'
<1> SUFFICES ASSUME BudgetTypeOK, OverrunBlocks, [BudgetNext]_budgetVars
             PROVE  OverrunBlocks'
  OBVIOUS
<1>1. CASE UNCHANGED <<ledger, blocked>>
  BY <1>1 DEF OverrunBlocks, Amount
<1>2. ASSUME NEW c \in Callers, CallSteps(c) PROVE OverrunBlocks'
  <2>0. /\ c \in Attempts /\ caller[c].day \in Days /\ caller[c].usage \in Nat
    BY BoundsAreNat DEF BudgetTypeOK, Caller
  <2>1. CASE SettleCall(c)
    BY <2>0, <2>1, SettleBlocks DEF SettleCall
  <2>2. CASE ~SettleCall(c)
    <3>1. /\ blocked' = blocked
          /\ \/ ledger' = ledger
             \/ ledger' = Unknown(c)
             \/ ledger' = Released(c)
             \/ ledger' = Reserved(c, caller[c].day)
      BY <1>2, <2>2 DEF CallSteps, StartCall, ReserveCall, CallAnswered, CallFailed,
                        HoldCall, DropCall, ReleaseUnsent, scopeVars
    <3>2. QED
      BY <2>0, <3>1, UpdatesBlock
  <2>3. QED
    BY <2>1, <2>2
<1>3. ASSUME NEW a \in Attempts, NEW usage \in 0 .. MaxUsage, Reconcile(a, usage)
      PROVE  OverrunBlocks'
  BY <1>3, SettleBlocks, BoundsAreNat DEF Reconcile
<1>4. QED
  BY <1>1, <1>2, <1>3 DEF BudgetNext, ConfigureScope, Midnight, budgetVars, scopeVars

(* Once a charge exceeded its reservation, the scope is blocked for good,  *)
(* whoever settles it: neither approval nor reconciliation lifts that.     *)
THEOREM OverrunsBlock == BudgetSpec => []OverrunBlocks
<1>1. BudgetInit => OverrunBlocks
  BY BoundsAreNat DEF BudgetInit, OverrunBlocks, Amount
<1>2. QED
  BY <1>1, BudgetBlocks, BudgetTypeCorrect, PTL DEF BudgetSpec

(***************************************************************************)
(* The limits: what counts against one is a row's amount up to its maximum.*)
(***************************************************************************)
Base(a) == IF Amount(a) <= Units[a] THEN Amount(a) ELSE Units[a]
Bases == [a \in Attempts |-> Base(a)]
Rows == {a \in Attempts : ledger[a].state # "none"}

HeldInv == SumOver(Units, In({"reserved", "outcome_unknown"})) <= OutstandingCap
DaysInv == \A d \in Days :
    /\ SumOver(Bases, OfDay(d)) <= DailyCap
    /\ \A l \in Lanes : SumOver(Bases, OfLane(d, l)) <= LaneCap[l]

\* The ledger holds finitely many rows, and its sums are within the limits.
CapsInv == IsFiniteSet(Rows) /\ HeldInv /\ DaysInv

LEMMA CapsAreNat ==
    /\ DailyCap \in Nat /\ OutstandingCap \in Nat
    /\ \A l \in Lanes : LaneCap[l] \in Nat
    /\ \A a \in Attempts : Units[a] \in Nat /\ LaneOf[a] \in Lanes
BY BudgetConstants

LEMMA AmountsTyped ==
    ASSUME LedgerTyped
    PROVE  \A a \in Attempts :
               /\ Amount(a) \in Nat /\ Base(a) \in Nat /\ Bases[a] = Base(a)
               /\ Base(a) <= Amount(a) /\ Base(a) <= Units[a]
BY CapsAreNat DEF LedgerTyped, Row, Amount, Base, Bases

LEMMA AmountsTypedNext ==
    ASSUME LedgerTyped'
    PROVE  \A a \in Attempts :
               /\ Amount(a)' \in Nat /\ Base(a)' \in Nat /\ Bases'[a] = Base(a)'
               /\ Base(a)' <= Amount(a)' /\ Base(a)' <= Units[a]
BY CapsAreNat DEF LedgerTyped, Row, Amount, Base, Bases

LEMMA RowsFinite ==
    ASSUME IsFiniteSet(Rows), NEW d
    PROVE  /\ IsFiniteSet(In({"reserved", "outcome_unknown"}))
           /\ IsFiniteSet(OfDay(d))
           /\ \A l : IsFiniteSet(OfLane(d, l))
<1>1. /\ In({"reserved", "outcome_unknown"}) \subseteq Rows
      /\ OfDay(d) \subseteq Rows /\ \A l : OfLane(d, l) \subseteq Rows
  BY DEF In, Rows, OfDay, OfLane
<1>2. QED
  BY <1>1, FS_Subset

(***************************************************************************)
(* A step that reserves nothing takes rows out of the sums, or leaves them *)
(* there with no more than they counted for.                               *)
(***************************************************************************)
LEMMA AdvanceKeepsCaps ==
    ASSUME LedgerTyped, LedgerTyped', CapsInv, \A a \in Attempts : RowAdvances(a)
    PROVE  CapsInv'
<1>1. /\ In({"reserved", "outcome_unknown"})' \subseteq In({"reserved", "outcome_unknown"})
      /\ \A d \in Days : OfDay(d)' \subseteq OfDay(d)
      /\ \A d \in Days : \A l \in Lanes : OfLane(d, l)' \subseteq OfLane(d, l)
      /\ Rows' = Rows
  BY DEF LedgerTyped, In, OfDay, OfLane, Rows, RowAdvances
<1>2. \A a \in Attempts : Base(a)' <= Base(a)
  <2>1. ASSUME NEW a \in Attempts PROVE Base(a)' <= Base(a)
    <3>1. CASE ledger'[a] = ledger[a]
      <4>1. Base(a)' = Base(a) /\ Base(a) \in Nat
        BY <3>1, AmountsTyped DEF Base, Amount
      <4>2. QED
        BY <4>1
    <3>2. CASE ledger[a].state \in {"reserved", "outcome_unknown"}
      <4>1. Amount(a) = Units[a] /\ Units[a] \in Nat
        BY <3>2, CapsAreNat DEF Amount
      <4>2. Base(a) = Units[a]
        BY <4>1 DEF Base
      <4>3. QED
        BY <4>2, AmountsTypedNext
    <3>3. QED
      BY <3>1, <3>2 DEF RowAdvances
  <2>2. QED
    BY <2>1
<1>3. IsFiniteSet(Rows) /\ IsFiniteSet(Rows')
  BY <1>1 DEF CapsInv
<1>4. ASSUME NEW S \in SUBSET Attempts, NEW T \in SUBSET S, IsFiniteSet(S), NEW n \in Nat,
             SumOver(Bases, S) <= n
      PROVE  SumOver(Bases', T) <= n
  <2>1. \A a \in S : Bases[a] \in Nat
    BY AmountsTyped
  <2>2. \A a \in T : Bases'[a] \in Nat /\ Bases'[a] <= Bases[a]
    BY <1>2, AmountsTyped, AmountsTypedNext
  <2>3. SumOver(Bases', T) <= SumOver(Bases, S)
    BY <1>4, <2>1, <2>2, SumAtMost
  <2>4. IsFiniteSet(T) /\ \A a \in T : Bases'[a] \in Nat
    BY <1>4, <2>2, FS_Subset
  <2>5. SumOver(Bases', T) \in Nat /\ SumOver(Bases, S) \in Nat
    BY <1>4, <2>1, <2>4, SumFacts
  <2>6. QED
    BY <1>4, <2>3, <2>5
<1>5. HeldInv'
  <2> DEFINE S == In({"reserved", "outcome_unknown"})
  <2>1. /\ IsFiniteSet(S) /\ IsFiniteSet(S') /\ S' \subseteq S /\ S \subseteq Attempts
        /\ SumOver(Units, S) <= OutstandingCap
    BY <1>1, <1>3, RowsFinite, FS_Subset DEF CapsInv, HeldInv, In
  <2> HIDE DEF S
  <2>2. \A a \in S : Units[a] \in Nat
    BY <2>1, CapsAreNat
  <2>3. SumOver(Units, S') <= SumOver(Units, S)
    BY <2>1, <2>2, SumAtMost
  <2>4. SumOver(Units, S') \in Nat /\ SumOver(Units, S) \in Nat
    BY <2>1, <2>2, SumFacts
  <2>5. SumOver(Units, S') <= OutstandingCap
    BY <2>1, <2>3, <2>4, CapsAreNat
  <2>6. QED
    BY <2>5 DEF HeldInv, S
<1>6. DaysInv'
  <2>1. ASSUME NEW d \in Days PROVE SumOver(Bases', OfDay(d)') <= DailyCap
    <3>1. OfDay(d) \subseteq Attempts /\ IsFiniteSet(OfDay(d))
      BY <1>3, RowsFinite DEF OfDay, In
    <3>2. SumOver(Bases, OfDay(d)) <= DailyCap
      BY DEF CapsInv, DaysInv
    <3>3. QED
      BY <1>1, <1>4, <3>1, <3>2, CapsAreNat
  <2>2. ASSUME NEW d \in Days, NEW l \in Lanes PROVE SumOver(Bases', OfLane(d, l)') <= LaneCap[l]
    <3>0. IsFiniteSet(OfLane(d, l))
      BY <1>3, RowsFinite
    <3>1. OfLane(d, l) \subseteq Attempts /\ IsFiniteSet(OfLane(d, l))
      BY <3>0 DEF OfLane, OfDay, In
    <3>2. SumOver(Bases, OfLane(d, l)) <= LaneCap[l]
      BY DEF CapsInv, DaysInv
    <3>3. QED
      BY <1>1, <1>4, <3>1, <3>2, CapsAreNat
  <2>3. QED
    BY <2>1, <2>2 DEF DaysInv
<1>7. QED
  BY <1>3, <1>5, <1>6 DEF CapsInv

(***************************************************************************)
(* A reservation adds its maximum to sums that leave room for it.          *)
(***************************************************************************)
LEMMA ReserveKeepsCaps ==
    ASSUME LedgerTyped, LedgerTyped', CapsInv, NEW a \in Attempts, NEW d \in Days,
           ledger[a].state = "none", Admits(a, d), ledger' = Reserved(a, d)
    PROVE  CapsInv'
<1>1. \A b \in Attempts : ledger'[b] =
          IF b = a THEN [state |-> "reserved", day |-> d, actual |-> 0] ELSE ledger[b]
  BY DEF LedgerTyped, Reserved
<1>2. /\ In({"reserved", "outcome_unknown"})' = In({"reserved", "outcome_unknown"}) \cup {a}
      /\ OfDay(d)' = OfDay(d) \cup {a}
      /\ \A e \in Days \ {d} : OfDay(e)' = OfDay(e)
      /\ Rows' = Rows \cup {a}
      /\ a \notin Rows
  BY <1>1 DEF In, OfDay, Rows
<1>3. /\ OfLane(d, LaneOf[a])' = OfLane(d, LaneOf[a]) \cup {a}
      /\ \A l \in Lanes \ {LaneOf[a]} : OfLane(d, l)' = OfLane(d, l)
      /\ \A e \in Days \ {d} : \A l \in Lanes : OfLane(e, l)' = OfLane(e, l)
  BY <1>2 DEF OfLane
<1>4. IsFiniteSet(Rows) /\ IsFiniteSet(Rows')
  BY <1>2, FS_AddElement DEF CapsInv
<1>5. /\ \A b \in Attempts \ {a} : Bases'[b] = Bases[b]
      /\ Bases'[a] = Units[a] /\ Units[a] \in Nat
  <2>1. ASSUME NEW b \in Attempts \ {a} PROVE Base(b)' = Base(b)
    BY <1>1 DEF Base, Amount
  <2>2. Base(a)' = Units[a] /\ Units[a] \in Nat
    BY <1>1, CapsAreNat DEF Base, Amount
  <2>3. QED
    BY <2>1, <2>2, AmountsTyped, AmountsTypedNext
<1>6. ASSUME NEW S \in SUBSET (Attempts \ {a}), IsFiniteSet(S)
      PROVE  /\ SumOver(Bases', S) = SumOver(Bases, S) /\ SumOver(Bases, S) \in Nat
             /\ SumOver(Bases', S \cup {a}) = Units[a] + SumOver(Bases, S)
  <2>1. \A b \in S : Bases[b] \in Nat /\ Bases'[b] = Bases[b]
    BY <1>5, AmountsTyped
  <2>2. SumOver(Bases', S) <= SumOver(Bases, S) /\ SumOver(Bases, S) <= SumOver(Bases', S)
    BY <1>6, <2>1, SumAtMost
  <2>3. SumOver(Bases, S) \in Nat /\ SumOver(Bases', S) \in Nat
    BY <1>6, <2>1, SumFacts
  <2>4. SumOver(Bases', S \cup {a}) = Bases'[a] + SumOver(Bases', S)
    BY <1>5, <1>6, <2>1, SumAdds
  <2>5. QED
    BY <1>5, <2>2, <2>3, <2>4
<1>7. ASSUME NEW S \in SUBSET (Attempts \ {a}), IsFiniteSet(S), NEW n \in Nat,
             Spent(S) + Units[a] <= n
      PROVE  SumOver(Bases', S \cup {a}) <= n
  <2> DEFINE amounts == [b \in Attempts |-> Amount(b)]
  <2>1. \A b \in S : /\ amounts[b] \in Nat /\ Bases[b] \in Nat
                     /\ Bases[b] <= amounts[b]
    BY AmountsTyped
  <2>2. Spent(S) = SumOver(amounts, S)
    BY DEF Spent, SumOver
  <2> HIDE DEF amounts
  <2>3. SumOver(Bases, S) <= SumOver(amounts, S) /\ SumOver(amounts, S) \in Nat
    BY <1>7, <2>1, SumAtMost, SumFacts
  <2>4. SumOver(Bases', S \cup {a}) = Units[a] + SumOver(Bases, S) /\ SumOver(Bases, S) \in Nat
    BY <1>6, <1>7
  <2>5. QED
    BY <1>5, <1>7, <2>2, <2>3, <2>4
<1>8. HeldInv'
  <2>1. PICK S : S = In({"reserved", "outcome_unknown"})
    OBVIOUS
  <2>2. /\ S \subseteq Attempts /\ a \notin S /\ IsFiniteSet(S)
        /\ In({"reserved", "outcome_unknown"})' = S \cup {a}
    <3>1. IsFiniteSet(S)
      BY <1>4, <2>1, RowsFinite
    <3>2. QED
      BY <1>2, <2>1, <3>1 DEF In, Rows
  <2>3. SumOver(Units, S) + Units[a] <= OutstandingCap
    BY <2>1 DEF Admits, Exposed, Held, SumOver
  <2>4. \A b \in S \cup {a} : Units[b] \in Nat
    BY <2>2, CapsAreNat
  <2>5. SumOver(Units, S \cup {a}) = Units[a] + SumOver(Units, S) /\ SumOver(Units, S) \in Nat
    BY <2>2, <2>4, SumAdds, SumFacts
  <2>6. SumOver(Units, S \cup {a}) <= OutstandingCap
    BY <1>5, <2>3, <2>5, CapsAreNat
  <2>7. QED
    BY <2>2, <2>6 DEF HeldInv
<1>9. ASSUME NEW e \in Days PROVE SumOver(Bases', OfDay(e)') <= DailyCap
  <2>1. OfDay(e) \in SUBSET (Attempts \ {a}) /\ IsFiniteSet(OfDay(e))
    <3>1. IsFiniteSet(OfDay(e))
      BY <1>4, RowsFinite
    <3>2. QED
      BY <1>2, <3>1 DEF OfDay, In, Rows
  <2>2. CASE e = d
    <3>1. Spent(OfDay(e)) + Units[a] <= DailyCap
      BY <2>2 DEF Admits
    <3>2. QED
      BY <1>2, <1>7, <2>1, <2>2, <3>1, CapsAreNat
  <2>3. CASE e # d
    <3>1. SumOver(Bases, OfDay(e)) <= DailyCap
      BY DEF CapsInv, DaysInv
    <3>2. QED
      BY <1>2, <1>6, <2>1, <2>3, <3>1
  <2>4. QED
    BY <2>2, <2>3
<1>10. ASSUME NEW e \in Days, NEW l \in Lanes
       PROVE  SumOver(Bases', OfLane(e, l)') <= LaneCap[l]
  <2>1. OfLane(e, l) \in SUBSET (Attempts \ {a}) /\ IsFiniteSet(OfLane(e, l))
    <3>1. IsFiniteSet(OfLane(e, l))
      BY <1>4, RowsFinite
    <3>2. QED
      BY <1>2, <3>1 DEF OfLane, OfDay, In, Rows
  <2>2. CASE e = d /\ l = LaneOf[a]
    <3>1. Spent(OfLane(e, l)) + Units[a] <= LaneCap[l]
      BY <2>2 DEF Admits
    <3>2. QED
      BY <1>3, <1>7, <2>1, <2>2, <3>1, CapsAreNat
  <2>3. CASE ~(e = d /\ l = LaneOf[a])
    <3>1. SumOver(Bases, OfLane(e, l)) <= LaneCap[l]
      BY DEF CapsInv, DaysInv
    <3>2. OfLane(e, l)' = OfLane(e, l)
      BY <1>3, <2>3
    <3>3. QED
      BY <1>6, <2>1, <3>1, <3>2
  <2>4. QED
    BY <2>2, <2>3
<1>11. QED
  BY <1>4, <1>8, <1>9, <1>10 DEF CapsInv, DaysInv

LEMMA CapsInit == BudgetInit => CapsInv
<1> SUFFICES ASSUME BudgetInit PROVE CapsInv
  OBVIOUS
<1>1. /\ Rows = {} /\ In({"reserved", "outcome_unknown"}) = {}
      /\ \A d : OfDay(d) = {}
  BY DEF BudgetInit, Rows, In, OfDay
<1>2. \A d, l : OfLane(d, l) = {}
  BY <1>1 DEF OfLane
<1>3. IsFiniteSet({})
  BY FS_EmptySet
<1>4. SumOver(Units, {}) = 0 /\ SumOver(Bases, {}) = 0
  BY <1>3, SumFacts
<1>5. HeldInv
  BY <1>1, <1>4, CapsAreNat DEF HeldInv
<1>6. DaysInv
  BY <1>1, <1>2, <1>4, CapsAreNat DEF DaysInv
<1>7. QED
  BY <1>1, <1>3, <1>5, <1>6 DEF CapsInv

(***************************************************************************)
(* What every step of the callers, the operator and the workers does to    *)
(* the ledger.                                                             *)
(***************************************************************************)
Charges(a) ==
    \/ \A b \in Attempts : RowAdvances(b)
    \/ \E d \in Days : ledger[a].state = "none" /\ Admits(a, d) /\ ledger' = Reserved(a, d)

LEMMA StepKeepsCaps ==
    ASSUME LedgerTyped, LedgerTyped', CapsInv, NEW a \in Attempts, Charges(a)
    PROVE  CapsInv'
BY AdvanceKeepsCaps, ReserveKeepsCaps DEF Charges

LEMMA CallLedger ==
    ASSUME BudgetTypeOK, Unreserved, NEW c \in Callers, CallSteps(c)
    PROVE  Charges(c)
<1>0. LedgerTyped /\ c \in Attempts /\ caller[c].day \in Days /\ caller[c].usage \in Nat
  BY BoundsAreNat DEF BudgetTypeOK, LedgerTyped, Caller
<1>1. CASE ReserveCall(c)
  BY <1>0, <1>1, UpdatesAdvance DEF ReserveCall, Unreserved, Charges
<1>2. CASE DropCall(c)
  BY <1>0, <1>2, UpdatesAdvance DEF DropCall, Unreserved, Charges
<1>3. CASE SettleCall(c)
  BY <1>0, <1>3, SettleAdvances DEF SettleCall, Charges
<1>4. ASSUME \A b \in Attempts : RowAdvances(b) PROVE Charges(c)
  BY <1>4 DEF Charges
<1>5. ASSUME \/ StartCall(c) \/ CallFailed(c)
             \/ \E usage \in 0 .. MaxUsage : CallAnswered(c, usage)
      PROVE  ledger' = ledger
  BY <1>5 DEF StartCall, CallAnswered, CallFailed
<1>6. ASSUME ledger' = ledger PROVE \A b \in Attempts : RowAdvances(b)
  BY <1>6 DEF RowAdvances
<1>7. CASE HoldCall(c)
  BY <1>0, <1>4, <1>7, UpdatesAdvance DEF HoldCall
<1>8. CASE ReleaseUnsent(c)
  BY <1>0, <1>4, <1>8, UpdatesAdvance DEF ReleaseUnsent
<1>9. QED
  BY <1>1, <1>2, <1>3, <1>4, <1>5, <1>6, <1>7, <1>8 DEF CallSteps

LEMMA BudgetLedger ==
    ASSUME BudgetTypeOK, Unreserved, [BudgetNext]_budgetVars
    PROVE  (\A a \in Attempts : RowAdvances(a)) \/ \E c \in Callers : Charges(c)
<1>0. LedgerTyped /\ Callers \subseteq Attempts
  BY BoundsAreNat DEF BudgetTypeOK, LedgerTyped
<1>1. CASE ledger' = ledger
  BY <1>1 DEF RowAdvances
<1>2. ASSUME NEW a \in Attempts, NEW usage \in 0 .. MaxUsage, Reconcile(a, usage)
      PROVE  \A b \in Attempts : RowAdvances(b)
  BY <1>0, <1>2, SettleAdvances DEF Reconcile
<1>3. QED
  BY <1>0, <1>1, <1>2, CallLedger DEF BudgetNext, ConfigureScope, Midnight, budgetVars

LEMMA CapsNext ==
    BudgetTypeOK /\ BudgetTypeOK' /\ Unreserved /\ CapsInv /\ [BudgetNext]_budgetVars => CapsInv'
BY AdvanceKeepsCaps, StepKeepsCaps, BudgetLedger, BoundsAreNat DEF BudgetTypeOK, LedgerTyped

(***************************************************************************)
(* The amounts are the bases and what was charged beyond the maximum.      *)
(***************************************************************************)
LEMMA CapsSuffice == BudgetTypeOK /\ CapsInv => CapsHold
<1> SUFFICES ASSUME BudgetTypeOK, CapsInv PROVE CapsHold
  OBVIOUS
<1> DEFINE amounts == [a \in Attempts |-> Amount(a)]
           over == [a \in Attempts |-> IF Amount(a) > Units[a]
                                       THEN Amount(a) - Units[a] ELSE 0]
<1>0. LedgerTyped /\ IsFiniteSet(Rows)
  BY DEF BudgetTypeOK, LedgerTyped, CapsInv
<1>1. OutstandingWithinCap
  BY DEF CapsInv, HeldInv, OutstandingWithinCap, Exposed, SumOver
<1>2. ASSUME NEW S \in SUBSET Attempts, IsFiniteSet(S), NEW n \in Nat, SumOver(Bases, S) <= n
      PROVE  Spent(S) <= n + Overrun(S)
  <2>1. \A a \in S : /\ Bases[a] \in Nat /\ over[a] \in Nat
                     /\ amounts[a] = Bases[a] + over[a]
    <3>1. ASSUME NEW a \in S
          PROVE  /\ Bases[a] \in Nat /\ over[a] \in Nat
                 /\ amounts[a] = Bases[a] + over[a]
      <4>1. Amount(a) \in Nat /\ Units[a] \in Nat /\ Bases[a] = Base(a)
        BY <1>0, AmountsTyped, CapsAreNat
      <4>2. QED
        BY <4>1 DEF Base
    <3>2. QED
      BY <3>1
  <2>2. Spent(S) = SumOver(amounts, S) /\ Overrun(S) = SumOver(over, S)
    BY DEF Spent, Overrun, SumOver
  <2> HIDE DEF amounts, over
  <2>3. SumOver(amounts, S) = SumOver(Bases, S) + SumOver(over, S)
    BY <1>2, <2>1, SumSplits
  <2>4. SumOver(Bases, S) \in Nat /\ SumOver(over, S) \in Nat
    BY <1>2, <2>1, SumFacts
  <2>5. QED
    BY <1>2, <2>2, <2>3, <2>4
<1>3. ASSUME NEW d \in Days PROVE Spent(OfDay(d)) <= DailyCap + Overrun(OfDay(d))
  <2>1. IsFiniteSet(OfDay(d))
    BY <1>0, RowsFinite
  <2>2. OfDay(d) \subseteq Attempts /\ SumOver(Bases, OfDay(d)) <= DailyCap
    BY DEF OfDay, In, CapsInv, DaysInv
  <2>3. QED
    BY <1>2, <2>1, <2>2, CapsAreNat
<1>4. ASSUME NEW d \in Days, NEW l \in Lanes
      PROVE  Spent(OfLane(d, l)) <= LaneCap[l] + Overrun(OfLane(d, l))
  <2>1. IsFiniteSet(OfLane(d, l))
    BY <1>0, RowsFinite
  <2>2. OfLane(d, l) \subseteq Attempts /\ SumOver(Bases, OfLane(d, l)) <= LaneCap[l]
    BY DEF OfLane, OfDay, In, CapsInv, DaysInv
  <2>3. QED
    BY <1>2, <2>1, <2>2, CapsAreNat
<1>5. QED
  BY <1>1, <1>3, <1>4 DEF CapsHold, DailyWithinCap

(***************************************************************************)
(* No interleaving of calls, midnights, crashes and operators breaks a     *)
(* limit: the outstanding one never, a day's and a lane's only by what     *)
(* providers charged beyond the reserved maximum.                          *)
(***************************************************************************)
THEOREM CapsAreHeld == BudgetSpec => []CapsHold
<1>1. BudgetInit => Unreserved /\ BudgetTypeOK
  BY BoundsAreNat, BudgetTypeInit DEF BudgetInit, Unreserved
<1>2. BudgetTypeOK /\ Unreserved /\ CapsInv /\ [BudgetNext]_budgetVars =>
          (BudgetTypeOK /\ Unreserved /\ CapsInv)'
  BY BudgetTypeNext, BudgetVerdicts, CapsNext
<1>3. QED
  BY <1>1, <1>2, CapsInit, CapsSuffice, PTL DEF BudgetSpec

-----------------------------------------------------------------------------

WorkAttempts == Chunks \X (1 .. MaxEpoch)
Active(w)    == worker[w].pc # "idle"
Called       == {"calling"} \cup Terminal

LEMMA WorkAttemptsFacts ==
    /\ WorkAttempts \subseteq Attempts \ Callers
    /\ MaxEpoch \in Nat
    /\ NoAttempt \notin Attempts
BY WorkConstants DEF WorkAttempts

LEMMA ActiveFields ==
    ASSUME TypeOK, NEW w \in Workers, Active(w)
    PROVE  /\ worker[w] \in Busy
           /\ worker[w].chunk \in Chunks /\ worker[w].epoch \in 1 .. MaxEpoch
           /\ worker[w].day \in Days /\ worker[w].usage \in Nat
           /\ AttemptOf(worker[w]) \in WorkAttempts
BY DEF TypeOK, Busy, AttemptOf, WorkAttempts, Active

(***************************************************************************)
(* How a step moves a worker.                                              *)
(***************************************************************************)

\* Nobody else moves, and w keeps its claim, if it does not finish.
KeepsClaim(w) ==
    /\ \A v \in Workers \ {w} : worker'[v] = worker[v]
    /\ \/ worker'[w].pc = "idle"
       \/ /\ worker'[w].chunk = worker[w].chunk
          /\ worker'[w].epoch = worker[w].epoch

LEMMA GoesMoves ==
    ASSUME TypeOK, NEW w \in Workers, Active(w), NEW pc \in BusyPc, Goes(w, pc)
    PROVE  /\ worker' \in [Workers -> Busy \cup [pc : {"idle"}]]
           /\ worker'[w].pc = pc
           /\ KeepsClaim(w)
<1>1. worker \in [Workers -> Busy \cup [pc : {"idle"}]] /\ worker[w] \in Busy
  BY ActiveFields DEF TypeOK
<1>2. /\ [worker[w] EXCEPT !.pc = pc] \in Busy
      /\ [worker[w] EXCEPT !.pc = pc].pc = pc
      /\ [worker[w] EXCEPT !.pc = pc].chunk = worker[w].chunk
      /\ [worker[w] EXCEPT !.pc = pc].epoch = worker[w].epoch
  BY <1>1 DEF Busy
<1>3. worker' = [worker EXCEPT ![w] = [worker[w] EXCEPT !.pc = pc]]
  BY <1>1 DEF Goes
<1>4. QED
  BY <1>1, <1>2, <1>3 DEF KeepsClaim

LEMMA FinishesMoves ==
    ASSUME TypeOK, NEW w \in Workers, Finishes(w)
    PROVE  /\ worker' \in [Workers -> Busy \cup [pc : {"idle"}]]
           /\ worker'[w].pc = "idle"
           /\ KeepsClaim(w)
<1>1. [pc |-> "idle"] \in [pc : {"idle"}]
  OBVIOUS
<1>2. QED
  BY <1>1 DEF TypeOK, Finishes, KeepsClaim

(***************************************************************************)
(* Types.                                                                  *)
(***************************************************************************)
WorkTyped ==
    /\ work \in [Chunks -> WorkState]
    /\ epoch \in [Chunks -> 0 .. MaxEpoch]
    /\ lease \in [Chunks -> {"none", "live", "expired"}]
    /\ reservation \in [Chunks -> Attempts \cup {NoAttempt}]

Typed ==
    /\ BudgetTypeOK
    /\ WorkTyped
    /\ rights \in BOOLEAN
    /\ worker \in [Workers -> Busy \cup [pc : {"idle"}]]
    /\ sent \subseteq Attempts

LEMMA TypedIs == TypeOK <=> Typed /\ refused \subseteq sent
BY DEF TypeOK, Typed, WorkTyped

LEMMA WorkTypeInit == Init => TypeOK
<1> SUFFICES ASSUME Init PROVE TypeOK
  OBVIOUS
<1>1. BudgetTypeOK
  BY BudgetTypeInit DEF Init
<1>2. WorkTyped
  BY WorkAttemptsFacts DEF Init, WorkTyped, WorkState
<1>3. worker \in [Workers -> Busy \cup [pc : {"idle"}]]
  <2>1. [pc |-> "idle"] \in [pc : {"idle"}]
    OBVIOUS
  <2>2. QED
    BY <2>1 DEF Init
<1>4. QED
  BY <1>1, <1>2, <1>3 DEF Init, TypeOK, WorkTyped

\* The ledger changes by one of the updates the ledger itself offers.
LEMMA LedgerStepTyped ==
    ASSUME TypeOK, NEW a \in Attempts, NEW d \in Days,
           UNCHANGED <<scopeVars, today, caller>>,
           faults' \in 0 .. MaxFaults,
           \/ ledger' = ledger
           \/ ledger' = Unknown(a)
           \/ ledger' = Released(a)
           \/ ledger' = Reserved(a, d)
    PROVE  BudgetTypeOK'
<1>1. ledger' \in [Attempts -> Row]
  BY LedgerUpdatesTyped DEF TypeOK, BudgetTypeOK, LedgerTyped
<1>2. QED
  BY <1>1 DEF TypeOK, BudgetTypeOK, scopeVars

LEMMA FaultsTyped ==
    ASSUME TypeOK, Fault \/ NoFault \/ UNCHANGED faults PROVE faults' \in 0 .. MaxFaults
BY FaultTyped DEF TypeOK, BudgetTypeOK, NoFault

LEMMA ClaimTyped ==
    ASSUME TypeOK, NEW w \in Workers, NEW k \in Chunks, ClaimWork(w, k)
    PROVE  Typed'
<1> DEFINE c == [pc |-> "claimed", chunk |-> k, epoch |-> epoch[k] + 1,
                 day |-> today, usage |-> 0]
<1>1. epoch[k] + 1 \in 1 .. MaxEpoch
  BY WorkAttemptsFacts DEF TypeOK, ClaimWork
<1>2. c \in Busy
  BY <1>1 DEF Busy, BusyPc, TypeOK, BudgetTypeOK
<1>3. worker' \in [Workers -> Busy \cup [pc : {"idle"}]]
  BY <1>2 DEF ClaimWork, TypeOK
<1>4. WorkTyped'
  BY <1>1, WorkAttemptsFacts DEF ClaimWork, TypeOK, WorkTyped, WorkState
<1>5. BudgetTypeOK'
  BY DEF ClaimWork, budgetVars, scopeVars, TypeOK, BudgetTypeOK
<1>6. QED
  BY <1>3, <1>4, <1>5 DEF ClaimWork, TypeOK, Typed

\* The actions of processChunk, up to the worker's own state.
LEMMA ProcessTyped ==
    ASSUME TypeOK, NEW w \in Workers, Process(w) PROVE Typed'
<1>0. Active(w)
  BY DEF Process, ReserveWork, BeginCall, BeginCallFails, SendCall, Answered, Refused,
         Unclear, SettleWork, CompleteWork, CompleteWorkFails, MarkOutcomeUnknown,
         HoldUnknown, MarkFailed, ReleaseWork, Active
<1>1. /\ worker[w].chunk \in Chunks /\ worker[w].day \in Days
      /\ worker[w].usage \in Nat
      /\ AttemptOf(worker[w]) \in Attempts
  BY <1>0, ActiveFields, WorkAttemptsFacts
<1>2. worker' \in [Workers -> Busy \cup [pc : {"idle"}]]
  <2>1. ASSUME NEW usage \in 0 .. MaxUsage, Answered(w, usage)
        PROVE  worker' \in [Workers -> Busy \cup [pc : {"idle"}]]
    <3>1. usage \in Nat /\ worker[w] \in Busy
      BY <1>0, ActiveFields, BoundsAreNat
    <3>2. [worker[w] EXCEPT !.pc = "answered", !.usage = usage] \in Busy
      BY <3>1 DEF Busy, BusyPc
    <3>3. worker' = [worker EXCEPT ![w] =
                        [worker[w] EXCEPT !.pc = "answered", !.usage = usage]]
      BY <2>1 DEF Answered, TypeOK
    <3>4. QED
      BY <3>2, <3>3 DEF TypeOK
  <2>2. CASE Finishes(w)
    BY <2>2, FinishesMoves
  <2>3. CASE \E pc \in BusyPc : Goes(w, pc)
    BY <1>0, <2>3, GoesMoves
  <2>4. QED
    BY <2>1, <2>2, <2>3 DEF Process, ReserveWork, BeginCall, BeginCallFails, SendCall,
       Refused, Unclear, SettleWork, CompleteWork, CompleteWorkFails,
       MarkOutcomeUnknown, HoldUnknown, MarkFailed, ReleaseWork, BusyPc
<1>3. BudgetTypeOK'
  <2>1. CASE SettleWork(w)
    <3>1. LedgerTyped' /\ blocked' \in BOOLEAN
      BY <1>1, <2>1, SettleTyped DEF SettleWork, TypeOK, BudgetTypeOK, LedgerTyped
    <3>2. QED
      BY <2>1, <3>1 DEF SettleWork, BudgetStays, TypeOK, BudgetTypeOK, LedgerTyped
  <2>2. CASE MarkOutcomeUnknown(w)
    <3>0. ledger' \in [Attempts -> Row]
      <4>1. CASE Owns(worker[w])
        BY <1>1, <2>2, <4>1 DEF MarkOutcomeUnknown, TypeOK, BudgetTypeOK, Unknown, Row
      <4>2. CASE ~Owns(worker[w])
        BY <2>2, <4>2 DEF MarkOutcomeUnknown, TypeOK, BudgetTypeOK
      <4>3. QED
        BY <4>1, <4>2
    <3>3. QED
      BY <2>2, <3>0 DEF MarkOutcomeUnknown, TypeOK, BudgetTypeOK, scopeVars
  <2>3. CASE ~SettleWork(w) /\ ~MarkOutcomeUnknown(w)
    <3>0. Fault \/ NoFault \/ UNCHANGED faults
      BY <2>3 DEF Process, ReserveWork, BeginCall, BeginCallFails, SendCall,
         Answered, Refused, Unclear, CompleteWork, CompleteWorkFails,
         HoldUnknown, MarkFailed, ReleaseWork, budgetVars
    <3>1. faults' \in 0 .. MaxFaults
      BY <3>0, FaultsTyped
    <3>2. /\ UNCHANGED <<scopeVars, today, caller>>
          /\ \/ ledger' = ledger
             \/ ledger' = Unknown(AttemptOf(worker[w]))
             \/ ledger' = Released(AttemptOf(worker[w]))
             \/ ledger' = Reserved(AttemptOf(worker[w]), worker[w].day)
      BY <2>3 DEF Process, ReserveWork, BeginCall, BeginCallFails, SendCall,
         Answered, Refused, Unclear, CompleteWork, CompleteWorkFails,
         HoldUnknown, MarkFailed, ReleaseWork, budgetVars
    <3>3. QED
      BY <1>1, <3>1, <3>2, LedgerStepTyped
  <2>4. QED
    BY <2>1, <2>2, <2>3
<1>4. WorkTyped'
  BY <1>1 DEF Process, ReserveWork, BeginCall, BeginCallFails, SendCall,
     Answered, Refused, Unclear, SettleWork, CompleteWork, CompleteWorkFails,
     MarkOutcomeUnknown, HoldUnknown, MarkFailed, ReleaseWork, workVars,
     TypeOK, WorkTyped, WorkState, Terminal
<1>5. rights' \in BOOLEAN /\ sent' \subseteq Attempts
  BY <1>1 DEF Process, ReserveWork, BeginCall, BeginCallFails, SendCall,
     Answered, Refused, Unclear, SettleWork, CompleteWork, CompleteWorkFails,
     MarkOutcomeUnknown, HoldUnknown, MarkFailed, ReleaseWork, HistoryStays, TypeOK
<1>6. QED
  BY <1>2, <1>3, <1>4, <1>5 DEF Typed

LEMMA NextTyped == TypeOK /\ [Next]_vars => Typed'
<1> SUFFICES ASSUME TypeOK, [Next]_vars PROVE Typed'
  OBVIOUS
<1>1. ASSUME NEW w \in Workers, Process(w) PROVE Typed'
  BY <1>1, ProcessTyped
<1>2. ASSUME NEW w \in Workers, Drop(w) PROVE Typed'
  <2>1. worker' \in [Workers -> Busy \cup [pc : {"idle"}]]
    BY <1>2, FinishesMoves DEF Drop
  <2>2. faults' \in 0 .. MaxFaults
    BY <1>2, FaultsTyped DEF Drop
  <2>3. BudgetTypeOK'
    BY <1>2, <2>2 DEF Drop, TypeOK, BudgetTypeOK, scopeVars
  <2>4. WorkTyped'
    <3>1. UNCHANGED workVars /\ WorkTyped
      BY <1>2, TypedIs DEF Drop, Typed
    <3>2. QED
      BY <3>1 DEF WorkTyped, workVars
  <2>5. rights' \in BOOLEAN /\ sent' \subseteq Attempts
    BY <1>2 DEF Drop, TypeOK, HistoryStays
  <2>6. QED
    BY <2>1, <2>3, <2>4, <2>5 DEF Typed
<1>3. ASSUME NEW w \in Workers, NEW k \in Chunks, ClaimWork(w, k) PROVE Typed'
  BY <1>3, ClaimTyped
<1>4. ASSUME NEW k \in Chunks, GiveUpCall(k) PROVE Typed'
  <2>1. ledger' \in [Attempts -> Row]
    <3>1. ledger \in [Attempts -> Row] /\ 0 \in Days /\ ledger' = Unknown(reservation[k])
      BY <1>4, BoundsAreNat DEF GiveUpCall, TypeOK, BudgetTypeOK, Days
    <3>2. CASE reservation[k] \in Attempts
      BY <3>1, <3>2, LedgerUpdatesTyped DEF LedgerTyped
    <3>3. CASE reservation[k] \notin Attempts
      BY <3>1, <3>3 DEF Unknown
    <3>4. QED
      BY <3>2, <3>3
  <2>2. QED
    BY <1>4, <2>1 DEF GiveUpCall, TypeOK, Typed, WorkTyped, BudgetTypeOK, scopeVars,
                      WorkState, Terminal
<1>5. ASSUME NEW k \in Chunks, LeaseExpires(k) PROVE Typed'
  <2>1. faults' \in 0 .. MaxFaults
    BY <1>5, FaultsTyped DEF LeaseExpires
  <2>2. QED
    BY <1>5, <2>1 DEF LeaseExpires, TypeOK, Typed, WorkTyped, BudgetTypeOK, scopeVars
<1>6. ASSUME NEW on \in BOOLEAN, SetRights(on) PROVE Typed'
  <2>1. faults' \in 0 .. MaxFaults
    BY <1>6, FaultsTyped DEF SetRights
  <2>2. QED
    BY <1>6, <2>1 DEF SetRights, TypeOK, Typed, WorkTyped, BudgetTypeOK, scopeVars, workVars
<1>7. ASSUME NEW a \in Attempts, ReleaseUnsentWork(a) PROVE Typed'
  <2>1. faults' \in 0 .. MaxFaults
    BY <1>7, FaultsTyped DEF ReleaseUnsentWork
  <2>2. ledger' \in [Attempts -> Row]
    BY <1>7, LedgerUpdatesTyped DEF ReleaseUnsentWork, TypeOK, BudgetTypeOK, LedgerTyped,
                                    Released, Row
  <2>3. QED
    BY <1>7, <2>1, <2>2 DEF ReleaseUnsentWork, TypeOK, Typed, WorkTyped, BudgetTypeOK,
                            scopeVars, workVars
<1>8. CASE BudgetNext /\ UNCHANGED <<workVars, rights, worker, sent, refused>>
  <2>1. BudgetTypeOK'
    BY <1>8, BudgetTypeNext DEF TypeOK
  <2>2. QED
    BY <1>8, <2>1 DEF TypeOK, Typed, WorkTyped, workVars
<1>9. CASE UNCHANGED vars
  <2>1. BudgetTypeOK'
    BY <1>9, BudgetTypeNext DEF TypeOK, vars
  <2>2. QED
    BY <1>9, <2>1 DEF TypeOK, Typed, WorkTyped, workVars, vars
<1>10. QED
  BY <1>1, <1>2, <1>3, <1>4, <1>5, <1>6, <1>7, <1>8, <1>9 DEF Next

(***************************************************************************)
(* The invariant.  Claims of a chunk differ in their epoch, a chunk is     *)
(* called at most in its latest one, and from then on the work, its        *)
(* reservation and what the worker of that claim knows stay together.      *)
(***************************************************************************)
Paid == {"reserved", "settled", "outcome_unknown"}

Latest(c) == c.epoch = epoch[c.chunk]

ClaimsDiffer ==
    /\ \A w \in Workers : Active(w) => worker[w].epoch <= epoch[worker[w].chunk]
    /\ \A v, w \in Workers :
          Active(v) /\ Active(w) /\ AttemptOf(worker[v]) = AttemptOf(worker[w]) => v = w

SentIsCalled ==
    \A a \in sent : /\ a \in WorkAttempts
                    /\ a[2] = epoch[a[1]]
                    /\ work[a[1]] \in Called

CallsAreLinked ==
    \A k \in Chunks :
        /\ work[k] \in Called => reservation[k] = <<k, epoch[k]>> /\ epoch[k] # 0
        /\ work[k] = "failed" => <<k, epoch[k]>> \in refused

\* What the worker of a claim may rely on, by the step it has reached.
Knows(w) ==
    LET c == worker[w]
        a == AttemptOf(c)
    IN  /\ c.pc = "claimed" /\ Latest(c) => work[c.chunk] = "claimed"
        /\ c.pc = "sending" => /\ Latest(c) /\ work[c.chunk] \in Called
                               /\ a \notin sent /\ ledger[a].state \in Paid
        /\ c.pc = "waiting" => a \in sent
        /\ c.pc = "refused" => a \in refused
        /\ c.pc = "settled" => ledger[a].state = "settled"
        /\ c.pc = "holding" /\ Latest(c) => work[c.chunk] # "calling"

WorkersKnow == \A w \in Workers : Active(w) => Knows(w)

WorkInv ==
    /\ ClaimsDiffer
    /\ SentIsCalled
    /\ CallsAreLinked
    /\ WorkersKnow
    /\ SpendIsHeld
    /\ WorkMatchesLedger

(***************************************************************************)
(* Steps that leave the work items as they are.                            *)
(***************************************************************************)

\* The movers: no new claim, and each knows what its next step relies on.
MoversKnow ==
    \A v \in Workers : worker'[v] # worker[v] =>
        \/ worker'[v].pc = "idle"
        \/ /\ Active(v)
           /\ worker'[v].chunk = worker[v].chunk
           /\ worker'[v].epoch = worker[v].epoch
           /\ Knows(v)'

\* What such a step may do to the row of an attempt of embedding work.
RowStep(a) ==
    LET s == ledger[a].state
        t == ledger'[a].state
    IN  \/ t = s
        \/ s \in {"reserved", "outcome_unknown"} /\ t = "settled"
        \/ /\ s = "reserved" /\ t = "outcome_unknown"
           /\ \A k \in Chunks : reservation[k] = a => work[k] # "calling"
        \/ t = "released" /\ Unsent(a)
        \/ /\ t = "reserved"
           /\ \E w \in Workers : /\ worker[w].pc = "claimed"
                                 /\ AttemptOf(worker[w]) = a
                                 /\ worker'[w] # worker[w]

LEMMA ClaimsKept ==
    ASSUME TypeOK, ClaimsDiffer, epoch' = epoch, MoversKnow PROVE ClaimsDiffer'
<1>1. \A v \in Workers : Active(v)' =>
          /\ Active(v)
          /\ worker'[v].chunk = worker[v].chunk
          /\ worker'[v].epoch = worker[v].epoch
  BY DEF MoversKnow, Active
<1>2. QED
  BY <1>1 DEF ClaimsDiffer, AttemptOf

LEMMA LatestIsPair ==
    ASSUME TypeOK, NEW w \in Workers, Active(w)
    PROVE  Latest(worker[w]) <=>
               AttemptOf(worker[w]) = <<worker[w].chunk, epoch[worker[w].chunk]>>
BY DEF Latest, AttemptOf

\* Rows of paid attempts stay paid, unless the provider refused them.
LEMMA RowsStayPaid ==
    ASSUME TypeOK, WorkInv, \A a \in WorkAttempts : RowStep(a),
           NEW a \in WorkAttempts, ledger[a].state \in Paid,
           a[2] = epoch[a[1]], work[a[1]] \in Called, a \notin refused
    PROVE  ledger'[a].state \in Paid
<1>1. a[1] \in Chunks /\ a = <<a[1], a[2]>>
  BY DEF WorkAttempts
<1>2. reservation[a[1]] = a /\ work[a[1]] # "failed"
  BY <1>1 DEF WorkInv, CallsAreLinked
<1>3. ~Unsent(a)
  BY <1>1, <1>2 DEF Unsent, Called, Terminal
<1>4. QED
  BY <1>3 DEF RowStep, Paid

LEMMA LedgerStep ==
    ASSUME TypeOK, WorkInv,
           UNCHANGED <<work, epoch, reservation, sent, refused>>,
           MoversKnow, \A a \in WorkAttempts : RowStep(a)
    PROVE  WorkInv'
<1>1. ClaimsDiffer'
  BY ClaimsKept DEF WorkInv
<1>2. SentIsCalled' /\ CallsAreLinked'
  BY DEF WorkInv, SentIsCalled, CallsAreLinked
<1>3. SpendIsHeld'
  <2>1. SUFFICES ASSUME NEW a \in sent \ refused PROVE ledger'[a].state \in Paid
    BY DEF SpendIsHeld, Paid
  <2>2. /\ a \in WorkAttempts /\ ledger[a].state \in Paid
        /\ a[2] = epoch[a[1]] /\ work[a[1]] \in Called
    BY DEF WorkInv, SentIsCalled, SpendIsHeld, Paid
  <2>3. QED
    BY <2>1, <2>2, RowsStayPaid
<1>4. WorkMatchesLedger'
  <2>1. SUFFICES ASSUME NEW k \in Chunks
                 PROVE  /\ work[k] = "calling" =>
                               ledger'[reservation[k]].state \in {"reserved", "settled"}
                        /\ work[k] = "completed" =>
                               ledger'[reservation[k]].state = "settled"
                        /\ work[k] = "outcome_unknown" =>
                               ledger'[reservation[k]].state \in {"outcome_unknown", "settled"}
    BY DEF WorkMatchesLedger
  <2>2. CASE work[k] \notin {"calling", "completed", "outcome_unknown"}
    BY <2>2
  <2>3. CASE work[k] \in {"calling", "completed", "outcome_unknown"}
    <3>1. reservation[k] = <<k, epoch[k]>> /\ epoch[k] # 0
      BY <2>3 DEF WorkInv, CallsAreLinked, Called, Terminal
    <3>2. reservation[k] \in WorkAttempts
      BY <3>1, <2>3, WorkAttemptsFacts DEF TypeOK, WorkAttempts
    <3>3. ~Unsent(reservation[k])
      BY <2>3 DEF Unsent
    <3>4. \A w \in Workers : worker[w].pc = "claimed" => AttemptOf(worker[w]) # reservation[k]
      BY <2>3, <3>1 DEF WorkInv, WorkersKnow, Knows, Active, Latest, AttemptOf
    <3>5. QED
      BY <2>3, <3>2, <3>3, <3>4 DEF RowStep, WorkInv, WorkMatchesLedger
  <2>4. QED
    BY <2>2, <2>3
<1>5. WorkersKnow'
  <2>1. SUFFICES ASSUME NEW w \in Workers, Active(w)', worker'[w] = worker[w]
                 PROVE  Knows(w)'
    BY DEF WorkersKnow, MoversKnow, Active
  <2>2. Active(w) /\ Knows(w)
    BY <2>1 DEF WorkInv, WorkersKnow, Active
  <2>3. AttemptOf(worker[w]) \in WorkAttempts
    BY <2>2, ActiveFields
  <2>4. ASSUME worker[w].pc = "settled"
        PROVE  ledger'[AttemptOf(worker[w])].state = "settled"
    <3>1. ledger[AttemptOf(worker[w])].state = "settled"
      BY <2>2, <2>4 DEF Knows
    <3>2. \A v \in Workers : worker[v].pc = "claimed" /\ worker'[v] # worker[v] =>
              AttemptOf(worker[v]) # AttemptOf(worker[w])
      BY <2>1, <2>2 DEF WorkInv, ClaimsDiffer, Active
    <3>3. QED
      BY <2>3, <3>1, <3>2 DEF RowStep, Unsent
  <2>5. ASSUME worker[w].pc = "sending"
        PROVE  ledger'[AttemptOf(worker[w])].state \in Paid
    <3> DEFINE a == AttemptOf(worker[w])
    <3>1. /\ a \notin sent /\ ledger[a].state \in Paid
          /\ Latest(worker[w]) /\ work[worker[w].chunk] \in Called
      BY <2>2, <2>5 DEF Knows
    <3>2. a[1] = worker[w].chunk /\ a[2] = worker[w].epoch
      BY DEF AttemptOf
    <3>3. a \notin refused
      BY <3>1 DEF TypeOK
    <3>4. QED
      BY <2>3, <3>1, <3>2, <3>3, RowsStayPaid DEF Latest
  <2>6. QED
    BY <2>1, <2>2, <2>4, <2>5 DEF Knows, Latest, AttemptOf
<1>6. QED
  BY <1>1, <1>2, <1>3, <1>4, <1>5 DEF WorkInv

(***************************************************************************)
(* Steps that change a work item.                                          *)
(***************************************************************************)

\* A claim: nobody can know anything of the new epoch.
LEMMA ClaimKeeps ==
    ASSUME TypeOK, WorkInv, NEW w \in Workers, NEW k \in Chunks, ClaimWork(w, k)
    PROVE  WorkInv'
<1> DEFINE c == [pc |-> "claimed", chunk |-> k, epoch |-> epoch[k] + 1,
                 day |-> today, usage |-> 0]
<1>1. /\ worker' = [worker EXCEPT ![w] = c]
      /\ worker'[w] = c /\ \A v \in Workers \ {w} : worker'[v] = worker[v]
      /\ work' = [work EXCEPT ![k] = "claimed"]
      /\ epoch' = [epoch EXCEPT ![k] = epoch[k] + 1]
      /\ reservation' = [reservation EXCEPT ![k] = NoAttempt]
      /\ UNCHANGED <<ledger, sent, refused>>
      /\ work[k] \notin Called
  BY DEF ClaimWork, TypeOK, Claimable, Called, Terminal, budgetVars
<1>2. /\ epoch \in [Chunks -> 0 .. MaxEpoch] /\ work \in [Chunks -> WorkState]
      /\ reservation \in [Chunks -> Attempts \cup {NoAttempt}]
      /\ epoch[k] \in Nat
  BY WorkAttemptsFacts DEF TypeOK
<1>3. \A v \in Workers : Active(v)' /\ v # w =>
          /\ Active(v) /\ worker[v].chunk \in Chunks /\ worker[v].epoch \in Nat
          /\ worker[v].epoch <= epoch[worker[v].chunk]
  <2>1. SUFFICES ASSUME NEW v \in Workers, Active(v)', v # w
                 PROVE  /\ Active(v) /\ worker[v].chunk \in Chunks /\ worker[v].epoch \in Nat
                        /\ worker[v].epoch <= epoch[worker[v].chunk]
    OBVIOUS
  <2>2. Active(v)
    BY <1>1, <2>1 DEF Active
  <2>3. worker[v].chunk \in Chunks /\ worker[v].epoch \in 1 .. MaxEpoch
    BY <2>2, ActiveFields
  <2>4. QED
    BY <2>2, <2>3, WorkAttemptsFacts DEF WorkInv, ClaimsDiffer
<1>4. ClaimsDiffer'
  <2>1. \A v \in Workers : Active(v)' => worker'[v].epoch <= epoch'[worker'[v].chunk]
    BY <1>1, <1>2, <1>3
  <2>2. \A v \in Workers : Active(v)' /\ v # w => AttemptOf(worker'[v]) # AttemptOf(worker'[w])
    BY <1>1, <1>2, <1>3 DEF AttemptOf
  <2>3. QED
    BY <1>1, <1>3, <2>1, <2>2 DEF WorkInv, ClaimsDiffer
<1>5. SentIsCalled'
  <2>1. SUFFICES ASSUME NEW a \in sent
                 PROVE  a \in WorkAttempts /\ a[2] = epoch'[a[1]] /\ work'[a[1]] \in Called
    BY <1>1 DEF SentIsCalled
  <2>2. a \in WorkAttempts /\ a[2] = epoch[a[1]] /\ work[a[1]] \in Called
    BY DEF WorkInv, SentIsCalled
  <2>3. a[1] # k
    BY <1>1, <2>2
  <2>4. QED
    BY <1>1, <2>2, <2>3 DEF TypeOK
<1>6. CallsAreLinked'
  BY <1>1, <1>2 DEF WorkInv, CallsAreLinked, Called, Terminal
<1>7. SpendIsHeld'
  BY <1>1 DEF WorkInv, SpendIsHeld
<1>8. WorkMatchesLedger'
  BY <1>1, <1>2 DEF WorkInv, WorkMatchesLedger
<1>9. WorkersKnow'
  <2>1. Knows(w)'
    BY <1>1, <1>2 DEF Knows, Latest
  <2>2. ASSUME NEW v \in Workers, v # w, Active(v)' PROVE Knows(v)'
    <3>1. Active(v) /\ Knows(v)
      BY <1>3, <2>2 DEF WorkInv, WorkersKnow
    <3>2. CASE worker[v].chunk = k
      <4>1. ~Latest(worker[v])'
        BY <1>1, <1>2, <1>3, <2>2, <3>2 DEF Latest
      <4>2. worker[v].pc # "sending"
        BY <1>1, <3>1, <3>2 DEF Knows
      <4>3. QED
        BY <1>1, <2>2, <3>1, <4>1, <4>2 DEF Knows, AttemptOf
    <3>3. CASE worker[v].chunk # k
      BY <1>1, <1>2, <1>3, <2>2, <3>1, <3>3 DEF Knows, Latest, AttemptOf
    <3>4. QED
      BY <3>2, <3>3
  <2>3. QED
    BY <2>1, <2>2 DEF WorkersKnow
<1>10. QED
  BY <1>4, <1>5, <1>6, <1>7, <1>8, <1>9 DEF WorkInv

\* A call begins or gets its outcome: the row of its attempt must fit.
Fits(state, row) ==
    /\ state = "calling" => row \in {"reserved", "settled"}
    /\ state = "completed" => row = "settled"
    /\ state = "outcome_unknown" => row \in {"outcome_unknown", "settled"}

\* No row but that of attempt a changes, which may become unknown.
MayHold(a) ==
    \A b \in WorkAttempts :
        \/ ledger'[b].state = ledger[b].state
        \/ b = a /\ ledger[b].state = "reserved" /\ ledger'[b].state = "outcome_unknown"

\* Nobody who stays where he is relies on the state that attempt a leaves.
NobodyRelies(a, state) ==
    \A v \in Workers :
        Active(v) /\ AttemptOf(worker[v]) = a /\ worker'[v] = worker[v]
            => worker[v].pc # "claimed" /\ state # "calling"

LEMMA WorkStep ==
    ASSUME TypeOK, WorkInv, NEW k \in Chunks, NEW state \in Called, epoch[k] # 0,
           UNCHANGED <<epoch, sent, refused>>,
           work' = [work EXCEPT ![k] = state],
           reservation' = [reservation EXCEPT ![k] = <<k, epoch[k]>>],
           MayHold(<<k, epoch[k]>>),
           Fits(state, ledger'[<<k, epoch[k]>>].state),
           state = "failed" => <<k, epoch[k]>> \in refused,
           MoversKnow, NobodyRelies(<<k, epoch[k]>>, state)
    PROVE  WorkInv'
<1>1. /\ epoch \in [Chunks -> 0 .. MaxEpoch] /\ work \in [Chunks -> WorkState]
      /\ reservation \in [Chunks -> Attempts \cup {NoAttempt}]
      /\ <<k, epoch[k]>> \in WorkAttempts
  BY WorkAttemptsFacts DEF TypeOK, WorkAttempts
<1>2. ClaimsDiffer'
  BY ClaimsKept DEF WorkInv
<1>3. SentIsCalled'
  <2>1. SUFFICES ASSUME NEW a \in sent
                 PROVE  a \in WorkAttempts /\ a[2] = epoch[a[1]] /\ work'[a[1]] \in Called
    BY DEF SentIsCalled
  <2>2. a \in WorkAttempts /\ a[2] = epoch[a[1]] /\ work[a[1]] \in Called
    BY DEF WorkInv, SentIsCalled
  <2>3. a[1] \in Chunks
    BY <2>2 DEF WorkAttempts
  <2>4. QED
    BY <1>1, <2>2, <2>3
<1>4. CallsAreLinked'
  BY <1>1 DEF WorkInv, CallsAreLinked
<1>5. SpendIsHeld'
  <2>1. SUFFICES ASSUME NEW a \in sent \ refused PROVE ledger'[a].state \in Paid
    BY DEF SpendIsHeld, Paid
  <2>2. a \in WorkAttempts /\ ledger[a].state \in Paid
    BY DEF WorkInv, SentIsCalled, SpendIsHeld, Paid
  <2>3. QED
    BY <2>2 DEF Paid, MayHold
<1>6. WorkMatchesLedger'
  <2>1. SUFFICES ASSUME NEW m \in Chunks
                 PROVE  Fits(work'[m], ledger'[reservation'[m]].state)
    BY DEF WorkMatchesLedger, Fits
  <2>2. CASE m = k
    BY <1>1, <2>2
  <2>3. CASE m # k /\ work[m] \in Called
    <3>1. reservation[m] = <<m, epoch[m]>> /\ epoch[m] # 0
      BY <2>3 DEF WorkInv, CallsAreLinked
    <3>2. <<m, epoch[m]>> \in WorkAttempts
      BY <1>1, <3>1, WorkAttemptsFacts DEF WorkAttempts
    <3>3. ledger'[reservation[m]].state = ledger[reservation[m]].state
      BY <2>3, <3>1, <3>2 DEF MayHold
    <3>4. QED
      BY <1>1, <2>3, <3>3 DEF WorkInv, WorkMatchesLedger, Fits
  <2>4. CASE m # k /\ work[m] \notin Called
    BY <1>1, <2>4 DEF Called, Terminal, Fits
  <2>5. QED
    BY <2>2, <2>3, <2>4
<1>7. WorkersKnow'
  <2>1. SUFFICES ASSUME NEW w \in Workers, Active(w)', worker'[w] = worker[w]
                 PROVE  Knows(w)'
    BY DEF WorkersKnow, MoversKnow, Active
  <2>2. Active(w) /\ Knows(w) /\ AttemptOf(worker[w]) \in WorkAttempts
        /\ worker[w].chunk \in Chunks
    BY <2>1, ActiveFields DEF WorkInv, WorkersKnow, Active
  <2>3. ASSUME worker[w].chunk = k, Latest(worker[w])
        PROVE  worker[w].pc # "claimed" /\ state # "calling"
    BY <2>1, <2>2, <2>3 DEF AttemptOf, Latest, NobodyRelies
  <2>4. work'[worker[w].chunk] =
            IF worker[w].chunk = k THEN state ELSE work[worker[w].chunk]
    BY <1>1, <2>2
  <2>5. ledger[AttemptOf(worker[w])].state \in Paid =>
            ledger'[AttemptOf(worker[w])].state \in Paid
    BY <2>2 DEF Paid, MayHold
  <2>6. ledger[AttemptOf(worker[w])].state = "settled" =>
            ledger'[AttemptOf(worker[w])].state = "settled"
    BY <2>2 DEF MayHold
  <2>7. QED
    BY <2>1, <2>2, <2>3, <2>4, <2>5, <2>6 DEF Knows, Latest, AttemptOf
<1>8. QED
  BY <1>2, <1>3, <1>4, <1>5, <1>6, <1>7 DEF WorkInv

(***************************************************************************)
(* The actions of processChunk.                                            *)
(***************************************************************************)

\* Only w moves, to a step that its action lets it rely on.
LEMMA GoesKnow ==
    ASSUME TypeOK, NEW w \in Workers, Active(w), NEW pc \in BusyPc, Goes(w, pc),
           UNCHANGED epoch,
           pc \notin {"claimed", "sending", "waiting", "refused", "settled", "holding"}
    PROVE  MoversKnow
<1>1. worker'[w].pc = pc /\ KeepsClaim(w)
  BY GoesMoves
<1>2. Knows(w)'
  BY <1>1 DEF Knows
<1>3. QED
  BY <1>1, <1>2 DEF MoversKnow, KeepsClaim

LEMMA GoesKnowing ==
    ASSUME TypeOK, NEW w \in Workers, Active(w), NEW pc \in BusyPc, Goes(w, pc), Knows(w)'
    PROVE  MoversKnow
BY GoesMoves DEF MoversKnow, KeepsClaim

LEMMA FinishesKnow ==
    ASSUME TypeOK, NEW w \in Workers, Finishes(w) PROVE MoversKnow
BY FinishesMoves DEF MoversKnow, KeepsClaim

\* An update of the row of one attempt.
LEMMA UpdatesRow ==
    ASSUME TypeOK, NEW a \in Attempts, NEW d \in Days
    PROVE  /\ \A b \in Attempts : Unknown(a)[b].state =
                   IF b = a /\ ledger[a].state = "reserved" THEN "outcome_unknown"
                   ELSE ledger[b].state
           /\ \A b \in Attempts : Released(a)[b].state =
                   IF b = a THEN "released" ELSE ledger[b].state
           /\ \A b \in Attempts : Reserved(a, d)[b].state =
                   IF b = a THEN "reserved" ELSE ledger[b].state
BY DEF TypeOK, BudgetTypeOK, Row, Unknown, Released, Reserved

LEMMA SettlesRow ==
    ASSUME TypeOK, NEW a \in Attempts, NEW usage, Settle(a, usage)
    PROVE  \A b \in Attempts : ledger'[b].state =
               IF b = a /\ Settleable(a) THEN "settled" ELSE ledger[b].state
BY DEF TypeOK, BudgetTypeOK, Row, Settle, Settleable

LEMMA ReserveKeeps ==
    ASSUME TypeOK, WorkInv, NEW w \in Workers, ReserveWork(w) PROVE WorkInv'
<1> DEFINE a == AttemptOf(worker[w])
<1>1. /\ Active(w) /\ worker[w].pc = "claimed" /\ worker[w].day \in Days
      /\ a \in Attempts /\ WorkAttempts \subseteq Attempts
      /\ UNCHANGED <<work, epoch, reservation, sent, refused>>
  BY ActiveFields, WorkAttemptsFacts DEF ReserveWork, Active, workVars, HistoryStays
<1>2. CASE ledger' = Reserved(a, worker[w].day) /\ Goes(w, "reserved")
  <2>1. MoversKnow
    BY <1>1, <1>2, GoesKnow DEF BusyPc
  <2>2. worker'[w] # worker[w]
    BY <1>1, <1>2, GoesMoves DEF BusyPc
  <2>3. \A b \in WorkAttempts : RowStep(b)
    BY <1>1, <1>2, <2>2, UpdatesRow DEF RowStep
  <2>4. QED
    BY <1>1, <2>1, <2>3, LedgerStep
<1>3. CASE ledger' = ledger /\ Finishes(w)
  <2>1. MoversKnow
    BY <1>3, FinishesKnow
  <2>2. QED
    BY <1>1, <1>3, <2>1, LedgerStep DEF RowStep
<1>4. QED
  BY <1>2, <1>3 DEF ReserveWork

LEMMA BeginKeeps ==
    ASSUME TypeOK, WorkInv, NEW w \in Workers, BeginCall(w) PROVE WorkInv'
<1> DEFINE k == worker[w].chunk
           a == AttemptOf(worker[w])
<1>1. /\ Active(w) /\ k \in Chunks /\ worker[w].epoch \in 1 .. MaxEpoch
      /\ work[k] = "claimed" /\ epoch[k] = worker[w].epoch
      /\ ledger[a].state = "reserved" /\ a = <<k, epoch[k]>>
      /\ UNCHANGED <<ledger, epoch, sent, refused>>
      /\ work' = [work EXCEPT ![k] = "calling"]
      /\ reservation' = [reservation EXCEPT ![k] = <<k, epoch[k]>>]
      /\ Goes(w, "sending") \/ Goes(w, "releasing")
  BY ActiveFields DEF BeginCall, MayBegin, Active, AttemptOf, HistoryStays
<1>2. epoch[k] # 0
  BY <1>1
<1>3. a \notin sent
  BY <1>1 DEF WorkInv, SentIsCalled, Called, Terminal
<1>4. MoversKnow
  <2>1. CASE Goes(w, "releasing")
    BY <1>1, <2>1, GoesKnow DEF BusyPc
  <2>2. CASE Goes(w, "sending")
    <3>1. worker'[w].pc = "sending" /\ worker'[w].chunk = k
          /\ worker'[w].epoch = worker[w].epoch
      BY <1>1, <2>2, GoesMoves DEF BusyPc, KeepsClaim
    <3>2. work'[k] = "calling"
      BY <1>1 DEF TypeOK
    <3>3. Knows(w)'
      BY <1>1, <1>3, <3>1, <3>2 DEF Knows, Latest, AttemptOf, Called, Paid
    <3>4. QED
      BY <1>1, <2>2, <3>3, GoesKnowing DEF BusyPc
  <2>3. QED
    BY <1>1, <2>1, <2>2
<1>5. worker'[w] # worker[w]
  <2>1. worker'[w].pc \in {"sending", "releasing"} /\ worker[w].pc = "reserved"
    BY <1>1, GoesMoves DEF BusyPc, BeginCall
  <2>2. QED
    BY <2>1
<1>6. \A v \in Workers : Active(v) /\ AttemptOf(worker[v]) = a => v = w
  BY <1>1 DEF WorkInv, ClaimsDiffer
<1>7. Fits("calling", ledger'[<<k, epoch[k]>>].state)
  BY <1>1 DEF Fits
<1>8. "calling" \in Called /\ "calling" # "failed"
  BY DEF Called
<1>9. NobodyRelies(<<k, epoch[k]>>, "calling")
  BY <1>1, <1>5, <1>6 DEF NobodyRelies
<1>10. MayHold(<<k, epoch[k]>>)
  BY <1>1 DEF MayHold
<1> HIDE DEF k, a
<1>11. QED
  BY <1>1, <1>2, <1>4, <1>7, <1>8, <1>9, <1>10, WorkStep

LEMMA SendKeeps ==
    ASSUME TypeOK, WorkInv, NEW w \in Workers, SendCall(w) PROVE WorkInv'
<1> DEFINE k == worker[w].chunk
           a == AttemptOf(worker[w])
<1>1. /\ Active(w) /\ k \in Chunks /\ a \in WorkAttempts /\ Knows(w)
      /\ worker[w].pc = "sending" /\ worker[w].epoch \in 1 .. MaxEpoch
      /\ Goes(w, "waiting") /\ sent' = sent \cup {a}
      /\ UNCHANGED <<ledger, work, epoch, reservation, refused>>
  BY ActiveFields DEF SendCall, Active, budgetVars, workVars, WorkInv, WorkersKnow
<1>2. Latest(worker[w]) /\ work[k] \in Called /\ ledger[a].state \in Paid
      /\ a[1] = k /\ a[2] = epoch[k]
  BY <1>1 DEF Knows, AttemptOf, Latest
<1>3. /\ worker'[w].pc = "waiting" /\ worker'[w].chunk = k
      /\ worker'[w].epoch = worker[w].epoch
      /\ \A v \in Workers \ {w} : worker'[v] = worker[v]
  BY <1>1, GoesMoves DEF BusyPc, KeepsClaim
<1>4. Knows(w)'
  BY <1>1, <1>3 DEF Knows, AttemptOf
<1>5. MoversKnow
  BY <1>1, <1>4, GoesKnowing DEF BusyPc
<1>6. ClaimsDiffer'
  BY <1>1, <1>5, ClaimsKept DEF WorkInv
<1>7. SentIsCalled' /\ CallsAreLinked' /\ SpendIsHeld' /\ WorkMatchesLedger'
  BY <1>1, <1>2 DEF WorkInv, SentIsCalled, CallsAreLinked, SpendIsHeld,
                    WorkMatchesLedger, Paid
<1>8. ASSUME NEW v \in Workers \ {w}, Active(v)' PROVE Knows(v)'
  <2>1. Active(v) /\ Knows(v) /\ AttemptOf(worker[v]) # a
    BY <1>1, <1>3, <1>8 DEF Active, WorkInv, WorkersKnow, ClaimsDiffer
  <2>2. QED
    BY <1>1, <1>3, <2>1 DEF Knows, Latest, AttemptOf
<1>9. QED
  BY <1>4, <1>6, <1>7, <1>8 DEF WorkInv, WorkersKnow

LEMMA RefusedKeeps ==
    ASSUME TypeOK, WorkInv, NEW w \in Workers, Refused(w)
    PROVE  WorkInv' /\ refused' \subseteq sent'
<1> DEFINE k == worker[w].chunk
           a == AttemptOf(worker[w])
<1>1. /\ Active(w) /\ a \in sent
      /\ Goes(w, "refused") /\ refused' = refused \cup {a}
      /\ UNCHANGED <<ledger, work, epoch, reservation, sent>>
  BY DEF Refused, Active, budgetVars, workVars, WorkInv, WorkersKnow, Knows
<1>2. /\ worker'[w].pc = "refused" /\ worker'[w].chunk = k
      /\ worker'[w].epoch = worker[w].epoch
      /\ \A v \in Workers \ {w} : worker'[v] = worker[v]
  BY <1>1, GoesMoves DEF BusyPc, KeepsClaim
<1>3. Knows(w)'
  BY <1>1, <1>2 DEF Knows, AttemptOf
<1>4. MoversKnow
  BY <1>1, <1>3, GoesKnowing DEF BusyPc
<1>5. ClaimsDiffer'
  BY <1>1, <1>4, ClaimsKept DEF WorkInv
<1>6. SentIsCalled' /\ CallsAreLinked' /\ SpendIsHeld' /\ WorkMatchesLedger'
  BY <1>1 DEF WorkInv, SentIsCalled, CallsAreLinked, SpendIsHeld, WorkMatchesLedger
<1>7. ASSUME NEW v \in Workers \ {w}, Active(v)' PROVE Knows(v)'
  <2>1. Active(v) /\ Knows(v)
    BY <1>2, <1>7 DEF Active, WorkInv, WorkersKnow
  <2>2. QED
    BY <1>1, <1>2, <2>1 DEF Knows, Latest, AttemptOf
<1>8. refused' \subseteq sent'
  BY <1>1 DEF TypeOK
<1>9. QED
  BY <1>3, <1>5, <1>6, <1>7, <1>8 DEF WorkInv, WorkersKnow

LEMMA SettleKeeps ==
    ASSUME TypeOK, WorkInv, NEW w \in Workers, SettleWork(w) PROVE WorkInv'
<1> DEFINE a == AttemptOf(worker[w])
           same == ledger[a].state = "settled" /\ ledger[a].actual = worker[w].usage
<1>1. /\ Active(w) /\ a \in Attempts /\ WorkAttempts \subseteq Attempts
      /\ UNCHANGED <<work, epoch, reservation, sent, refused>>
      /\ Settle(a, worker[w].usage)
      /\ \/ (Settleable(a) \/ same) /\ Goes(w, "settled")
         \/ Finishes(w)
  <2>1. Active(w)
    BY DEF SettleWork, Active
  <2>2. QED
    BY <2>1, ActiveFields, WorkAttemptsFacts DEF SettleWork, workVars, HistoryStays
<1>2. \A b \in WorkAttempts : RowStep(b)
  BY <1>1, SettlesRow DEF RowStep, Settleable
<1>3. MoversKnow
  <2>1. CASE Finishes(w)
    BY <2>1, FinishesKnow
  <2>2. CASE (Settleable(a) \/ same) /\ Goes(w, "settled")
    <3>1. ledger'[a].state = "settled"
      BY <1>1, <2>2, SettlesRow
    <3>2. /\ worker'[w].pc = "settled" /\ worker'[w].chunk = worker[w].chunk
          /\ worker'[w].epoch = worker[w].epoch
      BY <1>1, <2>2, GoesMoves DEF BusyPc, KeepsClaim
    <3>3. Knows(w)'
      BY <3>1, <3>2 DEF Knows, AttemptOf
    <3>4. QED
      BY <1>1, <2>2, <3>3, GoesKnowing DEF BusyPc
  <2>3. QED
    BY <1>1, <2>1, <2>2
<1>4. QED
  BY <1>1, <1>2, <1>3, LedgerStep

\* The worker whose claim is still the call of its chunk decides it.
LEMMA DecideKeeps ==
    ASSUME TypeOK, WorkInv, NEW w \in Workers, Active(w), Owns(worker[w]),
           NEW state \in Terminal,
           work' = [work EXCEPT ![worker[w].chunk] = state],
           UNCHANGED <<epoch, reservation, sent, refused>>,
           MayHold(AttemptOf(worker[w])),
           Fits(state, ledger'[AttemptOf(worker[w])].state),
           state = "failed" => AttemptOf(worker[w]) \in refused,
           MoversKnow, worker'[w] # worker[w]
    PROVE  WorkInv'
<1>0. SUFFICES ASSUME NEW k \in Chunks, k = worker[w].chunk PROVE WorkInv'
  BY ActiveFields
<1>1. /\ k \in Chunks /\ epoch[k] # 0
      /\ AttemptOf(worker[w]) = <<k, epoch[k]>>
      /\ work[k] = "calling" /\ state \in Called /\ state # "calling"
  BY <1>0, ActiveFields DEF Owns, AttemptOf, Called, Terminal
<1>2. reservation' = [reservation EXCEPT ![k] = <<k, epoch[k]>>]
  BY <1>1 DEF WorkInv, CallsAreLinked, Called, TypeOK
<1>3. NobodyRelies(<<k, epoch[k]>>, state)
  BY <1>1 DEF WorkInv, ClaimsDiffer, NobodyRelies
<1>4. /\ MayHold(<<k, epoch[k]>>)
      /\ Fits(state, ledger'[<<k, epoch[k]>>].state)
      /\ state = "failed" => <<k, epoch[k]>> \in refused
      /\ work' = [work EXCEPT ![k] = state]
      /\ UNCHANGED <<epoch, sent, refused>>
  BY <1>0, <1>1
<1>5. QED
  BY <1>1, <1>2, <1>3, <1>4, WorkStep

LEMMA CompleteKeeps ==
    ASSUME TypeOK, WorkInv, NEW w \in Workers, CompleteWork(w) PROVE WorkInv'
<1> DEFINE a == AttemptOf(worker[w])
<1>1. /\ Active(w) /\ Owns(worker[w]) /\ worker[w].pc = "settled"
      /\ work' = [work EXCEPT ![worker[w].chunk] = "completed"]
      /\ UNCHANGED <<ledger, epoch, reservation, sent, refused>>
      /\ Finishes(w) \/ Goes(w, "marking")
  BY DEF CompleteWork, Active, HistoryStays
<1>2. Fits("completed", ledger'[a].state)
  BY <1>1 DEF WorkInv, WorkersKnow, Knows, Fits
<1>3. MoversKnow
  BY <1>1, FinishesKnow, GoesKnow DEF BusyPc
<1>4. worker'[w] # worker[w]
  BY <1>1, FinishesMoves, GoesMoves DEF BusyPc
<1>5. "completed" \in Terminal /\ "completed" # "failed" /\ MayHold(a)
  BY <1>1 DEF Terminal, MayHold
<1>6. QED
  BY <1>1, <1>2, <1>3, <1>4, <1>5, DecideKeeps

LEMMA MarkFailedKeeps ==
    ASSUME TypeOK, WorkInv, NEW w \in Workers, MarkFailed(w) PROVE WorkInv'
<1>1. /\ Active(w) /\ worker[w].pc = "refused" /\ Goes(w, "releasing")
      /\ UNCHANGED <<ledger, epoch, reservation, sent, refused>>
  BY DEF MarkFailed, Active, budgetVars, HistoryStays
<1>2. MoversKnow /\ worker'[w] # worker[w]
  BY <1>1, GoesKnow, GoesMoves DEF BusyPc
<1>3. CASE Owns(worker[w])
  <2>1. work' = [work EXCEPT ![worker[w].chunk] = "failed"]
    BY <1>3 DEF MarkFailed
  <2>2. AttemptOf(worker[w]) \in refused
    BY <1>1 DEF WorkInv, WorkersKnow, Knows
  <2>3. /\ "failed" \in Terminal /\ MayHold(AttemptOf(worker[w]))
        /\ Fits("failed", ledger'[AttemptOf(worker[w])].state)
    BY <1>1 DEF Terminal, Fits, MayHold
  <2>4. QED
    BY <1>1, <1>2, <1>3, <2>1, <2>2, <2>3, DecideKeeps
<1>4. CASE ~Owns(worker[w])
  <2>1. UNCHANGED work
    BY <1>4 DEF MarkFailed
  <2>2. QED
    BY <1>1, <1>2, <2>1, LedgerStep DEF RowStep
<1>5. QED
  BY <1>3, <1>4

LEMMA MarkUnknownKeeps ==
    ASSUME TypeOK, WorkInv, NEW w \in Workers, MarkOutcomeUnknown(w) PROVE WorkInv'
<1> DEFINE k == worker[w].chunk
           a == AttemptOf(worker[w])
<1>1. /\ Active(w) /\ k \in Chunks /\ a \in WorkAttempts
      /\ WorkAttempts \subseteq Attempts
      /\ worker[w].pc \in {"marking", "unclear"}
      /\ Finishes(w) \/ Goes(w, "holding")
      /\ UNCHANGED <<epoch, reservation, sent, refused>>
  <2>1. Active(w)
    BY DEF MarkOutcomeUnknown, Active
  <2>2. QED
    BY <2>1, ActiveFields, WorkAttemptsFacts DEF MarkOutcomeUnknown, HistoryStays
<1>2. worker'[w] # worker[w]
  BY <1>1, FinishesMoves, GoesMoves DEF BusyPc
<1>3. ASSUME Latest(worker[w]) => work'[k] # "calling" PROVE MoversKnow
  <2>1. CASE Finishes(w)
    BY <2>1, FinishesKnow
  <2>2. CASE Goes(w, "holding")
    <3>1. /\ worker'[w].pc = "holding" /\ worker'[w].chunk = k
          /\ worker'[w].epoch = worker[w].epoch
      BY <1>1, <2>2, GoesMoves DEF BusyPc, KeepsClaim
    <3>2. Knows(w)'
      BY <1>1, <1>3, <3>1 DEF Knows, Latest
    <3>3. QED
      BY <1>1, <2>2, <3>2, GoesKnowing DEF BusyPc
  <2>3. QED
    BY <1>1, <2>1, <2>2
<1>4. CASE Owns(worker[w])
  <2>1. /\ work' = [work EXCEPT ![k] = "outcome_unknown"]
        /\ ledger' = Unknown(reservation[k])
        /\ work[k] = "calling" /\ epoch[k] = worker[w].epoch
    BY <1>4 DEF MarkOutcomeUnknown, Owns
  <2>2. reservation[k] = a
    BY <1>1, <2>1 DEF WorkInv, CallsAreLinked, Called, AttemptOf
  <2>3. /\ \A b \in WorkAttempts : ledger'[b].state =
               IF b = a /\ ledger[a].state = "reserved" THEN "outcome_unknown"
               ELSE ledger[b].state
        /\ ledger[a].state \in {"reserved", "settled"}
    <3>1. ledger[a].state \in {"reserved", "settled"}
      BY <1>1, <2>1, <2>2 DEF WorkInv, WorkMatchesLedger
    <3>2. today \in Days
      BY DEF TypeOK, BudgetTypeOK
    <3>3. QED
      BY <1>1, <2>1, <2>2, <3>1, <3>2, UpdatesRow
  <2>4. /\ Fits("outcome_unknown", ledger'[a].state)
        /\ "outcome_unknown" \in Terminal /\ "outcome_unknown" # "failed"
        /\ MayHold(a)
    BY <1>1, <2>3 DEF Fits, Terminal, MayHold
  <2>5. MoversKnow
    BY <1>1, <1>3, <2>1 DEF TypeOK
  <2>6. QED
    BY <1>1, <1>2, <1>4, <2>1, <2>3, <2>4, <2>5, DecideKeeps
<1>5. CASE ~Owns(worker[w])
  <2>1. UNCHANGED <<work, ledger>>
    BY <1>5 DEF MarkOutcomeUnknown
  <2>2. Latest(worker[w]) => work'[k] # "calling"
    BY <1>5, <2>1 DEF Owns, Latest
  <2>3. QED
    BY <1>1, <1>3, <2>1, <2>2, LedgerStep DEF RowStep
<1>6. QED
  BY <1>4, <1>5

LEMMA HoldKeeps ==
    ASSUME TypeOK, WorkInv, NEW w \in Workers, HoldUnknown(w) PROVE WorkInv'
<1> DEFINE a == AttemptOf(worker[w])
<1>1. /\ Active(w) /\ a \in WorkAttempts /\ WorkAttempts \subseteq Attempts
      /\ Finishes(w) /\ ledger' = Unknown(a) /\ worker[w].pc = "holding"
      /\ UNCHANGED <<work, epoch, reservation, sent, refused>>
      /\ today \in Days
  <2>1. Active(w)
    BY DEF HoldUnknown, Active
  <2>2. QED
    BY <2>1, ActiveFields, WorkAttemptsFacts
       DEF HoldUnknown, workVars, HistoryStays, TypeOK, BudgetTypeOK
<1>2. \A k \in Chunks : reservation[k] = a => work[k] # "calling"
  <2>1. SUFFICES ASSUME NEW k \in Chunks, reservation[k] = a, work[k] = "calling"
                 PROVE  FALSE
    OBVIOUS
  <2>2. a = <<k, epoch[k]>>
    BY <2>1 DEF WorkInv, CallsAreLinked, Called
  <2>3. worker[w].chunk = k /\ Latest(worker[w])
    BY <2>2 DEF AttemptOf, Latest
  <2>4. QED
    BY <1>1, <2>1, <2>3 DEF WorkInv, WorkersKnow, Knows
<1>3. \A b \in WorkAttempts : RowStep(b)
  BY <1>1, <1>2, UpdatesRow DEF RowStep
<1>4. QED
  BY <1>1, <1>3, FinishesKnow, LedgerStep

LEMMA ReleaseKeeps ==
    ASSUME TypeOK, WorkInv, NEW w \in Workers, ReleaseWork(w) PROVE WorkInv'
<1> DEFINE a == AttemptOf(worker[w])
<1>1. /\ a \in WorkAttempts /\ WorkAttempts \subseteq Attempts
      /\ Finishes(w)
      /\ ledger' = ledger \/ (Unsent(a) /\ ledger' = Released(a))
      /\ UNCHANGED <<work, epoch, reservation, sent, refused>>
      /\ today \in Days
  <2>1. Active(w)
    BY DEF ReleaseWork, Active
  <2>2. ledger' = ledger \/ (Unsent(a) /\ ledger' = Released(a))
    BY DEF ReleaseWork
  <2>3. QED
    BY <2>1, <2>2, ActiveFields, WorkAttemptsFacts
       DEF ReleaseWork, workVars, HistoryStays, TypeOK, BudgetTypeOK
<1>2. \A b \in WorkAttempts : RowStep(b)
  BY <1>1, UpdatesRow DEF RowStep
<1>3. QED
  BY <1>1, <1>2, FinishesKnow, LedgerStep

\* Steps that touch neither the ledger nor a work item.
LEMMA MovesKeep ==
    ASSUME TypeOK, WorkInv, NEW w \in Workers, Active(w),
           UNCHANGED <<ledger, work, epoch, reservation, sent, refused>>,
           \/ Finishes(w)
           \/ \E pc \in {"releasing", "marking", "unclear", "answered"} :
                  worker'[w].pc = pc /\ KeepsClaim(w)
    PROVE  WorkInv'
<1>1. CASE Finishes(w)
  BY <1>1, FinishesKnow, LedgerStep DEF RowStep
<1>2. CASE \E pc \in {"releasing", "marking", "unclear", "answered"} :
               worker'[w].pc = pc /\ KeepsClaim(w)
  <2>1. Knows(w)'
    BY <1>2 DEF Knows
  <2>2. MoversKnow
    BY <1>2, <2>1 DEF MoversKnow, KeepsClaim
  <2>3. QED
    BY <2>2, LedgerStep DEF RowStep
<1>3. QED
  BY <1>1, <1>2

LEMMA ProcessKeeps ==
    ASSUME TypeOK, WorkInv, NEW w \in Workers, Process(w)
    PROVE  WorkInv' /\ refused' \subseteq sent'
<1>1. CASE Refused(w)
  BY <1>1, RefusedKeeps
<1>2. CASE ~Refused(w)
  <2>1. refused' = refused /\ sent \subseteq sent'
    BY <1>2 DEF Process, ReserveWork, BeginCall, BeginCallFails, SendCall, Answered,
       Unclear, SettleWork, CompleteWork, CompleteWorkFails, MarkOutcomeUnknown,
       HoldUnknown, MarkFailed, ReleaseWork, HistoryStays
  <2>2. CASE BeginCallFails(w)
    <3>1. Active(w) /\ Goes(w, "releasing")
          /\ UNCHANGED <<ledger, work, epoch, reservation, sent, refused>>
      BY <2>2 DEF BeginCallFails, Active, workVars, HistoryStays
    <3>2. QED
      BY <2>1, <3>1, MovesKeep, GoesMoves DEF BusyPc, TypeOK
  <2>3. CASE CompleteWorkFails(w)
    <3>1. Active(w) /\ Goes(w, "marking")
          /\ UNCHANGED <<ledger, work, epoch, reservation, sent, refused>>
      BY <2>3 DEF CompleteWorkFails, Active, workVars, HistoryStays
    <3>2. QED
      BY <2>1, <3>1, MovesKeep, GoesMoves DEF BusyPc, TypeOK
  <2>4. CASE Unclear(w)
    <3>1. Active(w) /\ Goes(w, "unclear")
          /\ UNCHANGED <<ledger, work, epoch, reservation, sent, refused>>
      BY <2>4 DEF Unclear, Active, workVars, budgetVars
    <3>2. QED
      BY <2>1, <3>1, MovesKeep, GoesMoves DEF BusyPc, TypeOK
  <2>5. ASSUME NEW usage \in 0 .. MaxUsage, Answered(w, usage)
        PROVE  WorkInv' /\ refused' \subseteq sent'
    <3>1. Active(w) /\ UNCHANGED <<ledger, work, epoch, reservation, sent, refused>>
      BY <2>5 DEF Answered, Active, workVars, budgetVars
    <3>2. worker'[w].pc = "answered" /\ KeepsClaim(w)
      <4>1. worker[w] \in Busy /\ worker \in [Workers -> Busy \cup [pc : {"idle"}]]
        BY <3>1, ActiveFields DEF TypeOK
      <4>2. worker' = [worker EXCEPT ![w] =
                          [worker[w] EXCEPT !.pc = "answered", !.usage = usage]]
        BY <2>5, <4>1 DEF Answered
      <4>3. QED
        BY <4>1, <4>2 DEF KeepsClaim, Busy
    <3>3. QED
      BY <2>1, <3>1, <3>2, MovesKeep DEF TypeOK
  <2>6. QED
    BY <1>2, <2>1, <2>2, <2>3, <2>4, <2>5, ReserveKeeps, BeginKeeps, SendKeeps,
       SettleKeeps, CompleteKeeps, MarkUnknownKeeps, MarkFailedKeeps, HoldKeeps,
       ReleaseKeeps DEF Process, TypeOK
<1>3. QED
  BY <1>1, <1>2

(***************************************************************************)
(* The surroundings.                                                       *)
(***************************************************************************)
LEMMA GiveUpKeeps ==
    ASSUME TypeOK, WorkInv, NEW k \in Chunks, GiveUpCall(k) PROVE WorkInv'
<1> DEFINE a == <<k, epoch[k]>>
<1>1. /\ work[k] = "calling" /\ work' = [work EXCEPT ![k] = "outcome_unknown"]
      /\ ledger' = Unknown(reservation[k])
      /\ UNCHANGED <<epoch, reservation, sent, refused, worker>>
  BY DEF GiveUpCall
<1>2. reservation[k] = a /\ epoch[k] # 0
  BY <1>1 DEF WorkInv, CallsAreLinked, Called
<1>3. a \in WorkAttempts /\ WorkAttempts \subseteq Attempts /\ today \in Days
  BY <1>2, WorkAttemptsFacts DEF TypeOK, BudgetTypeOK, WorkAttempts
<1>4. ledger[a].state \in {"reserved", "settled"}
  BY <1>1, <1>2 DEF WorkInv, WorkMatchesLedger
<1>5. \A b \in WorkAttempts : ledger'[b].state =
          IF b = a /\ ledger[a].state = "reserved" THEN "outcome_unknown"
          ELSE ledger[b].state
  BY <1>1, <1>2, <1>3, UpdatesRow
<1>6. MayHold(a) /\ Fits("outcome_unknown", ledger'[a].state)
  BY <1>3, <1>4, <1>5 DEF MayHold, Fits
<1>7. reservation' = [reservation EXCEPT ![k] = a]
  BY <1>1, <1>2 DEF TypeOK
<1>8. MoversKnow
  BY <1>1 DEF MoversKnow
<1>9. NobodyRelies(a, "outcome_unknown")
  BY <1>1 DEF NobodyRelies, WorkInv, WorkersKnow, Knows, AttemptOf, Latest
<1>10. "outcome_unknown" \in Called /\ "outcome_unknown" # "failed"
  BY DEF Called, Terminal
<1>11. QED
  BY <1>1, <1>2, <1>6, <1>7, <1>8, <1>9, <1>10, WorkStep

\* The other lanes and the clock settle rows of embedding work at most.
LEMMA BudgetKeeps ==
    ASSUME TypeOK, WorkInv, BudgetNext,
           UNCHANGED <<workVars, rights, worker, sent, refused>>
    PROVE  WorkInv'
<1>1. WorkAttempts \subseteq Attempts \ Callers /\ Callers \subseteq Attempts
  BY WorkAttemptsFacts, BoundsAreNat
<1>2. \A b \in WorkAttempts : RowStep(b)
  <2>1. CASE UNCHANGED ledger
    BY <2>1 DEF RowStep
  <2>2. ASSUME NEW a \in Attempts, NEW usage, Settle(a, usage)
        PROVE  \A b \in WorkAttempts : RowStep(b)
    BY <1>1, <2>2, SettlesRow DEF RowStep, Settleable
  <2>3. ASSUME NEW c \in Callers, CallSteps(c)
        PROVE  \A b \in WorkAttempts : RowStep(b)
    <3>1. CASE SettleCall(c)
      BY <1>1, <2>2, <3>1 DEF SettleCall
    <3>2. CASE ~SettleCall(c)
      <4>1. /\ \/ ledger' = ledger
               \/ ledger' = Unknown(c)
               \/ ledger' = Released(c)
               \/ ledger' = Reserved(c, caller[c].day)
            /\ caller[c].day \in Days /\ c \in Attempts
        BY <1>1, <2>3, <3>2 DEF CallSteps, StartCall, ReserveCall, CallAnswered,
           CallFailed, HoldCall, DropCall, ReleaseUnsent, scopeVars, TypeOK,
           BudgetTypeOK, Caller
      <4>2. \A b \in WorkAttempts : ledger'[b].state = ledger[b].state
        BY <1>1, <4>1, UpdatesRow
      <4>3. QED
        BY <4>2 DEF RowStep
    <3>3. QED
      BY <3>1, <3>2
  <2>4. QED
    BY <2>1, <2>2, <2>3 DEF BudgetNext, ConfigureScope, Midnight, Reconcile
<1>3. MoversKnow
  BY DEF MoversKnow
<1>4. QED
  BY <1>2, <1>3, LedgerStep DEF workVars

LEMMA WorkInvInit == Init => WorkInv
<1> SUFFICES ASSUME Init PROVE WorkInv
  OBVIOUS
<1>1. \A k \in Chunks : work[k] = "pending"
  BY DEF Init
<1>2. \A w \in Workers : worker[w].pc = "idle"
  BY DEF Init
<1>3. sent = {} /\ refused = {}
  BY DEF Init
<1>4. QED
  BY <1>1, <1>2, <1>3 DEF WorkInv, ClaimsDiffer, SentIsCalled, CallsAreLinked,
     WorkersKnow, SpendIsHeld, WorkMatchesLedger, Active, Called, Terminal

LEMMA WorkNext == TypeOK /\ WorkInv /\ [Next]_vars => TypeOK' /\ WorkInv'
<1> SUFFICES ASSUME TypeOK, WorkInv, [Next]_vars PROVE TypeOK' /\ WorkInv'
  OBVIOUS
<1>1. Typed'
  BY NextTyped
<1>2. WorkInv' /\ refused' \subseteq sent'
  <2>1. ASSUME NEW w \in Workers, Process(w) PROVE WorkInv' /\ refused' \subseteq sent'
    BY <2>1, ProcessKeeps
  <2>2. ASSUME NEW w \in Workers, Drop(w) PROVE WorkInv' /\ refused' \subseteq sent'
    BY <2>2, MovesKeep DEF Drop, Active, workVars, HistoryStays, TypeOK
  <2>3. ASSUME NEW w \in Workers, NEW k \in Chunks, ClaimWork(w, k)
        PROVE  WorkInv' /\ refused' \subseteq sent'
    BY <2>3, ClaimKeeps DEF ClaimWork, TypeOK
  <2>4. ASSUME NEW k \in Chunks, GiveUpCall(k) PROVE WorkInv' /\ refused' \subseteq sent'
    BY <2>4, GiveUpKeeps DEF GiveUpCall, TypeOK
  <2>5. ASSUME UNCHANGED <<ledger, work, epoch, reservation, worker, sent, refused>>
        PROVE  WorkInv' /\ refused' \subseteq sent'
    <3>1. MoversKnow /\ \A a \in WorkAttempts : RowStep(a)
      BY <2>5 DEF MoversKnow, RowStep
    <3>2. QED
      BY <2>5, <3>1, LedgerStep DEF TypeOK
  <2>6. ASSUME NEW k \in Chunks, LeaseExpires(k) PROVE WorkInv' /\ refused' \subseteq sent'
    BY <2>5, <2>6 DEF LeaseExpires
  <2>7. ASSUME NEW on \in BOOLEAN, SetRights(on) PROVE WorkInv' /\ refused' \subseteq sent'
    BY <2>5, <2>7 DEF SetRights, workVars
  <2>8. ASSUME NEW a \in Attempts, ReleaseUnsentWork(a)
        PROVE  WorkInv' /\ refused' \subseteq sent'
    <3>1. \A b \in WorkAttempts : RowStep(b)
      <4>1. today \in Days /\ WorkAttempts \subseteq Attempts
        BY WorkAttemptsFacts DEF TypeOK, BudgetTypeOK
      <4>2. QED
        BY <2>8, <4>1, UpdatesRow DEF ReleaseUnsentWork, RowStep
    <3>2. MoversKnow /\ UNCHANGED <<work, epoch, reservation, sent, refused>>
      BY <2>8 DEF ReleaseUnsentWork, workVars, MoversKnow
    <3>3. QED
      BY <3>1, <3>2, LedgerStep DEF TypeOK
  <2>9. CASE BudgetNext /\ UNCHANGED <<workVars, rights, worker, sent, refused>>
    BY <2>9, BudgetKeeps DEF TypeOK
  <2>10. CASE UNCHANGED vars
    BY <2>5, <2>10 DEF vars, budgetVars, workVars
  <2>11. QED
    BY <2>1, <2>2, <2>3, <2>4, <2>6, <2>7, <2>8, <2>9, <2>10 DEF Next
<1>3. TypeOK'
  BY <1>1, <1>2 DEF TypeOK, Typed, WorkTyped
<1>4. QED
  BY <1>2, <1>3

LEMMA WorkCorrect == Spec => [](TypeOK /\ WorkInv)
<1>1. QED
  BY WorkTypeInit, WorkInvInit, WorkNext, PTL DEF Spec

(***************************************************************************)
(* The results.                                                            *)
(***************************************************************************)

(* Work items, workers and ledger keep their types, and only a request     *)
(* that was sent is ever refused.                                          *)
THEOREM WorkTypeCorrect == Spec => []TypeOK
<1>1. QED
  BY WorkCorrect, PTL

(* Whatever is claimed, abandoned, given up and claimed again, the         *)
(* provider is called at most once for a chunk and profile.                *)
THEOREM PaidOnce == Spec => []AtMostOneCall
<1>1. WorkInv => AtMostOneCall
  <2>1. SUFFICES ASSUME WorkInv, NEW a \in sent, NEW b \in sent, a[1] = b[1] PROVE a = b
    BY DEF AtMostOneCall
  <2>2. a \in WorkAttempts /\ b \in WorkAttempts /\ a[2] = b[2]
    BY <2>1 DEF WorkInv, SentIsCalled
  <2>3. QED
    BY <2>1, <2>2 DEF WorkAttempts
<1>2. QED
  BY <1>1, WorkCorrect, PTL

(* No call that the provider may charge loses its place in the ledger.     *)
THEOREM SpendStaysHeld == Spec => []SpendIsHeld
<1>1. WorkInv => SpendIsHeld
  BY DEF WorkInv
<1>2. QED
  BY <1>1, WorkCorrect, PTL

(* Work item and ledger agree on every call, at every moment.              *)
THEOREM WorkAgreesWithLedger == Spec => []WorkMatchesLedger
<1>1. WorkInv => WorkMatchesLedger
  BY DEF WorkInv
<1>2. QED
  BY <1>1, WorkCorrect, PTL

(* Every write to a work item is fenced by a state that is not decided, so *)
(* that no step changes the outcome of a chunk or what it was paid with.   *)
THEOREM OutcomesAreFinal == Spec => OutcomeIsFinal
<1> DEFINE Final == \A k \in Chunks : work[k] \in Terminal =>
                        work'[k] = work[k] /\ reservation'[k] = reservation[k]
<1>1. ASSUME TypeOK, [Next]_vars PROVE Final
  <2>1. ASSUME NEW w \in Workers, Process(w) PROVE Final
    BY <1>1, <2>1 DEF TypeOK, Process, ReserveWork, BeginCall, BeginCallFails, MayBegin,
       SendCall, Answered, Refused, Unclear, SettleWork, CompleteWork, CompleteWorkFails,
       MarkOutcomeUnknown, HoldUnknown, MarkFailed, ReleaseWork, Owns, workVars, Terminal
  <2>2. ASSUME NEW w \in Workers, NEW k \in Chunks, ClaimWork(w, k) PROVE Final
    BY <1>1, <2>2 DEF TypeOK, ClaimWork, Claimable, Terminal
  <2>3. ASSUME NEW k \in Chunks, GiveUpCall(k) PROVE Final
    BY <1>1, <2>3 DEF TypeOK, GiveUpCall, Terminal
  <2>4. ASSUME UNCHANGED <<work, reservation>> PROVE Final
    BY <2>4
  <2>5. QED
    BY <1>1, <2>1, <2>2, <2>3, <2>4 DEF Next, vars, workVars, Drop, LeaseExpires,
       SetRights, ReleaseUnsentWork
<1>2. QED
  BY <1>1, WorkTypeCorrect, PTL DEF Spec, OutcomeIsFinal

(***************************************************************************)
(* Embedding work draws on the same ledger.  A claim reserves for its own  *)
(* epoch only, of which no row exists before it.                           *)
(***************************************************************************)
WorkFresh ==
    /\ \A a \in WorkAttempts : a[2] > epoch[a[1]] => ledger[a].state = "none"
    /\ \A w \in Workers :
          worker[w].pc = "claimed" => ledger[AttemptOf(worker[w])].state = "none"

LEMMA WorkerAttempt ==
    ASSUME TypeOK, NEW w \in Workers, Active(w)
    PROVE  /\ AttemptOf(worker[w]) \in WorkAttempts
           /\ AttemptOf(worker[w]) \in Attempts \ Callers
           /\ AttemptOf(worker[w])[1] = worker[w].chunk
           /\ AttemptOf(worker[w])[2] = worker[w].epoch
           /\ worker[w].day \in Days /\ worker[w].usage \in Nat
BY ActiveFields, WorkAttemptsFacts DEF AttemptOf, WorkAttempts

LEMMA ReserveWorkCharges ==
    ASSUME TypeOK, WorkFresh, NEW w \in Workers, ReserveWork(w)
    PROVE  \E a \in Attempts \ Callers : Charges(a)
<1>1. PICK a : a = AttemptOf(worker[w])
  OBVIOUS
<1>2. LedgerTyped /\ Active(w) /\ worker[w].pc = "claimed"
  BY DEF TypeOK, BudgetTypeOK, LedgerTyped, ReserveWork, Active
<1>3. a \in Attempts \ Callers /\ worker[w].day \in Days /\ ledger[a].state = "none"
  BY <1>1, <1>2, WorkerAttempt DEF WorkFresh
<1>4. CASE Admits(a, worker[w].day) /\ ledger' = Reserved(a, worker[w].day)
  BY <1>3, <1>4 DEF Charges
<1>5. CASE ledger' = ledger
  BY <1>3, <1>5 DEF Charges, RowAdvances
<1>6. QED
  BY <1>1, <1>4, <1>5 DEF ReserveWork

\* Every other step of a worker settles, holds or gives back a row.
LEMMA ProcessAdvances ==
    ASSUME TypeOK, WorkInv, NEW w \in Workers, Process(w), ~ReserveWork(w)
    PROVE  \A b \in Attempts : RowAdvances(b)
<1> DEFINE a == AttemptOf(worker[w])
           k == worker[w].chunk
<1>1. LedgerTyped
  BY DEF TypeOK, BudgetTypeOK, LedgerTyped
<1>2. Active(w)
  BY DEF Process, ReserveWork, BeginCall, BeginCallFails, SendCall, Answered, Refused,
         Unclear, SettleWork, CompleteWork, CompleteWorkFails, MarkOutcomeUnknown,
         HoldUnknown, MarkFailed, ReleaseWork, Active
<1>3. a \in Attempts /\ k \in Chunks /\ worker[w].usage \in Nat
  BY <1>2, WorkerAttempt, ActiveFields
<1>4. CASE ledger' = ledger
  BY <1>4 DEF RowAdvances
<1>5. CASE SettleWork(w)
  BY <1>1, <1>3, <1>5, SettleAdvances DEF SettleWork
<1>6. CASE MarkOutcomeUnknown(w)
  <2>1. CASE Owns(worker[w])
    <3>1. reservation[k] = <<k, epoch[k]>> /\ work[k] \in Called
      BY <1>3, <2>1 DEF Owns, WorkInv, CallsAreLinked, Called
    <3>2. reservation[k] = a
      BY <2>1, <3>1 DEF Owns, AttemptOf
    <3>3. ledger' = Unknown(a)
      BY <1>6, <2>1, <3>2 DEF MarkOutcomeUnknown
    <3>4. QED
      BY <1>1, <1>3, <3>3, UpdatesAdvance
  <2>2. CASE ~Owns(worker[w])
    BY <1>4, <1>6, <2>2 DEF MarkOutcomeUnknown
  <2>3. QED
    BY <2>1, <2>2
<1>7. CASE HoldUnknown(w)
  BY <1>1, <1>3, <1>7, UpdatesAdvance DEF HoldUnknown
<1>8. CASE ReleaseWork(w)
  <2>1. CASE Unsent(a)
    <3>1. ledger' = Released(a)
      BY <1>8, <2>1 DEF ReleaseWork
    <3>2. ledger[a].state = "reserved"
      BY <2>1 DEF Unsent
    <3>3. QED
      BY <1>1, <1>3, <3>1, <3>2, UpdatesAdvance
  <2>2. CASE ~Unsent(a)
    BY <1>4, <1>8, <2>2 DEF ReleaseWork
  <2>3. QED
    BY <2>1, <2>2
<1>9. QED
  BY <1>4, <1>5, <1>6, <1>7, <1>8
     DEF Process, BeginCall, BeginCallFails, SendCall, Answered, Refused, Unclear,
         CompleteWork, CompleteWorkFails, MarkFailed, budgetVars

LEMMA WorkAdvances ==
    ASSUME TypeOK, WorkInv, [Next]_vars,
           ~BudgetNext, \A w \in Workers : ~ReserveWork(w)
    PROVE  \A b \in Attempts : RowAdvances(b)
<1>1. LedgerTyped
  BY DEF TypeOK, BudgetTypeOK, LedgerTyped
<1>2. CASE ledger' = ledger
  BY <1>2 DEF RowAdvances
<1>3. ASSUME NEW k \in Chunks, GiveUpCall(k) PROVE \A b \in Attempts : RowAdvances(b)
  <2>1. reservation[k] = <<k, epoch[k]>> /\ epoch[k] # 0
    BY <1>3 DEF GiveUpCall, WorkInv, CallsAreLinked, Called
  <2>2. reservation[k] \in Attempts
    BY <2>1, WorkAttemptsFacts DEF TypeOK, WorkAttempts
  <2>3. QED
    BY <1>1, <1>3, <2>2, UpdatesAdvance DEF GiveUpCall
<1>4. ASSUME NEW a \in Attempts, ReleaseUnsentWork(a)
      PROVE  \A b \in Attempts : RowAdvances(b)
  BY <1>1, <1>4, UpdatesAdvance DEF ReleaseUnsentWork, Unsent
<1>5. ASSUME NEW w \in Workers, \/ Drop(w) \/ \E k \in Chunks : ClaimWork(w, k)
      PROVE  ledger' = ledger
  BY <1>5 DEF Drop, ClaimWork, budgetVars
<1>6. ASSUME NEW k \in Chunks, LeaseExpires(k) PROVE ledger' = ledger
  BY <1>6 DEF LeaseExpires
<1>7. ASSUME NEW on \in BOOLEAN, SetRights(on) PROVE ledger' = ledger
  BY <1>7 DEF SetRights
<1>8. ASSUME UNCHANGED vars PROVE ledger' = ledger
  BY <1>8 DEF vars, budgetVars
<1>9. QED
  BY <1>2, <1>3, <1>4, <1>5, <1>6, <1>7, <1>8, ProcessAdvances DEF Next

(***************************************************************************)
(* A row of embedding work that does not exist yet stays so under every    *)
(* step but the reservation of its own claim.                              *)
(***************************************************************************)
NoneStays == \A a \in WorkAttempts : ledger[a].state = "none" => ledger'[a].state = "none"

LEMMA ChargesElsewhere ==
    ASSUME LedgerTyped, NEW a \in Attempts, Charges(a)
    PROVE  \A b \in Attempts \ {a} : ledger[b].state = "none" => ledger'[b].state = "none"
<1>1. CASE \A b \in Attempts : RowAdvances(b)
  BY <1>1 DEF RowAdvances
<1>2. ASSUME NEW d \in Days, ledger' = Reserved(a, d)
      PROVE  \A b \in Attempts \ {a} : ledger'[b] = ledger[b]
  BY <1>2 DEF LedgerTyped, Reserved
<1>3. QED
  BY <1>1, <1>2 DEF Charges

LEMMA StaysFresh ==
    ASSUME TypeOK, WorkFresh, NoneStays, epoch' = epoch,
           \A w \in Workers : worker'[w].pc = "claimed" => worker'[w] = worker[w]
    PROVE  WorkFresh'
<1>1. ASSUME NEW w \in Workers, worker'[w].pc = "claimed"
      PROVE  ledger'[AttemptOf(worker[w])].state = "none" /\ worker'[w] = worker[w]
  <2>1. worker[w].pc = "claimed" /\ worker'[w] = worker[w]
    BY <1>1
  <2>2. AttemptOf(worker[w]) \in WorkAttempts
    BY <2>1, WorkerAttempt DEF Active
  <2>3. QED
    BY <2>1, <2>2 DEF WorkFresh, NoneStays
<1>2. \A a \in WorkAttempts : a[2] > epoch'[a[1]] => ledger'[a].state = "none"
  BY DEF WorkFresh, NoneStays
<1>3. QED
  BY <1>1, <1>2 DEF WorkFresh, AttemptOf

LEMMA ClaimIsFresh ==
    ASSUME TypeOK, WorkInv, WorkFresh, NEW w \in Workers, NEW k \in Chunks, ClaimWork(w, k)
    PROVE  WorkFresh'
<1>1. /\ ledger' = ledger
      /\ \A v \in Workers \ {w} : worker'[v] = worker[v]
      /\ worker'[w].chunk = k /\ worker'[w].epoch = epoch[k] + 1
      /\ epoch[k] \in Nat /\ epoch[k] + 1 \in 1 .. MaxEpoch
      /\ \A j \in Chunks : epoch'[j] = IF j = k THEN epoch[k] + 1 ELSE epoch[j]
  BY WorkAttemptsFacts DEF ClaimWork, TypeOK, budgetVars
<1>2. ASSUME NEW a \in WorkAttempts, a[2] > epoch'[a[1]]
      PROVE  ledger'[a].state = "none"
  <2>1. a[1] \in Chunks /\ a[2] \in Nat /\ epoch[a[1]] \in Nat
    BY WorkAttemptsFacts DEF WorkAttempts, TypeOK
  <2>2. a[2] > epoch[a[1]]
    BY <1>1, <1>2, <2>1
  <2>3. QED
    BY <1>1, <2>2 DEF WorkFresh
<1>3. ledger'[<<k, epoch[k] + 1>>].state = "none"
  <2>1. <<k, epoch[k] + 1>> \in WorkAttempts
    BY <1>1 DEF WorkAttempts
  <2>2. epoch[k] + 1 > epoch[k]
    BY <1>1
  <2>3. QED
    BY <1>1, <2>1, <2>2 DEF WorkFresh
<1>4. \A v \in Workers : worker'[v].pc = "claimed" =>
          ledger'[AttemptOf(worker'[v])].state = "none"
  <2>1. AttemptOf(worker'[w]) = <<k, epoch[k] + 1>>
    BY <1>1 DEF AttemptOf
  <2>2. ASSUME NEW v \in Workers \ {w}, worker'[v].pc = "claimed"
        PROVE  ledger'[AttemptOf(worker'[v])].state = "none"
    <3>1. worker'[v] = worker[v] /\ worker[v].pc = "claimed"
      BY <1>1, <2>2
    <3>2. QED
      BY <1>1, <3>1 DEF WorkFresh
  <2>3. QED
    BY <1>3, <2>1, <2>2
<1>5. QED
  BY <1>2, <1>4 DEF WorkFresh, AttemptOf

\* A reservation is that of its claim: no other claim waits for this row.
LEMMA ReserveStaysFresh ==
    ASSUME TypeOK, WorkInv, WorkFresh, NEW w \in Workers, ReserveWork(w)
    PROVE  WorkFresh'
<1> DEFINE a == AttemptOf(worker[w])
<1>1. Active(w) /\ worker[w].pc = "claimed" /\ epoch' = epoch
  BY DEF ReserveWork, Active, workVars
<1>2. /\ LedgerTyped /\ a \in WorkAttempts /\ a \in Attempts /\ worker[w].day \in Days
      /\ a[1] = worker[w].chunk /\ a[2] = worker[w].epoch
  BY <1>1, WorkerAttempt DEF TypeOK, BudgetTypeOK, LedgerTyped
<1>3. \A b \in Attempts \ {a} : ledger'[b] = ledger[b]
  <2>1. ledger' = ledger \/ ledger' = Reserved(a, worker[w].day)
    BY DEF ReserveWork
  <2>2. ledger' = Reserved(a, worker[w].day) => \A b \in Attempts \ {a} : ledger'[b] = ledger[b]
    BY <1>2 DEF LedgerTyped, Reserved
  <2>3. QED
    BY <2>1, <2>2
<1>4. worker'[w].pc # "claimed" /\ \A v \in Workers \ {w} : worker'[v] = worker[v]
  BY <1>1 DEF ReserveWork, Goes, Finishes, TypeOK, Busy
<1>5. ASSUME NEW b \in WorkAttempts, b[2] > epoch'[b[1]]
      PROVE  ledger'[b].state = "none"
  <2>1. worker[w].epoch <= epoch[worker[w].chunk]
    BY <1>1 DEF WorkInv, ClaimsDiffer
  <2>2. worker[w].epoch \in Nat /\ epoch[worker[w].chunk] \in Nat
    BY <1>1, ActiveFields, WorkAttemptsFacts DEF TypeOK
  <2>3. b # a
    BY <1>1, <1>2, <1>5, <2>1, <2>2
  <2>4. QED
    BY <1>1, <1>3, <1>5, <2>3, WorkAttemptsFacts DEF WorkFresh
<1>6. ASSUME NEW v \in Workers, worker'[v].pc = "claimed"
      PROVE  ledger'[AttemptOf(worker'[v])].state = "none"
  <2>1. v # w /\ worker'[v] = worker[v] /\ worker[v].pc = "claimed"
    BY <1>4, <1>6
  <2>2. AttemptOf(worker[v]) \in Attempts /\ AttemptOf(worker[v]) # a
    BY <1>1, <2>1, WorkerAttempt DEF WorkInv, ClaimsDiffer, Active
  <2>3. QED
    BY <1>3, <2>1, <2>2 DEF WorkFresh
<1>7. QED
  BY <1>5, <1>6 DEF WorkFresh, AttemptOf

\* No step but a claim brings a worker to the state before its reservation.
LEMMA ClaimedStays ==
    ASSUME TypeOK, [Next]_vars, \A w \in Workers, k \in Chunks : ~ClaimWork(w, k)
    PROVE  /\ epoch' = epoch
           /\ \A v \in Workers : worker'[v].pc = "claimed" => worker'[v] = worker[v]
<1> DEFINE Stays == \A v \in Workers : worker'[v].pc = "claimed" => worker'[v] = worker[v]
<1>1. ASSUME NEW w \in Workers, NEW pc \in BusyPc \ {"claimed"}, Active(w), Goes(w, pc)
      PROVE  Stays
  BY <1>1, GoesMoves DEF KeepsClaim
<1>2. ASSUME NEW w \in Workers, Finishes(w) PROVE Stays
  BY <1>2, FinishesMoves DEF KeepsClaim
<1>3. ASSUME worker' = worker PROVE Stays
  BY <1>3
<1>4. ASSUME NEW w \in Workers, NEW usage, Answered(w, usage) PROVE Stays
  <2>1. /\ worker' = [worker EXCEPT ![w] = [worker[w] EXCEPT !.pc = "answered", !.usage = usage]]
        /\ worker \in [Workers -> Busy \cup [pc : {"idle"}]] /\ worker[w] \in Busy
    BY <1>4, ActiveFields DEF Answered, Active, TypeOK
  <2>2. [worker[w] EXCEPT !.pc = "answered", !.usage = usage].pc = "answered"
    BY <2>1 DEF Busy
  <2>3. QED
    BY <2>1, <2>2
<1>5. ASSUME NEW w \in Workers, Process(w) PROVE Stays /\ epoch' = epoch
  <2>1. epoch' = epoch
    BY <1>5 DEF Process, ReserveWork, BeginCall, BeginCallFails, SendCall, Answered,
       Refused, Unclear, SettleWork, CompleteWork, CompleteWorkFails, MarkOutcomeUnknown,
       HoldUnknown, MarkFailed, ReleaseWork, workVars
  <2>2. Active(w)
    BY <1>5 DEF Process, ReserveWork, BeginCall, BeginCallFails, SendCall, Answered,
       Refused, Unclear, SettleWork, CompleteWork, CompleteWorkFails, MarkOutcomeUnknown,
       HoldUnknown, MarkFailed, ReleaseWork, Active
  <2>3. \/ \E pc \in BusyPc \ {"claimed"} : Goes(w, pc)
        \/ Finishes(w)
        \/ \E usage \in 0 .. MaxUsage : Answered(w, usage)
    BY <1>5 DEF Process, ReserveWork, BeginCall, BeginCallFails, SendCall,
       Refused, Unclear, SettleWork, CompleteWork, CompleteWorkFails, MarkOutcomeUnknown,
       HoldUnknown, MarkFailed, ReleaseWork, BusyPc
  <2>4. QED
    BY <1>1, <1>2, <1>4, <2>1, <2>2, <2>3
<1>6. ASSUME NEW w \in Workers, Drop(w) PROVE Stays /\ epoch' = epoch
  BY <1>2, <1>6 DEF Drop, workVars
<1>7. ASSUME worker' = worker, epoch' = epoch PROVE Stays /\ epoch' = epoch
  BY <1>7
<1>8. QED
  BY <1>5, <1>6, <1>7 DEF Next, vars, workVars, GiveUpCall, LeaseExpires, SetRights,
     ReleaseUnsentWork

LEMMA WorkFreshInit == Init => WorkFresh
<1> SUFFICES ASSUME Init PROVE WorkFresh
  OBVIOUS
<1>1. /\ \A a \in Attempts : ledger[a].state = "none"
      /\ \A w \in Workers : worker[w].pc = "idle"
  BY DEF Init, BudgetInit
<1>2. QED
  BY <1>1, WorkAttemptsFacts DEF WorkFresh

\* Callers reserve as before: no step of embedding work reaches their rows.
LEMMA WorkUnreserved ==
    ASSUME TypeOK, WorkInv, Unreserved, WorkFresh, [Next]_vars
    PROVE  Unreserved'
<1>1. CASE BudgetNext
  BY <1>1, BudgetVerdicts DEF TypeOK
<1>2. CASE ~BudgetNext
  <2>1. caller' = caller
    BY <1>2 DEF Next, Process, ReserveWork, BeginCall, BeginCallFails, SendCall, Answered,
       Refused, Unclear, SettleWork, CompleteWork, CompleteWorkFails, MarkOutcomeUnknown,
       HoldUnknown, MarkFailed, ReleaseWork, Drop, ClaimWork, GiveUpCall, LeaseExpires,
       SetRights, ReleaseUnsentWork, BudgetStays, budgetVars, vars
  <2>2. ASSUME NEW c \in Callers, ledger[c].state = "none" PROVE ledger'[c].state = "none"
    <3>1. LedgerTyped /\ c \in Attempts
      BY BoundsAreNat DEF TypeOK, BudgetTypeOK, LedgerTyped
    <3>2. CASE \E w \in Workers : ReserveWork(w)
      BY <2>2, <3>1, <3>2, ReserveWorkCharges, ChargesElsewhere
    <3>3. CASE \A w \in Workers : ~ReserveWork(w)
      BY <1>2, <2>2, <3>1, <3>3, WorkAdvances DEF RowAdvances
    <3>4. QED
      BY <3>2, <3>3
  <2>3. QED
    BY <2>1, <2>2 DEF Unreserved
<1>3. QED
  BY <1>1, <1>2

LEMMA WorkCapsNext ==
    ASSUME TypeOK, TypeOK', WorkInv, Unreserved, WorkFresh, CapsInv, [Next]_vars
    PROVE  WorkFresh' /\ CapsInv'
<1>1. /\ LedgerTyped /\ LedgerTyped' /\ BudgetTypeOK
      /\ WorkAttempts \subseteq Attempts \ Callers /\ Callers \subseteq Attempts
  BY WorkAttemptsFacts, BoundsAreNat DEF TypeOK, BudgetTypeOK, LedgerTyped
<1>2. (\A a \in Attempts : RowAdvances(a)) => NoneStays /\ CapsInv'
  BY <1>1, AdvanceKeepsCaps DEF NoneStays, RowAdvances
<1>3. CASE BudgetNext
  <2>1. ASSUME NEW c \in Callers, Charges(c) PROVE NoneStays /\ CapsInv'
    BY <1>1, <2>1, ChargesElsewhere, StepKeepsCaps DEF NoneStays
  <2>2. NoneStays /\ CapsInv'
    BY <1>1, <1>2, <1>3, <2>1, BudgetLedger
  <2>3. \A w \in Workers, k \in Chunks : ~ClaimWork(w, k) \/ WorkFresh'
    BY ClaimIsFresh
  <2>4. QED
    BY <2>2, <2>3, ClaimedStays, StaysFresh
<1>4. ASSUME NEW w \in Workers, ReserveWork(w) PROVE WorkFresh' /\ CapsInv'
  BY <1>1, <1>4, ReserveStaysFresh, ReserveWorkCharges, StepKeepsCaps
<1>5. CASE ~BudgetNext /\ \A w \in Workers : ~ReserveWork(w)
  <2>1. NoneStays /\ CapsInv'
    BY <1>2, <1>5, WorkAdvances
  <2>2. \A w \in Workers, k \in Chunks : ~ClaimWork(w, k) \/ WorkFresh'
    BY ClaimIsFresh
  <2>3. QED
    BY <2>1, <2>2, ClaimedStays, StaysFresh
<1>6. QED
  BY <1>3, <1>4, <1>5

(***************************************************************************)
(* Workers, callers, operator and clock together keep the limits, too: a   *)
(* claim reserves at most once, and only while there is room.              *)
(***************************************************************************)
THEOREM WorkKeepsCaps == Spec => []CapsHold
<1> DEFINE CI == Unreserved /\ WorkFresh /\ CapsInv
<1>1. Init => CI
  BY WorkFreshInit, CapsInit, BoundsAreNat DEF Init, BudgetInit, Unreserved
<1>2. TypeOK /\ TypeOK' /\ WorkInv /\ CI /\ [Next]_vars => CI'
  BY WorkUnreserved, WorkCapsNext
<1>3. TypeOK /\ CI => CapsHold
  BY CapsSuffice DEF TypeOK
<1>4. QED
  BY <1>1, <1>2, <1>3, WorkCorrect, PTL DEF Spec
==============================================================================
