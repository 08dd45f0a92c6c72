---------------------------- MODULE SourceSlots ----------------------------
(***************************************************************************)
(* The two limiters of apps/worker/src/concurrency.ts.  The Redis limiter  *)
(* keeps one hash per source, token -> expiry, that the processes share:    *)
(* a call polls the acquire script until a slot is free or its patience is  *)
(* over, renews its lease while its operation runs and deletes its token    *)
(* at the end.  The in-memory one is a counter and a queue in one process.  *)
(*                                                                         *)
(* A call makes one token, so a call is its token here.  The processes'     *)
(* clocks are one clock (slotNow); an event loop that is late is a Tick     *)
(* taken before a renewal that was due.                                     *)
(***************************************************************************)
EXTENDS Integers, FiniteSets, Sequences

CONSTANTS SlotCalls,    \* calls of the processes that share the Redis hash
          LocalCalls,   \* calls of the in-memory limiter
          Cap, Lease, Interval, Patience,
          Horizon,      \* bound: the clock stops there
          RedisFaults   \* bound: Redis commands that fail

ASSUME SlotAssumption ==
  /\ {Cap, Lease, Interval, Patience} \subseteq Nat \ {0}
  /\ Interval < Lease
  /\ {Horizon, RedisFaults} \subseteq Nat

VARIABLES slots,      \* the hash: token -> expiry
          slotNow,
          callStep,   \* where each call is
          deadline,   \* when a waiting call gives up
          promised,   \* the expiry the last successful script gave the call
          renewAt,    \* when the renewal timer fires, 0 when there is none
          renewalFailure, result,
          localActive, localQueue,   \* the in-memory limiter
          redisFaults

slotVars == <<slots, slotNow, callStep, deadline, promised, renewAt, renewalFailure, result,
              localActive, localQueue, redisFaults>>
localVars == <<localActive, localQueue>>

SlotInit ==
  /\ slots = <<>> /\ slotNow = 1 /\ redisFaults = 0
  /\ callStep = [c \in SlotCalls |-> "idle"]
  /\ deadline = [c \in SlotCalls |-> 0] /\ promised = [c \in SlotCalls |-> 0]
  /\ renewAt = [c \in SlotCalls |-> 0]
  /\ renewalFailure = [c \in SlotCalls |-> "none"] /\ result = [c \in SlotCalls |-> "none"]
  /\ localActive = {} /\ localQueue = <<>>

Only(f, S) == [x \in DOMAIN f \cap S |-> f[x]]
Put(f, x, v) == [y \in DOMAIN f \cup {x} |-> IF y = x THEN v ELSE f[y]]

\* HGETALL and HDEL of what has expired, at the head of the acquire script.
Kept == Only(slots, {c \in DOMAIN slots : slots[c] > slotNow})

AskSlot(c) ==
  /\ callStep[c] = "idle"
  /\ callStep' = [callStep EXCEPT ![c] = "waiting"]
  /\ deadline' = [deadline EXCEPT ![c] = slotNow + Patience]
  /\ UNCHANGED <<slots, slotNow, promised, renewAt, renewalFailure, result, localVars, redisFaults>>

\* One acquire script and what the loop does with its answer: the purge happens
\* whether or not a slot is free.
AcquireSlot(c) ==
  /\ callStep[c] = "waiting"
  /\ \/ /\ Cardinality(DOMAIN Kept) < Cap
        /\ slots' = Put(Kept, c, slotNow + Lease)
        /\ callStep' = [callStep EXCEPT ![c] = "running"]
        /\ promised' = [promised EXCEPT ![c] = slotNow + Lease]
        /\ renewAt' = [renewAt EXCEPT ![c] = slotNow + Interval]
        /\ UNCHANGED result
     \/ /\ Cardinality(DOMAIN Kept) >= Cap
        /\ slots' = Kept
        /\ \/ /\ slotNow >= deadline[c]
              /\ callStep' = [callStep EXCEPT ![c] = "done"]
              /\ result' = [result EXCEPT ![c] = "refused"]
           \/ slotNow < deadline[c] /\ UNCHANGED <<callStep, result>>
        /\ UNCHANGED <<promised, renewAt>>
  /\ UNCHANGED <<slotNow, deadline, renewalFailure, localVars, redisFaults>>

\* The renewal timer.  A token that lapsed and that nobody has purged is there
\* still and is renewed; one that is gone ends the renewals.
Renew(c) ==
  /\ callStep[c] = "running" /\ renewAt[c] # 0 /\ renewAt[c] <= slotNow
  /\ \/ /\ c \in DOMAIN slots
        /\ slots' = Put(slots, c, slotNow + Lease)
        /\ promised' = [promised EXCEPT ![c] = slotNow + Lease]
        /\ renewAt' = [renewAt EXCEPT ![c] = slotNow + Interval]
        /\ UNCHANGED renewalFailure
     \/ /\ c \notin DOMAIN slots
        /\ renewAt' = [renewAt EXCEPT ![c] = 0]
        /\ renewalFailure' = [renewalFailure EXCEPT ![c] = "lost"]
        /\ UNCHANGED <<slots, promised>>
  /\ UNCHANGED <<slotNow, callStep, deadline, result, localVars, redisFaults>>

RenewFails(c) ==
  /\ callStep[c] = "running" /\ renewAt[c] # 0 /\ renewAt[c] <= slotNow
  /\ redisFaults < RedisFaults /\ redisFaults' = redisFaults + 1
  /\ renewAt' = [renewAt EXCEPT ![c] = 0]
  /\ renewalFailure' = [renewalFailure EXCEPT ![c] = "unknown"]
  /\ UNCHANGED <<slots, slotNow, callStep, deadline, promised, result, localVars>>

\* A failed renewal is reported here and no earlier; the operation's own error
\* wins over it.
OperationEnds(c) ==
  /\ callStep[c] = "running"
  /\ callStep' = [callStep EXCEPT ![c] = "releasing"]
  /\ renewAt' = [renewAt EXCEPT ![c] = 0]
  /\ \E r \in {"returned", "threw"} :
       result' = [result EXCEPT ![c] =
                    IF r = "returned" /\ renewalFailure[c] # "none" THEN renewalFailure[c] ELSE r]
  /\ UNCHANGED <<slots, slotNow, deadline, promised, renewalFailure, localVars, redisFaults>>

\* The release script answers 1 whatever it deleted.
Release(c) ==
  /\ callStep[c] = "releasing"
  /\ slots' = Only(slots, DOMAIN slots \ {c})
  /\ callStep' = [callStep EXCEPT ![c] = "done"]
  /\ UNCHANGED <<slotNow, deadline, promised, renewAt, renewalFailure, result, localVars, redisFaults>>

\* The result is returned before the statement that would throw the failure.
ReleaseFails(c) ==
  /\ callStep[c] = "releasing"
  /\ redisFaults < RedisFaults /\ redisFaults' = redisFaults + 1
  /\ callStep' = [callStep EXCEPT ![c] = "done"]
  /\ UNCHANGED <<slots, slotNow, deadline, promised, renewAt, renewalFailure, result, localVars>>

\* The process is killed: its token stays in the hash.
ProcessDies(c) ==
  /\ callStep[c] \in {"waiting", "running", "releasing"}
  /\ callStep' = [callStep EXCEPT ![c] = "dead"]
  /\ renewAt' = [renewAt EXCEPT ![c] = 0]
  /\ UNCHANGED <<slots, slotNow, deadline, promised, renewalFailure, result, localVars, redisFaults>>

Tick ==
  /\ slotNow < Horizon /\ slotNow' = slotNow + 1
  /\ UNCHANGED <<slots, callStep, deadline, promised, renewAt, renewalFailure, result, localVars,
                 redisFaults>>

\* drain(): as many of the first waiters as the cap has room for.
Drained(A, Q) ==
  LET room == Cap - Cardinality(A)
      n == IF room < Len(Q) THEN room ELSE Len(Q)
  IN  [localActive |-> A \cup {Q[i] : i \in 1..n}, queue |-> SubSeq(Q, n + 1, Len(Q))]

LocalRun(c) ==
  /\ c \notin localActive /\ \A i \in DOMAIN localQueue : localQueue[i] # c
  /\ LET d == Drained(localActive, Append(localQueue, c))
     IN  localActive' = d.localActive /\ localQueue' = d.queue
  /\ UNCHANGED <<slots, slotNow, callStep, deadline, promised, renewAt, renewalFailure, result,
                 redisFaults>>

LocalEnds(c) ==
  /\ c \in localActive
  /\ LET d == Drained(localActive \ {c}, localQueue)
     IN  localActive' = d.localActive /\ localQueue' = d.queue
  /\ UNCHANGED <<slots, slotNow, callStep, deadline, promised, renewAt, renewalFailure, result,
                 redisFaults>>

RedisNext ==
  \/ \E c \in SlotCalls : \/ AskSlot(c) \/ AcquireSlot(c) \/ Renew(c) \/ RenewFails(c) \/ OperationEnds(c)
                      \/ Release(c) \/ ReleaseFails(c) \/ ProcessDies(c)
  \/ Tick

LocalNext == \E c \in LocalCalls : LocalRun(c) \/ LocalEnds(c)

-----------------------------------------------------------------------------
SlotTypeOK ==
  /\ DOMAIN slots \subseteq SlotCalls /\ \A c \in DOMAIN slots : slots[c] \in Nat
  /\ callStep \in [SlotCalls -> {"idle", "waiting", "running", "releasing", "done", "dead"}]
  /\ result \in [SlotCalls -> {"none", "returned", "threw", "lost", "unknown", "refused"}]
  /\ localActive \subseteq LocalCalls

\* The header of the Redis limiter: the cap is global across the processes and a
\* killed one blocks its slot for at most a lease.  However late the renewals
\* are, the hash never holds more tokens than the cap; the calls that run on a
\* lease they were promised and that is not over hold their slots, so that no
\* more of them than the cap run; and no token outlives a lease from now.  In
\* one process no call waits while there is room.
SlotsAreLeased ==
  /\ Cardinality(DOMAIN slots) <= Cap
  /\ \A c \in DOMAIN slots : slots[c] <= slotNow + Lease /\ slots[c] = promised[c]
  /\ \A c \in SlotCalls : callStep[c] \in {"running", "releasing"} /\ promised[c] > slotNow
                        => c \in DOMAIN slots
  /\ Cardinality(localActive) <= Cap /\ (localQueue # <<>> => Cardinality(localActive) = Cap)
=============================================================================
