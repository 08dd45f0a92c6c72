--------------------------- MODULE OperatorCommands ---------------------------
(***************************************************************************)
(* Commands of operators to the API.  Every command carries a key under    *)
(* which its process keeps the first answer; the handler runs between a    *)
(* look into that store and the entry that it makes there, over several    *)
(* awaits.  What a command does is one transaction, or a few.  Commands on *)
(* a target lock its source row and its own row in PostgreSQL.             *)
(***************************************************************************)
EXTENDS Naturals, FiniteSets

CONSTANTS
    CommandRequests,     \* commands that arrive
    Plans,        \* what they may be: request -> key, kind, arg, actor
    Revisions,    \* configurations of the target, and whether each is approved
    Approved,
    NoEntry, Nobody, Nothing,
    MaxRestarts   \* bound: the API process is replaced, or an entry outlives its day

CommandKinds == {"run", "register", "enable", "disable", "review", "cohort", "replay"}
CommandReplies == {"none", "ok", "skipped_disabled", "duplicate", "queued", "conflict",
                   "unavailable", "blocked", "deadlock", "not_found", "invalid", "invalid_state",
                   "error", "lost"}
Args == {p[q].arg : p \in Plans, q \in CommandRequests}

\* A review accepts or rejects, anything else is refused; a cohort has members.
ASSUME CommandConstants ==
    /\ \A p \in Plans, q \in CommandRequests :
        /\ p[q].kind \in CommandKinds
        /\ p[q].kind = "review" => p[q].arg \in {"accepted", "rejected"}
        /\ p[q].kind = "cohort" => p[q].arg # Nothing
    /\ Nobody \notin CommandRequests
    /\ NoEntry \notin [payload : [kind : CommandKinds, arg : Args], reply : CommandReplies]

VARIABLES
    runPorts,     \* what this process has of "rows" of runs and the "queue" for them
    asked,        \* the commands
    command,      \* request -> at, reply, and what its handler has read
    store,        \* key -> the answer that is kept, in this process
    target,       \* current revision, and whether it is enabled
    registered,   \* revisions of the target
    rowLocks,     \* "source", "target" -> the transaction that holds the row
    candidate,    \* a discovered candidate: state, target, who reviewed it
    cohort,       \* members of a cohort version
    collections,  \* run rows: request that made it -> its status
    dispatched,   \* runs that are in the queue
    replans,      \* replays that made new deliveries
    enabledFor,   \* the revision that the last enable command looked at
    restarts
commandVars == <<runPorts, asked, command, store, target, registered, rowLocks, candidate,
                 cohort, collections, dispatched, replans, enabledFor, restarts>>
worldVars == <<target, registered, rowLocks, candidate, cohort, collections, dispatched,
               replans, enabledFor>>

CommandKeys == {p[q].key : p \in Plans, q \in CommandRequests}
Kind(q) == asked[q].kind
Payload(q) == [kind |-> Kind(q), arg |-> asked[q].arg]
CommandAt(q, at) == command' = [command EXCEPT ![q].at = at]

-----------------------------------------------------------------------------
\* A key that is kept with another payload is a conflict; with this one its
\* answer is given again; without an entry the handler starts.
Begins(q) ==
    CASE Kind(q) = "run" -> "create"
      [] Kind(q) \in {"enable", "disable"} -> "read"
      [] Kind(q) = "register" -> "lockSource"
      [] OTHER -> Kind(q)
CommandArrives(q) ==
    /\ command[q].at = "idle"
    /\ LET e == store[asked[q].key]
       IN  command' = [command EXCEPT ![q] =
               IF e = NoEntry THEN [@ EXCEPT !.at = Begins(q)]
               ELSE IF e.payload # Payload(q) THEN [@ EXCEPT !.at = "done", !.reply = "conflict"]
               ELSE [@ EXCEPT !.at = "done", !.reply = e.reply, !.replayed = TRUE]]
    /\ UNCHANGED <<runPorts, asked, store, restarts, worldVars>>

\* The result is audited, then kept, then given.  What failed is not kept.
Finish(q) ==
    /\ command[q].at = "finishing" /\ CommandAt(q, "done")
    /\ store' = [store EXCEPT ![asked[q].key] =
                     [payload |-> Payload(q), reply |-> command[q].reply]]
    /\ UNCHANGED <<runPorts, asked, restarts, worldVars>>
Replies(q, reply) == command' = [command EXCEPT ![q].at = "finishing", ![q].reply = reply]
CommandRefused(q, reply) == command' = [command EXCEPT ![q].at = "done", ![q].reply = reply]

-----------------------------------------------------------------------------
(***************************************************************************)
(* POST /collection-runs: a row, and then a job for it; neither without    *)
(* its port, as for a dry run.                                             *)
(***************************************************************************)
RunBecomes(q, status) == collections' = [collections EXCEPT ![q] = status]
runsUnmoved == <<runPorts, asked, store, target, registered, rowLocks, candidate, cohort,
                 replans, enabledFor, restarts>>

\* A limit out of range, a source that is unknown or disabled; a query that
\* fails, after which the row may be there all the same
CreateRun(q) ==
    /\ command[q].at = "create"
    /\ \/ /\ \E why \in {"invalid", "not_found", "error"} : CommandRefused(q, why)
          /\ UNCHANGED collections
       \/ "rows" \in runPorts /\ RunBecomes(q, "pending") /\ CommandRefused(q, "error")
       \/ /\ IF "rows" \in runPorts THEN RunBecomes(q, "pending") ELSE UNCHANGED collections
          /\ IF "queue" \in runPorts THEN CommandAt(q, "dispatch") ELSE Replies(q, "ok")
    /\ UNCHANGED <<dispatched, runsUnmoved>>

\* The queue takes the run, or it fails, and may have taken it.
DispatchRun(q) ==
    /\ command[q].at = "dispatch"
    /\ \/ dispatched' = dispatched \cup {q} /\ Replies(q, "ok")
       \/ /\ dispatched' \in {dispatched, dispatched \cup {q}}
          /\ IF "rows" \in runPorts THEN CommandAt(q, "marking")
             ELSE CommandRefused(q, "unavailable")
    /\ UNCHANGED <<collections, runsUnmoved>>

\* After a failed dispatch the row is made a failed one, in an update that
\* may fail in its turn.
MarkRunFailed(q) ==
    /\ command[q].at = "marking"
    /\ \/ RunBecomes(q, "failed") /\ \E why \in {"unavailable", "error"} : CommandRefused(q, why)
       \/ UNCHANGED collections /\ CommandRefused(q, "error")
    /\ UNCHANGED <<dispatched, runsUnmoved>>

-----------------------------------------------------------------------------
(***************************************************************************)
(* Targets.  A row that another transaction holds is waited for.           *)
(***************************************************************************)
Holds(q) == {r \in DOMAIN rowLocks : rowLocks[r] = q}
Takes(q, row) == rowLocks[row] = Nobody /\ rowLocks' = [rowLocks EXCEPT ![row] = q]
CommandEnds(q) == rowLocks' = [r \in DOMAIN rowLocks |-> IF rowLocks[r] = q THEN Nobody ELSE rowLocks[r]]

\* registerTarget locks the source, then the target, and makes its revision
\* the current one; a target whose revision changes is disabled.
RegisterLocks(q) ==
    /\ \/ command[q].at = "lockSource" /\ Takes(q, "source") /\ CommandAt(q, "lockTarget")
       \/ command[q].at = "lockTarget" /\ Takes(q, "target") /\ CommandAt(q, "write")
    /\ UNCHANGED <<runPorts, asked, store, target, registered, candidate, cohort, collections,
                   dispatched, replans, enabledFor, restarts>>
RegisterTarget(q) ==
    /\ command[q].at = "write" /\ Kind(q) = "register"
    /\ registered' = registered \cup {asked[q].arg}
    /\ target' = [current |-> asked[q].arg,
                  enabled |-> target.enabled /\ target.current = asked[q].arg]
    /\ CommandEnds(q) /\ Replies(q, "ok")
    /\ UNCHANGED <<runPorts, asked, store, candidate, cohort, collections, dispatched, replans,
                   enabledFor, restarts>>

\* An enabled one, a policy not reviewed, no state port, a malformed target; in
\* the transaction, a source of another key or whose policy nobody reviewed
RegisterRefused(q) ==
    /\ \/ /\ command[q].at = "lockSource"
          /\ \E why \in {"invalid", "unavailable"} : CommandRefused(q, why)
       \/ /\ command[q].at = "lockTarget"
          /\ \E why \in {"invalid", "not_found"} : CommandRefused(q, why)
    /\ CommandEnds(q)
    /\ UNCHANGED <<runPorts, asked, store, target, registered, candidate, cohort, collections,
                   dispatched, replans, enabledFor, restarts>>

\* setTargetEnabled reads the current revision without a lock, and then
\* locks that revision's target and source, one row after the other.
ReadCommandTarget(q) ==
    /\ command[q].at = "read"
    /\ command' = [command EXCEPT ![q].at = "lockBoth", ![q].read = target.current]
    /\ UNCHANGED <<runPorts, asked, store, restarts, worldVars>>
LockTarget(q) ==
    /\ command[q].at = "lockBoth"
    /\ \E row \in {"source", "target"} :
           /\ Takes(q, row)
           /\ IF Cardinality(Holds(q)) = 1 THEN CommandAt(q, "write") ELSE UNCHANGED command
    /\ UNCHANGED <<runPorts, asked, store, target, registered, candidate, cohort, collections,
                   dispatched, replans, enabledFor, restarts>>
SetTargetEnabled(q) ==
    /\ command[q].at = "write" /\ Kind(q) \in {"enable", "disable"}
    /\ CommandEnds(q)
    /\ IF Kind(q) = "enable" /\ command[q].read \notin Approved
       THEN CommandRefused(q, "blocked") /\ UNCHANGED <<target, enabledFor>>
       ELSE /\ target' = [target EXCEPT !.enabled = (Kind(q) = "enable")]
            /\ enabledFor' = IF Kind(q) = "enable" THEN command[q].read ELSE Nothing
            /\ Replies(q, "ok")
    /\ UNCHANGED <<runPorts, asked, store, registered, candidate, cohort, collections,
                   dispatched, replans, restarts>>

\* Who waits for whom: a transaction that holds one row and wants the other
Wants(q) ==
    CASE command[q].at = "lockTarget" -> {"target"}
      [] command[q].at = "lockBoth" -> {"source", "target"} \ Holds(q)
      [] OTHER -> {}
Blocked(q, r) == q # r /\ Holds(q) # {} /\ \E row \in Wants(q) : rowLocks[row] = r
\* PostgreSQL finds the cycle and rolls one of the transactions back.
BreakDeadlock(q) ==
    /\ \E r \in CommandRequests : Blocked(q, r) /\ Blocked(r, q)
    /\ CommandEnds(q) /\ CommandRefused(q, "deadlock")
    /\ UNCHANGED <<runPorts, asked, store, target, registered, candidate, cohort, collections,
                   dispatched, replans, enabledFor, restarts>>

-----------------------------------------------------------------------------
(***************************************************************************)
(* Candidates, cohorts, replays: one transaction each, under a row lock.   *)
(***************************************************************************)
\* A source that is enabled may be given a candidate, once.
RecordCandidate ==
    /\ candidate.state = "none"
    /\ candidate' = [candidate EXCEPT !.state = "pending"]
    /\ UNCHANGED <<runPorts, asked, command, store, target, registered, rowLocks, cohort,
                   collections, dispatched, replans, enabledFor, restarts>>

Decision(q) == [state |-> asked[q].arg, by |-> asked[q].actor]
\* Faulty variant: a review replaces an earlier decision.
ReviewReplaces(q) ==
    /\ command[q].at = "review"
    /\ IF candidate.state = "none" THEN CommandRefused(q, "not_found") /\ UNCHANGED candidate
       ELSE candidate' = Decision(q) /\ Replies(q, "ok")
    /\ UNCHANGED <<runPorts, asked, store, target, registered, rowLocks, cohort, collections,
                   dispatched, replans, enabledFor, restarts>>
\* A decision stands; the same one by the same actor is accepted again.
ReviewCandidate(q) ==
    /\ command[q].at = "review"
    /\ CASE candidate.state = "none" -> CommandRefused(q, "not_found") /\ UNCHANGED candidate
         [] candidate.state = "pending" -> candidate' = Decision(q) /\ Replies(q, "ok")
         [] OTHER -> /\ UNCHANGED candidate
                     /\ IF candidate = Decision(q) THEN Replies(q, "ok")
                        ELSE CommandRefused(q, "invalid_state")
    /\ UNCHANGED <<runPorts, asked, store, target, registered, rowLocks, cohort, collections,
                   dispatched, replans, enabledFor, restarts>>

\* A version of a cohort is written once; the same members are no change.
CreateCohort(q) ==
    /\ command[q].at = "cohort"
    /\ IF cohort \in {Nothing, asked[q].arg}
       THEN cohort' = asked[q].arg /\ Replies(q, "ok")
       ELSE UNCHANGED cohort /\ CommandRefused(q, "invalid_state")
    /\ UNCHANGED <<runPorts, asked, store, target, registered, rowLocks, candidate, collections,
                   dispatched, replans, enabledFor, restarts>>

\* A replay asks first whether its target is enabled, and then replans it,
\* under a natural key of which there is one.
AskReplay(q) ==
    /\ command[q].at = "replay"
    /\ IF target.current = Nothing THEN CommandRefused(q, "not_found")
       ELSE IF ~target.enabled THEN Replies(q, "skipped_disabled")
       ELSE CommandAt(q, "replan")
    /\ UNCHANGED <<runPorts, asked, store, restarts, worldVars>>
Replan(q) ==
    /\ command[q].at = "replan"
    /\ Replies(q, IF asked[q].arg \in replans THEN "duplicate" ELSE "queued")
    /\ replans' = replans \cup {asked[q].arg}
    /\ UNCHANGED <<runPorts, asked, store, target, registered, rowLocks, candidate, cohort,
                   collections, dispatched, enabledFor, restarts>>

\* A statement of a transaction fails, which rolls it back.
HandlerFails(q) ==
    /\ command[q].at \in {"lockSource", "lockTarget", "write", "read", "lockBoth", "review",
                          "cohort", "replay", "replan"}
    /\ CommandEnds(q) /\ CommandRefused(q, "error")
    /\ UNCHANGED <<runPorts, asked, store, target, registered, candidate, cohort, collections,
                   dispatched, replans, enabledFor, restarts>>

-----------------------------------------------------------------------------
\* The process is replaced: its store is gone, its transactions are rolled
\* back, and its callers get no answer.
Restart ==
    /\ restarts < MaxRestarts /\ restarts' = restarts + 1
    /\ store' = [k \in CommandKeys |-> NoEntry]
    /\ command' = [q \in CommandRequests |->
           IF command[q].at \in {"idle", "done"} THEN command[q]
           ELSE [command[q] EXCEPT !.at = "done", !.reply = "lost"]]
    /\ rowLocks' = [r \in DOMAIN rowLocks |-> Nobody]
    /\ UNCHANGED <<runPorts, asked, target, registered, candidate, cohort, collections,
                   dispatched, replans, enabledFor>>

CommandInit ==
    /\ runPorts \in SUBSET {"rows", "queue"}
    /\ asked \in Plans
    /\ command = [q \in CommandRequests |->
                      [at |-> "idle", reply |-> "none", replayed |-> FALSE, read |-> Nothing]]
    /\ store = [k \in CommandKeys |-> NoEntry]
    /\ target = [current |-> CHOOSE v \in Approved : TRUE, enabled |-> FALSE]
    /\ registered = {target.current}
    /\ rowLocks = [r \in {"source", "target"} |-> Nobody]
    /\ candidate = [state |-> "none", by |-> Nobody]
    /\ cohort = Nothing /\ dispatched = {} /\ replans = {}
    /\ collections = [q \in CommandRequests |-> "none"]
    /\ enabledFor = Nothing /\ restarts = 0
Handles(q) ==
    \/ CreateRun(q) \/ DispatchRun(q) \/ MarkRunFailed(q)
    \/ RegisterLocks(q) \/ RegisterTarget(q) \/ RegisterRefused(q)
    \/ ReadCommandTarget(q) \/ LockTarget(q) \/ SetTargetEnabled(q) \/ BreakDeadlock(q)
    \/ ReviewCandidate(q) \/ CreateCohort(q) \/ AskReplay(q) \/ Replan(q)
    \/ HandlerFails(q)
CommandNext ==
    \/ \E q \in CommandRequests : CommandArrives(q) \/ Finish(q) \/ Handles(q)
    \/ RecordCandidate \/ Restart

-----------------------------------------------------------------------------
CommandTypeOK ==
    /\ DOMAIN command = CommandRequests /\ registered \subseteq Revisions
    /\ candidate.state \in {"none", "pending", "accepted", "rejected"}
    /\ dispatched \subseteq CommandRequests /\ restarts \in 0 .. MaxRestarts

CommandAnswered(q) == command[q].at \in {"done", "finishing"} /\ command[q].reply = "ok"

\* The run that the answer to q tells of: where there are rows its row is
\* pending, where there is a queue it is in it.  Nothing ends that row: the
\* worker takes the id of the run for the id of a delivery and finds none.
RunIsUnderWay(q) ==
    \E r \in CommandRequests :
        /\ asked[r].key = asked[q].key /\ Payload(r) = Payload(q)
        /\ "rows" \in runPorts => collections[r] = "pending"
        /\ "queue" \in runPorts => r \in dispatched

\* What an operator was told has happened is so, whoever else gave a command
\* with the same key or on the same rows: the decision on a candidate is the
\* one that was acknowledged, a cohort has the members, a configuration is
\* registered, a run has its row and is in the queue.  The reviewer is who
\* gave the command, unless its answer was kept: the actor is no part of what
\* a key is kept with.
AcknowledgedHolds ==
    \A q \in CommandRequests : CommandAnswered(q) =>
        CASE Kind(q) = "review" ->
                 /\ candidate.state = asked[q].arg
                 /\ command[q].replayed \/ candidate.by = asked[q].actor
          [] Kind(q) = "cohort" -> cohort = asked[q].arg
          [] Kind(q) = "register" -> asked[q].arg \in registered
          [] Kind(q) = "run" -> RunIsUnderWay(q)
          [] OTHER -> TRUE

\* A row is pending without a job for it only while its handler runs, or where
\* nobody was told that the run failed: its process was lost, or the update
\* that should mark it failed did, and the operator was told of an error; or
\* where there is no queue.  Who was told that the queue is unavailable finds
\* the row failed.
NoSilentRun ==
    \A q \in CommandRequests :
        /\ collections[q] = "pending" /\ q \notin dispatched /\ "queue" \in runPorts =>
               command[q].at \in {"dispatch", "marking"} \/ command[q].reply \in {"lost", "error"}
        /\ Kind(q) = "run" /\ command[q].reply = "unavailable" => collections[q] # "pending"

\* Two runs of one key: neither saw the other's entry, because the handlers
\* overlapped, the first was not acknowledged, or the store was lost.
RepeatsAreExplained ==
    \A q, r \in CommandRequests :
        /\ q # r /\ asked[q].key = asked[r].key /\ restarts = 0
        /\ command[q].at = "done" /\ command[q].reply = "ok"
        => command[r].at # "idle" \/ store[asked[q].key] # NoEntry

\* Rows are locked by transactions that are under way, and at most two
\* transactions wait for one another.
LocksAreReleased ==
    /\ \A row \in DOMAIN rowLocks : rowLocks[row] # Nobody =>
           command[rowLocks[row]].at \in {"lockTarget", "lockBoth", "write"}
    /\ \A q \in CommandRequests : command[q].at \in {"done", "finishing"} => Holds(q) = {}

\* A command is executed as it was acknowledged, a run without a job is one
\* that failed openly or lost its process, a repeated command is explained, and
\* no lock outlives its transaction.
OperationsOnce == AcknowledgedHolds /\ NoSilentRun /\ RepeatsAreExplained /\ LocksAreReleased

\* "Every new revision needs a separate enable action": a target that is
\* enabled was enabled for the revision that is current.
EnableIsForItsRevision == target.enabled => enabledFor = target.current
=============================================================================
