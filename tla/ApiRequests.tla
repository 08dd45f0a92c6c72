---------------------------- MODULE ApiRequests -----------------------------
(***************************************************************************)
(* Requests for an answer at the API: the correlation id, the rate limit   *)
(* of a client, the daily budget, the concurrency slots and the response.  *)
(*                                                                         *)
(* The server is one process; a step is what runs between two awaits.      *)
(* The store of Elysia is one object for the whole server, so that the     *)
(* request id that onRequest puts there is shared by concurrent requests.  *)
(***************************************************************************)
EXTENDS Integers, FiniteSets, Functions

CONSTANTS
    Requests,       \* request ids, as the client sends them or as generated
    ClientOf,       \* request -> client address
    NoId,           \* the empty string
    MaxRequests,    \* requests of a client in a window
    WindowMs,       \* windowMs
    MaxConcurrent,  \* answers under way
    MaxDaily,       \* answers of a day
    DayMs,          \* length of a day
    EndOfTime       \* bound: time

ASSUME ApiConstants ==
    /\ IsFiniteSet(Requests)
    /\ {MaxRequests, WindowMs, MaxConcurrent, MaxDaily, EndOfTime} \subseteq Nat
    /\ DayMs \in Nat \ {0}

VARIABLES
    now,
    request,        \* id -> where it is: new, parsing, generating or done
    reply,          \* what the server sends in this step
    storeId,        \* store.requestId
    record,         \* client -> count and resetAt of the rate limiter
    active,         \* ConcurrencyLimiter
    consumed, budgetDay,   \* DailyBudgetTracker
    passed,         \* history: client -> time -> requests that the limit let pass
    started         \* history: day -> answers that were started

apiVars == <<now, request, reply, storeId, record, active, consumed,
             budgetDay, passed, started>>

Clients == {ClientOf[r] : r \in Requests}
Today == now \div DayMs
BudgetDays == 0 .. EndOfTime \div DayMs

\* What an answer or an error of the service is to the client
Silent == [to |-> NoId, told |-> NoId]
Reply(s, c, again) == [status |-> s, retryable |-> again, code |-> c]
Envelope(outcome) ==
    CASE outcome \in {"answered", "insufficient_evidence"} -> Reply(200, "ok", FALSE)
      [] outcome = "invalid_time_range" -> Reply(400, "INVALID_TIME_RANGE", FALSE)
      [] outcome = "model_provider" -> Reply(502, "MODEL_PROVIDER_ERROR", TRUE)
      [] outcome = "timeout" -> Reply(504, "ANSWER_TIMEOUT", TRUE)
      [] outcome = "database_retrieval" -> Reply(503, "DEPENDENCY_UNAVAILABLE", TRUE)
      [] OTHER -> Reply(500, "INTERNAL_SERVER_ERROR", FALSE)
Outcomes == {"answered", "insufficient_evidence", "invalid_time_range", "model_provider",
             "timeout", "database_retrieval", "error"}

Passes ==
    /\ now < EndOfTime /\ now' = now + 1
    /\ reply' = Silent
    /\ UNCHANGED <<request, storeId, record, active, consumed,
                   budgetDay, passed, started>>

\* onRequest
Arrive(r) ==
    /\ request[r] = "new"
    /\ request' = [request EXCEPT ![r] = "parsing"]
    /\ storeId' = r
    /\ reply' = Silent
    /\ UNCHANGED <<now, record, active, consumed, budgetDay, passed, started>>

\* A window begins with the first request after the last has ended; refused
\* requests count too.
Checked(c) ==
    IF record[c].count = 0 \/ now >= record[c].resetAt
    THEN [count |-> 1, resetAt |-> now + WindowMs]
    ELSE [record[c] EXCEPT !.count = @ + 1]

Ends(r, what) ==
    /\ request' = [request EXCEPT ![r] = "done"]
    /\ reply' = [to |-> r, told |-> storeId, what |-> what]

\* Faulty variant: the slot is given back where none was free, too
AdmitReleasing(r, spent) ==
    /\ budgetDay' = Today
    /\ consumed' = spent + 1
    /\ IF active >= MaxConcurrent
       THEN Ends(r, Reply(429, "RATE_LIMITED", TRUE)) /\ active' = active - 1
            /\ UNCHANGED <<started>>
       ELSE /\ active' = active + 1
            /\ started' = [started EXCEPT ![Today] = @ + 1]
            /\ request' = [request EXCEPT ![r] = "generating"]
            /\ reply' = Silent

\* The budget of the day is taken first, and kept if no slot is free.
Admit(r, spent) ==
    /\ budgetDay' = Today
    /\ IF spent + 1 > MaxDaily
       THEN /\ consumed' = spent /\ Ends(r, Reply(429, "RATE_LIMITED", FALSE))
            /\ UNCHANGED <<active, started>>
       ELSE /\ consumed' = spent + 1
            /\ IF active >= MaxConcurrent
               THEN Ends(r, Reply(429, "RATE_LIMITED", TRUE))
                    /\ UNCHANGED <<active, started>>
               ELSE /\ active' = active + 1
                    /\ started' = [started EXCEPT ![Today] = @ + 1]
                    /\ request' = [request EXCEPT ![r] = "generating"]
                    /\ reply' = Silent

\* The body is parsed: a malformed one is refused before the rate limit is
\* asked, an empty question after it.
Handle(r) ==
    /\ request[r] = "parsing"
    /\ UNCHANGED <<now, storeId>>
    /\ \/ /\ Ends(r, Reply(400, "INVALID_REQUEST", FALSE))
          /\ UNCHANGED <<record, active, consumed, budgetDay, passed, started>>
       \/ LET c == ClientOf[r]
              blank == Reply(400, "INVALID_REQUEST", FALSE)
          IN  /\ record' = [record EXCEPT ![c] = Checked(c)]
              /\ IF Checked(c).count > MaxRequests
                 THEN /\ Ends(r, Reply(429, "RATE_LIMITED", TRUE))
                      /\ UNCHANGED <<active, consumed, budgetDay, passed, started>>
                 ELSE /\ passed' = [passed EXCEPT ![c][now] = @ + 1]
                      /\ \/ Admit(r, IF budgetDay = Today THEN consumed ELSE 0)
                         \/ Ends(r, blank)
                            /\ UNCHANGED <<active, consumed, budgetDay, started>>

\* The answer, or the error of the service, with the slot given back
Responds(r) ==
    /\ request[r] = "generating"
    /\ \E outcome \in Outcomes : Ends(r, Envelope(outcome))
    /\ active' = active - 1
    /\ UNCHANGED <<now, storeId, record, consumed, budgetDay, passed, started>>

ApiInit ==
    /\ now = 0
    /\ request = [r \in Requests |-> "new"] /\ reply = Silent
    /\ storeId = NoId
    /\ record = [c \in Clients |-> [count |-> 0, resetAt |-> 0]]
    /\ active = 0 /\ consumed = 0 /\ budgetDay = 0
    /\ passed = [c \in Clients |-> [t \in 0 .. EndOfTime |-> 0]]
    /\ started = [d \in BudgetDays |-> 0]

ApiNext == Passes \/ \E r \in Requests : Arrive(r) \/ Handle(r) \/ Responds(r)

-----------------------------------------------------------------------------
ApiTypeOK ==
    /\ now \in 0 .. EndOfTime
    /\ request \in [Requests -> {"new", "parsing", "generating", "done"}]
    /\ storeId \in Requests \cup {NoId}
    /\ reply.to \in Requests => reply.what.status \in {200, 400, 429, 500, 502, 503, 504}
    /\ record \in [Clients -> [count : Nat, resetAt : Nat]]
    /\ {active, consumed} \subseteq Nat /\ budgetDay \in BudgetDays
    /\ started \in [BudgetDays -> 0 .. MaxDaily]

\* A slot is held by each answer under way and by nothing else, whatever is
\* refused or fails in between; no more answers than its budget are started
\* on a day, and each of them is paid from it; and no span as long as a window
\* lets more than two windows' requests of a client pass.
LimitsHold ==
    /\ active = Cardinality({r \in Requests : request[r] = "generating"})
    /\ active <= MaxConcurrent
    /\ \A d \in BudgetDays : started[d] <= MaxDaily
    /\ started[budgetDay] <= consumed
    /\ \A c \in Clients, t \in 0 .. EndOfTime :
        SumFunctionOnSet(passed[c], (t .. t + WindowMs - 1) \cap (0 .. EndOfTime))
            <= 2 * MaxRequests
=============================================================================
