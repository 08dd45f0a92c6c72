----------------------------- MODULE PoliteFetch -----------------------------
(***************************************************************************)
(* The requests of one arXiv collector: a cache of a day, one connection   *)
(* at a time and a pause between requests.  The fetch under them is the    *)
(* platform's, whatever it does until it answers or fails.                 *)
(*                                                                         *)
(* Callers are concurrent calls of executeRequest on one collector; a step *)
(* is what runs between two awaits.  Time is kept as ages.                 *)
(***************************************************************************)
EXTENDS Naturals, Sequences, FiniteSets

CONSTANTS
    Callers,       \* concurrent calls
    Queries,       \* request URLs
    Nobody,        \* null
    Spacing,       \* requestSpacingMs
    Ttl            \* cacheTtlMs

ASSUME FetchConstants ==
    /\ Nobody \notin Callers \cup Queries \cup Nat
    /\ {Spacing, Ttl} \subseteq Nat

VARIABLES
    since,      \* time since lastRequestTime, up to Horizon
    caller,     \* where a call is and what it asks for
    line,       \* calls that wait for the connection; its head has it
    age,        \* age of the cached answer of a query; Ttl is too old or none
    started,    \* history: pause before the last request, and what the cache had
    served      \* history: age of the last answer taken from the cache, or Nobody

fetchVars == <<since, caller, line, age, started, served>>

Horizon == IF Spacing > Ttl THEN Spacing ELSE Ttl
UpTo(most, n) == IF n < most THEN n ELSE most

Free == [at |-> "free", query |-> Nobody]
Fresh(q) == age[q] < Ttl
At(c, place) == caller' = [caller EXCEPT ![c].at = place]
Leaves(c) == caller' = [caller EXCEPT ![c] = Free]
Releases == line' = Tail(line)

\* A unit of time; beyond the horizon times are not told apart
Advance ==
    /\ since' = UpTo(Horizon, since + 1)
    /\ age' = [q \in Queries |-> UpTo(Ttl, age[q] + 1)]
    /\ UNCHANGED <<caller, line, started, served>>

\* A fresh cached answer needs no connection; a URL that the guard refuses
\* fails at once
Ask(c, q) ==
    /\ caller[c] = Free
    /\ IF Fresh(q)
       THEN /\ served' = age[q]
            /\ UNCHANGED <<caller, line>>
       ELSE /\ caller' = [caller EXCEPT ![c] = [at |-> "queued", query |-> q]]
            /\ line' = Append(line, c)
            /\ UNCHANGED served
    /\ UNCHANGED <<since, age, started>>

\* Faulty variant: the cache is not asked again after the wait
EnterBlindly(c) ==
    /\ line # <<>> /\ Head(line) = c /\ caller[c].at = "queued"
    /\ At(c, "waiting")
    /\ UNCHANGED <<since, line, age, started, served>>

\* The connection is free: another caller may have asked the same meanwhile
Enter(c) ==
    /\ line # <<>> /\ Head(line) = c /\ caller[c].at = "queued"
    /\ IF Fresh(caller[c].query)
       THEN /\ served' = age[caller[c].query]
            /\ Leaves(c) /\ Releases
       ELSE At(c, "waiting") /\ UNCHANGED <<line, served>>
    /\ UNCHANGED <<since, age, started>>

\* The pause is over
Start(c) ==
    /\ caller[c].at = "waiting"
    /\ since >= Spacing
    /\ started' = [pause |-> since, had |-> age[caller[c].query]]
    /\ since' = 0
    /\ At(c, "fetching")
    /\ UNCHANGED <<line, age, served>>

\* The entry is dated by the start of its request
Answered(c) ==
    /\ caller[c].at = "fetching"
    /\ age' = [age EXCEPT ![caller[c].query] = UpTo(Ttl, since)]
    /\ Leaves(c) /\ Releases
    /\ UNCHANGED <<since, started, served>>

\* Faulty variant: the connection is not released after an error
FailsHolding(c) ==
    /\ caller[c].at = "fetching"
    /\ Leaves(c) /\ UNCHANGED line
    /\ UNCHANGED <<since, age, started, served>>

\* An error status, a network error, an oversized answer or an abort; the
\* connection is released all the same
Fails(c) ==
    /\ caller[c].at = "fetching"
    /\ Leaves(c) /\ Releases
    /\ UNCHANGED <<since, age, started, served>>

FetchInit ==
    /\ since = Horizon
    /\ caller = [c \in Callers |-> Free]
    /\ line = <<>>
    /\ age = [q \in Queries |-> Ttl]
    /\ started = [pause |-> Spacing, had |-> Ttl] /\ served = Nobody

FetchNext ==
    \/ Advance
    \/ \E c \in Callers :
        \/ \E q \in Queries : Ask(c, q)
        \/ Enter(c) \/ Start(c) \/ Answered(c) \/ Fails(c)

-----------------------------------------------------------------------------
\* However many calls queue, fail and are served from the cache, one request
\* is under way at a time and two start at least the pause apart.
OneAtATime ==
    /\ Cardinality({c \in Callers : caller[c].at \in {"waiting", "fetching"}}) <= 1
    /\ started.pause >= Spacing

\* Nothing is asked of the provider that the cache could answer when the
\* request starts, however long its caller queued behind one that asked the
\* same; and what the cache answers is younger than its life time.
NoNeedlessRequest == started.had = Ttl /\ (served # Nobody => served < Ttl)

\* The rules of the provider hold whoever shares the connection.
PoliteRequests == OneAtATime /\ NoNeedlessRequest

FetchTypeOK ==
    /\ since \in 0 .. Horizon
    /\ caller \in [Callers -> [at : {"free", "queued", "waiting", "fetching"},
                              query : Queries \cup {Nobody}]]
    /\ line \in Seq(Callers)
    /\ age \in [Queries -> 0 .. Ttl]
    /\ started \in [pause : 0 .. Horizon, had : 0 .. Ttl]
    /\ served \in (0 .. Ttl) \cup {Nobody}

\* No caller is left in the queue, whoever fails before it.
QueueMoves ==
    \A c \in Callers : (caller[c].at = "queued") ~> (caller[c].at # "queued")
=============================================================================
