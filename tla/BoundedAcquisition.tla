------------------------- MODULE BoundedAcquisition -------------------------
(***************************************************************************)
(* BoundedAcquisitionService.acquire: the bounded search, fetch and        *)
(* persistence of evidence that an answer lacks.  A step is what runs      *)
(* between two awaits; the caller may abort and the timer may fire at any  *)
(* of them.  The service may be built without any of its ports; what it    *)
(* is built with never changes.  The fetch is the service's own: one that  *)
(* is passed in as candidateFetcher, and its counts, are another's.        *)
(***************************************************************************)
EXTENDS Naturals, FiniteSets, Sequences, SequencesExt

CONSTANTS
    Targets,        \* targets the resolver may return
    Candidates,     \* documents a search may find
    Addresses,      \* what a URL points at, ...
    Allowed,        \* ... and those the guard permits
    MaxSearches, MaxFetches, MaxAttempts,   \* the hard bounds
    MaxBytes,       \* maxTotalBytes
    Hops,           \* redirects of a fetch
    Textless,       \* documents whose text yields no chunk
    Wirings,        \* ports a service may be built with: the budget and the writes
    Calls        \* what may be asked: limits, coverage, deadline, topics

ASSUME AcquisitionConstants ==
    /\ IsFiniteSet(Candidates)
    /\ {MaxSearches, MaxFetches, MaxAttempts, MaxBytes, Hops} \subseteq Nat
    /\ Calls # {}
    /\ \A r \in Calls : {r.searches, r.fetches, r.attempts} \subseteq Nat

VARIABLES
    wired,          \* the ports of this service
    ask,            \* the request
    step,          \* the await at which the call is
    aborted,        \* abortController.signal
    holding,        \* budget reservation: none, reserved or settled
    eligible,       \* targets that may be used, those not searched yet
    queue,          \* candidates found and not fetched yet
    fetching,       \* the candidate under way, its requests so far, its current URL
    searches, fetches, attempts, bytes, acquired,   \* the counters
    sent,           \* history: requests that left the process
    reached,        \* history: addresses they went to
    stored,         \* candidate -> what of it has been persisted
    counted,        \* history: candidates counted as acquired
    reason          \* of the result; "threw" if there is none

acquisitionVars == <<wired, ask, step, aborted, holding, eligible, queue, fetching, searches,
                     fetches, attempts, bytes, acquired, counted, sent, reached, stored, reason>>

counters == <<searches, fetches, attempts, bytes, acquired, counted, sent, reached>>

\* The writes in their order, and those of a document: a port that is absent
\* is passed over, and so is the saving of no chunks.
Stages == <<"raw", "revision", "chunks", "attached", "ready">>
WriteBefore(w, v) == \E i, j \in 1 .. Len(Stages) : i <= j /\ Stages[i] = w /\ Stages[j] = v
Writes(c) == (wired \cap ToSet(Stages)) \ (IF c \in Textless THEN {"chunks"} ELSE {})
Least(a, b) == IF a < b THEN a ELSE b
SearchLimit == Least(MaxSearches, ask.searches)
FetchLimit == Least(MaxFetches, ask.fetches)
AttemptLimit == Least(MaxAttempts, ask.attempts)

Returns(why) == step' = "end" /\ reason' = why

\* Coverage without a reason is enough, whatever it counts; then the abort,
\* the deadline and the budget.
AskFor(r) ==
    /\ step = "idle"
    /\ ask' = r
    /\ IF r.covered THEN Returns("coverage_sufficient")
       ELSE IF aborted THEN Returns("aborted")
       ELSE IF r.late THEN Returns("deadline_exceeded")
       ELSE step' = "reserving" /\ UNCHANGED reason
    /\ UNCHANGED <<wired, aborted, holding, eligible, queue, fetching, counters, stored>>

\* The caller gives up, or the timer fires
Abort ==
    /\ ~aborted /\ step # "end"
    /\ aborted' = TRUE
    /\ UNCHANGED <<wired, ask, step, holding, eligible, queue, fetching, counters, stored, reason>>

\* Without a budget port and its scope nothing is reserved.
ReserveBudget ==
    /\ step = "reserving"
    /\ \/ /\ step' = "resolving" /\ UNCHANGED reason
          /\ holding' = IF "budget" \in wired THEN "reserved" ELSE holding
       \/ "budget" \in wired /\ Returns("budget_exhausted") /\ UNCHANGED holding
    /\ UNCHANGED <<wired, ask, aborted, eligible, queue, fetching, counters, stored>>

\* Targets that are enabled, of a topic asked for, and whose rights allow to
\* fetch and to store; none where neither a resolver nor a state port is
\* given.  Those are searched that can be, with a search port.  An error of
\* the resolver is the caller's; what was reserved stays so then.
Resolve ==
    /\ step = "resolving"
    /\ \/ \E approved \in SUBSET Targets :
            /\ eligible' \in SUBSET approved
            /\ IF approved = {} THEN Returns("rights_blocked")
               ELSE step' = "searching" /\ UNCHANGED reason
       \/ Returns("threw") /\ UNCHANGED eligible
    /\ UNCHANGED <<wired, ask, aborted, holding, queue, fetching, counters, stored>>

Exhausted == attempts >= AttemptLimit \/ bytes >= MaxBytes \/ aborted

\* A search counts as one request and its answer is not cut; what it finds
\* again is left out, and an error of it is passed over.
SearchTarget ==
    /\ step = "searching"
    /\ eligible # {} /\ searches < SearchLimit /\ ~Exhausted
    /\ searches' = searches + 1 /\ attempts' = attempts + 1 /\ sent' = sent + 1
    /\ \E t \in eligible : eligible' = eligible \ {t}
    /\ \/ UNCHANGED <<queue, bytes>>
       \/ \E c \in Candidates :
            /\ queue' = IF c \in ToSet(queue) THEN queue ELSE Append(queue, c)
            /\ \E size \in 1 .. 2 : bytes' = bytes + size
    /\ UNCHANGED <<wired, ask, step, aborted, holding, fetching, fetches, acquired, counted,
                   reached, stored, reason>>

Searched ==
    /\ step = "searching"
    /\ eligible = {} \/ searches >= SearchLimit \/ Exhausted
    /\ step' = "choosing"
    /\ UNCHANGED <<wired, ask, aborted, holding, eligible, queue, fetching, counters,
                   stored, reason>>

\* The guard: a scheme that is allowed, no credentials, a public host
Permitted(u) == u \in Allowed

\* The next candidate, unless a bound is reached; one whose URL the guard
\* refuses is passed over.
Choose ==
    /\ step = "choosing"
    /\ IF queue = <<>> \/ fetches >= FetchLimit \/ Exhausted
       THEN step' = "settling" /\ UNCHANGED <<queue, fetching>>
       ELSE /\ queue' = Tail(queue)
            /\ \E u \in Addresses :
                IF Permitted(u)
                THEN step' = "fetching" /\ fetching' = [of |-> Head(queue), requests |-> 0, at |-> u]
                ELSE UNCHANGED <<step, fetching>>
    /\ UNCHANGED <<wired, ask, aborted, holding, eligible, counters, stored, reason>>

\* Faulty variant: every fetch has all the attempts of the request
MayRequestAfresh == fetching.requests < AttemptLimit /\ fetching.requests <= Hops

\* Requests left to this fetch; a redirect beyond the last is an error
MayRequest == fetching.requests < AttemptLimit - attempts /\ fetching.requests <= Hops

\* What a fetch that throws has sent is not known to its caller, who counts one
FetchThrows ==
    /\ attempts' = attempts + 1
    /\ step' = "choosing"
    /\ UNCHANGED <<fetching, fetches, bytes>>

\* One request.  It redirects, answers, or throws: for a refused target, too
\* many redirects, too many bytes, the network or the abort.
FetchHop ==
    /\ step = "fetching"
    /\ LET n == fetching.requests + 1
       IN  IF MayRequest
           THEN /\ sent' = sent + 1 /\ reached' = reached \cup {fetching.at}
                /\ \/ \E u \in Addresses :
                        /\ n <= Hops /\ Permitted(u)
                        /\ fetching' = [fetching EXCEPT !.requests = n, !.at = u]
                        /\ UNCHANGED <<step, attempts, fetches, bytes>>
                   \/ FetchThrows
                   \/ /\ attempts' = attempts + n
                      /\ \E size \in 1 .. 2 :
                            bytes + size <= MaxBytes /\ bytes' = bytes + size
                      /\ \/ step' = "choosing" /\ UNCHANGED fetches    \* not 2xx
                         \/ step' = "storing" /\ fetches' = fetches + 1
                      /\ UNCHANGED fetching
           ELSE FetchThrows /\ UNCHANGED <<sent, reached>>
    /\ UNCHANGED <<wired, ask, aborted, holding, eligible, queue, searches, acquired, counted,
                   stored, reason>>

\* Stripped of personal data and, unless it carries instructions to a model
\* or normalizes to nothing, persisted; each write may fail, which leaves
\* what was written before.  After the last it counts as acquired.
Left == Writes(fetching.of) \ stored[fetching.of]
Persist ==
    /\ step = "storing"
    /\ LET next == {w \in Left : \A v \in Left : WriteBefore(w, v)}
       IN  \/ step' = "choosing" /\ UNCHANGED <<stored, acquired, counted>>
           \/ /\ stored' = [stored EXCEPT ![fetching.of] = @ \cup next]
              /\ IF Left \subseteq next
                 THEN /\ step' = "choosing" /\ acquired' = acquired + 1
                      /\ counted' = counted \cup {fetching.of}
                 ELSE UNCHANGED <<step, acquired, counted>>
    /\ UNCHANGED <<wired, ask, aborted, holding, eligible, queue, fetching, searches, fetches,
                   attempts, bytes, sent, reached, reason>>

\* What was reserved is settled; an error of the settlement is passed over.
SettleBudget ==
    /\ step = "settling"
    /\ holding' = holding \/ (holding = "reserved" /\ holding' = "settled")
    /\ Returns(IF acquired > 0 THEN "acquired" ELSE IF aborted THEN "aborted"
            ELSE IF searches > 0 THEN "no_items_acquired" ELSE "rights_blocked")
    /\ UNCHANGED <<wired, ask, aborted, eligible, queue, fetching, counters, stored>>

AcquisitionInit ==
    /\ wired \in Wirings
    /\ ask = CHOOSE r \in Calls : TRUE
    /\ step = "idle" /\ aborted = FALSE /\ holding = "none"
    /\ eligible = {} /\ queue = <<>>
    /\ fetching = [of |-> CHOOSE c \in Candidates : TRUE, requests |-> 0,
                  at |-> CHOOSE u \in Allowed : TRUE]
    /\ reached = {} /\ counted = {}
    /\ searches = 0 /\ fetches = 0 /\ attempts = 0 /\ bytes = 0 /\ acquired = 0 /\ sent = 0
    /\ stored = [c \in Candidates |-> {}]
    /\ reason = "none"

AcquisitionNext ==
    \/ \E r \in Calls : AskFor(r)
    \/ Abort \/ ReserveBudget \/ Resolve \/ SearchTarget \/ Searched \/ Choose \/ FetchHop
    \/ Persist \/ SettleBudget

-----------------------------------------------------------------------------
AcquisitionTypeOK ==
    /\ wired \in Wirings /\ ask \in Calls /\ aborted \in BOOLEAN
    /\ step \in {"idle", "reserving", "resolving", "searching", "choosing", "fetching",
                  "storing", "settling", "end"}
    /\ holding \in {"none", "reserved", "settled"}
    /\ eligible \subseteq Targets /\ ToSet(queue) \subseteq Candidates
    /\ fetching \in [of : Candidates, requests : 0 .. Hops, at : Addresses]
    /\ {searches, fetches, attempts, bytes, acquired, sent} \subseteq Nat
    /\ stored \in [Candidates -> SUBSET ToSet(Stages)] /\ counted \subseteq Candidates

\* The counters that a result reports stay within the limits of the request
\* and the hard ones, whatever redirects, fails or is aborted, and only the
\* answer of a search exceeds the bytes.  A document counts as acquired once,
\* and when every write is done whose port is given; none is done before one
\* that it follows.  With a budget, requests are sent under a reservation;
\* they go only where the guard permits, after every redirect.  The requests
\* themselves may pass the maximum of attempts, although the service's comment
\* (acquisition.ts:444) and COLLECTION_CONTRACTS.md:134 say they never do: a
\* fetch that throws counts one, whatever it sent.  What a result does not
\* count is, though, no more than the redirects of such fetches.
AcquisitionWithinBounds ==
    /\ searches <= SearchLimit /\ fetches <= FetchLimit
    /\ attempts <= AttemptLimit /\ bytes <= MaxBytes + 1
    /\ acquired = Cardinality(counted) /\ \A c \in counted : stored[c] = Writes(c)
    /\ \A c \in Candidates : \A w \in stored[c], v \in Writes(c) : WriteBefore(v, w) => v \in stored[c]
    /\ sent > 0 /\ "budget" \in wired => holding # "none"
    /\ \A u \in reached : Permitted(u)
    /\ sent <= attempts + fetching.requests + Hops * Cardinality(Candidates)
    /\ reason \in {"acquired", "no_items_acquired"} => sent > 0
=============================================================================
