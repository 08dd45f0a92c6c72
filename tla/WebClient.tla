----------------------------- MODULE WebClient ------------------------------
(***************************************************************************)
(* The web application in the browser, one tab at a time: the panel that   *)
(* asks a question and then for the coverage of its answer, the lists of   *)
(* topics and of sources that grow page by page, and the system status.    *)
(* Handlers run to their next await; the server answers in any order, and  *)
(* what comes after its tab was left goes nowhere.                         *)
(***************************************************************************)
EXTENDS Naturals, Sequences, SequencesExt, FiniteSets

CONSTANTS
    Queries,      \* what is searched; the empty query among them
    AllItems,     \* the empty query
    Pages,        \* number of pages of a query
    MaxAsks,      \* bound: questions asked, or checks of the status
    MaxUnderWay   \* bound: pages under way

ASSUME WebConstants ==
    /\ AllItems \in Queries
    /\ {Pages, MaxAsks, MaxUnderWay} \subseteq Nat \ {0}

VARIABLES
    tab,          \* activeTab
    asks,         \* questions asked, or checks of the status, so far
    submitting,   \* await of handleSubmit or of checkHealth
    response,     \* the answer on the page: the question it is of, its kind
    coverage,     \* coverageReport: the question or check it is of
    failure,      \* errorCode, or that there is an errorMessage
    health,       \* liveStatus, readyStatus: the check each is of
    items,        \* the pages in the list
    cursor,       \* nextCursor: the page it stands for, or NoMore
    executed,     \* executedQuery
    flags,        \* loading, searching, loadingMore
    wanted,       \* requests of the list under way
    overlapped    \* history: requests of the list were under way together

panelVars == <<asks, submitting, response, coverage, failure, health>>
listVars == <<items, cursor, executed, flags, wanted, overlapped>>
webVars == <<tab, panelVars, listVars>>

Tabs == {"qa", "topics", "sources", "status"}
Lists == {"topics", "sources"}
NoMore == [query |-> AllItems, page |-> 0]
NoAnswer == [of |-> 0, kind |-> "none"]
NoFlags == [loading |-> FALSE, searching |-> FALSE, more |-> FALSE]
FirstPage == [query |-> AllItems, page |-> 1]
Unknown0 == [live |-> 0, ready |-> 0]

-----------------------------------------------------------------------------
(***************************************************************************)
(* A tab is mounted afresh: a list asks for its first page and the status  *)
(* for a check of its own.                                                 *)
(***************************************************************************)
Fresh(t) ==
    [asks |-> IF t = "status" THEN 1 ELSE 0,
     submitting |-> IF t = "status" THEN "checking" ELSE "idle",
     flags |-> [NoFlags EXCEPT !.loading = t # "qa"],
     wanted |-> IF t \in Lists THEN {FirstPage} ELSE {}]

Navigate(t) ==
    /\ t # tab /\ tab' = t
    /\ asks' = Fresh(t).asks /\ submitting' = Fresh(t).submitting
    /\ flags' = Fresh(t).flags /\ wanted' = Fresh(t).wanted
    /\ response' = NoAnswer /\ coverage' = 0 /\ failure' = "none" /\ health' = Unknown0
    /\ items' = <<>> /\ cursor' = NoMore /\ executed' = AllItems /\ overlapped' = FALSE

-----------------------------------------------------------------------------
(***************************************************************************)
(* What a request of the API client comes to, and what is shown of it.     *)
(***************************************************************************)
\* Its timer runs until the headers are there; the body is then read, parsed
\* and checked against the contract.
Fails == {"TIMEOUT", "NETWORK_ERROR", "INVALID_RESPONSE", "of the envelope", "of the status"}

\* An answer whose range begins at the epoch has no period
Unbounded(kind) == kind = "answered_unbounded"
AnswerKinds == {"answered", "answered_unbounded", "insufficient_evidence", "unsupported_intent"}

\* What a bad range of the form throws before anything is sent
Refused == "bad range"

ShowsWaiting == tab = "qa" /\ submitting # "idle"
ShowsFailure == failure # "none" /\ (tab # "qa" => ~flags.loading)
ShowsAnswer == response # NoAnswer /\ submitting = "idle"
ShowsCoverage == ShowsAnswer /\ coverage # 0
ShowsStatus == tab = "status" /\ ~flags.loading /\ failure = "none"
ShowsList == tab \in Lists /\ ~flags.loading /\ failure = "none"

-----------------------------------------------------------------------------
(***************************************************************************)
(* The panel of the question.  While it is submitting its buttons are      *)
(* disabled.                                                               *)
(***************************************************************************)
Submit ==
    /\ tab = "qa" /\ submitting = "idle" /\ asks < MaxAsks
    /\ asks' = asks + 1 /\ response' = NoAnswer
    /\ \/ failure' = "none" /\ submitting' = "answering"
       \/ failure' = Refused /\ UNCHANGED submitting
    /\ UNCHANGED <<tab, coverage, health, listVars>>

\* The coverage of its period is asked for, unless it has none
Answered ==
    /\ submitting = "answering"
    /\ \E kind \in AnswerKinds :
        /\ response' = [of |-> asks, kind |-> kind]
        /\ submitting' = IF Unbounded(kind) THEN "idle" ELSE "covering"
    /\ UNCHANGED <<tab, asks, coverage, failure, health, listVars>>

Failed ==
    /\ submitting = "answering"
    /\ failure' \in Fails
    /\ submitting' = "idle"
    /\ UNCHANGED <<tab, asks, response, coverage, health, listVars>>

\* An error of the coverage is no coverage
Covered ==
    /\ submitting = "covering"
    /\ coverage' \in {asks, 0}
    /\ submitting' = "idle"
    /\ UNCHANGED <<tab, asks, response, failure, health, listVars>>

Reset ==
    /\ tab = "qa" /\ submitting = "idle"
    /\ response' = NoAnswer /\ coverage' = 0 /\ failure' = "none"
    /\ UNCHANGED <<tab, asks, submitting, health, listVars>>

-----------------------------------------------------------------------------
(***************************************************************************)
(* The status: liveness, readiness and the coverage of the last month are  *)
(* asked for together; a readiness of 503 counts as an answer, a coverage  *)
(* that fails as none, and any other failure leaves what there was.        *)
(***************************************************************************)
CheckHealth ==
    /\ tab = "status" /\ submitting = "idle" /\ asks < MaxAsks
    /\ asks' = asks + 1 /\ submitting' = "checking" /\ failure' = "none"
    /\ UNCHANGED <<tab, response, coverage, health, listVars>>

HealthChecked ==
    /\ submitting = "checking"
    /\ submitting' = "idle"
    /\ flags' = NoFlags
    /\ \/ /\ health' = [live |-> asks, ready |-> asks]
          /\ coverage' \in {asks, 0}
          /\ UNCHANGED failure
       \/ failure' \in Fails /\ UNCHANGED <<health, coverage>>
    /\ UNCHANGED <<tab, asks, response, items, cursor, executed, wanted, overlapped>>

-----------------------------------------------------------------------------
(***************************************************************************)
(* The lists.  What has been asked for is `wanted'; the flags say which    *)
(* buttons are disabled and what hides the list.                           *)
(***************************************************************************)
Sends(query, page) ==
    /\ Cardinality(wanted) < MaxUnderWay
    /\ wanted' = wanted \cup {[query |-> query, page |-> page]}
    /\ wanted' # wanted
    /\ overlapped' = (overlapped \/ wanted # {})

\* handleSearch and handleClear; the button that clears is never disabled
SearchList(q) ==
    /\ tab = "topics"
    /\ ~flags.searching \/ q = AllItems
    /\ Sends(q, 1)
    /\ flags' = [flags EXCEPT !.searching = TRUE]
    /\ failure' = "none"
    /\ UNCHANGED <<tab, asks, submitting, response, coverage, health, items, cursor, executed>>

\* Faulty variant: a further page may be asked for while one is under way
LoadMoreTwice ==
    /\ ShowsList /\ cursor # NoMore
    /\ \/ Sends(executed, cursor.page)
       \/ /\ wanted = {[query |-> executed, page |-> cursor.page]}
          /\ overlapped' = TRUE /\ UNCHANGED wanted
    /\ flags' = [flags EXCEPT !.more = TRUE]
    /\ UNCHANGED <<tab, panelVars, items, cursor, executed>>

LoadMore ==
    /\ ShowsList /\ cursor # NoMore /\ ~flags.more
    /\ Sends(executed, cursor.page)
    /\ flags' = [flags EXCEPT !.more = TRUE]
    /\ UNCHANGED <<tab, panelVars, items, cursor, executed>>

\* The button of the error; the sources are hidden until it is answered
Retry ==
    /\ tab \in Lists /\ ShowsFailure
    /\ \E q \in Queries : (tab = "sources" => q = AllItems) /\ Sends(q, 1)
    /\ flags' = [flags EXCEPT !.loading = (tab = "sources")]
    /\ failure' = "none"
    /\ UNCHANGED <<tab, asks, submitting, response, coverage, health, items, cursor, executed>>

\* A further page is put at the end of what is there when it comes.  A request
\* of the topics takes back every flag; a further page of the sources that
\* fails for another reason than the client's shows nothing.
Arrives(r) ==
    /\ r \in wanted
    /\ wanted' = wanted \ {r}
    /\ flags' = CASE tab = "topics" -> NoFlags
                  [] r.page = 1 -> [flags EXCEPT !.loading = FALSE]
                  [] OTHER -> [flags EXCEPT !.more = FALSE]
    /\ \/ /\ items' = (IF r.page > 1 THEN items ELSE <<>>) \o <<r>>
          /\ cursor' = IF r.page < Pages THEN [r EXCEPT !.page = @ + 1] ELSE NoMore
          /\ executed' = r.query
          /\ UNCHANGED failure
       \/ /\ failure' \in Fails \cup (IF tab = "sources" /\ r.page > 1 THEN {failure} ELSE {})
          /\ UNCHANGED <<items, cursor, executed>>
    /\ UNCHANGED <<tab, asks, submitting, response, coverage, health, overlapped>>

WebInit ==
    /\ tab = "qa" /\ asks = 0 /\ submitting = "idle" /\ response = NoAnswer
    /\ coverage = 0 /\ failure = "none" /\ health = Unknown0
    /\ items = <<>> /\ cursor = NoMore /\ executed = AllItems
    /\ flags = NoFlags /\ wanted = {} /\ overlapped = FALSE

WebNext ==
    \/ \E t \in Tabs : Navigate(t)
    \/ Submit \/ Answered \/ Failed \/ Covered \/ Reset
    \/ CheckHealth \/ HealthChecked
    \/ \E q \in Queries : SearchList(q)
    \/ LoadMore \/ Retry \/ \E r \in wanted : Arrives(r)

-----------------------------------------------------------------------------
WebTypeOK ==
    /\ tab \in Tabs /\ asks \in 0 .. MaxAsks /\ coverage \in 0 .. MaxAsks
    /\ submitting \in {"idle", "answering", "covering", "checking"}
    /\ response \in [of : 0 .. MaxAsks, kind : AnswerKinds \cup {"none"}]
    /\ failure \in Fails \cup {"none", Refused}
    /\ health \in [live : 0 .. MaxAsks, ready : 0 .. MaxAsks]
    /\ flags \in [loading : BOOLEAN, searching : BOOLEAN, more : BOOLEAN]
    /\ overlapped \in BOOLEAN

\* What the page shows belongs together, whatever fails and whichever tab is
\* left in between: the answer is of the last question, without an error
\* beside it, and its coverage is of the same one (an answer without a period
\* asks for none and keeps what was there); a status is of one check; and a
\* list is of one query, page after page, unless its requests overlapped;
\* those of the sources never do.
PageIsConsistent ==
    /\ ShowsAnswer => tab = "qa" /\ response.of = asks /\ ~ShowsFailure
    /\ ShowsCoverage /\ ~Unbounded(response.kind) => coverage = response.of
    /\ ShowsStatus => health.live = health.ready /\ coverage \in {0, health.live}
    /\ ShowsWaiting => ~ShowsAnswer /\ ~ShowsFailure
    /\ ShowsList /\ ~overlapped =>
        \A i \in DOMAIN items : items[i] = [query |-> executed, page |-> i]
    /\ tab = "sources" => ~overlapped
=============================================================================
