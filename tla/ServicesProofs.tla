---------------------------- MODULE ServicesProofs ----------------------------
(***************************************************************************)
(* What the page in the browser, the requests of the API, the acquisition  *)
(* of evidence, the commands of operators and the answers promise for any  *)
(* constants.                                                              *)
(***************************************************************************)
EXTENDS WebClient, ApiRequests, BoundedAcquisition, OperatorCommands, AnswerTurn, DataLemmas

(***************************************************************************)
(* The page.  A request is of a query and a page; only a list has some     *)
(* under way, and unless they overlapped there is one, which continues     *)
(* what the list shows or begins it afresh.                                *)
(***************************************************************************)
WebSpec == WebInit /\ [][WebNext]_webVars

PageRequest == [query : Queries, page : 1 .. Pages]

PageTyped ==
    /\ items \in Seq(PageRequest) /\ executed \in Queries
    /\ cursor \in PageRequest \cup {NoMore} /\ cursor.page # 1
    /\ wanted \subseteq PageRequest
    /\ flags \in [loading : BOOLEAN, searching : BOOLEAN, more : BOOLEAN]
    /\ asks \in Nat
    /\ submitting \in {"idle", "answering", "covering", "checking"}
    /\ overlapped \in BOOLEAN

PanelFits ==
    /\ submitting \in {"answering", "covering"} => tab = "qa" /\ failure = "none"
    /\ submitting = "checking" => tab = "status"
    /\ submitting = "covering" => response # NoAnswer
    /\ response # NoAnswer =>
           tab = "qa" /\ response.of = asks /\ failure = "none" /\ submitting # "answering"
    /\ response # NoAnswer /\ submitting = "idle" /\ coverage # 0 /\ ~Unbounded(response.kind)
           => coverage = response.of

StatusFits == tab = "status" => health.live = health.ready /\ coverage \in {0, health.live}

ListFits ==
    /\ tab \notin Lists => wanted = {}
    /\ ~overlapped =>
        /\ \A i \in DOMAIN items : items[i] = [query |-> executed, page |-> i]
        /\ cursor # NoMore => cursor = [query |-> executed, page |-> Len(items) + 1]
        /\ \A r \in wanted :
            /\ wanted = {r}
            /\ r.page # 1 => r = [query |-> executed, page |-> Len(items) + 1]

\* The sources hide their list, or the button, while a request is under way.
SourcesFit ==
    tab = "sources" =>
        /\ ~overlapped
        /\ \A r \in wanted :
            /\ wanted = {r}
            /\ IF r.page = 1 THEN flags.loading
               ELSE flags.more /\ failure = "none" /\ ~flags.loading

WebInv == PageTyped /\ PanelFits /\ StatusFits /\ ListFits /\ SourcesFit

LEMMA WebInvInit == WebInit => WebInv
<1> SUFFICES ASSUME WebInit PROVE WebInv
  OBVIOUS
<1>1. /\ <<>> \in Seq(PageRequest) /\ AllItems \in Queries
      /\ NoFlags \in [loading : BOOLEAN, searching : BOOLEAN, more : BOOLEAN]
      /\ NoMore.page # 1
  BY WebConstants DEF NoFlags, NoMore
<1>2. PageTyped
  BY <1>1 DEF WebInit, PageTyped
<1>3. PanelFits /\ StatusFits
  BY DEF WebInit, PanelFits, StatusFits
<1>4. ListFits /\ SourcesFit
  BY DEF WebInit, ListFits, SourcesFit
<1>5. QED
  BY <1>2, <1>3, <1>4 DEF WebInv

LEMMA NavigateKeeps == ASSUME WebInv, NEW t \in Tabs, Navigate(t) PROVE WebInv'
<1>1. /\ <<>> \in Seq(PageRequest) /\ FirstPage \in PageRequest /\ FirstPage.page = 1
      /\ AllItems \in Queries /\ Len(<<>>) = 0 /\ DOMAIN <<>> = {}
  BY WebConstants DEF FirstPage, PageRequest
<1>2. /\ Fresh(t).flags \in [loading : BOOLEAN, searching : BOOLEAN, more : BOOLEAN]
      /\ t = "sources" => Fresh(t).flags.loading
  <2>1. CASE t = "qa"
    <3>1. Fresh(t).flags = [loading |-> FALSE, searching |-> FALSE, more |-> FALSE]
      BY <2>1 DEF Fresh, NoFlags
    <3>2. [loading |-> FALSE, searching |-> FALSE, more |-> FALSE]
              \in [loading : BOOLEAN, searching : BOOLEAN, more : BOOLEAN]
      OBVIOUS
    <3>3. t # "sources"
      BY <2>1
    <3>4. QED
      BY <3>1, <3>2, <3>3, Zenon
  <2>2. CASE t # "qa"
    <3>1. (t # "qa") = TRUE
      BY <2>2
    <3>2. Fresh(t).flags = [NoFlags EXCEPT !.loading = TRUE]
      BY <3>1, Zenon DEF Fresh
    <3>3. Fresh(t).flags = [loading |-> TRUE, searching |-> FALSE, more |-> FALSE]
      BY <3>2 DEF NoFlags
    <3>4. QED
      BY <3>3
  <2>3. QED
    BY <2>1, <2>2
<1>3. PageTyped'
  <2>1. /\ items' \in Seq(PageRequest) /\ executed' \in Queries
        /\ cursor' \in PageRequest \cup {NoMore} /\ cursor'.page # 1
    BY <1>1 DEF Navigate, NoMore
  <2>2. wanted' \subseteq PageRequest
    BY <1>1 DEF Navigate, Fresh
  <2>3. flags' \in [loading : BOOLEAN, searching : BOOLEAN, more : BOOLEAN]
    BY <1>2 DEF Navigate
  <2>4. asks' \in Nat /\ overlapped' \in BOOLEAN
        /\ submitting' \in {"idle", "answering", "covering", "checking"}
    BY DEF Navigate, Fresh
  <2>5. QED
    BY <2>1, <2>2, <2>3, <2>4 DEF PageTyped
<1>4. PanelFits' /\ StatusFits'
  BY DEF Navigate, Fresh, PanelFits, StatusFits, NoAnswer, Unknown0
<1>5. wanted' = IF t \in Lists THEN {FirstPage} ELSE {}
  BY DEF Navigate, Fresh
<1>6. ListFits' /\ SourcesFit'
  BY <1>1, <1>2, <1>5 DEF Navigate, ListFits, SourcesFit, Lists
<1>7. QED
  BY <1>3, <1>4, <1>6 DEF WebInv

\* Steps of the panel and of the status leave the lists alone.
LEMMA PanelKeeps ==
    ASSUME WebInv,
           \/ Submit \/ Answered \/ Failed \/ Covered \/ Reset \/ CheckHealth \/ HealthChecked
    PROVE  WebInv'
<1>1. PageTyped'
  <2>1. UNCHANGED <<items, executed, cursor, wanted, overlapped>>
    BY DEF Submit, Answered, Failed, Covered, Reset, CheckHealth, HealthChecked, listVars
  <2>2. flags' = flags \/ flags' = [loading |-> FALSE, searching |-> FALSE, more |-> FALSE]
    BY DEF Submit, Answered, Failed, Covered, Reset, CheckHealth, HealthChecked, listVars,
       NoFlags
  <2>3. asks' = asks \/ asks' = asks + 1
    BY DEF Submit, Answered, Failed, Covered, Reset, CheckHealth, HealthChecked
  <2>4. submitting' \in {submitting, "idle", "answering", "covering", "checking"}
    BY DEF Submit, Answered, Failed, Covered, Reset, CheckHealth, HealthChecked
  <2>5. flags' \in [loading : BOOLEAN, searching : BOOLEAN, more : BOOLEAN]
    <3>1. CASE flags' = flags
      BY <3>1, Zenon DEF WebInv, PageTyped
    <3>2. CASE flags' = [loading |-> FALSE, searching |-> FALSE, more |-> FALSE]
      BY <3>2
    <3>3. QED
      BY <2>2, <3>1, <3>2
  <2>6. asks' \in Nat /\ submitting' \in {"idle", "answering", "covering", "checking"}
    BY <2>3, <2>4 DEF WebInv, PageTyped
  <2>7. QED
    BY <2>1, <2>5, <2>6 DEF WebInv, PageTyped
<1>2. PanelFits'
  <2>1. ASSUME Submit \/ Failed \/ Covered \/ Reset PROVE PanelFits'
    <3>1. CASE Submit
      BY <3>1 DEF WebInv, PanelFits, Submit
    <3>2. CASE Failed
      BY <3>2 DEF WebInv, PanelFits, Failed
    <3>3. CASE Covered
      BY <3>3 DEF WebInv, PanelFits, Covered
    <3>4. CASE Reset
      BY <3>4 DEF WebInv, PanelFits, Reset
    <3>5. QED
      BY <2>1, <3>1, <3>2, <3>3, <3>4
  <2>2. ASSUME Answered PROVE PanelFits'
    <3>1. PICK kind \in AnswerKinds :
              /\ response' = [of |-> asks, kind |-> kind]
              /\ submitting' = IF Unbounded(kind) THEN "idle" ELSE "covering"
      BY <2>2 DEF Answered
    <3>2. response' # NoAnswer /\ response'.of = asks /\ response'.kind = kind
      BY <3>1 DEF NoAnswer, AnswerKinds
    <3>3. QED
      BY <2>2, <3>1, <3>2 DEF WebInv, PanelFits, Answered
  <2>3. CASE CheckHealth \/ HealthChecked
    BY <2>3 DEF WebInv, PanelFits, CheckHealth, HealthChecked
  <2>4. QED
    BY <2>1, <2>2, <2>3
<1>3. StatusFits'
  BY DEF WebInv, PanelFits, StatusFits, Submit, Answered, Failed, Covered, Reset,
     CheckHealth, HealthChecked
<1>4. tab' = tab /\ wanted' = wanted /\ UNCHANGED <<items, cursor, executed, overlapped>>
  BY DEF Submit, Answered, Failed, Covered, Reset, CheckHealth, HealthChecked, listVars
<1>5. tab \in Lists => FALSE
  BY DEF WebInv, PanelFits, Submit, Answered, Failed, Covered, Reset, CheckHealth,
     HealthChecked, Lists
<1>6. ListFits' /\ SourcesFit'
  BY <1>4, <1>5 DEF WebInv, ListFits, SourcesFit, Lists
<1>7. QED
  BY <1>1, <1>2, <1>3, <1>6 DEF WebInv

\* A list asks for a page: of a query anew, or the one after those it shows.
LEMMA SendsKeeps ==
    ASSUME WebInv, tab \in Lists, NEW r \in PageRequest, Sends(r.query, r.page),
           tab' = tab, UNCHANGED <<asks, submitting, response, coverage, health>>,
           UNCHANGED <<items, cursor, executed>>,
           flags' \in [loading : BOOLEAN, searching : BOOLEAN, more : BOOLEAN],
           failure' \in {failure, "none"},
           r.page = 1 \/ r = [query |-> executed, page |-> Len(items) + 1],
           tab = "sources" =>
               /\ wanted = {}
               /\ IF r.page = 1 THEN flags'.loading
                  ELSE flags'.more /\ failure' = "none" /\ ~flags'.loading
    PROVE  WebInv'
<1>1. wanted' = wanted \cup {r} /\ overlapped' = (overlapped \/ wanted # {})
  BY DEF Sends, PageRequest
<1>2. PageTyped'
  BY <1>1 DEF WebInv, PageTyped
<1>3. PanelFits' /\ StatusFits'
  BY DEF WebInv, PanelFits, StatusFits, Lists
<1>4. ListFits'
  BY <1>1 DEF WebInv, PageTyped, ListFits
<1>5. SourcesFit'
  BY <1>1 DEF WebInv, PageTyped, SourcesFit
<1>6. QED
  BY <1>2, <1>3, <1>4, <1>5 DEF WebInv

LEMMA RequestsKeep ==
    ASSUME WebInv, LoadMore \/ Retry \/ \E q \in Queries : SearchList(q)
    PROVE  WebInv'
<1>0. 1 \in 1 .. Pages
  BY WebConstants
<1>1. ASSUME NEW q \in Queries, SearchList(q) PROVE WebInv'
  <2>1. [query |-> q, page |-> 1] \in PageRequest
    BY <1>0 DEF PageRequest
  <2>2. flags' \in [loading : BOOLEAN, searching : BOOLEAN, more : BOOLEAN]
    BY <1>1 DEF SearchList, WebInv, PageTyped
  <2>3. QED
    BY <1>1, <2>1, <2>2, SendsKeeps DEF SearchList, Lists
<1>2. CASE LoadMore
  <2>1. /\ tab \in Lists /\ ~flags.loading /\ failure = "none" /\ cursor # NoMore /\ ~flags.more
        /\ Sends(executed, cursor.page) /\ cursor \in PageRequest /\ executed \in Queries
    BY <1>2 DEF LoadMore, ShowsList, WebInv, PageTyped
  <2>2. flags' \in [loading : BOOLEAN, searching : BOOLEAN, more : BOOLEAN]
        /\ flags'.more /\ ~flags'.loading
    BY <1>2, <2>1 DEF LoadMore, WebInv, PageTyped
  <2>3. PICK r : r = [query |-> executed, page |-> cursor.page]
    OBVIOUS
  <2>4. r \in PageRequest /\ r.query = executed /\ r.page = cursor.page
    BY <2>1, <2>3 DEF PageRequest
  <2>5. CASE ~overlapped
    <3>1. r = [query |-> executed, page |-> Len(items) + 1]
      BY <2>1, <2>3, <2>5 DEF WebInv, ListFits
    <3>2. tab = "sources" => wanted = {} /\ r.page # 1
      BY <2>1, <2>4 DEF WebInv, SourcesFit, PageTyped
    <3>3. QED
      BY <1>2, <2>1, <2>2, <2>4, <3>1, <3>2, SendsKeeps DEF LoadMore, panelVars
  <2>6. CASE overlapped
    <3>1. tab # "sources"
      BY <2>6 DEF WebInv, SourcesFit
    <3>2. overlapped' /\ wanted' = wanted \cup {r}
      BY <2>1, <2>3, <2>6 DEF Sends
    <3>3. PageTyped'
      BY <1>2, <2>2, <2>4, <3>2 DEF LoadMore, WebInv, PageTyped, panelVars
    <3>4. QED
      BY <1>2, <2>1, <3>1, <3>2, <3>3 DEF LoadMore, panelVars, WebInv, PanelFits,
         StatusFits, ListFits, SourcesFit, Lists
  <2>7. QED
    BY <2>5, <2>6
<1>3. CASE Retry
  <2>1. PICK q \in Queries : Sends(q, 1)
    BY <1>3 DEF Retry
  <2>2. [query |-> q, page |-> 1] \in PageRequest
    BY <1>0 DEF PageRequest
  <2>3. /\ flags' \in [loading : BOOLEAN, searching : BOOLEAN, more : BOOLEAN]
        /\ tab = "sources" => flags'.loading
    BY <1>3 DEF Retry, WebInv, PageTyped
  <2>4. tab = "sources" => wanted = {}
    BY <1>3 DEF Retry, ShowsFailure, WebInv, SourcesFit
  <2>5. QED
    BY <1>3, <2>1, <2>2, <2>3, <2>4, SendsKeeps DEF Retry
<1>4. QED
  BY <1>1, <1>2, <1>3

LEMMA ArrivesKeeps == ASSUME WebInv, NEW r \in wanted, Arrives(r) PROVE WebInv'
<1>1. /\ r \in PageRequest /\ r.page \in 1 .. Pages /\ Pages \in Nat /\ tab \in Lists
      /\ r = [query |-> r.query, page |-> r.page] /\ r.query \in Queries
      /\ wanted' = wanted \ {r}
      /\ UNCHANGED <<tab, asks, submitting, response, coverage, health, overlapped>>
  BY WebConstants DEF WebInv, PageTyped, PageRequest, ListFits, Arrives
<1>2. PanelFits' /\ StatusFits'
  BY <1>1 DEF WebInv, PanelFits, StatusFits, Lists
<1>3. /\ flags' \in [loading : BOOLEAN, searching : BOOLEAN, more : BOOLEAN]
  BY DEF Arrives, WebInv, PageTyped, NoFlags
<1>4. SourcesFit'
  BY <1>1 DEF WebInv, SourcesFit
<1>5. CASE UNCHANGED <<items, cursor, executed>>
  <2>1. PageTyped'
    BY <1>1, <1>3, <1>5 DEF WebInv, PageTyped
  <2>2. ListFits'
    BY <1>1, <1>5 DEF WebInv, ListFits
  <2>3. QED
    BY <1>2, <1>4, <2>1, <2>2 DEF WebInv
<1>6. CASE /\ items' = (IF r.page > 1 THEN items ELSE <<>>) \o <<r>>
           /\ cursor' = IF r.page < Pages THEN [r EXCEPT !.page = @ + 1] ELSE NoMore
           /\ executed' = r.query
  <2>1. PICK before : before = IF r.page > 1 THEN items ELSE <<>>
    OBVIOUS
  <2>2. before \in Seq(PageRequest) /\ items' = before \o <<r>>
    BY <1>6, <2>1 DEF WebInv, PageTyped
  <2>3. /\ items' \in Seq(PageRequest) /\ Len(items') = Len(before) + 1
        /\ \A i \in 1 .. Len(before) : items'[i] = before[i]
        /\ items'[Len(before) + 1] = r
        /\ DOMAIN items' = 1 .. Len(before) + 1 /\ Len(before) \in Nat
        /\ DOMAIN before = 1 .. Len(before)
    BY <1>1, <2>2
  <2>4. /\ cursor' \in PageRequest \cup {NoMore} /\ cursor'.page # 1
        /\ cursor' # NoMore => cursor' = [query |-> r.query, page |-> r.page + 1]
    BY <1>1, <1>6 DEF PageRequest, NoMore
  <2>5. PageTyped'
    BY <1>1, <1>3, <1>6, <2>3, <2>4 DEF WebInv, PageTyped
  <2>6. ASSUME ~overlapped
        PROVE  /\ r.page = Len(before) + 1 /\ wanted' = {}
               /\ \A i \in DOMAIN before : before[i] = [query |-> r.query, page |-> i]
    <3>1. wanted = {r} /\ (r.page # 1 => r = [query |-> executed, page |-> Len(items) + 1])
      BY <2>6 DEF WebInv, ListFits
    <3>2. CASE r.page = 1
      <4>1. before = <<>>
        BY <2>1, <3>2
      <4>2. QED
        BY <1>1, <3>1, <3>2, <4>1
    <3>3. CASE r.page # 1
      <4>1. before = items
        BY <1>1, <2>1, <3>3
      <4>2. r.query = executed /\ r.page = Len(items) + 1
        BY <3>1, <3>3
      <4>3. \A i \in DOMAIN items : items[i] = [query |-> executed, page |-> i]
        BY <2>6 DEF WebInv, ListFits
      <4>4. QED
        BY <1>1, <3>1, <4>1, <4>2, <4>3
    <3>4. QED
      BY <3>2, <3>3
  <2>7. ListFits'
    <3>1. ASSUME ~overlapped, NEW i \in DOMAIN items'
          PROVE  items'[i] = [query |-> executed', page |-> i]
      BY <1>1, <1>6, <2>3, <2>6, <3>1
    <3>2. ~overlapped => (cursor' # NoMore =>
              cursor' = [query |-> executed', page |-> Len(items') + 1])
      BY <1>6, <2>3, <2>4, <2>6
    <3>3. QED
      BY <1>1, <2>6, <3>1, <3>2 DEF ListFits
  <2>8. QED
    BY <1>2, <1>4, <2>5, <2>7 DEF WebInv
<1>7. QED
  BY <1>5, <1>6 DEF Arrives

LEMMA WebInvNext == WebInv /\ [WebNext]_webVars => WebInv'
<1> SUFFICES ASSUME WebInv, [WebNext]_webVars PROVE WebInv'
  OBVIOUS
<1>1. CASE UNCHANGED webVars
  BY <1>1 DEF webVars, panelVars, listVars, WebInv, PageTyped, PanelFits, StatusFits,
     ListFits, SourcesFit
<1>2. CASE WebNext
  BY <1>2, NavigateKeeps, PanelKeeps, RequestsKeep, ArrivesKeeps DEF WebNext
<1>3. QED
  BY <1>1, <1>2

(***************************************************************************)
(* Whatever fails and whichever tab is left in between, what the page      *)
(* shows belongs together: answer, coverage and error are of one question, *)
(* a status of one check, and a list of one query unless its requests      *)
(* overlapped.                                                             *)
(***************************************************************************)
THEOREM PageStaysConsistent == WebSpec => []PageIsConsistent
<1>1. WebInv => PageIsConsistent
  BY DEF WebInv, PageTyped, PanelFits, StatusFits, ListFits, SourcesFit, PageIsConsistent,
     ShowsAnswer, ShowsFailure, ShowsCoverage, ShowsStatus, ShowsWaiting, ShowsList
<1>2. QED
  BY <1>1, WebInvInit, WebInvNext, PTL DEF WebSpec

(***************************************************************************)
(* The requests of the API.  What the rate limit let pass of a client is   *)
(* counted from the start of its window; the requests of a window's length *)
(* before it are of one earlier window, and none is later than the clock   *)
(* or the window's end.                                                    *)
(***************************************************************************)
ApiSpec == ApiInit /\ [][ApiNext]_apiVars

Times == 0 .. EndOfTime
Since(n) == {u \in Times : u >= n}
Span(t) == (t .. t + WindowMs - 1) \cap Times
Generating == {r \in Requests : request[r] = "generating"}

Window(f, rec, n) ==
    /\ f \in [Times -> Nat] /\ rec \in [count : Nat, resetAt : Nat]
    /\ rec.count = 0 => rec.resetAt = 0
    /\ rec.resetAt <= n + WindowMs
    /\ \A u \in Times : u >= rec.resetAt \/ u > n => f[u] = 0
    /\ SumOver(f, Since(rec.resetAt - WindowMs)) <= rec.count
    /\ SumOver(f, Since(rec.resetAt - WindowMs)) <= MaxRequests
    /\ SumOver(f, Span(rec.resetAt - 2 * WindowMs)) <= MaxRequests
    /\ \A t \in Times : SumOver(f, Span(t)) <= 2 * MaxRequests

ApiTyped ==
    /\ now \in Times /\ request \in [Requests -> {"new", "parsing", "generating", "done"}]
    /\ record \in [Clients -> [count : Nat, resetAt : Nat]]
    /\ passed \in [Clients -> [Times -> Nat]]
SlotsFit == active = Cardinality(Generating) /\ active <= MaxConcurrent
BudgetFits ==
    /\ started \in [BudgetDays -> Nat] /\ budgetDay \in BudgetDays /\ budgetDay <= Today
    /\ consumed \in 0 .. MaxDaily /\ started[budgetDay] <= consumed
    /\ \A d \in BudgetDays : started[d] <= MaxDaily /\ (d > budgetDay => started[d] = 0)
WindowsFit == WindowMs > 0 => \A c \in Clients : Window(passed[c], record[c], now)
ApiInv == ApiTyped /\ SlotsFit /\ BudgetFits /\ WindowsFit

LEMMA TimesAreFinite == \A S \in SUBSET Times : IsFiniteSet(S)
<1>1. IsFiniteSet(Times)
  BY FS_Interval, ApiConstants DEF Times
<1>2. QED
  BY <1>1, FS_Subset

LEMMA SumsOfTimes ==
    ASSUME NEW f \in [Times -> Nat], NEW S \in SUBSET Times, NEW T \in SUBSET Times
    PROVE  /\ SumOver(f, S) \in Nat
           /\ S \subseteq T => SumOver(f, S) <= SumOver(f, T)
           /\ S \cap T = {} => SumOver(f, S \cup T) = SumOver(f, S) + SumOver(f, T)
           /\ (\A u \in S : f[u] = 0) => SumOver(f, S) = 0
<1>1. IsFiniteSet(S) /\ IsFiniteSet(T)
  BY TimesAreFinite
<1>2. /\ \A u \in S : f[u] \in Nat /\ f[u] <= f[u]
      /\ \A u \in T : f[u] \in Nat /\ f[u] <= f[u]
      /\ \A u \in S \cup T : f[u] \in Nat
  OBVIOUS
<1>3. SumOver(f, S) \in Nat
  BY <1>1, <1>2, SumFacts
<1>4. S \subseteq T => SumOver(f, S) <= SumOver(f, T)
  BY <1>1, <1>2, SumAtMost
<1>5. S \cap T = {} => SumOver(f, S \cup T) = SumOver(f, S) + SumOver(f, T)
  BY <1>1, <1>2, SumOfUnion
<1>6. (\A u \in S : f[u] = 0) => SumOver(f, S) = 0
  BY <1>1, SumOfNothing
<1>7. QED
  BY <1>3, <1>4, <1>5, <1>6

\* A request begins a window, or is counted in the one under way.
LEMMA WindowBegins ==
    ASSUME NEW f, NEW rec, NEW n \in Times, Window(f, rec, n), n >= rec.resetAt
    PROVE  /\ Window(f, [count |-> 1, resetAt |-> n + WindowMs], n)
           /\ SumOver(f, Since(n)) = 0
<1>1. /\ f \in [Times -> Nat] /\ rec.resetAt \in Nat /\ n \in Nat
      /\ WindowMs \in Nat /\ MaxRequests \in Nat
  BY ApiConstants DEF Window, Times
<1>2. \A k : Since(k) \in SUBSET Times /\ Span(k) \in SUBSET Times
  BY DEF Since, Span
<1>3. SumOver(f, Since(n)) = 0
  <2>1. \A u \in Since(n) : f[u] = 0
    BY <1>1 DEF Window, Since, Times
  <2>2. QED
    BY <1>1, <1>2, <2>1, SumsOfTimes
<1>4. SumOver(f, Span(n - WindowMs)) <= MaxRequests
  <2>1. Span(n - WindowMs) \subseteq Since(rec.resetAt - WindowMs)
    BY <1>1 DEF Span, Since, Times
  <2>2. SumOver(f, Span(n - WindowMs)) <= SumOver(f, Since(rec.resetAt - WindowMs))
    BY <1>1, <1>2, <2>1, SumsOfTimes
  <2>3. SumOver(f, Since(rec.resetAt - WindowMs)) \in Nat /\ SumOver(f, Span(n - WindowMs)) \in Nat
    BY <1>1, <1>2, SumsOfTimes
  <2>4. QED
    BY <1>1, <2>2, <2>3 DEF Window
<1>5. PICK r : r = [count |-> 1, resetAt |-> n + WindowMs]
  OBVIOUS
<1>6. /\ r \in [count : Nat, resetAt : Nat] /\ r.count = 1 /\ r.resetAt = n + WindowMs
      /\ r.resetAt - WindowMs = n /\ r.resetAt - 2 * WindowMs = n - WindowMs
  BY <1>1, <1>5
<1>7. \A u \in Times : u >= r.resetAt \/ u > n => f[u] = 0
  BY <1>1, <1>6 DEF Window, Times
<1>8. Window(f, r, n)
  BY <1>1, <1>3, <1>4, <1>6, <1>7 DEF Window
<1>9. QED
  BY <1>3, <1>5, <1>8

LEMMA WindowCounts ==
    ASSUME NEW f, NEW rec, NEW n \in Times, Window(f, rec, n), rec.count # 0
    PROVE  Window(f, [rec EXCEPT !.count = @ + 1], n)
<1>1. PICK r : r = [rec EXCEPT !.count = @ + 1]
  OBVIOUS
<1>2. rec \in [count : Nat, resetAt : Nat]
  BY DEF Window
<1>3. r \in [count : Nat, resetAt : Nat] /\ r.count = rec.count + 1 /\ r.resetAt = rec.resetAt
  BY <1>1, <1>2
<1>4. SumOver(f, Since(rec.resetAt - WindowMs)) <= r.count
  <2>1. f \in [Times -> Nat] /\ Since(rec.resetAt - WindowMs) \in SUBSET Times
    BY DEF Window, Since
  <2>2. SumOver(f, Since(rec.resetAt - WindowMs)) \in Nat
    BY <2>1, SumsOfTimes
  <2>3. SumOver(f, Since(rec.resetAt - WindowMs)) <= rec.count
    BY DEF Window
  <2>4. QED
    BY <1>2, <1>3, <2>2, <2>3
<1>5. Window(f, r, n)
  BY <1>2, <1>3, <1>4 DEF Window
<1>6. QED
  BY <1>1, <1>5

LEMMA WindowLater ==
    ASSUME NEW f, NEW rec, NEW n \in Times, Window(f, rec, n)
    PROVE  Window(f, rec, n + 1)
<1>1. rec.resetAt \in Nat /\ WindowMs \in Nat /\ n \in Nat
  BY ApiConstants DEF Window, Times
<1>2. QED
  BY <1>1 DEF Window, Times

\* A request that is counted, within the limit, and passes
LEMMA WindowPasses ==
    ASSUME NEW f, NEW rec, NEW n \in Times, Window(f, rec, n), n < rec.resetAt,
           SumOver(f, Since(rec.resetAt - WindowMs)) < rec.count, rec.count <= MaxRequests
    PROVE  Window([f EXCEPT ![n] = @ + 1], rec, n)
<1>1. PICK g : g = [f EXCEPT ![n] = @ + 1]
  OBVIOUS
<1>2. PICK s : s = rec.resetAt - WindowMs
  OBVIOUS
<1>3. /\ f \in [Times -> Nat] /\ rec.resetAt \in Nat /\ rec.count \in Nat /\ n \in Nat
      /\ WindowMs \in Nat /\ MaxRequests \in Nat /\ s \in Int /\ s <= n
      /\ rec.resetAt = s + WindowMs /\ rec.resetAt - 2 * WindowMs = s - WindowMs
  BY <1>2, ApiConstants DEF Window, Times
<1>4. /\ g \in [Times -> Nat] /\ g[n] = f[n] + 1
      /\ \A u \in Times : u # n => g[u] = f[u]
  BY <1>1, <1>3
<1>5. \A k : Since(k) \in SUBSET Times /\ Span(k) \in SUBSET Times
  BY DEF Since, Span
<1>6. \A u \in Times : u >= rec.resetAt \/ u > n => g[u] = 0
  BY <1>3, <1>4 DEF Window, Times
<1>7. ASSUME NEW S \in SUBSET Times, n \notin S PROVE SumOver(g, S) = SumOver(f, S)
  <2>1. IsFiniteSet(S) /\ \A u \in S : f[u] \in Nat /\ g[u] = f[u]
    BY <1>3, <1>4, <1>7, TimesAreFinite
  <2>2. QED
    BY <2>1, SumSame
<1>8. SumOver(g, Since(s)) = SumOver(f, Since(s)) + 1
  <2>1. n \in Since(s) /\ IsFiniteSet(Since(s))
    BY <1>3, <1>5, TimesAreFinite DEF Since
  <2>2. \A u \in Since(s) : f[u] \in Nat /\ g[u] \in Nat
    BY <1>3, <1>4 DEF Since
  <2>3. SumOver(g, Since(s)) = g[n] + SumOver(g, Since(s) \ {n})
    BY <2>1, <2>2, SumTakes
  <2>4. SumOver(f, Since(s)) = f[n] + SumOver(f, Since(s) \ {n})
    BY <2>1, <2>2, SumTakes
  <2>5. /\ Since(s) \ {n} \in SUBSET Times /\ n \notin Since(s) \ {n}
    BY <1>5
  <2>6. SumOver(g, Since(s) \ {n}) = SumOver(f, Since(s) \ {n})
    BY <1>7, <2>5
  <2>7. SumOver(f, Since(s) \ {n}) \in Nat /\ f[n] \in Nat
    BY <1>3, <2>5, SumsOfTimes
  <2>8. QED
    BY <1>4, <2>3, <2>4, <2>6, <2>7
<1>9. SumOver(f, Since(s)) \in Nat /\ SumOver(g, Since(s)) <= rec.count /\ SumOver(g, Since(s)) <= MaxRequests
  <2>1. SumOver(f, Since(s)) \in Nat /\ SumOver(f, Since(s)) < rec.count
    BY <1>2, <1>3, <1>5, SumsOfTimes
  <2>2. QED
    BY <1>3, <1>8, <2>1
<1>10. SumOver(g, Span(s - WindowMs)) <= MaxRequests
  <2>1. n \notin Span(s - WindowMs)
    BY <1>3 DEF Span, Times
  <2>2. SumOver(f, Span(s - WindowMs)) <= MaxRequests
    BY <1>3 DEF Window
  <2>3. QED
    BY <1>5, <1>7, <2>1, <2>2
<1>11. ASSUME NEW t \in Times PROVE SumOver(g, Span(t)) <= 2 * MaxRequests
  <2>1. CASE n \notin Span(t)
    BY <1>5, <1>7, <2>1 DEF Window
  <2>2. CASE n \in Span(t)
    <3>1. Span(t) \subseteq Span(s - WindowMs) \cup Since(s)
      BY <1>3, <2>2 DEF Span, Since, Times
    <3>2. Span(s - WindowMs) \cap Since(s) = {}
      BY <1>3 DEF Span, Since, Times
    <3>3. Span(s - WindowMs) \cup Since(s) \in SUBSET Times
      BY <1>5
    <3>4. SumOver(g, Span(t)) <= SumOver(g, Span(s - WindowMs) \cup Since(s))
      BY <1>4, <1>5, <3>1, <3>3, SumsOfTimes
    <3>5. SumOver(g, Span(s - WindowMs) \cup Since(s)) = SumOver(g, Span(s - WindowMs)) + SumOver(g, Since(s))
      BY <1>4, <1>5, <3>2, SumsOfTimes
    <3>6. SumOver(g, Span(t)) \in Nat /\ SumOver(g, Span(s - WindowMs)) \in Nat /\ SumOver(g, Since(s)) \in Nat
      BY <1>4, <1>5, SumsOfTimes
    <3>7. QED
      BY <1>3, <1>9, <1>10, <3>4, <3>5, <3>6
  <2>3. QED
    BY <2>1, <2>2
<1>12. Window(g, rec, n)
  <2>1. SumOver(g, Since(rec.resetAt - WindowMs)) <= rec.count
        /\ SumOver(g, Since(rec.resetAt - WindowMs)) <= MaxRequests
    BY <1>2, <1>9
  <2>2. SumOver(g, Span(rec.resetAt - 2 * WindowMs)) <= MaxRequests
    BY <1>3, <1>10
  <2>3. QED
    BY <1>4, <1>6, <1>11, <2>1, <2>2 DEF Window
<1>13. QED
  BY <1>1, <1>12

LEMMA DaysPass ==
    ASSUME NEW m \in Nat, NEW n \in Nat, m <= n
    PROVE  m \div DayMs \in Nat /\ n \div DayMs \in Nat /\ m \div DayMs <= n \div DayMs
<1>1. DayMs \in Nat /\ DayMs > 0
  BY ApiConstants
<1>2. PICK p, q : p = m \div DayMs /\ q = n \div DayMs
  OBVIOUS
<1>3. /\ p \in Int /\ q \in Int
      /\ DayMs * p <= m /\ m < DayMs * p + DayMs
      /\ DayMs * q <= n /\ n < DayMs * q + DayMs
  BY <1>1, <1>2
<1>4. p >= 0 /\ q >= 0
  <2>1. ASSUME NEW k \in Int, k < 0 PROVE DayMs * k + DayMs <= 0
    BY <1>1, <2>1
  <2>2. QED
    BY <1>1, <1>3, <2>1
<1>5. p <= q
  <2>1. ASSUME q < p PROVE FALSE
    <3>1. DayMs * (q + 1) <= DayMs * p
      BY <1>1, <1>3, <2>1
    <3>2. DayMs * (q + 1) = DayMs * q + DayMs
      BY <1>1, <1>3
    <3>3. DayMs * p \in Int /\ DayMs * q \in Int
      BY <1>1, <1>3
    <3>4. QED
      BY <1>1, <1>3, <3>1, <3>2, <3>3
  <2>2. QED
    BY <1>3, <2>1
<1>6. QED
  BY <1>2, <1>3, <1>4, <1>5

LEMMA TodayIsADay == ASSUME now \in Times PROVE Today \in BudgetDays
<1>1. now \in Nat /\ EndOfTime \in Nat /\ now <= EndOfTime
  BY ApiConstants DEF Times
<1>2. QED
  BY <1>1, DaysPass DEF Today, BudgetDays

LEMMA ApiInvInit == ApiInit => ApiInv
<1> SUFFICES ASSUME ApiInit PROVE ApiInv
  OBVIOUS
<1>1. /\ 0 \in Times /\ WindowMs \in Nat /\ MaxRequests \in Nat
      /\ MaxConcurrent \in Nat /\ MaxDaily \in Nat
  BY ApiConstants DEF Times
<1>2. ApiTyped
  BY <1>1 DEF ApiInit, ApiTyped, Times
<1>3. SlotsFit
  <2>1. Generating = {}
    BY DEF ApiInit, Generating
  <2>2. QED
    BY <1>1, <2>1, FS_EmptySet DEF ApiInit, SlotsFit
<1>4. BudgetFits
  <2>1. Today \in BudgetDays
    BY <1>2, TodayIsADay DEF ApiTyped
  <2>2. EndOfTime \div DayMs \in Nat
    BY ApiConstants, DaysPass
  <2>3. Today >= 0 /\ 0 \in BudgetDays
    BY <2>1, <2>2 DEF BudgetDays
  <2>4. QED
    BY <1>1, <2>1, <2>3 DEF ApiInit, BudgetFits
<1>5. ASSUME NEW c \in Clients PROVE Window(passed[c], record[c], now)
  <2>1. PICK f : f = [t \in Times |-> 0]
    OBVIOUS
  <2>2. passed[c] = f /\ record[c] = [count |-> 0, resetAt |-> 0] /\ now = 0
    BY <2>1 DEF ApiInit, Times
  <2>3. f \in [Times -> Nat] /\ \A u \in Times : f[u] = 0
    BY <2>1
  <2>4. \A S \in SUBSET Times : SumOver(f, S) = 0
    BY <2>3, SumsOfTimes
  <2>5. \A k : Since(k) \in SUBSET Times /\ Span(k) \in SUBSET Times
    BY DEF Since, Span
  <2>6. \A k : SumOver(f, Since(k)) = 0 /\ SumOver(f, Span(k)) = 0
    BY <2>4, <2>5
  <2>7. PICK r : r = [count |-> 0, resetAt |-> 0]
    OBVIOUS
  <2>8. r \in [count : Nat, resetAt : Nat] /\ r.count = 0 /\ r.resetAt = 0
    BY <2>7
  <2>9. Window(f, r, 0)
    BY <1>1, <2>3, <2>6, <2>8 DEF Window
  <2>10. QED
    BY <2>2, <2>7, <2>9
<1>6. QED
  BY <1>2, <1>3, <1>4, <1>5 DEF ApiInv, WindowsFit

LEMMA ApiPassesKeeps == ASSUME ApiInv, Passes PROVE ApiInv'
<1>1. /\ now' = now + 1 /\ now' \in Times /\ now \in Times
      /\ UNCHANGED <<request, record, active, consumed, budgetDay, passed, started>>
  BY ApiConstants DEF Passes, ApiInv, ApiTyped, Times
<1>2. ApiTyped' /\ SlotsFit'
  BY <1>1 DEF ApiInv, ApiTyped, SlotsFit, Generating
<1>3. BudgetFits'
  <2>1. Today <= Today' /\ Today \in Nat /\ Today' \in Nat
    BY <1>1, DaysPass DEF Today, Times
  <2>2. QED
    BY <1>1, <2>1 DEF ApiInv, BudgetFits, BudgetDays
<1>4. WindowsFit'
  BY <1>1, WindowLater DEF ApiInv, WindowsFit
<1>5. QED
  BY <1>2, <1>3, <1>4 DEF ApiInv

LEMMA ArriveKeeps == ASSUME ApiInv, NEW r \in Requests, Arrive(r) PROVE ApiInv'
<1>1. /\ request' = [request EXCEPT ![r] = "parsing"] /\ request[r] = "new"
      /\ UNCHANGED <<now, record, active, consumed, budgetDay, passed, started>>
  BY DEF Arrive
<1>2. ApiTyped'
  BY <1>1 DEF ApiInv, ApiTyped
<1>3. Generating' = Generating
  BY <1>1 DEF ApiInv, ApiTyped, Generating
<1>4. SlotsFit' /\ BudgetFits' /\ WindowsFit'
  BY <1>1, <1>3 DEF ApiInv, SlotsFit, BudgetFits, WindowsFit, Today
<1>5. QED
  BY <1>2, <1>4 DEF ApiInv

LEMMA SlotTaken ==
    ASSUME ApiTyped, SlotsFit, NEW r \in Requests, request[r] # "generating",
           request' = [request EXCEPT ![r] = "generating"], active < MaxConcurrent,
           active' = active + 1
    PROVE  SlotsFit'
<1>1. Generating' = Generating \cup {r} /\ r \notin Generating
  BY DEF ApiTyped, Generating
<1>2. IsFiniteSet(Generating)
  BY FS_Subset, ApiConstants DEF Generating
<1>3. Cardinality(Generating \cup {r}) = Cardinality(Generating) + 1 /\ Cardinality(Generating) \in Nat
  BY <1>1, <1>2, FS_AddElement, FS_CardinalityType
<1>4. QED
  BY <1>1, <1>3, ApiConstants DEF SlotsFit

LEMMA RespondsKeeps == ASSUME ApiInv, NEW r \in Requests, Responds(r) PROVE ApiInv'
<1>1. /\ request' = [request EXCEPT ![r] = "done"] /\ request[r] = "generating"
      /\ active' = active - 1
      /\ UNCHANGED <<now, record, consumed, budgetDay, passed, started>>
  BY DEF Responds, Ends
<1>2. ApiTyped'
  BY <1>1 DEF ApiInv, ApiTyped
<1>3. Generating' = Generating \ {r} /\ r \in Generating
  BY <1>1 DEF ApiInv, ApiTyped, Generating
<1>4. IsFiniteSet(Generating)
  BY FS_Subset, ApiConstants DEF Generating
<1>5. Cardinality(Generating \ {r}) = Cardinality(Generating) - 1 /\ Cardinality(Generating) \in Nat
  BY <1>3, <1>4, FS_RemoveElement, FS_CardinalityType
<1>6. SlotsFit'
  BY <1>1, <1>3, <1>5, ApiConstants DEF ApiInv, SlotsFit
<1>7. BudgetFits' /\ WindowsFit'
  BY <1>1 DEF ApiInv, BudgetFits, WindowsFit, Today
<1>8. QED
  BY <1>2, <1>6, <1>7 DEF ApiInv

\* A request that the budget and the slots are asked for
LEMMA AdmitKeeps ==
    ASSUME ApiInv, NEW r \in Requests, request[r] = "parsing", now' = now,
           Admit(r, IF budgetDay = Today THEN consumed ELSE 0)
    PROVE  /\ request' \in [Requests -> {"new", "parsing", "generating", "done"}]
           /\ SlotsFit' /\ BudgetFits'
<1>1. /\ request \in [Requests -> {"new", "parsing", "generating", "done"}]
      /\ Today \in BudgetDays /\ MaxDaily \in Nat /\ MaxConcurrent \in Nat
      /\ Today' = Today
  BY TodayIsADay, ApiConstants DEF ApiInv, ApiTyped, Today
<1>2. PICK spent : spent = IF budgetDay = Today THEN consumed ELSE 0
  OBVIOUS
<1>3. spent \in 0 .. MaxDaily /\ started[Today] <= spent /\ Admit(r, spent)
  BY <1>1, <1>2 DEF ApiInv, BudgetFits, BudgetDays
<1>4. request' = [request EXCEPT ![r] = "done"] \/ request' = [request EXCEPT ![r] = "generating"]
  BY <1>3 DEF Admit, Ends
<1>5. request' \in [Requests -> {"new", "parsing", "generating", "done"}]
  BY <1>1, <1>4
<1>6. SlotsFit'
  <2>1. CASE UNCHANGED active /\ request' = [request EXCEPT ![r] = "done"]
    <3>1. Generating' = Generating
      BY <1>1, <2>1 DEF Generating
    <3>2. QED
      BY <2>1, <3>1 DEF ApiInv, SlotsFit
  <2>2. CASE /\ ~(active >= MaxConcurrent) /\ active' = active + 1
             /\ request' = [request EXCEPT ![r] = "generating"]
    <3>1. active \in Nat
      BY FS_CardinalityType, FS_Subset, ApiConstants DEF ApiInv, SlotsFit, Generating
    <3>2. active < MaxConcurrent
      BY <1>1, <2>2, <3>1
    <3>3. QED
      BY <2>2, <3>2, SlotTaken DEF ApiInv
  <2>3. QED
    BY <1>3, <2>1, <2>2 DEF Admit, Ends
<1>7. BudgetFits'
  <2>1. budgetDay' = Today /\ budgetDay' \in BudgetDays /\ Today \in Int
    BY <1>1, <1>3 DEF Admit, BudgetDays
  <2>2. /\ started \in [BudgetDays -> Nat] /\ budgetDay \in BudgetDays /\ budgetDay <= Today
        /\ \A d \in BudgetDays : started[d] <= MaxDaily /\ (d > budgetDay => started[d] = 0)
    BY DEF ApiInv, BudgetFits
  <2>3. CASE UNCHANGED started /\ consumed' \in {spent, spent + 1} /\ consumed' <= MaxDaily
    <3>1. \A d \in BudgetDays : d > Today => d > budgetDay
      BY <2>1, <2>2 DEF BudgetDays
    <3>2. consumed' \in 0 .. MaxDaily /\ started[Today] <= consumed'
      BY <1>1, <1>3, <2>2, <2>3
    <3>3. QED
      BY <1>1, <2>1, <2>2, <2>3, <3>1, <3>2 DEF BudgetFits
  <2>4. CASE /\ consumed' = spent + 1 /\ spent + 1 <= MaxDaily
             /\ started' = [started EXCEPT ![Today] = @ + 1]
    <3>1. \A d \in BudgetDays : d > Today => d > budgetDay /\ d # Today
      BY <2>1, <2>2 DEF BudgetDays
    <3>2. /\ started' \in [BudgetDays -> Nat] /\ started'[Today] = started[Today] + 1
          /\ \A d \in BudgetDays : d # Today => started'[d] = started[d]
      BY <1>1, <2>2, <2>4
    <3>3. consumed' \in 0 .. MaxDaily /\ started'[Today] <= consumed' /\ started'[Today] <= MaxDaily
      BY <1>1, <1>3, <2>2, <2>4, <3>2
    <3>4. ASSUME NEW d \in BudgetDays
          PROVE  started'[d] <= MaxDaily /\ (d > Today => started'[d] = 0)
      BY <2>2, <3>1, <3>2, <3>3
    <3>5. budgetDay' <= Today' /\ started'[budgetDay'] <= consumed'
      BY <1>1, <2>1, <3>3
    <3>6. QED
      BY <1>1, <2>1, <3>2, <3>3, <3>4, <3>5 DEF BudgetFits
  <2>5. CASE spent + 1 > MaxDaily
    BY <1>1, <1>3, <2>3, <2>5 DEF Admit
  <2>6. CASE ~(spent + 1 > MaxDaily)
    <3>1. consumed' = spent + 1 /\ spent + 1 <= MaxDaily
      BY <1>1, <1>3, <2>6 DEF Admit
    <3>2. CASE active >= MaxConcurrent
      BY <1>3, <2>3, <2>6, <3>1, <3>2 DEF Admit
    <3>3. CASE ~(active >= MaxConcurrent)
      BY <1>3, <2>4, <2>6, <3>1, <3>3 DEF Admit
    <3>4. QED
      BY <3>2, <3>3
  <2>7. QED
    BY <2>5, <2>6
<1>8. QED
  BY <1>5, <1>6, <1>7

LEMMA HandleKeeps == ASSUME ApiInv, NEW r \in Requests, Handle(r) PROVE ApiInv'
<1>1. /\ request[r] = "parsing" /\ now' = now
      /\ request \in [Requests -> {"new", "parsing", "generating", "done"}]
  BY DEF Handle, ApiInv, ApiTyped
<1>2. ASSUME NEW what, Ends(r, what)
      PROVE  /\ request' \in [Requests -> {"new", "parsing", "generating", "done"}]
             /\ Generating' = Generating
  BY <1>1, <1>2 DEF Ends, Generating
<1>3. ASSUME NEW what, Ends(r, what), UNCHANGED <<active, consumed, budgetDay, started>>
      PROVE  /\ request' \in [Requests -> {"new", "parsing", "generating", "done"}]
             /\ SlotsFit' /\ BudgetFits'
  <2>1. request' \in [Requests -> {"new", "parsing", "generating", "done"}] /\ Generating' = Generating
    BY <1>2, <1>3
  <2>2. QED
    BY <1>1, <1>3, <2>1 DEF ApiInv, SlotsFit, BudgetFits, Today
<1>4. CASE /\ Ends(r, Reply(400, "INVALID_REQUEST", FALSE))
           /\ UNCHANGED <<record, active, consumed, budgetDay, passed, started>>
  <2>1. /\ request' \in [Requests -> {"new", "parsing", "generating", "done"}]
        /\ SlotsFit' /\ BudgetFits'
    BY <1>3, <1>4
  <2>2. QED
    BY <1>1, <1>4, <2>1 DEF ApiInv, ApiTyped, WindowsFit
<1>5. CASE ~(/\ Ends(r, Reply(400, "INVALID_REQUEST", FALSE))
             /\ UNCHANGED <<record, active, consumed, budgetDay, passed, started>>)
  <2>1. PICK c \in Clients : c = ClientOf[r]
    BY DEF Clients
  <2>2. /\ record' = [record EXCEPT ![c] = Checked(c)]
        /\ \/ /\ Checked(c).count > MaxRequests
              /\ \E what : Ends(r, what)
              /\ UNCHANGED <<active, consumed, budgetDay, passed, started>>
           \/ /\ ~(Checked(c).count > MaxRequests)
              /\ passed' = [passed EXCEPT ![c][now] = @ + 1]
              /\ \/ Admit(r, IF budgetDay = Today THEN consumed ELSE 0)
                 \/ /\ \E what : Ends(r, what)
                    /\ UNCHANGED <<active, consumed, budgetDay, started>>
    BY <1>5, <2>1 DEF Handle
  <2>3. /\ request' \in [Requests -> {"new", "parsing", "generating", "done"}]
        /\ SlotsFit' /\ BudgetFits'
    <3>1. CASE Admit(r, IF budgetDay = Today THEN consumed ELSE 0)
      BY <1>1, <3>1, AdmitKeeps
    <3>2. CASE (\E what : Ends(r, what)) /\ UNCHANGED <<active, consumed, budgetDay, started>>
      BY <1>3, <3>2
    <3>3. QED
      BY <2>2, <3>1, <3>2
  <2>4. PICK rec : rec = Checked(c)
    OBVIOUS
  <2>5. /\ now \in Times /\ now \in Nat /\ WindowMs \in Nat /\ MaxRequests \in Nat
        /\ record \in [Clients -> [count : Nat, resetAt : Nat]]
        /\ passed \in [Clients -> [Times -> Nat]]
    BY ApiConstants DEF ApiInv, ApiTyped, Times
  <2>6. rec \in [count : Nat, resetAt : Nat]
    BY <2>4, <2>5 DEF Checked
  <2>7. ApiTyped'
    <3>1. passed' \in [Clients -> [Times -> Nat]]
      BY <2>2, <2>5
    <3>2. record' \in [Clients -> [count : Nat, resetAt : Nat]]
      BY <2>2, <2>4, <2>5, <2>6
    <3>3. QED
      BY <1>1, <2>3, <2>5, <3>1, <3>2 DEF ApiTyped
  <2>8. WindowsFit'
    <3>1. SUFFICES ASSUME WindowMs > 0, NEW d \in Clients
                   PROVE  Window(passed'[d], record'[d], now)
      BY <1>1 DEF WindowsFit
    <3>2. \A e \in Clients : Window(passed[e], record[e], now)
      BY <3>1 DEF ApiInv, WindowsFit
    <3>3. CASE d # c
      <4>1. passed'[d] = passed[d] /\ record'[d] = record[d]
        BY <2>2, <2>5, <3>3
      <4>2. QED
        BY <3>2, <4>1
    <3>4. /\ Window(passed[c], rec, now) /\ now < rec.resetAt
          /\ SumOver(passed[c], Since(rec.resetAt - WindowMs)) < rec.count
      <4>1. CASE record[c].count = 0 \/ now >= record[c].resetAt
        <5>1. now >= record[c].resetAt
          BY <2>5, <3>2, <4>1 DEF Window
        <5>2. /\ Window(passed[c], [count |-> 1, resetAt |-> now + WindowMs], now)
              /\ SumOver(passed[c], Since(now)) = 0
          BY <2>5, <3>2, <5>1, WindowBegins
        <5>3. rec = [count |-> 1, resetAt |-> now + WindowMs]
          BY <2>4, <4>1 DEF Checked
        <5>4. rec.count = 1 /\ rec.resetAt = now + WindowMs /\ rec.resetAt - WindowMs = now
          BY <2>5, <5>3
        <5>5. QED
          BY <2>5, <3>1, <5>2, <5>3, <5>4
      <4>2. CASE ~(record[c].count = 0 \/ now >= record[c].resetAt)
        <5>1. rec = [record[c] EXCEPT !.count = @ + 1]
          BY <2>4, <4>2 DEF Checked
        <5>2. Window(passed[c], rec, now)
          BY <2>5, <3>2, <4>2, <5>1, WindowCounts
        <5>3. rec.count = record[c].count + 1 /\ rec.resetAt = record[c].resetAt
              /\ record[c].count \in Nat /\ record[c].resetAt \in Nat
          BY <2>5, <5>1
        <5>4. SumOver(passed[c], Since(rec.resetAt - WindowMs)) <= record[c].count
          BY <3>2, <5>3 DEF Window
        <5>5. SumOver(passed[c], Since(rec.resetAt - WindowMs)) \in Nat
          <6>1. passed[c] \in [Times -> Nat] /\ Since(rec.resetAt - WindowMs) \in SUBSET Times
            BY <2>5 DEF Since
          <6>2. QED
            BY <6>1, SumsOfTimes
        <5>6. QED
          BY <2>5, <4>2, <5>2, <5>3, <5>4, <5>5
      <4>3. QED
        BY <4>1, <4>2
    <3>5. CASE d = c
      <4>1. record'[c] = rec
        BY <2>2, <2>4, <2>5
      <4>2. CASE UNCHANGED passed
        BY <3>4, <3>5, <4>1, <4>2
      <4>3. CASE /\ ~(Checked(c).count > MaxRequests)
                 /\ passed' = [passed EXCEPT ![c][now] = @ + 1]
        <5>1. passed'[c] = [passed[c] EXCEPT ![now] = @ + 1]
          BY <2>5, <4>3
        <5>2. rec.count <= MaxRequests
          BY <2>4, <2>5, <2>6, <4>3
        <5>3. Window([passed[c] EXCEPT ![now] = @ + 1], rec, now)
          BY <2>5, <3>4, <5>2, WindowPasses
        <5>4. QED
          BY <3>5, <4>1, <5>1, <5>3
      <4>4. QED
        BY <2>2, <4>2, <4>3
    <3>6. QED
      BY <3>3, <3>5
  <2>9. QED
    BY <2>3, <2>7, <2>8 DEF ApiInv
<1>6. QED
  BY <1>4, <1>5

LEMMA ApiInvNext == ApiInv /\ [ApiNext]_apiVars => ApiInv'
<1> SUFFICES ASSUME ApiInv, [ApiNext]_apiVars PROVE ApiInv'
  OBVIOUS
<1>1. CASE UNCHANGED apiVars
  BY <1>1 DEF apiVars, ApiInv, ApiTyped, SlotsFit, Generating, BudgetFits, Today, WindowsFit
<1>2. CASE ApiNext
  BY <1>2, ApiPassesKeeps, ArriveKeeps, HandleKeeps, RespondsKeeps DEF ApiNext
<1>3. QED
  BY <1>1, <1>2

(***************************************************************************)
(* The limits of the API hold however its requests interleave and time     *)
(* passes between them: each slot is held by an answer under way, a day    *)
(* starts no more answers than its budget pays for, and no span as long    *)
(* as a window lets more than two windows' requests of a client pass.      *)
(***************************************************************************)
THEOREM LimitsAlwaysHold == ApiSpec => []LimitsHold
<1>1. ApiInv => LimitsHold
  <2> SUFFICES ASSUME ApiInv PROVE LimitsHold
    OBVIOUS
  <2>1. active = Cardinality({r \in Requests : request[r] = "generating"}) /\ active <= MaxConcurrent
    BY DEF ApiInv, SlotsFit, Generating
  <2>2. (\A d \in BudgetDays : started[d] <= MaxDaily) /\ started[budgetDay] <= consumed
    BY DEF ApiInv, BudgetFits
  <2>3. ASSUME NEW c \in Clients, NEW t \in 0 .. EndOfTime
        PROVE  SumFunctionOnSet(passed[c], (t .. t + WindowMs - 1) \cap (0 .. EndOfTime))
                   <= 2 * MaxRequests
    <3>1. SumFunctionOnSet(passed[c], (t .. t + WindowMs - 1) \cap (0 .. EndOfTime))
              = SumOver(passed[c], Span(t))
      BY DEF SumOver, Span, Times
    <3>2. CASE WindowMs > 0
      BY <3>1, <3>2 DEF ApiInv, WindowsFit, Window, Times
    <3>3. CASE ~(WindowMs > 0)
      <4>1. Span(t) = {} /\ WindowMs \in Nat /\ MaxRequests \in Nat
        BY <3>3, ApiConstants DEF Span, Times
      <4>2. passed[c] \in [Times -> Nat] /\ {} \in SUBSET Times
        BY DEF ApiInv, ApiTyped
      <4>3. SumOver(passed[c], Span(t)) = 0
        BY <4>1, <4>2, SumsOfTimes
      <4>4. QED
        BY <3>1, <4>1, <4>3
    <3>4. QED
      BY <3>2, <3>3
  <2>4. QED
    BY <2>1, <2>2, <2>3 DEF LimitsHold
<1>2. QED
  BY <1>1, ApiInvInit, ApiInvNext, PTL DEF ApiSpec

(***************************************************************************)
(* The acquisition of evidence.  A candidate is fetched and stored once,   *)
(* because the queue holds it once and only searches fill it; what was     *)
(* sent and is not counted are redirects of the fetches taken so far.      *)
(***************************************************************************)
AcquisitionSpec == AcquisitionInit /\ [][AcquisitionNext]_acquisitionVars

Early == {"idle", "reserving", "resolving"}
NotQueued == Cardinality(Candidates) - Len(queue)

AcquisitionTyped ==
    /\ ask \in Calls
    /\ step \in Early \cup {"searching", "choosing", "fetching", "storing", "settling", "end"}
    /\ {searches, fetches, attempts, bytes, acquired, sent} \subseteq Nat
    /\ fetching \in [of : {fetching.of}, requests : 0 .. Hops, at : {fetching.at}]
    /\ stored \in [Candidates -> SUBSET ToSet(Stages)] /\ counted \subseteq Candidates

CountersFit ==
    /\ searches <= SearchLimit /\ fetches <= FetchLimit /\ attempts <= AttemptLimit
    /\ bytes <= MaxBytes + 1
    /\ step = "fetching" => attempts < AttemptLimit /\ fetches < FetchLimit
    /\ step \in Early => searches = 0 /\ fetches = 0 /\ attempts = 0

QueueFits ==
    /\ Once(queue, Candidates)
    /\ step \in Early => queue = <<>>
    /\ step \in Early \cup {"searching"} => \A c \in Candidates : stored[c] = {}
    /\ \A c \in ToSet(queue) : stored[c] = {}
    /\ step \in {"fetching", "storing"} =>
           fetching.of \in Candidates \ ToSet(queue) /\ fetching.of \notin counted
    /\ step \in Early \cup {"searching"} => counted = {}
    /\ \A c \in ToSet(queue) : c \notin counted

\* The writes of a document come in their order, and all before it counts.
StoredFits ==
    /\ acquired = Cardinality(counted)
    /\ \A c \in Candidates : stored[c] \subseteq Writes(c)
    /\ \A c \in counted : stored[c] = Writes(c)
    /\ \A c \in Candidates : \A w \in stored[c], v \in Writes(c) : WriteBefore(v, w) => v \in stored[c]

SentFits ==
    /\ step \in Early => sent = 0
    /\ step = "searching" => sent <= attempts
    /\ step = "fetching" => sent <= attempts + fetching.requests + Hops * (NotQueued - 1)
    /\ step \notin {"searching", "fetching"} => sent <= attempts + Hops * NotQueued

\* Reserved or settled, where there is a budget
Held(h) == "budget" \in wired => h # "none"

ReasonFits ==
    /\ step \in {"resolving", "searching", "choosing", "fetching", "storing", "settling"}
           => Held(holding)
    /\ sent > 0 => Held(holding)
    /\ searches > 0 \/ queue # <<>> \/ acquired > 0 \/ step \in {"fetching", "storing"} => sent > 0
    /\ reason \in {"acquired", "no_items_acquired"} => sent > 0
    /\ \A u \in reached : Permitted(u)
    /\ step = "fetching" => Permitted(fetching.at)

AcquisitionInv ==
    AcquisitionTyped /\ CountersFit /\ QueueFits /\ StoredFits /\ SentFits /\ ReasonFits

LEMMA LimitsAreNaturals ==
    ASSUME ask \in Calls
    PROVE  SearchLimit \in Nat /\ FetchLimit \in Nat /\ AttemptLimit \in Nat /\ MaxBytes \in Nat
           /\ Hops \in Nat
BY AcquisitionConstants DEF SearchLimit, FetchLimit, AttemptLimit, Least

LEMMA QueueLeavesRoom ==
    ASSUME NEW q, Once(q, Candidates)
    PROVE  Len(q) \in Nat /\ Cardinality(Candidates) \in Nat /\ Len(q) <= Cardinality(Candidates)
<1>1. ToSet(q) \subseteq Candidates /\ Len(q) \in Nat
  BY DEF Once, ToSet
<1>2. Cardinality(ToSet(q)) <= Cardinality(Candidates) /\ Cardinality(Candidates) \in Nat
  BY <1>1, FS_Subset, FS_CardinalityType, AcquisitionConstants
<1>3. QED
  BY <1>1, <1>2 DEF Once

\* Of the writes that are left, the next one follows none of the others.
LEMMA WritesFollow ==
    ASSUME NEW v, NEW w, WriteBefore(v, w), WriteBefore(w, v)
    PROVE  v = w
<1>1. PICK i \in 1 .. 5, j \in 1 .. 5 : i <= j /\ Stages[i] = v /\ Stages[j] = w
  BY DEF WriteBefore, Stages
<1>2. PICK k \in 1 .. 5, l \in 1 .. 5 : k <= l /\ Stages[k] = w /\ Stages[l] = v
  BY DEF WriteBefore, Stages
<1>3. \A m, n \in 1 .. 5 : Stages[m] = Stages[n] => m = n
  BY DEF Stages
<1>4. QED
  BY <1>1, <1>2, <1>3

LEMMA AcquisitionInvInit == AcquisitionInit => AcquisitionInv
<1> SUFFICES ASSUME AcquisitionInit PROVE AcquisitionInv
  OBVIOUS
<1>1. ask \in Calls
  BY AcquisitionConstants DEF AcquisitionInit
<1>2. AcquisitionTyped
  BY <1>1, LimitsAreNaturals DEF AcquisitionInit, AcquisitionTyped, Early
<1>3. CountersFit
  BY <1>1, LimitsAreNaturals DEF AcquisitionInit, CountersFit
<1>4. QueueFits
  BY NobodyQueues DEF AcquisitionInit, QueueFits, Early
<1>5. StoredFits
  BY FS_EmptySet DEF AcquisitionInit, StoredFits
<1>6. SentFits /\ ReasonFits
  <2>1. queue = <<>> /\ Once(queue, Candidates)
    BY NobodyQueues DEF AcquisitionInit
  <2>2. Hops \in Nat /\ NotQueued \in Nat
    BY <1>1, <2>1, LimitsAreNaturals, QueueLeavesRoom DEF NotQueued
  <2>3. Hops * NotQueued \in Nat
    BY <2>2
  <2>4. QED
    BY <2>3 DEF AcquisitionInit, SentFits, ReasonFits
<1>7. QED
  BY <1>2, <1>3, <1>4, <1>5, <1>6 DEF AcquisitionInv

\* Steps that move neither a counter nor the queue
LEMMA AcquisitionWaits ==
    ASSUME AcquisitionInv, wired' = wired, ask' \in Calls, step \in Early \/ ask' = ask,
           UNCHANGED <<queue, fetching, counters, stored>>,
           step' \in Early \cup {"searching", "choosing", "settling", "end"},
           step' \in Early => step \in Early,
           step' = "searching" => step \in Early,
           step # "fetching",
           step' \notin Early \/ step' = "resolving" => Held(holding') \/ step' = "end",
           sent > 0 => Held(holding'),
           reason' = reason \/ reason' \notin {"acquired", "no_items_acquired"} \/ sent > 0
    PROVE  AcquisitionInv'
<1>1. /\ UNCHANGED <<searches, fetches, attempts, bytes, acquired, counted, sent, reached>>
      /\ UNCHANGED <<queue, fetching, stored>>
  BY DEF counters
<1>2. AcquisitionTyped'
  BY <1>1 DEF AcquisitionInv, AcquisitionTyped
<1>3. CountersFit'
  <2>1. CASE ask' = ask
    BY <1>1, <2>1 DEF AcquisitionInv, CountersFit, SearchLimit, FetchLimit, AttemptLimit, Early
  <2>2. CASE step \in Early
    <3>1. SearchLimit' \in Nat /\ FetchLimit' \in Nat /\ AttemptLimit' \in Nat
      BY AcquisitionConstants DEF SearchLimit, FetchLimit, AttemptLimit, Least
    <3>2. QED
      BY <1>1, <2>2, <3>1 DEF AcquisitionInv, CountersFit, Early
  <2>3. QED
    BY <2>1, <2>2
<1>4. QueueFits' /\ StoredFits'
  BY <1>1 DEF AcquisitionInv, QueueFits, StoredFits, Writes, Early
<1>5. SentFits'
  <2>1. NotQueued' = NotQueued /\ Hops \in Nat /\ NotQueued \in Nat
    BY <1>1, LimitsAreNaturals, QueueLeavesRoom
       DEF NotQueued, AcquisitionInv, AcquisitionTyped, QueueFits
  <2>2. Hops * NotQueued \in Nat /\ attempts \in Nat /\ sent \in Nat
    BY <2>1 DEF AcquisitionInv, AcquisitionTyped
  <2>3. CASE step \in Early \cup {"searching"}
    BY <1>1, <2>1, <2>2, <2>3 DEF AcquisitionInv, SentFits, Early
  <2>4. CASE step \notin Early \cup {"searching"}
    BY <1>1, <2>1, <2>2, <2>4 DEF AcquisitionInv, SentFits, Early
  <2>5. QED
    BY <2>3, <2>4
<1>6. ReasonFits'
  BY <1>1 DEF AcquisitionInv, ReasonFits, Held, Early, Permitted
<1>7. QED
  BY <1>2, <1>3, <1>4, <1>5, <1>6 DEF AcquisitionInv

LEMMA AbortKeeps == ASSUME AcquisitionInv, Abort PROVE AcquisitionInv'
<1>1. UNCHANGED <<wired, ask, step, holding, queue, fetching, searches, fetches, attempts, bytes,
                  acquired, counted, sent, reached, stored, reason>>
  BY DEF Abort, counters
<1>2. QED
  BY <1>1 DEF AcquisitionInv, AcquisitionTyped, CountersFit, SearchLimit, FetchLimit,
     AttemptLimit, QueueFits, StoredFits, Writes, SentFits, NotQueued, ReasonFits, Held

LEMMA TurnsKeep ==
    ASSUME AcquisitionInv,
           (\E r \in Calls : AskFor(r)) \/ ReserveBudget \/ Resolve \/ Searched \/ SettleBudget
    PROVE  AcquisitionInv'
<1>1. CASE \E r \in Calls : AskFor(r)
  <2>1. /\ wired' = wired /\ ask' \in Calls /\ step \in Early /\ step # "fetching"
        /\ UNCHANGED <<queue, fetching, counters, stored, holding>>
        /\ step' \in {"end", "reserving"}
        /\ reason' = reason \/ reason' \notin {"acquired", "no_items_acquired"}
    BY <1>1 DEF AskFor, Returns, Early
  <2>2. sent > 0 => Held(holding')
    BY <2>1 DEF AcquisitionInv, ReasonFits
  <2>3. QED
    BY <2>1, <2>2, AcquisitionWaits DEF Early
<1>2. CASE ReserveBudget
  <2>1. /\ ask' = ask /\ wired' = wired /\ step \in Early /\ step # "fetching"
        /\ UNCHANGED <<queue, fetching, counters, stored>>
        /\ \/ step' = "resolving" /\ Held(holding')
           \/ step' = "end" /\ holding' = holding
        /\ reason' = reason \/ reason' \notin {"acquired", "no_items_acquired"}
    BY <1>2 DEF ReserveBudget, Returns, Early, Held
  <2>2. (sent > 0 => Held(holding')) /\ ask \in Calls
    BY <2>1 DEF AcquisitionInv, ReasonFits, AcquisitionTyped, Held
  <2>3. QED
    BY <2>1, <2>2, AcquisitionWaits DEF Early
<1>3. CASE Resolve
  <2>1. /\ ask' = ask /\ wired' = wired /\ step \in Early /\ step # "fetching" /\ step = "resolving"
        /\ UNCHANGED <<queue, fetching, counters, stored, holding>>
        /\ step' \in {"end", "searching"}
        /\ reason' = reason \/ reason' \notin {"acquired", "no_items_acquired"}
    BY <1>3 DEF Resolve, Returns, Early
  <2>2. Held(holding') /\ ask \in Calls
    BY <2>1 DEF AcquisitionInv, ReasonFits, AcquisitionTyped, Held
  <2>3. QED
    BY <2>1, <2>2, AcquisitionWaits DEF Early
<1>4. CASE Searched
  <2>1. /\ ask' = ask /\ wired' = wired /\ step = "searching" /\ step' = "choosing"
        /\ UNCHANGED <<queue, fetching, counters, stored, holding, reason>>
    BY <1>4 DEF Searched
  <2>2. Held(holding') /\ ask \in Calls
    BY <2>1 DEF AcquisitionInv, ReasonFits, AcquisitionTyped, Held
  <2>3. QED
    BY <2>1, <2>2, AcquisitionWaits DEF Early
<1>5. CASE SettleBudget
  <2>1. /\ ask' = ask /\ wired' = wired /\ step = "settling" /\ step' = "end"
        /\ UNCHANGED <<queue, fetching, counters, stored>>
        /\ (holding' = holding \/ holding' = "settled")
        /\ reason' \notin {"acquired", "no_items_acquired"} \/ acquired > 0 \/ searches > 0
    BY <1>5 DEF SettleBudget, Returns
  <2>2. Held(holding') /\ ask \in Calls
    BY <2>1 DEF AcquisitionInv, ReasonFits, AcquisitionTyped, Held
  <2>3. reason' \notin {"acquired", "no_items_acquired"} \/ sent > 0
    BY <2>1 DEF AcquisitionInv, ReasonFits
  <2>4. QED
    BY <2>1, <2>2, <2>3, AcquisitionWaits DEF Early
<1>6. QED
  BY <1>1, <1>2, <1>3, <1>4, <1>5

LEMMA AcquisitionNumbers ==
    ASSUME AcquisitionInv
    PROVE  /\ SearchLimit \in Nat /\ FetchLimit \in Nat /\ AttemptLimit \in Nat
           /\ MaxBytes \in Nat /\ Hops \in Nat
           /\ searches \in Nat /\ fetches \in Nat /\ attempts \in Nat /\ bytes \in Nat
           /\ acquired \in Nat /\ sent \in Nat
           /\ Len(queue) \in Nat /\ Cardinality(Candidates) \in Nat /\ NotQueued \in Nat
           /\ Hops * NotQueued \in Nat
<1>1. /\ SearchLimit \in Nat /\ FetchLimit \in Nat /\ AttemptLimit \in Nat
      /\ MaxBytes \in Nat /\ Hops \in Nat
  BY LimitsAreNaturals DEF AcquisitionInv, AcquisitionTyped
<1>2. Len(queue) \in Nat /\ Cardinality(Candidates) \in Nat /\ NotQueued \in Nat
  BY QueueLeavesRoom DEF AcquisitionInv, QueueFits, NotQueued
<1>3. Hops * NotQueued \in Nat
  BY <1>1, <1>2
<1>4. QED
  BY <1>1, <1>2, <1>3 DEF AcquisitionInv, AcquisitionTyped

LEMMA SearchKeeps == ASSUME AcquisitionInv, SearchTarget PROVE AcquisitionInv'
<1>0. /\ step = "searching" /\ searches < SearchLimit /\ ~(attempts >= AttemptLimit)
      /\ ~(bytes >= MaxBytes)
      /\ searches' = searches + 1 /\ attempts' = attempts + 1 /\ sent' = sent + 1
      /\ UNCHANGED <<wired, ask, step, holding, fetching, fetches, acquired, counted, reached, stored, reason>>
  BY DEF SearchTarget, Exhausted
<1>11. /\ searches \in Nat /\ SearchLimit \in Nat /\ attempts \in Nat /\ AttemptLimit \in Nat
      /\ bytes \in Nat /\ MaxBytes \in Nat /\ sent \in Nat
  BY AcquisitionNumbers
<1>1. /\ bytes' \in Nat /\ bytes' <= MaxBytes + 1
  <2>1. bytes' = bytes \/ \E size \in 1 .. 2 : bytes' = bytes + size
    BY DEF SearchTarget
  <2>2. bytes < MaxBytes
    BY <1>0, <1>11
  <2>3. QED
    BY <1>11, <2>1, <2>2
<1>2. queue' = queue \/ \E c \in Candidates : c \notin ToSet(queue) /\ queue' = Append(queue, c)
  BY DEF SearchTarget
<1>3. /\ SearchLimit' = SearchLimit /\ FetchLimit' = FetchLimit /\ AttemptLimit' = AttemptLimit
  BY <1>0 DEF SearchLimit, FetchLimit, AttemptLimit
<1>4. AcquisitionTyped' /\ CountersFit'
  <2>1. attempts' \in Nat /\ searches' \in Nat /\ sent' \in Nat
    BY <1>0, <1>11
  <2>2. AcquisitionTyped'
    BY <1>0, <1>1, <2>1 DEF AcquisitionInv, AcquisitionTyped
  <2>3. searches' <= SearchLimit /\ attempts' <= AttemptLimit
    BY <1>0, <1>11
  <2>4. CountersFit'
    BY <1>0, <1>1, <1>3, <2>3 DEF AcquisitionInv, CountersFit, Early
  <2>5. QED
    BY <2>2, <2>4
<1>5. Once(queue', Candidates)
  <2>1. Once(queue, Candidates)
    BY DEF AcquisitionInv, QueueFits
  <2>2. ASSUME NEW c \in Candidates, c \notin ToSet(queue) PROVE Once(Append(queue, c), Candidates)
    BY <2>1, <2>2, LastQueues
  <2>3. QED
    BY <1>2, <2>1, <2>2
<1>6. QueueFits'
  <2>1. \A c \in ToSet(queue') : c \in Candidates
    BY <1>5 DEF Once, ToSet
  <2>2. counted = {} /\ \A c \in Candidates : stored[c] = {}
    BY <1>0 DEF AcquisitionInv, QueueFits
  <2>3. QED
    BY <1>0, <1>5, <2>1, <2>2 DEF QueueFits, Early
<1>7. StoredFits'
  BY <1>0 DEF AcquisitionInv, StoredFits, Writes
<1>8. SentFits'
  <2>1. sent' <= attempts'
    BY <1>0, <1>11 DEF AcquisitionInv, SentFits
  <2>2. QED
    BY <1>0, <2>1 DEF SentFits, Early
<1>9. ReasonFits'
  <2>1. sent' > 0
    BY <1>0, <1>11
  <2>3. Held(holding)
    BY <1>0 DEF AcquisitionInv, ReasonFits
  <2>2. QED
    BY <1>0, <2>1, <2>3 DEF AcquisitionInv, ReasonFits, Held, Permitted
<1>10. QED
  BY <1>4, <1>6, <1>7, <1>8, <1>9 DEF AcquisitionInv

LEMMA ChooseKeeps == ASSUME AcquisitionInv, Choose PROVE AcquisitionInv'
<1>0. /\ step = "choosing"
      /\ UNCHANGED <<wired, ask, holding, searches, fetches, attempts, bytes, acquired, counted, sent, reached,
                     stored, reason>>
  BY DEF Choose, counters
<1>1. /\ SearchLimit' = SearchLimit /\ FetchLimit' = FetchLimit /\ AttemptLimit' = AttemptLimit
  BY <1>0 DEF SearchLimit, FetchLimit, AttemptLimit
<1>2. CASE step' = "settling" /\ UNCHANGED <<queue, fetching>>
  <2>1. Held(holding) /\ ask \in Calls
    BY <1>0 DEF AcquisitionInv, ReasonFits, AcquisitionTyped
  <2>2. UNCHANGED <<queue, fetching, counters, stored>>
    BY <1>0, <1>2 DEF counters
  <2>3. QED
    BY <1>0, <1>2, <2>1, <2>2, AcquisitionWaits DEF Early
<1>3. CASE /\ queue # <<>> /\ ~(fetches >= FetchLimit) /\ ~Exhausted
           /\ queue' = Tail(queue)
           /\ \E u \in Addresses :
               IF Permitted(u)
               THEN step' = "fetching" /\ fetching' = [of |-> Head(queue), requests |-> 0, at |-> u]
               ELSE UNCHANGED <<step, fetching>>
  <2>1. /\ Once(queue, Candidates) /\ Once(queue', Candidates) /\ Len(queue') = Len(queue) - 1
        /\ Len(queue) \in Nat \ {0} /\ Head(queue) \in Candidates /\ Head(queue) \in ToSet(queue)
        /\ ToSet(queue') = ToSet(queue) \ {Head(queue)}
    <3>1. Once(queue, Candidates) /\ queue # <<>> /\ queue' = Tail(queue)
      BY <1>3 DEF AcquisitionInv, QueueFits
    <3>2. QED
      BY <3>1, FirstLeaves
  <2>2. fetches < FetchLimit /\ attempts < AttemptLimit
    <3>1. ~(fetches >= FetchLimit) /\ ~(attempts >= AttemptLimit)
      BY <1>3 DEF Exhausted
    <3>2. FetchLimit \in Nat /\ AttemptLimit \in Nat /\ fetches \in Nat /\ attempts \in Nat
      BY AcquisitionNumbers
    <3>3. QED
      BY <3>1, <3>2
  <2>3. NotQueued' = NotQueued + 1 /\ NotQueued' - 1 = NotQueued
    <3>1. Cardinality(Candidates) \in Nat
      BY AcquisitionNumbers
    <3>2. QED
      BY <2>1, <3>1 DEF NotQueued
  <2>4. Hops * (NotQueued + 1) = Hops * NotQueued + Hops
    <3>1. NotQueued \in Nat /\ Hops \in Nat
      BY AcquisitionNumbers
    <3>2. QED
      BY <3>1
  <2>5. \/ step' = step /\ fetching' = fetching
        \/ /\ step' = "fetching" /\ Permitted(fetching'.at)
           /\ fetching' = [of |-> Head(queue), requests |-> 0, at |-> fetching'.at]
    BY <1>3
  <2>6. AcquisitionTyped'
    <3>1. Hops \in Nat
      BY AcquisitionNumbers
    <3>2. fetching' \in [of : {fetching'.of}, requests : 0 .. Hops, at : {fetching'.at}]
      BY <2>5, <3>1 DEF AcquisitionInv, AcquisitionTyped
    <3>3. QED
      BY <1>0, <2>5, <3>2 DEF AcquisitionInv, AcquisitionTyped
  <2>7. CountersFit'
    BY <1>0, <1>1, <2>2, <2>5 DEF AcquisitionInv, CountersFit, Early
  <2>8. QueueFits'
    <3>1. /\ stored[Head(queue)] = {} /\ \A c \in ToSet(queue') : stored[c] = {}
          /\ Head(queue) \notin counted /\ \A c \in ToSet(queue') : c \notin counted
      BY <2>1 DEF AcquisitionInv, QueueFits
    <3>2. CASE step' = step
      BY <1>0, <2>1, <3>1, <3>2 DEF QueueFits, Early
    <3>3. CASE step' = "fetching" /\ fetching'.of = Head(queue)
      BY <1>0, <2>1, <3>1, <3>3 DEF QueueFits, Early
    <3>4. QED
      BY <2>5, <3>2, <3>3
  <2>9. StoredFits'
    BY <1>0 DEF AcquisitionInv, StoredFits, Writes
  <2>10. SentFits'
    <3>1. sent <= attempts + Hops * NotQueued
      BY <1>0 DEF AcquisitionInv, SentFits
    <3>2. CASE step' = step
      <4>0. /\ Hops \in Nat /\ Hops * NotQueued \in Nat /\ attempts \in Nat /\ sent \in Nat
            /\ Hops * NotQueued' = Hops * NotQueued + Hops
        BY <2>3, <2>4, AcquisitionNumbers
      <4>1. sent <= attempts + Hops * NotQueued'
        BY <3>1, <4>0
      <4>2. QED
        BY <1>0, <3>2, <4>1 DEF SentFits, Early
    <3>3. CASE step' = "fetching" /\ fetching'.requests = 0
      <4>1. sent <= attempts + 0 + Hops * (NotQueued' - 1)
        BY <2>3, <3>1, AcquisitionNumbers
      <4>2. QED
        BY <1>0, <3>3, <4>1 DEF SentFits, Early
    <3>4. QED
      BY <2>5, <3>2, <3>3
  <2>11. ReasonFits'
    <3>1. sent > 0
      BY <1>3 DEF AcquisitionInv, ReasonFits
    <3>2. CASE step' = step
      BY <1>0, <3>1, <3>2 DEF AcquisitionInv, ReasonFits, Held, Permitted
    <3>3. CASE step' = "fetching" /\ Permitted(fetching'.at)
      BY <1>0, <3>1, <3>3 DEF AcquisitionInv, ReasonFits, Held, Permitted
    <3>4. QED
      BY <2>5, <3>2, <3>3
  <2>12. QED
    BY <2>6, <2>7, <2>8, <2>9, <2>10, <2>11 DEF AcquisitionInv
<1>4. QED
  BY <1>2, <1>3 DEF Choose

\* A fetch that goes on, throws or answers: what it sent and does not count
\* are its redirects.
LEMMA FetchKeeps == ASSUME AcquisitionInv, FetchHop PROVE AcquisitionInv'
<1>0. /\ step = "fetching"
      /\ UNCHANGED <<wired, ask, holding, queue, searches, acquired, counted, stored, reason>>
  BY DEF FetchHop
<1>1. /\ SearchLimit' = SearchLimit /\ FetchLimit' = FetchLimit /\ AttemptLimit' = AttemptLimit
      /\ NotQueued' = NotQueued
  BY <1>0 DEF SearchLimit, FetchLimit, AttemptLimit, NotQueued
<1>2. PICK n, k, m : n = fetching.requests /\ k = Hops * NotQueued /\ m = Hops * (NotQueued - 1)
  OBVIOUS
<1>3. /\ AttemptLimit \in Nat /\ attempts \in Nat /\ sent \in Nat /\ Hops \in Nat
      /\ fetches \in Nat /\ bytes \in Nat /\ FetchLimit \in Nat /\ NotQueued \in Nat
      /\ MaxBytes \in Nat
  BY AcquisitionNumbers
<1>4. n \in 0 .. Hops /\ m \in Int /\ k \in Nat /\ k = m + Hops
  BY <1>2, <1>3 DEF AcquisitionInv, AcquisitionTyped
<1>5. /\ attempts < AttemptLimit /\ fetches < FetchLimit /\ bytes <= MaxBytes + 1
      /\ sent <= attempts + n + m /\ sent > 0
  BY <1>0, <1>2 DEF AcquisitionInv, CountersFit, SentFits, ReasonFits
<1>6. StoredFits'
  BY <1>0 DEF AcquisitionInv, StoredFits, Writes
\* Whatever it comes to, these are what is left to show.
<1>7. ASSUME step' \in {"fetching", "choosing", "storing"},
             attempts' \in Nat, sent' \in Nat, fetches' \in Nat, bytes' \in Nat,
             attempts' <= AttemptLimit, fetches' <= FetchLimit, bytes' <= MaxBytes + 1,
             step' = "fetching" => attempts' < AttemptLimit /\ fetches' < FetchLimit,
             step' = "fetching" => sent' <= attempts' + fetching'.requests + m,
             step' # "fetching" => sent' <= attempts' + k,
             sent' > 0,
             fetching' \in [of : {fetching.of}, requests : 0 .. Hops, at : {fetching'.at}],
             step' = "fetching" => Permitted(fetching'.at),
             \A u \in reached' : Permitted(u)
      PROVE  AcquisitionInv'
  <2>1. AcquisitionTyped'
    BY <1>0, <1>7 DEF AcquisitionInv, AcquisitionTyped
  <2>2. CountersFit'
    BY <1>0, <1>1, <1>7 DEF AcquisitionInv, CountersFit, Early
  <2>3. QueueFits'
    BY <1>0, <1>7 DEF AcquisitionInv, QueueFits, Early
  <2>4. SentFits'
    BY <1>1, <1>2, <1>7 DEF SentFits, Early
  <2>5. ReasonFits'
    BY <1>0, <1>7 DEF AcquisitionInv, ReasonFits, Held, Permitted
  <2>6. QED
    BY <1>6, <2>1, <2>2, <2>3, <2>4, <2>5 DEF AcquisitionInv
<1>8. /\ fetching \in [of : {fetching.of}, requests : 0 .. Hops, at : {fetching.at}]
      /\ Permitted(fetching.at) /\ \A u \in reached : Permitted(u)
  BY <1>0 DEF AcquisitionInv, AcquisitionTyped, ReasonFits
<1>9. CASE ~MayRequest
  <2>1. /\ attempts' = attempts + 1 /\ step' = "choosing"
        /\ UNCHANGED <<fetching, fetches, bytes, sent, reached>>
    BY <1>9 DEF FetchHop, FetchThrows
  <2>2. /\ attempts' \in Nat /\ attempts' <= AttemptLimit /\ sent' <= attempts' + k
        /\ sent' > 0 /\ sent' \in Nat /\ fetches' <= FetchLimit
    BY <1>3, <1>4, <1>5, <2>1
  <2>3. QED
    BY <1>3, <1>5, <1>7, <1>8, <2>1, <2>2
<1>10. CASE MayRequest
  <2>1. n < AttemptLimit - attempts /\ n <= Hops
    BY <1>2, <1>10 DEF MayRequest
  <2>2. sent' = sent + 1 /\ reached' = reached \cup {fetching.at}
    BY <1>10 DEF FetchHop
  <2>3. /\ sent' \in Nat /\ sent' > 0 /\ \A u \in reached' : Permitted(u)
    BY <1>3, <1>8, <2>2
  <2>4. \/ /\ n + 1 <= Hops
           /\ \E u \in Addresses : Permitted(u) /\ fetching' = [fetching EXCEPT !.requests = n + 1, !.at = u]
           /\ UNCHANGED <<step, attempts, fetches, bytes>>
        \/ FetchThrows
        \/ /\ attempts' = attempts + (n + 1)
           /\ \E size \in 1 .. 2 : bytes + size <= MaxBytes /\ bytes' = bytes + size
           /\ \/ step' = "choosing" /\ UNCHANGED fetches
              \/ step' = "storing" /\ fetches' = fetches + 1
           /\ UNCHANGED fetching
    BY <1>2, <1>10 DEF FetchHop
  <2>5. CASE /\ n + 1 <= Hops
             /\ \E u \in Addresses : Permitted(u) /\ fetching' = [fetching EXCEPT !.requests = n + 1, !.at = u]
             /\ UNCHANGED <<step, attempts, fetches, bytes>>
    <3>1. PICK u \in Addresses : Permitted(u) /\ fetching' = [fetching EXCEPT !.requests = n + 1, !.at = u]
      BY <2>5
    <3>2. /\ fetching' \in [of : {fetching.of}, requests : 0 .. Hops, at : {fetching'.at}]
          /\ fetching'.requests = n + 1 /\ fetching'.at = u
      <4>1. n + 1 \in 0 .. Hops
        BY <1>3, <1>4, <2>5
      <4>2. PICK f, of, place, q : f = fetching' /\ of = fetching.of /\ place = fetching.at /\ q = n + 1
        OBVIOUS
      <4>3. fetching = [of |-> of, requests |-> n, at |-> place]
        BY <1>2, <1>8, <4>2
      <4>4. f = [of |-> of, requests |-> q, at |-> u]
        BY <3>1, <4>2, <4>3
      <4>5. QED
        BY <4>1, <4>2, <4>4
    <3>3. sent' <= attempts' + fetching'.requests + m
      BY <1>3, <1>4, <1>5, <2>2, <2>5, <3>2
    <3>4. QED
      BY <1>0, <1>3, <1>5, <1>7, <2>3, <2>5, <3>1, <3>2, <3>3
  <2>6. CASE FetchThrows
    <3>1. /\ attempts' = attempts + 1 /\ step' = "choosing"
          /\ UNCHANGED <<fetching, fetches, bytes>>
      BY <2>6 DEF FetchThrows
    <3>2. /\ attempts' \in Nat /\ attempts' <= AttemptLimit /\ sent' <= attempts' + k
          /\ fetches' <= FetchLimit
      BY <1>3, <1>4, <1>5, <2>2, <3>1
    <3>3. QED
      BY <1>3, <1>5, <1>7, <1>8, <2>3, <3>1, <3>2
  <2>7. CASE /\ attempts' = attempts + (n + 1)
             /\ \E size \in 1 .. 2 : bytes + size <= MaxBytes /\ bytes' = bytes + size
             /\ \/ step' = "choosing" /\ UNCHANGED fetches
                \/ step' = "storing" /\ fetches' = fetches + 1
             /\ UNCHANGED fetching
    <3>1. bytes' \in Nat /\ bytes' <= MaxBytes + 1
      BY <1>3, <2>7
    <3>2. /\ attempts' \in Nat /\ attempts' <= AttemptLimit /\ sent' <= attempts' + k
      BY <1>3, <1>4, <1>5, <2>1, <2>2, <2>7
    <3>3. fetches' \in Nat /\ fetches' <= FetchLimit
      BY <1>3, <1>5, <2>7
    <3>4. QED
      BY <1>7, <1>8, <2>3, <2>7, <3>1, <3>2, <3>3
  <2>8. QED
    BY <2>4, <2>5, <2>6, <2>7
<1>12. QED
  BY <1>9, <1>10

LEMMA PersistKeeps == ASSUME AcquisitionInv, Persist PROVE AcquisitionInv'
<1>0. /\ step = "storing" /\ step' \in {"storing", "choosing"}
      /\ UNCHANGED <<wired, ask, holding, queue, fetching, searches, fetches, attempts, bytes,
                     sent, reached, reason>>
  BY DEF Persist
<1>1. PICK c, next, left :
          /\ c = fetching.of /\ left = Writes(c) \ stored[c]
          /\ next = {w \in left : \A v \in left : WriteBefore(w, v)}
  OBVIOUS
<1>2. /\ c \in Candidates /\ c \notin ToSet(queue) /\ c \notin counted
      /\ stored \in [Candidates -> SUBSET ToSet(Stages)] /\ counted \subseteq Candidates
      /\ acquired \in Nat
  BY <1>0, <1>1 DEF AcquisitionInv, QueueFits, AcquisitionTyped
<1>3. stored[c] \subseteq Writes(c) /\ Writes(c) \subseteq ToSet(Stages) /\ next \subseteq left
  BY <1>1, <1>2 DEF AcquisitionInv, StoredFits, Writes
<1>4. \/ step' = "choosing" /\ UNCHANGED <<stored, acquired, counted>>
      \/ /\ stored' = [stored EXCEPT ![c] = @ \cup next]
         /\ \/ /\ left \subseteq next /\ step' = "choosing" /\ acquired' = acquired + 1
               /\ counted' = counted \cup {c}
            \/ UNCHANGED <<step, acquired, counted>>
  BY <1>1 DEF Persist, Left
<1>5. /\ stored' \in [Candidates -> SUBSET ToSet(Stages)]
      /\ \A d \in Candidates : d # c => stored'[d] = stored[d]
      /\ stored'[c] \in {stored[c], stored[c] \cup next}
  <2>1. stored[c] \cup next \in SUBSET ToSet(Stages)
    BY <1>1, <1>2, <1>3
  <2>2. QED
    BY <1>2, <1>4, <2>1
<1>6. AcquisitionTyped'
  <2>1. acquired' \in Nat /\ counted' \subseteq Candidates
    BY <1>2, <1>4
  <2>2. QED
    BY <1>0, <1>5, <2>1 DEF AcquisitionInv, AcquisitionTyped
<1>7. CountersFit' /\ SentFits'
  <2>1. CountersFit'
    BY <1>0 DEF AcquisitionInv, CountersFit, SearchLimit, FetchLimit, AttemptLimit, Early
  <2>2. SentFits'
    BY <1>0 DEF AcquisitionInv, SentFits, NotQueued, Early
  <2>3. QED
    BY <2>1, <2>2
<1>8. QueueFits'
  <2>1. \A d \in ToSet(queue) : d \in Candidates /\ d # c /\ stored[d] = {} /\ d \notin counted
    BY <1>2 DEF AcquisitionInv, QueueFits, Once, ToSet
  <2>2. \A d \in ToSet(queue') : stored'[d] = {} /\ d \notin counted'
    BY <1>0, <1>4, <1>5, <2>1
  <2>3. step' = "storing" => c \notin counted'
    BY <1>0, <1>2, <1>4
  <2>4. QED
    BY <1>0, <1>1, <1>2, <2>2, <2>3 DEF AcquisitionInv, QueueFits, Early
<1>9. StoredFits'
  <2>1. \A d : Writes(d)' = Writes(d)
    BY <1>0 DEF Writes
  <2>2. \A d \in Candidates : stored'[d] \subseteq Writes(d)
    BY <1>1, <1>3, <1>5 DEF AcquisitionInv, StoredFits
  <2>3. acquired' = Cardinality(counted') /\ \A d \in counted' : stored'[d] = Writes(d)
    <3>1. \A d \in counted : stored'[d] = Writes(d) /\ d # c
      BY <1>2, <1>5 DEF AcquisitionInv, StoredFits
    <3>2. CASE UNCHANGED <<acquired, counted>>
      BY <3>1, <3>2 DEF AcquisitionInv, StoredFits
    <3>3. CASE /\ stored' = [stored EXCEPT ![c] = @ \cup next] /\ left \subseteq next
               /\ acquired' = acquired + 1 /\ counted' = counted \cup {c}
      <4>1. stored'[c] = Writes(c)
        BY <1>1, <1>2, <1>3, <3>3
      <4>2. IsFiniteSet(counted)
        BY <1>2, FS_Subset, AcquisitionConstants
      <4>3. Cardinality(counted \cup {c}) = Cardinality(counted) + 1
        BY <1>2, <4>2, FS_AddElement
      <4>4. QED
        BY <3>1, <3>3, <4>1, <4>3 DEF AcquisitionInv, StoredFits
    <3>4. QED
      BY <1>4, <3>2, <3>3
  <2>4. ASSUME NEW d \in Candidates, NEW w \in stored'[d], NEW v \in Writes(d), WriteBefore(v, w)
        PROVE  v \in stored'[d]
    <3>1. CASE w \in stored[d]
      <4>1. v \in stored[d]
        BY <2>4, <3>1 DEF AcquisitionInv, StoredFits
      <4>2. QED
        BY <1>5, <4>1
    <3>2. CASE w \notin stored[d]
      <4>1. d = c /\ w \in next /\ stored'[d] = stored[c] \cup next
        BY <1>5, <3>2
      <4>2. v \in stored[c] \/ v \in left
        BY <1>1, <4>1
      <4>3. v \in left => v = w
        BY <1>1, <2>4, <4>1, WritesFollow
      <4>4. QED
        BY <4>1, <4>2, <4>3
    <3>3. QED
      BY <3>1, <3>2
  <2>5. QED
    BY <2>1, <2>2, <2>3, <2>4 DEF StoredFits
<1>10. ReasonFits'
  BY <1>0, <1>4 DEF AcquisitionInv, ReasonFits, Held, Permitted
<1>11. QED
  BY <1>6, <1>7, <1>8, <1>9, <1>10 DEF AcquisitionInv

LEMMA AcquisitionInvNext == AcquisitionInv /\ [AcquisitionNext]_acquisitionVars => AcquisitionInv'
<1> SUFFICES ASSUME AcquisitionInv, [AcquisitionNext]_acquisitionVars PROVE AcquisitionInv'
  OBVIOUS
<1>1. CASE UNCHANGED acquisitionVars
  BY <1>1 DEF acquisitionVars, AcquisitionInv, AcquisitionTyped, CountersFit, SearchLimit,
     FetchLimit, AttemptLimit, QueueFits, StoredFits, Writes, SentFits, NotQueued, ReasonFits, Held
<1>2. CASE AcquisitionNext
  BY <1>2, AbortKeeps, TurnsKeep, SearchKeeps, ChooseKeeps, FetchKeeps, PersistKeeps
     DEF AcquisitionNext
<1>3. QED
  BY <1>1, <1>2

(***************************************************************************)
(* The bounds of an acquisition hold whatever redirects, fails or is       *)
(* aborted, and whatever ports the service is built with: its counters     *)
(* stay within the limits, what it counts as acquired has every write      *)
(* whose port is given, in their order, requests go only where the guard   *)
(* permits and, with a budget, under a reservation, and all but the        *)
(* redirects of failed fetches are counted.                                *)
(***************************************************************************)
THEOREM AcquisitionStaysWithinBounds == AcquisitionSpec => []AcquisitionWithinBounds
<1>1. AcquisitionInv => AcquisitionWithinBounds
  <2> SUFFICES ASSUME AcquisitionInv PROVE AcquisitionWithinBounds
    OBVIOUS
  <2>1. /\ searches <= SearchLimit /\ fetches <= FetchLimit
        /\ attempts <= AttemptLimit /\ bytes <= MaxBytes + 1
    BY DEF AcquisitionInv, CountersFit
  <2>2. /\ acquired = Cardinality(counted) /\ \A c \in counted : stored[c] = Writes(c)
        /\ \A c \in Candidates : \A w \in stored[c], v \in Writes(c) :
               WriteBefore(v, w) => v \in stored[c]
    BY DEF AcquisitionInv, StoredFits
  <2>4. /\ sent > 0 /\ "budget" \in wired => holding # "none"
        /\ \A u \in reached : Permitted(u)
        /\ reason \in {"acquired", "no_items_acquired"} => sent > 0
    BY DEF AcquisitionInv, ReasonFits, Held
  <2>5. sent <= attempts + fetching.requests + Hops * Cardinality(Candidates)
    <3>1. PICK a, n, k, h, w :
              /\ a = Hops * Cardinality(Candidates) /\ k = Hops * NotQueued
              /\ n = fetching.requests /\ h = Hops /\ w = Hops * (NotQueued - 1)
      OBVIOUS
    <3>2. /\ attempts \in Nat /\ sent \in Nat /\ Hops \in Nat
          /\ NotQueued \in Nat /\ Cardinality(Candidates) \in Nat /\ Len(queue) \in Nat
      BY AcquisitionNumbers
    <3>3. NotQueued <= Cardinality(Candidates) /\ NotQueued - 1 <= Cardinality(Candidates)
      BY <3>2 DEF NotQueued
    <3>4. \A i, j \in Int : i <= j => Hops * i <= Hops * j
      BY <3>2
    <3>5. a \in Nat /\ k \in Nat /\ w \in Int /\ k <= a /\ w <= a
      BY <3>1, <3>2, <3>3, <3>4
    <3>6. n \in Nat
      BY <3>1, <3>2 DEF AcquisitionInv, AcquisitionTyped
    <3>7. sent <= attempts \/ sent <= attempts + n + w \/ sent <= attempts + k
      BY <3>1 DEF AcquisitionInv, SentFits
    <3>8. sent <= attempts + n + a
      BY <3>2, <3>5, <3>6, <3>7
    <3>9. QED
      BY <3>1, <3>8
  <2>6. QED
    BY <2>1, <2>2, <2>4, <2>5 DEF AcquisitionWithinBounds
<1>2. QED
  BY <1>1, AcquisitionInvInit, AcquisitionInvNext, PTL DEF AcquisitionSpec

(***************************************************************************)
(* The commands of operators.  An answer that is given, or kept under a    *)
(* key, is of a command whose effect stays: what is decided, registered or *)
(* in the queue is never taken back.                                       *)
(***************************************************************************)
CommandSpec == CommandInit /\ [][CommandNext]_commandVars

CommandPlaces == {"idle", "create", "dispatch", "marking", "lockSource", "lockTarget",
                  "write", "read", "lockBoth", "review", "cohort", "replay", "replan", "finishing",
                  "done"}
Locking == {"lockTarget", "lockBoth", "write"}
Decided == {"accepted", "rejected"}
CommandReads == {Nothing, CHOOSE v \in Approved : TRUE} \cup Args
CommandShape == [CommandRequests -> [at : CommandPlaces, reply : CommandReplies,
                                     replayed : BOOLEAN, read : CommandReads]]

\* The run that an answer tells of: its handler has ended, so that its row
\* changes no more.
Ended(r) == command[r].at \in {"finishing", "done"}
RunTold(q) ==
    \E r \in CommandRequests :
        /\ asked[r].key = asked[q].key /\ Payload(r) = Payload(q) /\ Ended(r)
        /\ "rows" \in runPorts => collections[r] = "pending"
        /\ "queue" \in runPorts => r \in dispatched

\* What the answer "ok" tells of a command
Told(q, says) ==
    says = "ok" =>
        /\ Kind(q) = "review" => candidate.state = asked[q].arg
        /\ Kind(q) = "cohort" => cohort = asked[q].arg
        /\ Kind(q) = "register" => asked[q].arg \in registered
        /\ Kind(q) = "run" => RunTold(q)

CommandTyped ==
    /\ asked \in Plans /\ restarts \in Nat
    /\ command \in CommandShape
    /\ target \in [current : CommandReads, enabled : {target.enabled}]
    /\ candidate \in [state : {"none", "pending"} \cup Decided, by : {candidate.by}]
    /\ DOMAIN rowLocks = {"source", "target"}
    /\ collections \in [CommandRequests -> {"none", "pending", "failed"}]
    /\ dispatched \subseteq CommandRequests

\* Where a command is says what kind it is.
PlaceFits(q) ==
    LET place == command[q].at
    IN  /\ place \in {"create", "dispatch", "marking"} => Kind(q) = "run"
        /\ place \in {"lockSource", "lockTarget"} => Kind(q) = "register"
        /\ place \in {"read", "lockBoth"} => Kind(q) \in {"enable", "disable"}
        /\ place = "write" => Kind(q) \in {"register", "enable", "disable"}
        /\ place = "review" => Kind(q) = "review"
        /\ place = "cohort" => Kind(q) = "cohort"
        /\ place \in {"replay", "replan"} => Kind(q) = "replay"

AnswerFits(q) ==
    CommandAnswered(q) =>
        /\ Told(q, "ok")
        /\ Kind(q) = "review" => command[q].replayed \/ candidate.by = asked[q].actor
\* A pending row has its job, or its handler is not through with it, or its
\* caller knows of no success.
RunFits(q) ==
    /\ collections[q] = "pending" =>
           /\ "rows" \in runPorts /\ command[q].at \notin {"idle", "create"}
           /\ \/ q \in dispatched
              \/ "queue" \notin runPorts
              \/ command[q].at \in {"dispatch", "marking"}
              \/ command[q].reply \in {"lost", "error"} /\ command[q].at = "done"
    /\ command[q].at = "dispatch" /\ "rows" \in runPorts => collections[q] = "pending"
    /\ Kind(q) = "run" /\ command[q].reply = "unavailable" =>
           command[q].at = "done" /\ collections[q] # "pending"
KeptFits(q) ==
    restarts = 0 /\ command[q].at = "done" /\ command[q].reply = "ok" =>
        store[asked[q].key] # NoEntry

StoreFits ==
    /\ DOMAIN store = CommandKeys
    /\ \A k \in CommandKeys :
        \/ store[k] = NoEntry
        \/ \E q \in CommandRequests :
            /\ asked[q].key = k /\ store[k].payload = Payload(q)
            /\ store[k].reply \in CommandReplies /\ Told(q, store[k].reply)
LocksFit ==
    \A row \in {"source", "target"} :
        \/ rowLocks[row] = Nobody
        \/ rowLocks[row] \in CommandRequests /\ command[rowLocks[row]].at \in Locking

CommandInv ==
    /\ CommandTyped /\ StoreFits /\ LocksFit
    /\ \A q \in CommandRequests : PlaceFits(q) /\ AnswerFits(q) /\ RunFits(q) /\ KeptFits(q)

\* What is decided stays, and sets of what has happened grow.
WorldGrows ==
    /\ asked' = asked /\ runPorts' = runPorts
    /\ candidate' = candidate \/ candidate.state \notin Decided
    /\ cohort' = cohort \/ cohort = Nothing
    /\ registered \subseteq registered' /\ dispatched \subseteq dispatched'
RunsStay == \A r \in CommandRequests : Ended(r) => Ended(r)' /\ collections'[r] = collections[r]

LEMMA AskedIsPlanned ==
    ASSUME asked \in Plans, NEW q \in CommandRequests
    PROVE  /\ Kind(q) \in CommandKinds
           /\ Kind(q) = "review" => asked[q].arg \in Decided
           /\ Kind(q) = "cohort" => asked[q].arg # Nothing
           /\ asked[q].key \in CommandKeys
           /\ Payload(q) \in [kind : CommandKinds, arg : Args]
<1>1. /\ Kind(q) \in CommandKinds
      /\ Kind(q) = "review" => asked[q].arg \in Decided
      /\ Kind(q) = "cohort" => asked[q].arg # Nothing
  BY CommandConstants DEF Kind, Decided
<1>2. asked[q].key \in CommandKeys
  BY DEF CommandKeys
<1>3. asked[q].arg \in Args
  BY DEF Args
<1>4. QED
  BY <1>1, <1>2, <1>3 DEF Payload

LEMMA ToldStays ==
    ASSUME CommandInv, WorldGrows, RunsStay, NEW q \in CommandRequests, NEW says, Told(q, says)
    PROVE  Told(q, says)'
<1>1. Kind(q)' = Kind(q) /\ \A r : Payload(r)' = Payload(r)
  BY DEF WorldGrows, Kind, Payload
<1>2. asked \in Plans
  BY DEF CommandInv, CommandTyped
<1>3. /\ Kind(q) = "review" => asked[q].arg \in Decided
      /\ Kind(q) = "cohort" => asked[q].arg # Nothing
  BY <1>2, AskedIsPlanned
<1>4. SUFFICES ASSUME says = "ok" PROVE Told(q, says)'
  BY DEF Told
<1>5. ASSUME Kind(q) = "review" PROVE candidate'.state = asked[q].arg
  <2>1. candidate.state = asked[q].arg
    BY <1>4, <1>5 DEF Told
  <2>2. QED
    BY <1>3, <1>5, <2>1 DEF WorldGrows
<1>6. ASSUME Kind(q) = "cohort" PROVE cohort' = asked[q].arg
  BY <1>3, <1>4, <1>6 DEF WorldGrows, Told
<1>7. ASSUME Kind(q) = "register" PROVE asked[q].arg \in registered'
  BY <1>4, <1>7 DEF WorldGrows, Told
<1>8. ASSUME Kind(q) = "run" PROVE RunTold(q)'
  <2>1. PICK r \in CommandRequests :
            /\ asked[r].key = asked[q].key /\ Payload(r) = Payload(q) /\ Ended(r)
            /\ "rows" \in runPorts => collections[r] = "pending"
            /\ "queue" \in runPorts => r \in dispatched
    BY <1>4, <1>8 DEF Told, RunTold
  <2>2. Ended(r)' /\ collections'[r] = collections[r]
    BY <2>1 DEF RunsStay
  <2>3. /\ asked'[r].key = asked'[q].key /\ Payload(r)' = Payload(q)'
        /\ "rows" \in runPorts' => collections'[r] = "pending"
        /\ "queue" \in runPorts' => r \in dispatched'
    BY <1>1, <2>1, <2>2 DEF WorldGrows
  <2>4. QED
    BY <2>2, <2>3 DEF RunTold
<1>9. QED
  BY <1>1, <1>5, <1>6, <1>7, <1>8 DEF WorldGrows, Told

LEMMA StoreStays == ASSUME CommandInv, WorldGrows, RunsStay, store' = store PROVE StoreFits'
<1>1. DOMAIN store' = CommandKeys
  BY DEF CommandInv, StoreFits
<1>2. ASSUME NEW k \in CommandKeys, store[k] # NoEntry
      PROVE  \E q \in CommandRequests :
                 /\ asked'[q].key = k /\ store'[k].payload = Payload(q)'
                 /\ store'[k].reply \in CommandReplies /\ Told(q, store[k].reply)'
  <2>1. PICK says : says = store[k].reply
    OBVIOUS
  <2>2. PICK q \in CommandRequests :
            /\ asked[q].key = k /\ store[k].payload = Payload(q)
            /\ says \in CommandReplies /\ Told(q, says)
    BY <1>2, <2>1 DEF CommandInv, StoreFits
  <2>3. Told(q, says)'
    BY <2>2, ToldStays
  <2>4. Payload(q)' = Payload(q) /\ asked' = asked
    BY DEF WorldGrows, Payload, Kind
  <2>5. store'[k].reply = says /\ store'[k].payload = store[k].payload
    BY <2>1
  <2>6. Told(q, store[k].reply)'
    BY <2>3, <2>5 DEF Told, RunTold
  <2>7. QED
    BY <2>2, <2>4, <2>5, <2>6
<1>3. \A k \in CommandKeys : store'[k] # NoEntry =>
          \E q \in CommandRequests :
              /\ asked'[q].key = k /\ store'[k].payload = Payload(q)'
              /\ store'[k].reply \in CommandReplies /\ Told(q, store[k].reply)'
  BY <1>2
<1>4. QED
  BY <1>1, <1>3 DEF StoreFits

\* A command that does not move is answered as it was.
LEMMA CommandRests ==
    ASSUME CommandInv, NEW d \in CommandRequests, WorldGrows, RunsStay,
           command'[d] = command[d], collections'[d] = collections[d],
           restarts' = restarts, \A k \in CommandKeys : store[k] # NoEntry => store'[k] # NoEntry
    PROVE  PlaceFits(d)' /\ AnswerFits(d)' /\ RunFits(d)' /\ KeptFits(d)'
<1>1. asked' = asked /\ Kind(d)' = Kind(d) /\ asked \in Plans
  BY DEF WorldGrows, Kind, CommandInv, CommandTyped
<1>2. PlaceFits(d) /\ AnswerFits(d) /\ RunFits(d) /\ KeptFits(d)
  BY DEF CommandInv
<1>3. PlaceFits(d)'
  BY <1>1, <1>2 DEF PlaceFits
<1>4. AnswerFits(d)'
  <2>1. SUFFICES ASSUME CommandAnswered(d)' PROVE
                     /\ Told(d, "ok")'
                     /\ Kind(d) = "review" => command[d].replayed \/ candidate'.by = asked[d].actor
    BY <1>1 DEF AnswerFits
  <2>2. CommandAnswered(d)
    BY <1>1, <2>1 DEF CommandAnswered
  <2>3. Told(d, "ok") /\ Told(d, "ok")'
    BY <1>2, <2>2, ToldStays DEF AnswerFits
  <2>4. ASSUME Kind(d) = "review" PROVE candidate' = candidate
    <3>1. candidate.state = asked[d].arg /\ asked[d].arg \in Decided
      BY <1>1, <2>3, <2>4, AskedIsPlanned DEF Told
    <3>2. QED
      BY <3>1 DEF WorldGrows
  <2>5. QED
    BY <1>2, <2>2, <2>3, <2>4 DEF AnswerFits
<1>5. RunFits(d)'
  BY <1>1, <1>2 DEF RunFits, WorldGrows
<1>6. KeptFits(d)'
  <2>1. asked[d].key \in CommandKeys
    BY <1>1, AskedIsPlanned
  <2>2. QED
    BY <1>1, <1>2, <2>1 DEF KeptFits
<1>7. QED
  BY <1>3, <1>4, <1>5, <1>6

\* One command moves: no run that has ended does.
LEMMA OneMoves ==
    ASSUME NEW q \in CommandRequests,
           \A d \in CommandRequests \ {q} :
               command'[d] = command[d] /\ collections'[d] = collections[d],
           ~Ended(q) \/ (command'[q].at = "done" /\ collections'[q] = collections[q])
    PROVE  RunsStay
BY DEF RunsStay, Ended

\* One command moves; the others and their answers are as they were.
LEMMA CommandMoves ==
    ASSUME CommandInv, NEW q \in CommandRequests, WorldGrows, RunsStay,
           \A d \in CommandRequests \ {q} :
               command'[d] = command[d] /\ collections'[d] = collections[d],
           restarts' = restarts, \A k \in CommandKeys : store[k] # NoEntry => store'[k] # NoEntry,
           CommandTyped', StoreFits', LocksFit',
           PlaceFits(q)', AnswerFits(q)', RunFits(q)', KeptFits(q)'
    PROVE  CommandInv'
<1>1. ASSUME NEW d \in CommandRequests, d # q
      PROVE  PlaceFits(d)' /\ AnswerFits(d)' /\ RunFits(d)' /\ KeptFits(d)'
  BY <1>1, CommandRests
<1>2. QED
  BY <1>1 DEF CommandInv

\* What a command's record becomes
LEMMA CommandGoes ==
    ASSUME CommandTyped, NEW q \in CommandRequests, NEW place \in CommandPlaces,
           command' = [command EXCEPT ![q].at = place]
    PROVE  /\ command' \in CommandShape
           /\ command'[q].at = place /\ command'[q].reply = command[q].reply
           /\ command'[q].replayed = command[q].replayed
           /\ \A d \in CommandRequests \ {q} : command'[d] = command[d]
BY DEF CommandTyped, CommandShape

CommandSays(q, place, says) == command' = [command EXCEPT ![q].at = place, ![q].reply = says]

LEMMA CommandReplied ==
    ASSUME CommandTyped, NEW q \in CommandRequests, NEW place \in CommandPlaces,
           NEW says \in CommandReplies, CommandSays(q, place, says)
    PROVE  /\ command' \in CommandShape
           /\ command'[q].at = place /\ command'[q].reply = says
           /\ command'[q].replayed = command[q].replayed
           /\ \A d \in CommandRequests \ {q} : command'[d] = command[d]
<1>1. /\ command \in [CommandRequests -> [at : CommandPlaces, reply : CommandReplies,
                                         replayed : BOOLEAN, read : CommandReads]]
  BY DEF CommandTyped, CommandShape
<1>2. PICK c : c = [command[q] EXCEPT !.at = place, !.reply = says]
  OBVIOUS
<1>3. /\ c \in [at : CommandPlaces, reply : CommandReplies, replayed : BOOLEAN, read : CommandReads]
      /\ c.at = place /\ c.reply = says /\ c.replayed = command[q].replayed
  BY <1>1, <1>2
<1>4. command' = [command EXCEPT ![q] = c]
  BY <1>1, <1>2 DEF CommandSays
<1>5. QED
  BY <1>1, <1>3, <1>4 DEF CommandShape

LEMMA CommandRepeated ==
    ASSUME CommandTyped, NEW q \in CommandRequests, NEW place \in CommandPlaces,
           NEW says \in CommandReplies,
           command' = [command EXCEPT ![q].at = place, ![q].reply = says, ![q].replayed = TRUE]
    PROVE  /\ command' \in CommandShape
           /\ command'[q].at = place /\ command'[q].reply = says /\ command'[q].replayed
           /\ \A d \in CommandRequests \ {q} : command'[d] = command[d]
<1>1. command \in CommandShape
  BY DEF CommandTyped
<1>2. command' \in CommandShape
  BY <1>1 DEF CommandShape
<1>3. /\ command'[q].at = place /\ command'[q].reply = says
      /\ \A d \in CommandRequests \ {q} : command'[d] = command[d]
  BY <1>1 DEF CommandShape
<1>4. command'[q].replayed
  BY <1>1 DEF CommandShape
<1>5. QED
  BY <1>2, <1>3, <1>4

LEMMA LocksStay ==
    ASSUME CommandInv, NEW q \in CommandRequests, rowLocks' = rowLocks,
           command[q].at \notin Locking,
           \A d \in CommandRequests \ {q} : command'[d] = command[d]
    PROVE  LocksFit'
BY DEF CommandInv, LocksFit

\* The kept answer is of a command of the same key and payload.
LEMMA KeptIsTold ==
    ASSUME CommandInv, NEW q \in CommandRequests, store[asked[q].key] # NoEntry,
           store[asked[q].key].payload = Payload(q)
    PROVE  store[asked[q].key].reply \in CommandReplies /\ Told(q, store[asked[q].key].reply)
<1>1. asked \in Plans /\ asked[q].key \in CommandKeys
  BY AskedIsPlanned DEF CommandInv, CommandTyped
<1>2. PICK k, says : k = asked[q].key /\ says = store[k].reply
  OBVIOUS
<1>3. PICK r \in CommandRequests :
          /\ asked[r].key = k /\ store[k].payload = Payload(r)
          /\ says \in CommandReplies /\ Told(r, says)
  BY <1>1, <1>2 DEF CommandInv, StoreFits
<1>4. Payload(r) = Payload(q)
  BY <1>2, <1>3
<1>5. Kind(r) = Kind(q) /\ asked[r].arg = asked[q].arg
  BY <1>4 DEF Payload
<1>6. Told(q, says)
  <2>1. RunTold(r) => RunTold(q)
    BY <1>2, <1>3, <1>4 DEF RunTold
  <2>2. QED
    BY <1>3, <1>5, <2>1 DEF Told
<1>7. QED
  BY <1>2, <1>3, <1>6

LEMMA ArrivalKeeps == ASSUME CommandInv, NEW q \in CommandRequests, CommandArrives(q) PROVE CommandInv'
<1>1. /\ command[q].at = "idle" /\ CommandTyped /\ asked \in Plans
      /\ UNCHANGED <<runPorts, asked, store, restarts, target, registered, rowLocks, candidate, cohort,
                     collections, dispatched, replans, enabledFor>>
  BY DEF CommandArrives, worldVars, CommandInv, CommandTyped
<1>2. WorldGrows
  BY <1>1 DEF WorldGrows
<1>3. ASSUME \A d \in CommandRequests \ {q} : command'[d] = command[d]
      PROVE  RunsStay /\ StoreFits'
  <2>1. /\ ~Ended(q)
        /\ \A d \in CommandRequests \ {q} :
               command'[d] = command[d] /\ collections'[d] = collections[d]
    BY <1>1, <1>3 DEF Ended
  <2>2. RunsStay
    BY <2>1, OneMoves
  <2>3. QED
    BY <1>1, <1>2, <2>2, StoreStays
<1>4. PICK e : e = store[asked[q].key]
  OBVIOUS
<1>5. \/ e = NoEntry /\ command' = [command EXCEPT ![q].at = Begins(q)]
      \/ /\ e # NoEntry /\ e.payload # Payload(q)
         /\ command' = [command EXCEPT ![q].at = "done", ![q].reply = "conflict"]
      \/ /\ e # NoEntry /\ e.payload = Payload(q)
         /\ command' = [command EXCEPT ![q].at = "done", ![q].reply = e.reply, ![q].replayed = TRUE]
  BY <1>4 DEF CommandArrives
<1>6. ASSUME command' \in CommandShape,
             \A d \in CommandRequests \ {q} : command'[d] = command[d],
             command'[q].at \in CommandPlaces \ {"dispatch", "marking"},
             command'[q].at = "done" \/ command'[q].reply = command[q].reply,
             PlaceFits(q)', AnswerFits(q)', KeptFits(q)'
      PROVE  CommandInv'
  <2>1. LocksFit'
    BY <1>1, <1>6, LocksStay DEF Locking
  <2>2. CommandTyped'
    BY <1>1, <1>6 DEF CommandTyped
  <2>3. RunFits(q)'
    <3>1. RunFits(q)
      BY DEF CommandInv
    <3>2. collections'[q] # "pending" /\ Kind(q)' = Kind(q)
      BY <1>1, <3>1 DEF RunFits, Kind
    <3>3. Kind(q)' = "run" /\ command'[q].reply = "unavailable" => command'[q].at = "done"
      BY <1>1, <1>6, <3>1, <3>2 DEF RunFits
    <3>4. QED
      BY <1>6, <3>2, <3>3 DEF RunFits
  <2>4. QED
    BY <1>1, <1>2, <1>3, <1>6, <2>1, <2>2, <2>3, CommandMoves
<1>7. CASE e = NoEntry /\ command' = [command EXCEPT ![q].at = Begins(q)]
  <2>1. /\ Begins(q) \in CommandPlaces \ {"dispatch", "marking", "idle", "done", "finishing"}
        /\ Begins(q) = "create" => Kind(q) = "run"
        /\ Begins(q) = "lockSource" => Kind(q) = "register"
        /\ Begins(q) = "read" => Kind(q) \in {"enable", "disable"}
        /\ Begins(q) = "review" => Kind(q) = "review"
        /\ Begins(q) = "cohort" => Kind(q) = "cohort"
        /\ Begins(q) = "replay" => Kind(q) = "replay"
        /\ Begins(q) \notin {"lockTarget", "lockBoth", "write", "replan"}
    <3>1. Kind(q) \in CommandKinds
      BY <1>1, AskedIsPlanned
    <3>2. QED
      BY <3>1 DEF Begins, CommandKinds, CommandPlaces
  <2>2. /\ command' \in CommandShape /\ command'[q].at = Begins(q)
        /\ command'[q].reply = command[q].reply
        /\ \A d \in CommandRequests \ {q} : command'[d] = command[d]
    BY <1>1, <1>7, <2>1, CommandGoes
  <2>3. PlaceFits(q)'
    BY <1>1, <2>1, <2>2 DEF PlaceFits, Kind
  <2>4. AnswerFits(q)' /\ KeptFits(q)'
    BY <2>1, <2>2 DEF AnswerFits, CommandAnswered, KeptFits
  <2>5. QED
    BY <1>6, <2>1, <2>2, <2>3, <2>4
<1>8. CASE command' = [command EXCEPT ![q].at = "done", ![q].reply = "conflict"]
  <2>1. /\ command' \in CommandShape /\ command'[q].at = "done" /\ command'[q].reply = "conflict"
        /\ \A d \in CommandRequests \ {q} : command'[d] = command[d]
    <3>1. "done" \in CommandPlaces /\ "conflict" \in CommandReplies
      BY DEF CommandPlaces, CommandReplies
    <3>2. CommandSays(q, "done", "conflict")
      BY <1>8 DEF CommandSays
    <3>3. QED
      BY <1>1, <3>1, <3>2, CommandReplied
  <2>2. PlaceFits(q)' /\ AnswerFits(q)' /\ KeptFits(q)'
    BY <2>1 DEF PlaceFits, AnswerFits, CommandAnswered, KeptFits
  <2>3. "done" \in CommandPlaces \ {"dispatch", "marking"}
    BY DEF CommandPlaces
  <2>4. QED
    BY <1>6, <2>1, <2>2, <2>3
<1>9. CASE /\ e # NoEntry /\ e.payload = Payload(q)
           /\ command' = [command EXCEPT ![q].at = "done", ![q].reply = e.reply, ![q].replayed = TRUE]
  <2>1. e.reply \in CommandReplies /\ Told(q, e.reply)
    BY <1>4, <1>9, KeptIsTold
  <2>2. PICK says \in CommandReplies : says = e.reply
    BY <2>1
  <2>3. /\ command' \in CommandShape /\ command'[q].at = "done" /\ command'[q].reply = says
        /\ command'[q].replayed
        /\ \A d \in CommandRequests \ {q} : command'[d] = command[d]
    <3>1. "done" \in CommandPlaces
      BY DEF CommandPlaces
    <3>2. command' = [command EXCEPT ![q].at = "done", ![q].reply = says, ![q].replayed = TRUE]
      BY <1>9, <2>2
    <3>3. QED
      BY <1>1, <3>1, <3>2, CommandRepeated
  <2>4. PlaceFits(q)'
    BY <2>3 DEF PlaceFits
  <2>5. AnswerFits(q)'
    <3>1. Told(q, says)'
      BY <1>2, <1>3, <2>1, <2>2, <2>3, ToldStays
    <3>2. QED
      BY <2>3, <3>1 DEF AnswerFits, CommandAnswered
  <2>6. KeptFits(q)'
    BY <1>1, <1>4, <1>9 DEF KeptFits
  <2>7. "done" \in CommandPlaces \ {"dispatch", "marking"}
    BY DEF CommandPlaces
  <2>8. QED
    BY <1>6, <2>3, <2>4, <2>5, <2>6, <2>7
<1>10. QED
  BY <1>5, <1>7, <1>8, <1>9

LEMMA FinishKeeps == ASSUME CommandInv, NEW q \in CommandRequests, Finish(q) PROVE CommandInv'
<1>1. /\ command[q].at = "finishing" /\ command' = [command EXCEPT ![q].at = "done"]
      /\ CommandTyped /\ asked \in Plans
      /\ UNCHANGED <<runPorts, asked, restarts, target, registered, rowLocks, candidate, cohort,
                     collections, dispatched, replans, enabledFor>>
  BY DEF Finish, CommandAt, worldVars, CommandInv, CommandTyped
<1>2. WorldGrows /\ Kind(q)' = Kind(q) /\ Payload(q)' = Payload(q)
  BY <1>1 DEF WorldGrows, Kind, Payload
<1>3. RunsStay
  <2>1. /\ command'[q].at = "done" /\ collections'[q] = collections[q]
        /\ \A d \in CommandRequests \ {q} :
               command'[d] = command[d] /\ collections'[d] = collections[d]
    BY <1>1 DEF CommandTyped, CommandShape
  <2>2. QED
    BY <2>1, OneMoves
<1>4. PICK k, says, e :
          /\ k = asked[q].key /\ says = command[q].reply
          /\ e = [payload |-> Payload(q), reply |-> says]
  OBVIOUS
<1>5. store' = [store EXCEPT ![k] = e]
  BY <1>4 DEF Finish
<1>6. /\ k \in CommandKeys /\ Payload(q) \in [kind : CommandKinds, arg : Args]
      /\ says \in CommandReplies /\ e.payload = Payload(q) /\ e.reply = says
  BY <1>1, <1>4, AskedIsPlanned DEF CommandTyped, CommandShape
<1>7. e # NoEntry
  BY <1>4, <1>6, CommandConstants
<1>8. Told(q, says) /\ Told(q, says)'
  <2>1. Told(q, says)
    BY <1>1, <1>4 DEF CommandInv, AnswerFits, CommandAnswered, Told
  <2>2. QED
    BY <1>2, <1>3, <2>1, ToldStays
<1>9. /\ DOMAIN store = CommandKeys /\ DOMAIN store' = CommandKeys /\ store'[k] = e
      /\ \A j \in CommandKeys \ {k} : store'[j] = store[j]
  BY <1>5, <1>6 DEF CommandInv, StoreFits
<1>10. StoreFits'
  <2>1. ASSUME NEW j \in CommandKeys, j # k, store[j] # NoEntry, NEW w, w = store[j].reply
        PROVE  \E r \in CommandRequests :
                   /\ asked'[r].key = j /\ store[j].payload = Payload(r)'
                   /\ w \in CommandReplies /\ Told(r, w)'
    <3>1. PICK r \in CommandRequests :
              /\ asked[r].key = j /\ store[j].payload = Payload(r)
              /\ w \in CommandReplies /\ Told(r, w)
      BY <2>1 DEF CommandInv, StoreFits
    <3>2. Told(r, w)' /\ Payload(r)' = Payload(r)
      BY <1>2, <1>3, <3>1, ToldStays DEF WorldGrows, Payload, Kind
    <3>3. QED
      BY <1>1, <3>1, <3>2
  <2>2. ASSUME NEW j \in CommandKeys, store'[j] # NoEntry, NEW w, w = store'[j].reply
        PROVE  \E r \in CommandRequests :
                   /\ asked'[r].key = j /\ store'[j].payload = Payload(r)'
                   /\ w \in CommandReplies /\ Told(r, w)'
    <3>1. CASE j = k
      BY <1>1, <1>2, <1>4, <1>6, <1>8, <1>9, <2>2, <3>1
    <3>2. CASE j # k
      BY <1>9, <2>1, <2>2, <3>2
    <3>3. QED
      BY <3>1, <3>2
  <2>3. QED
    BY <1>9, <2>2 DEF StoreFits, Told, RunTold
<1>11. /\ command' \in CommandShape /\ command'[q].at = "done" /\ command'[q].reply = says
       /\ command'[q].replayed = command[q].replayed
       /\ \A d \in CommandRequests \ {q} : command'[d] = command[d]
  <2>1. "done" \in CommandPlaces
    BY DEF CommandPlaces
  <2>2. QED
    BY <1>1, <1>4, <2>1, CommandGoes
<1>12. CommandTyped' /\ LocksFit'
  <2>1. CommandTyped'
    BY <1>1, <1>11 DEF CommandTyped
  <2>2. LocksFit'
    BY <1>1, <1>11, LocksStay DEF Locking
  <2>3. QED
    BY <2>1, <2>2
<1>13. PlaceFits(q)' /\ RunFits(q)' /\ KeptFits(q)'
  <2>1. PlaceFits(q)'
    BY <1>11 DEF PlaceFits
  <2>2. RunFits(q)'
    <3>1. RunFits(q)
      BY DEF CommandInv
    <3>2. command'[q].reply = command[q].reply
      BY <1>4, <1>11
    <3>3. QED
      BY <1>1, <1>2, <1>11, <3>1, <3>2 DEF RunFits
  <2>3. KeptFits(q)'
    BY <1>1, <1>4, <1>7, <1>9 DEF KeptFits
  <2>4. QED
    BY <2>1, <2>2, <2>3
<1>14. AnswerFits(q)'
  <2>1. AnswerFits(q)
    BY DEF CommandInv
  <2>2. CommandAnswered(q)' => CommandAnswered(q)
    BY <1>1, <1>4, <1>11 DEF CommandAnswered
  <2>3. CommandAnswered(q)' => Told(q, "ok")'
    BY <1>8, <1>11 DEF CommandAnswered
  <2>4. QED
    BY <1>1, <1>2, <1>11, <2>1, <2>2, <2>3 DEF AnswerFits
<1>15. \A j \in CommandKeys : store[j] # NoEntry => store'[j] # NoEntry
  BY <1>7, <1>9
<1>16. QED
  BY <1>1, <1>2, <1>3, <1>10, <1>11, <1>12, <1>13, <1>14, <1>15, CommandMoves

\* What a step must leave well-formed besides the commands
WorldTyped ==
    /\ target \in [current : CommandReads, enabled : {target.enabled}]
    /\ candidate \in [state : {"none", "pending"} \cup Decided, by : {candidate.by}]
    /\ DOMAIN rowLocks = {"source", "target"}
    /\ dispatched \subseteq CommandRequests

\* A handler that is on its way, and not with a run, moves no run.
LEMMA NoRunMoves ==
    ASSUME CommandInv, NEW q \in CommandRequests, collections' = collections,
           command[q].at \notin {"idle", "create", "dispatch", "marking", "finishing", "done"},
           \A d \in CommandRequests \ {q} : command'[d] = command[d]
    PROVE  RunsStay /\ Kind(q) # "run"
<1>1. RunsStay
  BY OneMoves DEF Ended
<1>2. command[q].at \in CommandPlaces /\ PlaceFits(q)
  BY DEF CommandInv, CommandTyped, CommandShape
<1>3. Kind(q) # "run"
  BY <1>2 DEF CommandPlaces, PlaceFits
<1>4. QED
  BY <1>1, <1>3

\* A handler goes on to its next await; it is not answered yet.
LEMMA CommandContinues ==
    ASSUME CommandInv, NEW q \in CommandRequests, WorldGrows,
           UNCHANGED <<store, collections, restarts>>,
           command[q].at \notin {"idle", "create", "dispatch", "marking", "finishing", "done"},
           command' \in CommandShape,
           command'[q].at \notin {"idle", "create", "dispatch", "marking", "finishing", "done"},
           \A d \in CommandRequests \ {q} : command'[d] = command[d],
           PlaceFits(q)', WorldTyped', LocksFit'
    PROVE  CommandInv'
<1>1. CommandTyped'
  BY DEF CommandInv, CommandTyped, WorldTyped, WorldGrows
<1>2. RunsStay /\ Kind(q) # "run"
  BY NoRunMoves
<1>3. StoreFits'
  BY <1>2, StoreStays
<1>4. AnswerFits(q)' /\ KeptFits(q)'
  BY DEF AnswerFits, CommandAnswered, KeptFits
<1>5. RunFits(q)'
  BY <1>2 DEF CommandInv, RunFits, WorldGrows, Kind
<1>6. QED
  BY <1>1, <1>2, <1>3, <1>4, <1>5, CommandMoves

\* A handler ends: with an answer that is true, or refused.
LEMMA CommandEndsWell ==
    ASSUME CommandInv, NEW q \in CommandRequests, WorldGrows, NEW says \in CommandReplies,
           UNCHANGED <<store, collections, restarts>>,
           command[q].at \notin {"idle", "create", "dispatch", "marking", "finishing", "done"},
           Replies(q, says) \/ (CommandRefused(q, says) /\ says # "ok"),
           says = "ok" => /\ Told(q, "ok")'
                          /\ Kind(q) = "review" => candidate'.by = asked[q].actor,
           WorldTyped', LocksFit'
    PROVE  CommandInv'
<1>1. CommandTyped /\ "finishing" \in CommandPlaces /\ "done" \in CommandPlaces
  BY DEF CommandInv, CommandPlaces
<1>2. /\ command' \in CommandShape /\ command'[q].reply = says
      /\ command'[q].at = "finishing" \/ (command'[q].at = "done" /\ says # "ok")
      /\ \A d \in CommandRequests \ {q} : command'[d] = command[d]
  <2>1. CASE Replies(q, says)
    <3>1. command' = [command EXCEPT ![q].at = "finishing", ![q].reply = says]
      BY <2>1 DEF Replies
    <3>2. /\ command' \in CommandShape /\ command'[q].at = "finishing" /\ command'[q].reply = says
          /\ \A d \in CommandRequests \ {q} : command'[d] = command[d]
      <4>1. CommandSays(q, "finishing", says)
        BY <3>1 DEF CommandSays
      <4>2. QED
        BY <1>1, <4>1, CommandReplied
    <3>3. QED
      BY <2>1, <3>2
  <2>2. CASE CommandRefused(q, says) /\ says # "ok"
    <3>1. command' = [command EXCEPT ![q].at = "done", ![q].reply = says]
      BY <2>2 DEF CommandRefused
    <3>2. /\ command' \in CommandShape /\ command'[q].at = "done" /\ command'[q].reply = says
          /\ \A d \in CommandRequests \ {q} : command'[d] = command[d]
      <4>1. CommandSays(q, "done", says)
        BY <3>1 DEF CommandSays
      <4>2. QED
        BY <1>1, <4>1, CommandReplied
    <3>3. QED
      BY <2>2, <3>2
  <2>3. QED
    BY <2>1, <2>2
<1>3. CommandTyped'
  BY <1>2 DEF CommandInv, CommandTyped, WorldTyped, WorldGrows
<1>4. RunsStay /\ Kind(q) # "run" /\ StoreFits'
  <2>1. RunsStay /\ Kind(q) # "run"
    BY <1>2, NoRunMoves
  <2>2. QED
    BY <2>1, StoreStays
<1>5. PlaceFits(q)' /\ KeptFits(q)'
  BY <1>2 DEF PlaceFits, KeptFits
<1>6. AnswerFits(q)'
  <2>1. asked' = asked /\ Kind(q)' = Kind(q)
    BY DEF WorldGrows, Kind
  <2>2. CommandAnswered(q)' => says = "ok"
    BY <1>2 DEF CommandAnswered
  <2>3. CommandAnswered(q)' => Told(q, "ok")'
    BY <2>2
  <2>4. CommandAnswered(q)' /\ Kind(q) = "review" => candidate'.by = asked[q].actor
    BY <2>2
  <2>5. QED
    BY <2>1, <2>3, <2>4 DEF AnswerFits
<1>7. RunFits(q)'
  BY <1>2, <1>4 DEF CommandInv, RunFits, WorldGrows, Kind
<1>8. QED
  BY <1>2, <1>3, <1>4, <1>5, <1>6, <1>7, CommandMoves

LEMMA WorldIsTyped == ASSUME CommandInv PROVE WorldTyped
BY DEF CommandInv, CommandTyped, WorldTyped

\* A row is taken by a transaction that goes on to lock or to write.
LEMMA LocksTaken ==
    ASSUME CommandInv, NEW q \in CommandRequests, NEW row \in {"source", "target"},
           Takes(q, row), command'[q].at \in Locking,
           \A d \in CommandRequests \ {q} : command'[d] = command[d]
    PROVE  LocksFit' /\ DOMAIN rowLocks' = {"source", "target"}
<1>1. /\ DOMAIN rowLocks = {"source", "target"}
      /\ rowLocks' = [rowLocks EXCEPT ![row] = q]
  BY DEF CommandInv, CommandTyped, Takes
<1>2. rowLocks'[row] = q /\ \A x \in {"source", "target"} \ {row} : rowLocks'[x] = rowLocks[x]
  BY <1>1
<1>3. QED
  BY <1>1, <1>2 DEF CommandInv, LocksFit

\* A transaction ends, and with it the locks that it holds.
LEMMA LocksDropped ==
    ASSUME CommandInv, NEW q \in CommandRequests, CommandEnds(q),
           \A d \in CommandRequests \ {q} : command'[d] = command[d]
    PROVE  LocksFit' /\ DOMAIN rowLocks' = {"source", "target"}
<1>1. /\ DOMAIN rowLocks = {"source", "target"} /\ DOMAIN rowLocks' = {"source", "target"}
      /\ \A x \in {"source", "target"} :
             rowLocks'[x] = IF rowLocks[x] = q THEN Nobody ELSE rowLocks[x]
  BY DEF CommandInv, CommandTyped, CommandEnds
<1>2. QED
  BY <1>1 DEF CommandInv, LocksFit

LEMMA OthersRest ==
    ASSUME CommandInv, NEW q \in CommandRequests, NEW says,
           Replies(q, says) \/ CommandRefused(q, says)
    PROVE  \A d \in CommandRequests \ {q} : command'[d] = command[d]
BY DEF Replies, CommandRefused, CommandInv, CommandTyped, CommandShape

RunStatuses == {"none", "pending", "failed"}

\* What a command's record becomes, when it goes on or when it is answered
LEMMA CommandSteps ==
    ASSUME CommandTyped, NEW q \in CommandRequests, NEW place \in CommandPlaces,
           NEW says \in CommandReplies,
           \/ CommandSays(q, place, says)
           \/ (command' = [command EXCEPT ![q].at = place] /\ says = command[q].reply)
    PROVE  /\ command' \in CommandShape
           /\ command'[q].at = place /\ command'[q].reply = says
           /\ \A d \in CommandRequests \ {q} : command'[d] = command[d]
BY CommandReplied, CommandGoes

\* A run's handler takes a step: the row is left as the handler's place says.
LEMMA RunMoves ==
    ASSUME CommandInv, NEW q \in CommandRequests,
           command[q].at \in {"create", "dispatch", "marking"},
           UNCHANGED <<runPorts, asked, store, target, registered, rowLocks, candidate, cohort,
                       restarts>>,
           dispatched \subseteq dispatched', dispatched' \subseteq dispatched \cup {q},
           collections' = collections \/ \E s \in RunStatuses : RunBecomes(q, s),
           NEW place \in {"dispatch", "marking", "finishing", "done"}, NEW says \in CommandReplies,
           \/ CommandSays(q, place, says)
           \/ (command' = [command EXCEPT ![q].at = place] /\ says = command[q].reply),
           place = "done" => says # "ok",
           place = "finishing" =>
               /\ "rows" \in runPorts => collections'[q] = "pending"
               /\ "queue" \in runPorts => q \in dispatched',
           says = "unavailable" => place = "done" /\ collections'[q] # "pending",
           place = "dispatch" /\ "rows" \in runPorts => collections'[q] = "pending",
           collections'[q] = "pending" =>
               /\ "rows" \in runPorts
               /\ \/ q \in dispatched' \/ "queue" \notin runPorts \/ place \in {"dispatch", "marking"}
                  \/ says \in {"lost", "error"} /\ place = "done"
    PROVE  CommandInv'
<1>1. CommandTyped /\ place \in CommandPlaces
  BY DEF CommandInv, CommandPlaces
<1>2. /\ command' \in CommandShape /\ command'[q].at = place /\ command'[q].reply = says
      /\ \A d \in CommandRequests \ {q} : command'[d] = command[d]
  BY <1>1, CommandSteps
<1>3. /\ collections' \in [CommandRequests -> RunStatuses]
      /\ \A d \in CommandRequests \ {q} : collections'[d] = collections[d]
  BY <1>1 DEF CommandTyped, RunBecomes, RunStatuses
<1>4. WorldGrows /\ Kind(q)' = Kind(q) /\ Payload(q)' = Payload(q)
  BY DEF WorldGrows, Kind, Payload
<1>5. RunsStay
  <2>1. ~Ended(q)
    BY DEF Ended
  <2>2. QED
    BY <1>2, <1>3, <2>1, OneMoves
<1>6. StoreFits'
  BY <1>4, <1>5, StoreStays
<1>7. CommandTyped'
  BY <1>1, <1>2, <1>3 DEF CommandTyped, RunStatuses
<1>8. LocksFit'
  <2>1. command[q].at \notin Locking
    BY DEF Locking
  <2>2. QED
    BY <1>2, <2>1, LocksStay
<1>9. Kind(q) = "run"
  BY DEF CommandInv, PlaceFits
<1>10. PlaceFits(q)' /\ KeptFits(q)'
  BY <1>2, <1>4, <1>9 DEF PlaceFits, KeptFits
<1>11. RunFits(q)'
  BY <1>2, <1>4 DEF RunFits
<1>12. AnswerFits(q)'
  <2>1. SUFFICES ASSUME CommandAnswered(q)' PROVE RunTold(q)'
    BY <1>4, <1>9 DEF AnswerFits, Told
  <2>2. place = "finishing" /\ Ended(q)'
    BY <1>2, <2>1 DEF CommandAnswered, Ended
  <2>3. QED
    BY <2>2 DEF RunTold
<1>13. \A d \in CommandRequests \ {q} :
           command'[d] = command[d] /\ collections'[d] = collections[d]
  BY <1>2, <1>3
<1>14. QED
  BY <1>4, <1>5, <1>6, <1>7, <1>8, <1>10, <1>11, <1>12, <1>13, CommandMoves

LEMMA CreateKeeps == ASSUME CommandInv, NEW q \in CommandRequests, CreateRun(q) PROVE CommandInv'
<1>1. /\ command[q].at = "create" /\ CommandTyped
      /\ UNCHANGED <<runPorts, asked, store, target, registered, rowLocks, candidate, cohort,
                     dispatched, restarts>>
  BY DEF CreateRun, runsUnmoved, CommandInv
<1>2. PICK was : was = command[q].reply
  OBVIOUS
<1>3. collections[q] # "pending" /\ was # "unavailable" /\ was \in CommandReplies
  BY <1>1, <1>2 DEF CommandInv, PlaceFits, RunFits, CommandTyped, CommandShape
<1>4. /\ RunBecomes(q, "pending") => collections'[q] = "pending"
      /\ collections' = collections \/ \E s \in RunStatuses : RunBecomes(q, s)
  BY <1>1 DEF CreateRun, CommandTyped, RunBecomes, RunStatuses
<1>5. {"invalid", "not_found", "error", "ok"} \subseteq CommandReplies
  BY DEF CommandReplies
<1>6. ASSUME NEW why \in {"invalid", "not_found", "error"}, CommandRefused(q, why),
             \/ collections' = collections
             \/ why = "error" /\ "rows" \in runPorts
      PROVE  CommandInv'
  <2>1. CommandSays(q, "done", why) /\ why \in CommandReplies
    BY <1>5, <1>6 DEF CommandSays, CommandRefused
  <2>2. QED
    BY <1>1, <1>3, <1>4, <1>6, <2>1, RunMoves
<1>7. ASSUME IF "rows" \in runPorts THEN RunBecomes(q, "pending") ELSE UNCHANGED collections,
             "queue" \in runPorts, CommandAt(q, "dispatch")
      PROVE  CommandInv'
  <2>1. command' = [command EXCEPT ![q].at = "dispatch"] /\ was = command[q].reply
    BY <1>2, <1>7 DEF CommandAt
  <2>2. IF "rows" \in runPorts THEN collections'[q] = "pending" ELSE collections'[q] # "pending"
    BY <1>3, <1>4, <1>7
  <2>3. QED
    BY <1>1, <1>3, <1>4, <2>1, <2>2, RunMoves
<1>8. ASSUME IF "rows" \in runPorts THEN RunBecomes(q, "pending") ELSE UNCHANGED collections,
             "queue" \notin runPorts, Replies(q, "ok")
      PROVE  CommandInv'
  <2>1. CommandSays(q, "finishing", "ok") /\ "ok" \in CommandReplies
    BY <1>5, <1>8 DEF CommandSays, Replies
  <2>2. IF "rows" \in runPorts THEN collections'[q] = "pending" ELSE collections'[q] # "pending"
    BY <1>3, <1>4, <1>8
  <2>3. QED
    BY <1>1, <1>4, <1>8, <2>1, <2>2, RunMoves
<1>9. QED
  BY <1>6, <1>7, <1>8 DEF CreateRun

\* A run that was dispatched is in the queue; one that could not be is marked
\* next, or has no row.
LEMMA DispatchKeeps == ASSUME CommandInv, NEW q \in CommandRequests, DispatchRun(q) PROVE CommandInv'
<1>1. /\ command[q].at = "dispatch" /\ CommandTyped
      /\ UNCHANGED <<runPorts, asked, store, target, registered, rowLocks, candidate, cohort,
                     collections, restarts>>
      /\ dispatched' \in {dispatched, dispatched \cup {q}}
  BY DEF DispatchRun, runsUnmoved, CommandInv
<1>2. PICK was : was = command[q].reply
  OBVIOUS
<1>3. /\ was # "unavailable" /\ was \in CommandReplies
      /\ IF "rows" \in runPorts THEN collections[q] = "pending" ELSE collections[q] # "pending"
  BY <1>1, <1>2 DEF CommandInv, PlaceFits, RunFits, CommandTyped, CommandShape
<1>4. {"ok", "unavailable"} \subseteq CommandReplies
  BY DEF CommandReplies
<1>5. CASE dispatched' = dispatched \cup {q} /\ Replies(q, "ok")
  <2>1. CommandSays(q, "finishing", "ok") /\ "ok" \in CommandReplies
    BY <1>4, <1>5 DEF CommandSays, Replies
  <2>2. QED
    BY <1>1, <1>3, <1>5, <2>1, RunMoves
<1>6. CASE "rows" \in runPorts /\ CommandAt(q, "marking")
  <2>1. command' = [command EXCEPT ![q].at = "marking"] /\ was = command[q].reply
    BY <1>2, <1>6 DEF CommandAt
  <2>2. QED
    BY <1>1, <1>3, <1>6, <2>1, RunMoves
<1>7. CASE "rows" \notin runPorts /\ CommandRefused(q, "unavailable")
  <2>1. CommandSays(q, "done", "unavailable") /\ "unavailable" \in CommandReplies
    BY <1>4, <1>7 DEF CommandSays, CommandRefused
  <2>2. QED
    BY <1>1, <1>3, <1>7, <2>1, RunMoves
<1>8. QED
  BY <1>5, <1>6, <1>7 DEF DispatchRun

\* The row is a failed one, or its caller is told of an error.
LEMMA MarkKeeps == ASSUME CommandInv, NEW q \in CommandRequests, MarkRunFailed(q) PROVE CommandInv'
<1>1. /\ command[q].at = "marking" /\ CommandTyped
      /\ UNCHANGED <<runPorts, asked, store, target, registered, rowLocks, candidate, cohort,
                     dispatched, restarts>>
  BY DEF MarkRunFailed, runsUnmoved, CommandInv
<1>2. PICK why \in {"unavailable", "error"} :
          /\ CommandRefused(q, why)
          /\ RunBecomes(q, "failed") \/ (collections' = collections /\ why = "error")
  BY DEF MarkRunFailed
<1>3. CommandSays(q, "done", why) /\ why \in CommandReplies
  BY <1>2 DEF CommandSays, CommandRefused, CommandReplies
<1>4. /\ RunBecomes(q, "failed") => collections'[q] = "failed"
      /\ collections' = collections \/ \E s \in RunStatuses : RunBecomes(q, s)
  BY <1>1, <1>2 DEF CommandTyped, RunBecomes, RunStatuses
<1>5. collections'[q] = "pending" => why = "error" /\ "rows" \in runPorts
  BY <1>1, <1>2, <1>4 DEF CommandInv, RunFits
<1>6. QED
  BY <1>1, <1>2, <1>3, <1>4, <1>5, RunMoves

\* A transaction that is refused or fails changes nothing and holds nothing.
LEMMA TransactionRefused ==
    ASSUME CommandInv, NEW q \in CommandRequests, NEW why \in CommandReplies \ {"ok"},
           command[q].at \notin {"idle", "create", "dispatch", "marking", "finishing", "done"},
           CommandEnds(q), CommandRefused(q, why),
           UNCHANGED <<runPorts, asked, store, target, registered, candidate, cohort, collections,
                       dispatched, restarts>>
    PROVE  CommandInv'
<1>1. WorldGrows
  BY DEF WorldGrows
<1>2. LocksFit' /\ DOMAIN rowLocks' = {"source", "target"}
  BY OthersRest, LocksDropped
<1>3. WorldTyped'
  BY <1>2, WorldIsTyped DEF WorldTyped
<1>4. QED
  BY <1>1, <1>2, <1>3, CommandEndsWell

LEMMA RegisterRefusedKeeps ==
    ASSUME CommandInv, NEW q \in CommandRequests, RegisterRefused(q) PROVE CommandInv'
<1>1. /\ command[q].at \in {"lockSource", "lockTarget"} /\ CommandEnds(q)
      /\ UNCHANGED <<runPorts, asked, store, target, registered, candidate, cohort, collections,
                     dispatched, restarts>>
  BY DEF RegisterRefused
<1>2. PICK why \in {"invalid", "unavailable", "not_found"} : CommandRefused(q, why)
  BY DEF RegisterRefused
<1>3. why \in CommandReplies \ {"ok"}
  BY DEF CommandReplies
<1>4. QED
  BY <1>1, <1>2, <1>3, TransactionRefused

LEMMA HandlerFailsKeeps ==
    ASSUME CommandInv, NEW q \in CommandRequests, HandlerFails(q) PROVE CommandInv'
<1>1. /\ command[q].at \notin {"idle", "create", "dispatch", "marking", "finishing", "done"}
      /\ CommandEnds(q) /\ CommandRefused(q, "error")
      /\ UNCHANGED <<runPorts, asked, store, target, registered, candidate, cohort, collections,
                     dispatched, restarts>>
  BY DEF HandlerFails
<1>2. "error" \in CommandReplies \ {"ok"}
  BY DEF CommandReplies
<1>3. QED
  BY <1>1, <1>2, TransactionRefused

LEMMA RegisterLocksKeep ==
    ASSUME CommandInv, NEW q \in CommandRequests, RegisterLocks(q) PROVE CommandInv'
<1>1. /\ command[q].at \in {"lockSource", "lockTarget"} /\ CommandTyped
      /\ UNCHANGED <<runPorts, asked, store, target, registered, candidate, cohort, collections,
                     dispatched, restarts>>
  BY DEF RegisterLocks, CommandInv
<1>2. PICK place \in {"lockTarget", "write"}, row \in {"source", "target"} :
          Takes(q, row) /\ command' = [command EXCEPT ![q].at = place]
  BY DEF RegisterLocks, CommandAt
<1>3. WorldGrows /\ Kind(q)' = Kind(q) /\ place \in CommandPlaces /\ place \in Locking
  BY <1>1, <1>2 DEF WorldGrows, Kind, CommandPlaces, Locking
<1>4. /\ command' \in CommandShape /\ command'[q].at = place
      /\ \A d \in CommandRequests \ {q} : command'[d] = command[d]
  BY <1>1, <1>2, <1>3, CommandGoes
<1>5. LocksFit' /\ DOMAIN rowLocks' = {"source", "target"}
  BY <1>2, <1>3, <1>4, LocksTaken
<1>6. PlaceFits(q)'
  BY <1>1, <1>2, <1>3, <1>4 DEF CommandInv, PlaceFits
<1>7. WorldTyped'
  BY <1>1, <1>5, WorldIsTyped DEF WorldTyped
<1>8. /\ command[q].at \notin {"idle", "create", "dispatch", "marking", "finishing", "done"}
      /\ command'[q].at \notin {"idle", "create", "dispatch", "marking", "finishing", "done"}
  BY <1>1, <1>2, <1>4
<1>9. QED
  BY <1>1, <1>3, <1>4, <1>5, <1>6, <1>7, <1>8, CommandContinues

LEMMA RegisterKeeps == ASSUME CommandInv, NEW q \in CommandRequests, RegisterTarget(q) PROVE CommandInv'
<1>1. /\ command[q].at = "write" /\ Kind(q) = "register" /\ CommandTyped /\ asked \in Plans
      /\ CommandEnds(q) /\ Replies(q, "ok") /\ registered' = registered \cup {asked[q].arg}
      /\ UNCHANGED <<runPorts, asked, store, candidate, cohort, collections, dispatched, restarts>>
  BY DEF RegisterTarget, CommandInv, CommandTyped
<1>2. PICK on : target' = [current |-> asked[q].arg, enabled |-> on]
  BY DEF RegisterTarget
<1>3. WorldGrows /\ Kind(q)' = Kind(q)
  BY <1>1 DEF WorldGrows, Kind
<1>4. LocksFit' /\ DOMAIN rowLocks' = {"source", "target"}
  BY <1>1, OthersRest, LocksDropped
<1>5. WorldTyped'
  <2>1. asked[q].arg \in CommandReads
    BY <1>1 DEF CommandReads, Args
  <2>2. target' \in [current : CommandReads, enabled : {target'.enabled}]
    BY <1>2, <2>1
  <2>3. QED
    BY <1>1, <1>4, <2>2, WorldIsTyped DEF WorldTyped
<1>6. Told(q, "ok")'
  BY <1>1, <1>3 DEF Told
<1>7. "ok" \in CommandReplies
  BY DEF CommandReplies
<1>8. /\ command[q].at \notin {"idle", "create", "dispatch", "marking", "finishing", "done"}
      /\ Kind(q) # "review"
  BY <1>1
<1>9. QED
  BY <1>1, <1>3, <1>4, <1>5, <1>6, <1>7, <1>8, CommandEndsWell

LEMMA ReadTargetKeeps ==
    ASSUME CommandInv, NEW q \in CommandRequests, ReadCommandTarget(q) PROVE CommandInv'
<1>1. /\ command[q].at = "read" /\ CommandTyped
      /\ command' = [command EXCEPT ![q].at = "lockBoth", ![q].read = target.current]
      /\ UNCHANGED <<runPorts, asked, store, target, registered, rowLocks, candidate, cohort, collections,
                     dispatched, restarts>>
  BY DEF ReadCommandTarget, worldVars, CommandInv
<1>2. WorldGrows /\ Kind(q)' = Kind(q)
  BY <1>1 DEF WorldGrows, Kind
<1>3. /\ command' \in CommandShape /\ command'[q].at = "lockBoth"
      /\ \A d \in CommandRequests \ {q} : command'[d] = command[d]
  <2>1. "lockBoth" \in CommandPlaces /\ target.current \in CommandReads
    BY <1>1 DEF CommandPlaces, CommandTyped
  <2>2. PICK t : t = target.current
    OBVIOUS
  <2>3. t \in CommandReads /\ command' = [command EXCEPT ![q].at = "lockBoth", ![q].read = t]
    BY <1>1, <2>1, <2>2
  <2>4. command \in CommandShape
    BY <1>1 DEF CommandTyped
  <2>5. command' \in CommandShape
    BY <2>1, <2>3, <2>4 DEF CommandShape
  <2>6. /\ command'[q].at = "lockBoth"
        /\ \A d \in CommandRequests \ {q} : command'[d] = command[d]
    BY <2>3, <2>4 DEF CommandShape
  <2>7. QED
    BY <2>5, <2>6
<1>4. PlaceFits(q)'
  BY <1>1, <1>2, <1>3 DEF CommandInv, PlaceFits
<1>5. LocksFit'
  BY <1>1, <1>3, LocksStay DEF Locking
<1>6. WorldTyped'
  BY <1>1, WorldIsTyped DEF WorldTyped
<1>7. QED
  BY <1>1, <1>2, <1>3, <1>4, <1>5, <1>6, CommandContinues

LEMMA LockTargetKeeps ==
    ASSUME CommandInv, NEW q \in CommandRequests, LockTarget(q) PROVE CommandInv'
<1>1. /\ command[q].at = "lockBoth" /\ CommandTyped
      /\ UNCHANGED <<runPorts, asked, store, target, registered, candidate, cohort, collections,
                     dispatched, restarts>>
  BY DEF LockTarget, CommandInv
<1>2. PICK row \in {"source", "target"} :
          /\ Takes(q, row)
          /\ command' = command \/ command' = [command EXCEPT ![q].at = "write"]
  BY DEF LockTarget, CommandAt
<1>3. WorldGrows /\ Kind(q)' = Kind(q) /\ "write" \in CommandPlaces
  BY <1>1 DEF WorldGrows, Kind, CommandPlaces
<1>4. /\ command' \in CommandShape /\ command'[q].at \in {"lockBoth", "write"}
      /\ \A d \in CommandRequests \ {q} : command'[d] = command[d]
  <2>1. CASE command' = command
    BY <1>1, <2>1 DEF CommandTyped
  <2>2. CASE command' = [command EXCEPT ![q].at = "write"]
    BY <1>1, <1>3, <2>2 DEF CommandTyped, CommandShape
  <2>3. QED
    BY <1>2, <2>1, <2>2
<1>5. LocksFit' /\ DOMAIN rowLocks' = {"source", "target"}
  BY <1>2, <1>4, LocksTaken DEF Locking
<1>6. PlaceFits(q)'
  BY <1>1, <1>3, <1>4 DEF CommandInv, PlaceFits
<1>7. WorldTyped'
  BY <1>1, <1>5, WorldIsTyped DEF WorldTyped
<1>8. /\ command[q].at \notin {"idle", "create", "dispatch", "marking", "finishing", "done"}
      /\ command'[q].at \notin {"idle", "create", "dispatch", "marking", "finishing", "done"}
  BY <1>1, <1>4
<1>9. QED
  BY <1>1, <1>3, <1>4, <1>5, <1>6, <1>7, <1>8, CommandContinues

LEMMA SetEnabledKeeps ==
    ASSUME CommandInv, NEW q \in CommandRequests, SetTargetEnabled(q) PROVE CommandInv'
<1>1. /\ command[q].at = "write" /\ Kind(q) \in {"enable", "disable"} /\ CommandTyped
      /\ CommandEnds(q)
      /\ UNCHANGED <<runPorts, asked, store, registered, candidate, cohort, collections, dispatched, restarts>>
  BY DEF SetTargetEnabled, CommandInv
<1>2. PICK says, on :
          /\ says \in {"ok", "blocked"}
          /\ target' = target \/ target' = [target EXCEPT !.enabled = on]
          /\ Replies(q, says) \/ (CommandRefused(q, says) /\ says # "ok")
  BY DEF SetTargetEnabled
<1>3. WorldGrows /\ Kind(q)' = Kind(q) /\ says \in CommandReplies
  BY <1>1, <1>2 DEF WorldGrows, Kind, CommandReplies
<1>4. LocksFit' /\ DOMAIN rowLocks' = {"source", "target"}
  BY <1>1, <1>2, OthersRest, LocksDropped
<1>5. WorldTyped'
  <2>1. target \in [current : CommandReads, enabled : {target.enabled}]
    BY <1>1 DEF CommandTyped
  <2>2. target' \in [current : CommandReads, enabled : {target'.enabled}]
    BY <1>2, <2>1
  <2>3. QED
    BY <1>1, <1>4, <2>2, WorldIsTyped DEF WorldTyped
<1>6. Told(q, "ok")'
  BY <1>1, <1>3 DEF Told
<1>7. /\ command[q].at \notin {"idle", "create", "dispatch", "marking", "finishing", "done"}
      /\ Kind(q) # "review"
  BY <1>1
<1>8. QED
  BY <1>1, <1>2, <1>3, <1>4, <1>5, <1>6, <1>7, CommandEndsWell

\* Who is rolled back holds a row, and so is under way.
LEMMA DeadlockKeeps ==
    ASSUME CommandInv, NEW q \in CommandRequests, BreakDeadlock(q) PROVE CommandInv'
<1>1. /\ CommandEnds(q) /\ CommandRefused(q, "deadlock") /\ CommandTyped
      /\ UNCHANGED <<runPorts, asked, store, target, registered, candidate, cohort, collections,
                     dispatched, restarts>>
  BY DEF BreakDeadlock, CommandInv
<1>2. command[q].at \notin {"idle", "create", "dispatch", "marking", "finishing", "done"}
  <2>1. PICK row \in DOMAIN rowLocks : rowLocks[row] = q
    BY DEF BreakDeadlock, Blocked, Holds
  <2>2. row \in {"source", "target"} /\ q # Nobody
    BY <1>1, <2>1, CommandConstants DEF CommandTyped
  <2>3. command[q].at \in Locking
    BY <2>1, <2>2 DEF CommandInv, LocksFit
  <2>4. QED
    BY <2>3 DEF Locking
<1>3. "deadlock" \in CommandReplies \ {"ok"}
  BY DEF CommandReplies
<1>4. QED
  BY <1>1, <1>2, <1>3, TransactionRefused

\* A review decides what was pending, or repeats what is decided.
LEMMA ReviewKeeps == ASSUME CommandInv, NEW q \in CommandRequests, ReviewCandidate(q) PROVE CommandInv'
<1>1. /\ command[q].at = "review" /\ CommandTyped /\ asked \in Plans
      /\ UNCHANGED <<runPorts, asked, store, target, registered, rowLocks, cohort, collections,
                     dispatched, restarts>>
  BY DEF ReviewCandidate, CommandInv, CommandTyped
<1>2. Kind(q) = "review" /\ Kind(q)' = Kind(q) /\ asked[q].arg \in Decided
  BY <1>1, AskedIsPlanned DEF CommandInv, PlaceFits, Kind
<1>3. PICK says \in {"not_found", "ok", "invalid_state"} :
          /\ Replies(q, says) \/ (CommandRefused(q, says) /\ says # "ok")
          /\ \/ candidate.state = "pending" /\ candidate' = Decision(q) /\ says = "ok"
             \/ candidate' = candidate /\ (says = "ok" => candidate = Decision(q))
  <2>1. CASE candidate.state = "none"
    BY <2>1 DEF ReviewCandidate
  <2>2. CASE candidate.state = "pending"
    BY <2>2 DEF ReviewCandidate
  <2>3. CASE candidate.state \notin {"none", "pending"}
    BY <2>3 DEF ReviewCandidate
  <2>4. QED
    BY <2>1, <2>2, <2>3
<1>4. says = "ok" => candidate' = Decision(q)
  BY <1>3
<1>5. Decision(q).state = asked[q].arg /\ Decision(q).by = asked[q].actor
  BY DEF Decision
<1>6. WorldGrows
  BY <1>1, <1>3 DEF WorldGrows, Decided
<1>7. LocksFit'
  BY <1>1, <1>3, OthersRest, LocksStay DEF Locking
<1>8. WorldTyped'
  <2>1. candidate' \in [state : {"none", "pending"} \cup Decided, by : {candidate'.by}]
    <3>1. CASE candidate' = candidate
      BY <1>1, <3>1 DEF CommandTyped
    <3>2. CASE candidate' = Decision(q)
      BY <1>2, <3>2 DEF Decision
    <3>3. QED
      BY <1>3, <3>1, <3>2
  <2>2. QED
    BY <1>1, <2>1, WorldIsTyped DEF WorldTyped
<1>9. says = "ok" => Told(q, "ok")' /\ candidate'.by = asked[q].actor
  <2>1. SUFFICES ASSUME says = "ok" PROVE Told(q, "ok")' /\ candidate'.by = asked[q].actor
    OBVIOUS
  <2>2. candidate'.state = asked[q].arg /\ candidate'.by = asked[q].actor
    BY <1>4, <1>5, <2>1
  <2>3. QED
    BY <1>1, <1>2, <2>2 DEF Told
<1>10. /\ says \in CommandReplies
       /\ command[q].at \notin {"idle", "create", "dispatch", "marking", "finishing", "done"}
  BY <1>1, <1>3 DEF CommandReplies
<1>11. QED
  BY <1>1, <1>3, <1>6, <1>7, <1>8, <1>9, <1>10, CommandEndsWell

LEMMA CohortKeeps == ASSUME CommandInv, NEW q \in CommandRequests, CreateCohort(q) PROVE CommandInv'
<1>1. /\ command[q].at = "cohort" /\ CommandTyped /\ asked \in Plans
      /\ UNCHANGED <<runPorts, asked, store, target, registered, rowLocks, candidate, collections,
                     dispatched, restarts>>
  BY DEF CreateCohort, CommandInv, CommandTyped
<1>2. Kind(q) = "cohort" /\ Kind(q)' = Kind(q)
  BY <1>1 DEF CommandInv, PlaceFits, Kind
<1>3. PICK says \in {"ok", "invalid_state"} :
          /\ Replies(q, says) \/ (CommandRefused(q, says) /\ says # "ok")
          /\ cohort' = cohort \/ cohort = Nothing
          /\ says = "ok" => cohort' = asked[q].arg
  BY DEF CreateCohort
<1>4. WorldGrows
  BY <1>1, <1>3 DEF WorldGrows
<1>5. LocksFit'
  BY <1>1, <1>3, OthersRest, LocksStay DEF Locking
<1>6. WorldTyped'
  BY <1>1, WorldIsTyped DEF WorldTyped
<1>7. says = "ok" => Told(q, "ok")'
  BY <1>1, <1>2, <1>3 DEF Told
<1>8. /\ command[q].at \notin {"idle", "create", "dispatch", "marking", "finishing", "done"}
       /\ says \in CommandReplies /\ Kind(q) # "review"
  BY <1>1, <1>2, <1>3 DEF CommandReplies
<1>9. QED
  BY <1>1, <1>3, <1>4, <1>5, <1>6, <1>7, <1>8, CommandEndsWell

\* A replay tells nothing that a later step could take back.
LEMMA AskReplayKeeps == ASSUME CommandInv, NEW q \in CommandRequests, AskReplay(q) PROVE CommandInv'
<1>1. /\ command[q].at = "replay" /\ CommandTyped
      /\ UNCHANGED <<runPorts, asked, store, target, registered, rowLocks, candidate, cohort, collections,
                     dispatched, restarts>>
  BY DEF AskReplay, worldVars, CommandInv
<1>2. WorldGrows /\ Kind(q)' = Kind(q)
  BY <1>1 DEF WorldGrows, Kind
<1>3. WorldTyped'
  BY <1>1, WorldIsTyped DEF WorldTyped
<1>4. CASE CommandAt(q, "replan")
  <2>1. "replan" \in CommandPlaces
    BY DEF CommandPlaces
  <2>2. /\ command' \in CommandShape /\ command'[q].at = "replan"
        /\ \A d \in CommandRequests \ {q} : command'[d] = command[d]
    BY <1>1, <1>4, <2>1, CommandGoes DEF CommandAt
  <2>3. PlaceFits(q)'
    BY <1>1, <1>2, <2>2 DEF CommandInv, PlaceFits
  <2>4. LocksFit'
    BY <1>1, <2>2, LocksStay DEF Locking
  <2>5. QED
    BY <1>1, <1>2, <1>3, <2>2, <2>3, <2>4, CommandContinues
<1>5. ASSUME NEW says \in {"not_found", "skipped_disabled"},
             Replies(q, says) \/ CommandRefused(q, says)
      PROVE  CommandInv'
  <2>1. says \in CommandReplies /\ says # "ok"
    BY <1>5 DEF CommandReplies
  <2>2. LocksFit'
    BY <1>1, <1>5, OthersRest, LocksStay DEF Locking
  <2>3. QED
    BY <1>1, <1>2, <1>3, <1>5, <2>1, <2>2, CommandEndsWell
<1>6. QED
  BY <1>4, <1>5 DEF AskReplay

LEMMA ReplanKeeps == ASSUME CommandInv, NEW q \in CommandRequests, Replan(q) PROVE CommandInv'
<1>1. /\ command[q].at = "replan" /\ CommandTyped
      /\ UNCHANGED <<runPorts, asked, store, target, registered, rowLocks, candidate, cohort, collections,
                     dispatched, restarts>>
  BY DEF Replan, CommandInv
<1>2. PICK says \in {"duplicate", "queued"} : Replies(q, says)
  BY DEF Replan
<1>3. WorldGrows
  BY <1>1 DEF WorldGrows
<1>4. LocksFit'
  BY <1>1, <1>2, OthersRest, LocksStay DEF Locking
<1>5. WorldTyped'
  BY <1>1, WorldIsTyped DEF WorldTyped
<1>6. says \in CommandReplies /\ says # "ok"
  BY <1>2 DEF CommandReplies
<1>7. QED
  BY <1>1, <1>2, <1>3, <1>4, <1>5, <1>6, CommandEndsWell

LEMMA RecordKeeps == ASSUME CommandInv, RecordCandidate PROVE CommandInv'
<1>1. /\ candidate.state = "none" /\ CommandTyped
      /\ candidate' = [candidate EXCEPT !.state = "pending"]
      /\ UNCHANGED <<runPorts, asked, command, store, target, registered, rowLocks, cohort, collections,
                     dispatched, restarts>>
  BY DEF RecordCandidate, CommandInv
<1>2. WorldGrows /\ RunsStay
  BY <1>1 DEF WorldGrows, Decided, RunsStay, Ended
<1>3. StoreFits'
  BY <1>1, <1>2, StoreStays
<1>4. CommandTyped'
  <2>1. candidate' \in [state : {"none", "pending"} \cup Decided, by : {candidate'.by}]
    BY <1>1 DEF CommandTyped
  <2>2. QED
    BY <1>1, <2>1 DEF CommandTyped
<1>5. LocksFit'
  BY <1>1 DEF CommandInv, LocksFit
<1>6. ASSUME NEW d \in CommandRequests
      PROVE  PlaceFits(d)' /\ AnswerFits(d)' /\ RunFits(d)' /\ KeptFits(d)'
  BY <1>1, <1>2, CommandRests
<1>7. QED
  BY <1>3, <1>4, <1>5, <1>6 DEF CommandInv

\* A restart empties the store and answers nobody; what was done stays done.
LEMMA RestartKeeps == ASSUME CommandInv, Restart PROVE CommandInv'
<1>1. /\ restarts' = restarts + 1 /\ store' = [k \in CommandKeys |-> NoEntry]
      /\ rowLocks' = [r \in DOMAIN rowLocks |-> Nobody] /\ CommandTyped
      /\ \A q \in CommandRequests :
             command'[q] = IF command[q].at \in {"idle", "done"} THEN command[q]
                           ELSE [command[q] EXCEPT !.at = "done", !.reply = "lost"]
      /\ UNCHANGED <<runPorts, asked, target, registered, candidate, cohort, collections, dispatched>>
  BY DEF Restart, CommandInv
<1>2. WorldGrows
  BY <1>1 DEF WorldGrows
<1>3. ASSUME NEW q \in CommandRequests
      PROVE  \/ command'[q] = command[q] /\ command[q].at \in {"idle", "done"}
             \/ command'[q].at = "done" /\ command'[q].reply = "lost"
  <2>1. command[q] \in [at : CommandPlaces, reply : CommandReplies, replayed : BOOLEAN, read : CommandReads]
    BY <1>1 DEF CommandTyped, CommandShape
  <2>2. CASE command[q].at \in {"idle", "done"}
    BY <1>1, <2>2
  <2>3. CASE command[q].at \notin {"idle", "done"}
    <3>1. command'[q] = [command[q] EXCEPT !.at = "done", !.reply = "lost"]
      BY <1>1, <2>3
    <3>2. QED
      BY <2>1, <3>1
  <2>4. QED
    BY <2>2, <2>3
<1>4. RunsStay
  BY <1>1, <1>3 DEF RunsStay, Ended
<1>5. command' \in CommandShape
  <2>1. "done" \in CommandPlaces /\ "lost" \in CommandReplies
    BY DEF CommandPlaces, CommandReplies
  <2>2. command' = [q \in CommandRequests |->
            IF command[q].at \in {"idle", "done"} THEN command[q]
            ELSE [command[q] EXCEPT !.at = "done", !.reply = "lost"]]
    BY DEF Restart
  <2>3. command \in CommandShape
    BY <1>1 DEF CommandTyped
  <2>4. QED
    BY <2>1, <2>2, <2>3 DEF CommandShape
<1>6. CommandTyped' /\ restarts' # 0
  <2>1. restarts \in Nat /\ restarts' = restarts + 1 /\ DOMAIN rowLocks = {"source", "target"}
    BY <1>1 DEF CommandTyped
  <2>2. restarts' \in Nat /\ restarts' # 0
    BY <2>1
  <2>3. rowLocks' = [r \in DOMAIN rowLocks |-> Nobody]
    BY <1>1
  <2>4. DOMAIN rowLocks' = {"source", "target"}
    BY <2>1, <2>3
  <2>5. QED
    BY <1>1, <1>5, <2>2, <2>4 DEF CommandTyped
<1>7. StoreFits' /\ LocksFit'
  BY <1>1 DEF CommandTyped, StoreFits, LocksFit
<1>8. ASSUME NEW q \in CommandRequests
      PROVE  PlaceFits(q)' /\ AnswerFits(q)' /\ RunFits(q)' /\ KeptFits(q)'
  <2>1. PlaceFits(q)' /\ KeptFits(q)'
    BY <1>3, <1>6 DEF PlaceFits, KeptFits, CommandInv
  <2>2. RunFits(q) /\ AnswerFits(q) /\ asked' = asked /\ Kind(q)' = Kind(q)
    BY <1>1 DEF CommandInv, Kind
  <2>3. RunFits(q)'
    BY <1>1, <1>3, <2>2 DEF RunFits
  <2>4. CommandAnswered(q)' => CommandAnswered(q) /\ command'[q] = command[q]
    BY <1>3 DEF CommandAnswered
  <2>5. CommandAnswered(q)' => Told(q, "ok")'
    BY <1>2, <1>4, <2>2, <2>4, ToldStays DEF AnswerFits
  <2>6. AnswerFits(q)'
    BY <1>1, <2>2, <2>4, <2>5 DEF AnswerFits
  <2>7. QED
    BY <2>1, <2>3, <2>6
<1>9. QED
  BY <1>6, <1>7, <1>8 DEF CommandInv

LEMMA CommandInvInit == CommandInit => CommandInv
<1> SUFFICES ASSUME CommandInit PROVE CommandInv
  OBVIOUS
<1>1. CommandTyped
  <2>1. "idle" \in CommandPlaces /\ "none" \in CommandReplies
    BY DEF CommandPlaces, CommandReplies
  <2>2. PICK first, no : first = (CHOOSE v \in Approved : TRUE) /\ target = [current |-> first, enabled |-> no]
    BY DEF CommandInit
  <2>3. target \in [current : CommandReads, enabled : {target.enabled}]
    BY <2>2 DEF CommandReads
  <2>4. command \in CommandShape
    BY <2>1 DEF CommandInit, CommandShape, CommandReads
  <2>5. candidate \in [state : {"none", "pending"} \cup Decided, by : {candidate.by}]
    BY DEF CommandInit
  <2>6. QED
    BY <2>3, <2>4, <2>5 DEF CommandInit, CommandTyped
<1>2. StoreFits /\ LocksFit
  BY DEF CommandInit, StoreFits, LocksFit
<1>3. ASSUME NEW q \in CommandRequests
      PROVE  PlaceFits(q) /\ AnswerFits(q) /\ RunFits(q) /\ KeptFits(q)
  BY DEF CommandInit, PlaceFits, AnswerFits, CommandAnswered, RunFits, KeptFits
<1>4. QED
  BY <1>1, <1>2, <1>3 DEF CommandInv

LEMMA CommandInvNext == CommandInv /\ [CommandNext]_commandVars => CommandInv'
<1> SUFFICES ASSUME CommandInv, [CommandNext]_commandVars PROVE CommandInv'
  OBVIOUS
<1>1. CASE UNCHANGED commandVars
  <2>1. WorldGrows /\ RunsStay
    BY <1>1 DEF commandVars, WorldGrows, RunsStay, Ended
  <2>2. StoreFits'
    BY <1>1, <2>1, StoreStays DEF commandVars
  <2>3. CommandTyped' /\ LocksFit'
    BY <1>1 DEF commandVars, CommandInv, CommandTyped, LocksFit
  <2>4. ASSUME NEW q \in CommandRequests
        PROVE  PlaceFits(q)' /\ AnswerFits(q)' /\ RunFits(q)' /\ KeptFits(q)'
    BY <1>1, <2>1, CommandRests DEF commandVars
  <2>5. QED
    BY <2>2, <2>3, <2>4 DEF CommandInv
<1>2. ASSUME NEW q \in CommandRequests, Handles(q) PROVE CommandInv'
  BY <1>2, CreateKeeps, DispatchKeeps, MarkKeeps, RegisterLocksKeep, RegisterKeeps,
     RegisterRefusedKeeps, ReadTargetKeeps, LockTargetKeeps, SetEnabledKeeps, DeadlockKeeps,
     ReviewKeeps, CohortKeeps, AskReplayKeeps, ReplanKeeps, HandlerFailsKeeps DEF Handles
<1>3. CASE CommandNext
  BY <1>2, <1>3, ArrivalKeeps, FinishKeeps, RecordKeeps, RestartKeeps DEF CommandNext
<1>4. QED
  BY <1>1, <1>3

(***************************************************************************)
(* What an operator was told stays so, whichever commands overlap on the   *)
(* key or on the rows, roll back or are lost with the process: decisions,  *)
(* members, configurations, and runs with their rows and their jobs, as    *)
(* far as the process has ports for them.  Where there is a queue, a row   *)
(* without a job is still in its handler, or its caller was told of an     *)
(* error or of nothing; an acknowledged command left its entry in the      *)
(* store, and no lock outlives its transaction.                            *)
(***************************************************************************)
THEOREM OperationsHappenOnce == CommandSpec => []OperationsOnce
<1>1. CommandInv => OperationsOnce
  <2> SUFFICES ASSUME CommandInv PROVE OperationsOnce
    OBVIOUS
  <2>0. /\ asked \in Plans /\ DOMAIN rowLocks = {"source", "target"}
        /\ \A q \in CommandRequests : RunFits(q) /\ KeptFits(q) /\ AnswerFits(q)
    BY DEF CommandInv, CommandTyped
  <2>1. AcknowledgedHolds
    <3>1. ASSUME NEW q \in CommandRequests, CommandAnswered(q)
          PROVE  CASE Kind(q) = "review" ->
                          /\ candidate.state = asked[q].arg
                          /\ command[q].replayed \/ candidate.by = asked[q].actor
                   [] Kind(q) = "cohort" -> cohort = asked[q].arg
                   [] Kind(q) = "register" -> asked[q].arg \in registered
                   [] Kind(q) = "run" -> RunIsUnderWay(q)
                   [] OTHER -> TRUE
      <4>1. Told(q, "ok") /\ (Kind(q) = "review" => command[q].replayed \/ candidate.by = asked[q].actor)
        BY <2>0, <3>1 DEF AnswerFits
      <4>2. /\ Kind(q) = "review" => candidate.state = asked[q].arg
            /\ Kind(q) = "cohort" => cohort = asked[q].arg
            /\ Kind(q) = "register" => asked[q].arg \in registered
            /\ Kind(q) = "run" => RunIsUnderWay(q)
        BY <4>1 DEF Told, RunTold, RunIsUnderWay
      <4>3. QED
        BY <4>1, <4>2, Zenon
    <3>2. QED
      BY <3>1, Zenon DEF AcknowledgedHolds
  <2>2. NoSilentRun
    BY <2>0 DEF RunFits, NoSilentRun
  <2>3. RepeatsAreExplained
    BY <2>0 DEF KeptFits, RepeatsAreExplained
  <2>4. LocksAreReleased
    <3>1. ASSUME NEW row \in DOMAIN rowLocks, rowLocks[row] # Nobody
          PROVE  command[rowLocks[row]].at \in {"lockTarget", "lockBoth", "write"}
      BY <2>0, <3>1 DEF CommandInv, LocksFit, Locking
    <3>2. ASSUME NEW q \in CommandRequests, command[q].at \in {"done", "finishing"}
          PROVE  Holds(q) = {}
      BY <3>1, <3>2, CommandConstants DEF Holds
    <3>3. QED
      BY <3>1, <3>2 DEF LocksAreReleased
  <2>5. QED
    BY <2>1, <2>2, <2>3, <2>4 DEF OperationsOnce
<1>2. QED
  BY <1>1, CommandInvInit, CommandInvNext, PTL DEF CommandSpec

(***************************************************************************)
(* The answer service.  What the assembly leaves of the hits: parts of a   *)
(* sequence, within the budget.                                            *)
(***************************************************************************)
\* The fold behind EntriesAt
KeptAt(kept, n, s, I) == IF n \in I THEN Append(kept, s[n]) ELSE kept
PlacesIn(s) == [n \in DOMAIN s |-> n]
EntriesFolds(g, s, I) ==
    g = [T \in SUBSET (DOMAIN PlacesIn(s)) |->
            IF T = {} THEN <<>> ELSE KeptAt(g[T \ {Max(T)}], PlacesIn(s)[Max(T)], s, I)]

LEMMA EntriesUnfold ==
    ASSUME NEW s, NEW I
    PROVE  EntriesAt(s, I) = (CHOOSE g : EntriesFolds(g, s, I))[DOMAIN PlacesIn(s)]
BY DEF EntriesAt, FoldLeft, MapThenFoldSet, EntriesFolds, KeptAt, PlacesIn

LEMMA EntriesThin ==
    ASSUME NEW S, NEW s \in Seq(S), NEW I
    PROVE  Thins(EntriesAt(s, I), s, Len(s), S, I)
<1>1. PICK n : n = Len(s)
  OBVIOUS
<1>2. /\ n \in Nat /\ DOMAIN s = 1 .. n /\ DOMAIN PlacesIn(s) = 1 .. n
      /\ \A i \in 1 .. n : PlacesIn(s)[i] = i /\ s[i] \in S
  BY <1>1 DEF PlacesIn
<1>3. PICK h : Takings(h, s, S, Seq(S) \X (I \cap (1 .. n)))
  BY GreedyExists
<1>4. EntriesFolds(h, s, I)
  <2>1. ASSUME NEW T \in SUBSET (1 .. n)
        PROVE  h[T] = IF T = {} THEN <<>> ELSE KeptAt(h[T \ {Max(T)}], PlacesIn(s)[Max(T)], s, I)
    <3>1. CASE T = {}
      BY <1>3, <3>1 DEF Takings
    <3>2. CASE T # {}
      BY <1>1, <1>2, <1>3, <3>2 DEF Takings, KeptAt
    <3>3. QED
      BY <3>1, <3>2
  <2>2. h = [T \in SUBSET (1 .. n) |-> h[T]]
    BY <1>1, <1>3 DEF Takings
  <2>3. QED
    BY <1>2, <2>1, <2>2 DEF EntriesFolds
<1>5. PICK g : g = CHOOSE f : EntriesFolds(f, s, I)
  OBVIOUS
<1>6. EntriesFolds(g, s, I) /\ EntriesAt(s, I) = g[1 .. n]
  BY <1>2, <1>4, <1>5, EntriesUnfold
<1>7. Greedy(g, s, n, I)
  <2>1. \A T \in SUBSET (1 .. n) :
            g[T] = IF T = {} THEN <<>> ELSE KeptAt(g[T \ {Max(T)}], PlacesIn(s)[Max(T)], s, I)
    BY <1>2, <1>6 DEF EntriesFolds
  <2>2. g[1 .. 0] = <<>>
    <3>1. 1 .. 0 = {} /\ {} \in SUBSET (1 .. n)
      BY LastOfPrefix
    <3>2. QED
      BY <2>1, <3>1
  <2>3. ASSUME NEW m \in 0 .. n - 1
        PROVE  \/ g[1 .. m + 1] = g[1 .. m]
               \/ m + 1 \in I /\ g[1 .. m + 1] = Append(g[1 .. m], s[m + 1])
    <3>1. /\ 1 .. m + 1 \in SUBSET (1 .. n) /\ 1 .. m + 1 # {} /\ m + 1 \in 1 .. n
          /\ Max(1 .. m + 1) = m + 1 /\ (1 .. m + 1) \ {m + 1} = 1 .. m
      BY <1>2, PrefixOf
    <3>2. g[1 .. m + 1] = KeptAt(g[1 .. m], m + 1, s, I)
      BY <1>2, <2>1, <3>1
    <3>3. QED
      BY <3>2 DEF KeptAt
  <2>4. QED
    BY <2>2, <2>3 DEF Greedy
<1>8. n \in 0 .. Len(s)
  BY <1>1, <1>2
<1>9. QED
  BY <1>1, <1>6, <1>7, <1>8, GreedyThins

LEMMA TokensAdd ==
    ASSUME NEW S, NEW t \in Seq(S), NEW e \in S, \A x \in S : Tokens(x) \in Nat
    PROVE  /\ TokensOf(t) \in Nat /\ TokensOf(Append(t, e)) = TokensOf(t) + Tokens(e)
<1>1. PICK l, u : l = Len(t) /\ u = Append(t, e)
  OBVIOUS
<1>2. /\ l \in Nat /\ u \in Seq(S) /\ DOMAIN t = 1 .. l /\ DOMAIN u = 1 .. l + 1
      /\ u[l + 1] = e /\ \A k \in 1 .. l : u[k] = t[k] /\ t[k] \in S
  BY <1>1
<1>3. PICK f, g : f = [k \in DOMAIN t |-> Tokens(t[k])] /\ g = [k \in DOMAIN u |-> Tokens(u[k])]
  OBVIOUS
<1>4. /\ \A k \in 1 .. l : f[k] \in Nat /\ g[k] = f[k]
      /\ g[l + 1] = Tokens(e) /\ Tokens(e) \in Nat
  BY <1>2, <1>3
<1>5. IsFiniteSet(1 .. l) /\ l + 1 \notin 1 .. l /\ 1 .. l + 1 = (1 .. l) \cup {l + 1}
  <2>1. 1 \in Int /\ l \in Int
    BY <1>2
  <2>2. IsFiniteSet(1 .. l)
    BY <2>1, FS_Interval
  <2>3. QED
    BY <1>2, <2>2
<1>6. TokensOf(t) = SumOver(f, 1 .. l) /\ TokensOf(u) = SumOver(g, 1 .. l + 1)
  BY <1>2, <1>3 DEF TokensOf, SumOver
<1>7. SumOver(g, 1 .. l) = SumOver(f, 1 .. l) /\ SumOver(f, 1 .. l) \in Nat
  BY <1>4, <1>5, SumSame, SumFacts
<1>8. \A k \in (1 .. l) \cup {l + 1} : g[k] \in Nat
  BY <1>4
<1>9. SumOver(g, (1 .. l) \cup {l + 1}) = g[l + 1] + SumOver(g, 1 .. l)
  BY <1>5, <1>8, SumAdds
<1>10. TokensOf(u) = Tokens(e) + TokensOf(t) /\ TokensOf(t) \in Nat
  BY <1>4, <1>5, <1>6, <1>7, <1>9
<1>11. QED
  BY <1>1, <1>4, <1>10

LEMMA NoTokens == TokensOf(<<>>) = 0
<1>1. DOMAIN <<>> = {}
  OBVIOUS
<1>2. PICK f : f = [k \in DOMAIN <<>> |-> Tokens(<<>>[k])]
  OBVIOUS
<1>3. IsFiniteSet({}) /\ \A x \in {} : f[x] \in Nat
  BY FS_EmptySet
<1>4. SumOver(f, {}) = 0
  BY <1>3, SumFacts
<1>5. QED
  BY <1>1, <1>2, <1>4 DEF TokensOf, SumOver

\* The fold behind WithinBudget
KeptIn(kept, e) == IF TokensOf(kept) + Tokens(e) > MaxContext THEN kept ELSE Append(kept, e)
BudgetFolds(g, s) ==
    g = [T \in SUBSET (DOMAIN s) |->
            IF T = {} THEN <<>> ELSE KeptIn(g[T \ {Max(T)}], s[Max(T)])]

LEMMA BudgetUnfolds ==
    ASSUME NEW s
    PROVE  WithinBudget(s) = (CHOOSE g : BudgetFolds(g, s))[DOMAIN s]
BY DEF WithinBudget, FoldLeft, MapThenFoldSet, BudgetFolds, KeptIn

LEMMA BudgetThins ==
    ASSUME NEW S, NEW s \in Seq(S), \A x \in S : Tokens(x) \in Nat
    PROVE  /\ Thins(WithinBudget(s), s, Len(s), S, Nat)
           /\ TokensOf(WithinBudget(s)) <= MaxContext
<1>1. PICK n : n = Len(s)
  OBVIOUS
<1>2. n \in Nat /\ DOMAIN s = 1 .. n /\ \A i \in 1 .. n : s[i] \in S
  BY <1>1
<1> DEFINE Taking == {p \in Seq(S) \X (1 .. n) : ~(TokensOf(p[1]) + Tokens(s[p[2]]) > MaxContext)}
<1>3. \A a \in Seq(S) : \A i \in 1 .. n : <<a, i>> \in Taking <=> ~(TokensOf(a) + Tokens(s[i]) > MaxContext)
  OBVIOUS
<1>4. PICK h : Takings(h, s, S, Taking)
  <2> HIDE DEF Taking
  <2>1. QED
    BY GreedyExists
<1> HIDE DEF Taking
<1>5. BudgetFolds(h, s)
  <2>1. ASSUME NEW T \in SUBSET (1 .. n)
        PROVE  h[T] = IF T = {} THEN <<>> ELSE KeptIn(h[T \ {Max(T)}], s[Max(T)])
    <3>1. CASE T = {}
      BY <1>4, <3>1 DEF Takings
    <3>2. CASE T # {}
      BY <1>1, <1>2, <1>3, <1>4, <3>2 DEF Takings, KeptIn
    <3>3. QED
      BY <3>1, <3>2
  <2>2. h = [T \in SUBSET (1 .. n) |-> h[T]]
    BY <1>1, <1>4 DEF Takings
  <2>3. QED
    BY <1>2, <2>1, <2>2 DEF BudgetFolds
<1>6. PICK g : g = CHOOSE f : BudgetFolds(f, s)
  OBVIOUS
<1>7. BudgetFolds(g, s) /\ WithinBudget(s) = g[1 .. n]
  BY <1>2, <1>5, <1>6, BudgetUnfolds
<1>8. \A T \in SUBSET (1 .. n) :
            g[T] = IF T = {} THEN <<>> ELSE KeptIn(g[T \ {Max(T)}], s[Max(T)])
  BY <1>2, <1>7 DEF BudgetFolds
<1>9. g[1 .. 0] = <<>>
  <2>1. 1 .. 0 = {} /\ {} \in SUBSET (1 .. n)
    BY LastOfPrefix
  <2>2. QED
    BY <1>8, <2>1
<1>10. ASSUME NEW m \in 0 .. n - 1 PROVE g[1 .. m + 1] = KeptIn(g[1 .. m], s[m + 1])
  <2>1. /\ 1 .. m + 1 \in SUBSET (1 .. n) /\ 1 .. m + 1 # {}
        /\ Max(1 .. m + 1) = m + 1 /\ (1 .. m + 1) \ {m + 1} = 1 .. m
    BY <1>2, PrefixOf
  <2>2. QED
    BY <1>8, <2>1
<1>11. Greedy(g, s, n, Nat)
  <2>1. \A m \in 0 .. n - 1 : m + 1 \in Nat
    BY <1>2
  <2>2. QED
    BY <1>9, <1>10, <2>1 DEF Greedy, KeptIn
<1>12. \A m \in 0 .. n : Thins(g[1 .. m], s, m, S, Nat)
  BY <1>1, <1>11, GreedyThins
<1> DEFINE Good == {m \in Nat : m <= n => TokensOf(g[1 .. m]) <= MaxContext}
<1>13. 0 \in Good
  BY <1>9, NoTokens, AnswerConstants
<1>14. ASSUME NEW m \in Good PROVE m + 1 \in Good
  <2>1. SUFFICES ASSUME m + 1 <= n PROVE TokensOf(g[1 .. m + 1]) <= MaxContext
    OBVIOUS
  <2>2. m \in 0 .. n - 1 /\ m \in 0 .. n /\ m + 1 \in 1 .. n /\ TokensOf(g[1 .. m]) <= MaxContext
    BY <1>2, <2>1
  <2>3. PICK a, e : a = g[1 .. m] /\ e = s[m + 1]
    OBVIOUS
  <2>4. a \in Seq(S) /\ e \in S
    BY <1>2, <1>12, <2>2, <2>3 DEF Thins
  <2>5. /\ TokensOf(a) \in Nat /\ TokensOf(Append(a, e)) = TokensOf(a) + Tokens(e)
        /\ Tokens(e) \in Nat
    BY <2>4, TokensAdd
  <2>6. g[1 .. m + 1] = KeptIn(a, e)
    BY <1>10, <2>2, <2>3
  <2>7. QED
    BY <2>2, <2>3, <2>5, <2>6, AnswerConstants DEF KeptIn
<1>15. Good = Nat
  <2> HIDE DEF Good
  <2>1. Good \in SUBSET Nat
    BY DEF Good
  <2>2. QED
    BY <1>13, <1>14, <2>1, NatSetInduction
<1>16. n \in 0 .. n
  BY <1>2
<1>17. TokensOf(g[1 .. n]) <= MaxContext
  BY <1>2, <1>15
<1>18. QED
  BY <1>1, <1>7, <1>12, <1>16, <1>17

(***************************************************************************)
(* The items of evidence.                                                  *)
(***************************************************************************)
LEMMA RunsApart ==
    ASSUME NEW all \in SUBSET Hits, NEW g \in all, NEW h \in all, NEW k,
           k \in RunOf(g, all), k \in RunOf(h, all)
    PROVE  h \in RunOf(g, all)
<1>1. PICK a, b, c : a = HitOf[g].ordinal /\ b = HitOf[h].ordinal /\ c = HitOf[k].ordinal
  OBVIOUS
<1>2. k \in all /\ SameSection(g, k) /\ SameSection(h, k)
  BY DEF RunOf
<1>3. a \in Nat /\ b \in Nat /\ c \in Nat
  BY <1>1, <1>2, AnswerConstants
<1>4. /\ \A n \in a .. c \cup c .. a : \E j \in all : SameSection(g, j) /\ HitOf[j].ordinal = n
      /\ \A n \in b .. c \cup c .. b : \E j \in all : SameSection(h, j) /\ HitOf[j].ordinal = n
  BY <1>1 DEF RunOf
<1>5. SameSection(g, h) /\ \A j \in all : SameSection(h, j) => SameSection(g, j)
  BY <1>2 DEF SameSection
<1>6. ASSUME NEW n \in a .. b \cup b .. a
      PROVE  \E j \in all : SameSection(g, j) /\ HitOf[j].ordinal = n
  <2>1. n \in a .. c \cup c .. a \/ n \in b .. c \cup c .. b
    BY <1>3
  <2>2. QED
    BY <1>4, <1>5, <2>1
<1>7. QED
  BY <1>1, <1>5, <1>6 DEF RunOf

LEMMA RunHasHit ==
    ASSUME NEW all \in SUBSET Hits, NEW h \in all
    PROVE  /\ h \in RunOf(h, all) /\ RunOf(h, all) \subseteq all
           /\ \A k \in RunOf(h, all) : HitOf[k].revision = HitOf[h].revision
<1>1. PICK a : a = HitOf[h].ordinal
  OBVIOUS
<1>2. a \in Nat
  BY <1>1, AnswerConstants
<1>3. SameSection(h, h)
  BY DEF SameSection
<1>4. \A n \in a .. a \cup a .. a : n = a
  BY <1>2
<1>5. \A n \in a .. a \cup a .. a : \E j \in all : SameSection(h, j) /\ HitOf[j].ordinal = n
  BY <1>1, <1>3, <1>4
<1>6. QED
  BY <1>1, <1>3, <1>5 DEF RunOf, SameSection

\* An item is not empty and of one revision; no hit is in two of them.
ItemFits(e, found) ==
    /\ e # {} /\ e \subseteq found /\ e \subseteq Hits
    /\ \A h, k \in e : HitOf[h].revision = HitOf[k].revision
ItemsFit(parts, found) ==
    /\ parts \in Seq(SUBSET Hits)
    /\ \A n \in DOMAIN parts : ItemFits(parts[n], found)
    /\ \A m, n \in DOMAIN parts : m # n => parts[m] \cap parts[n] = {}
Apart(parts) == \A m, n \in DOMAIN parts : m # n => ~SameUpstream(parts[m], parts[n])

LEMMA MergedFits ==
    ASSUME NEW s \in Seq(Hits)
    PROVE  ItemsFit(Merged(s), ToSet(s))
<1>1. PICK I : I = {n \in DOMAIN s : \A m \in 1 .. n - 1 : s[m] \notin RunOf(s[n], ToSet(s))}
  OBVIOUS
<1>2. PICK t, all : t = EntriesAt(s, I) /\ all = ToSet(s)
  OBVIOUS
<1>3. Merged(s) = [n \in DOMAIN t |-> RunOf(t[n], all)]
  BY <1>1, <1>2 DEF Merged
<1>4. Thins(t, s, Len(s), Hits, I) /\ Len(s) \in Nat /\ DOMAIN s = 1 .. Len(s)
  BY <1>2, EntriesThin
<1>5. /\ t \in Seq(Hits) /\ DOMAIN t = 1 .. Len(t) /\ Len(t) \in Nat
      /\ \A k \in DOMAIN t : \E x \in I \cap (1 .. Len(s)) : t[k] = s[x]
      /\ \A j, k \in DOMAIN t : j < k =>
            \E x, y \in I \cap (1 .. Len(s)) : x < y /\ t[j] = s[x] /\ t[k] = s[y]
  BY <1>4, ThinsKeep
<1>6. all \in SUBSET Hits /\ \A x \in 1 .. Len(s) : s[x] \in all
  BY <1>2, <1>4 DEF ToSet
<1>7. \A n \in DOMAIN t : t[n] \in all
  BY <1>5, <1>6
<1>8. PICK u : u = [n \in DOMAIN t |-> RunOf(t[n], all)]
  OBVIOUS
<1>9. \A n \in DOMAIN t : ItemFits(RunOf(t[n], all), all)
  <2>1. ASSUME NEW n \in DOMAIN t PROVE ItemFits(RunOf(t[n], all), all)
    <3>1. /\ t[n] \in RunOf(t[n], all) /\ RunOf(t[n], all) \subseteq all
          /\ \A k \in RunOf(t[n], all) : HitOf[k].revision = HitOf[t[n]].revision
      BY <1>6, <1>7, <2>1, RunHasHit
    <3>2. QED
      BY <1>6, <3>1 DEF ItemFits
  <2>2. QED
    BY <2>1
<1>10. u \in Seq(SUBSET Hits) /\ DOMAIN u = DOMAIN t
  <2>1. \A n \in DOMAIN t : RunOf(t[n], all) \in SUBSET Hits
    BY <1>9 DEF ItemFits
  <2>2. u \in [1 .. Len(t) -> SUBSET Hits]
    BY <1>5, <1>8, <2>1
  <2>3. QED
    BY <1>5, <1>8, <2>2
<1>11. ASSUME NEW j \in DOMAIN t, NEW k \in DOMAIN t, j < k
       PROVE  u[j] \cap u[k] = {}
  <2>1. PICK x, y \in I \cap (1 .. Len(s)) : x < y /\ t[j] = s[x] /\ t[k] = s[y]
    BY <1>5, <1>11
  <2>2. s[x] \notin RunOf(s[y], all)
    <3>1. x \in 1 .. y - 1
      BY <1>4, <2>1
    <3>2. QED
      BY <1>1, <1>2, <2>1, <3>1
  <2>3. \A n : ~(n \in RunOf(s[y], all) /\ n \in RunOf(s[x], all))
    BY <1>6, <2>1, <2>2, RunsApart
  <2>4. u[j] = RunOf(s[x], all) /\ u[k] = RunOf(s[y], all)
    BY <1>8, <2>1
  <2>5. QED
    BY <2>3, <2>4
<1>12. ASSUME NEW j \in DOMAIN t, NEW k \in DOMAIN t, j # k PROVE u[j] \cap u[k] = {}
  <2>1. j < k \/ k < j
    BY <1>5, <1>12
  <2>2. QED
    BY <1>11, <2>1
<1>13. QED
  BY <1>2, <1>3, <1>8, <1>9, <1>10, <1>12 DEF ItemsFit

\* Items of t are items of s, at places in I.
Leaves(t, s, I) == \A k \in DOMAIN t : \E x \in I \cap DOMAIN s : t[k] = s[x]

LEMMA ThinnerFits ==
    ASSUME NEW found, NEW s, ItemsFit(s, found), NEW I, NEW t, Thins(t, s, Len(s), SUBSET Hits, I)
    PROVE  ItemsFit(t, found) /\ (Apart(s) => Apart(t)) /\ Leaves(t, s, I)
<1>1. s \in Seq(SUBSET Hits) /\ Len(s) \in Nat /\ DOMAIN s = 1 .. Len(s)
  BY DEF ItemsFit
<1>2. /\ t \in Seq(SUBSET Hits) /\ DOMAIN t = 1 .. Len(t) /\ Len(t) \in Nat
      /\ \A k \in DOMAIN t : \E x \in I \cap DOMAIN s : t[k] = s[x]
      /\ \A j, k \in DOMAIN t : j < k =>
            \E x, y \in I \cap DOMAIN s : x < y /\ t[j] = s[x] /\ t[k] = s[y]
  BY <1>1, ThinsKeep
<1>3. ASSUME NEW j \in DOMAIN t, NEW k \in DOMAIN t, j # k
      PROVE  \E x, y \in DOMAIN s : x # y /\ t[j] = s[x] /\ t[k] = s[y]
  <2>1. CASE j < k
    <3>1. PICK x, y \in I \cap DOMAIN s : x < y /\ t[j] = s[x] /\ t[k] = s[y]
      BY <1>2, <2>1
    <3>2. x # y
      BY <1>1, <3>1
    <3>3. QED
      BY <3>1, <3>2
  <2>2. CASE k < j
    <3>1. PICK x, y \in I \cap DOMAIN s : x < y /\ t[k] = s[x] /\ t[j] = s[y]
      BY <1>2, <2>2
    <3>2. x # y
      BY <1>1, <3>1
    <3>3. QED
      BY <3>1, <3>2
  <2>3. j < k \/ k < j
    BY <1>2, <1>3
  <2>4. QED
    BY <2>1, <2>2, <2>3
<1>4. \A n \in DOMAIN t : ItemFits(t[n], found)
  BY <1>2 DEF ItemsFit
<1>5. \A j, k \in DOMAIN t : j # k => t[j] \cap t[k] = {}
  BY <1>3 DEF ItemsFit
<1>6. Apart(s) => Apart(t)
  BY <1>3 DEF Apart
<1>7. QED
  BY <1>2, <1>4, <1>5, <1>6 DEF ItemsFit, Leaves

LEMMA UpstreamIsMutual ==
    ASSUME NEW d, NEW e PROVE SameUpstream(d, e) => SameUpstream(e, d)
BY DEF SameUpstream

LEMMA IndependentFits ==
    ASSUME NEW found, NEW s, ItemsFit(s, found)
    PROVE  /\ ItemsFit(Independent(s), found) /\ Apart(Independent(s))
           /\ Leaves(Independent(s), s, Nat)
<1>1. PICK I : I = {n \in DOMAIN s : \A m \in 1 .. n - 1 : ~SameUpstream(s[m], s[n])}
  OBVIOUS
<1>2. PICK t : t = EntriesAt(s, I)
  OBVIOUS
<1>3. Independent(s) = t
  BY <1>1, <1>2 DEF Independent
<1>4. s \in Seq(SUBSET Hits) /\ Len(s) \in Nat /\ DOMAIN s = 1 .. Len(s)
  BY DEF ItemsFit
<1>5. Thins(t, s, Len(s), SUBSET Hits, I)
  BY <1>2, <1>4, EntriesThin
<1>6. ItemsFit(t, found) /\ Leaves(t, s, I)
  BY <1>5, ThinnerFits
<1>7. /\ DOMAIN t = 1 .. Len(t) /\ Len(t) \in Nat
      /\ \A j, k \in DOMAIN t : j < k =>
            \E x, y \in I \cap (1 .. Len(s)) : x < y /\ t[j] = s[x] /\ t[k] = s[y]
  BY <1>4, <1>5, ThinsKeep
<1>8. ASSUME NEW j \in DOMAIN t, NEW k \in DOMAIN t, j < k PROVE ~SameUpstream(t[j], t[k])
  <2>1. PICK x, y \in I \cap (1 .. Len(s)) : x < y /\ t[j] = s[x] /\ t[k] = s[y]
    BY <1>7, <1>8
  <2>2. x \in 1 .. y - 1
    BY <1>4, <2>1
  <2>3. ~SameUpstream(s[x], s[y])
    BY <1>1, <2>1, <2>2
  <2>4. QED
    BY <2>1, <2>3
<1>9. ASSUME NEW j \in DOMAIN t, NEW k \in DOMAIN t, j # k PROVE ~SameUpstream(t[j], t[k])
  <2>1. j < k \/ k < j
    BY <1>7, <1>9
  <2>2. QED
    BY <1>8, <2>1, UpstreamIsMutual
<1>10. QED
  <2>1. Leaves(t, s, Nat)
    BY <1>4, <1>6 DEF Leaves
  <2>2. QED
    BY <1>3, <1>6, <1>9, <2>1 DEF Apart

LEMMA ScopedFits ==
    ASSUME NEW found, NEW s, ItemsFit(s, found), NEW I
    PROVE  ItemsFit(EntriesAt(s, I), found) /\ Leaves(EntriesAt(s, I), s, I)
<1>1. PICK t : t = EntriesAt(s, I)
  OBVIOUS
<1>2. s \in Seq(SUBSET Hits)
  BY DEF ItemsFit
<1>3. Thins(t, s, Len(s), SUBSET Hits, I)
  BY <1>1, <1>2, EntriesThin
<1>4. QED
  BY <1>1, <1>3, ThinnerFits

LEMMA LatestFits ==
    ASSUME NEW found, NEW s, ItemsFit(s, found)
    PROVE  ItemsFit(Latest(s), found) /\ Leaves(Latest(s), s, Nat)
<1>1. PICK dates : dates = {DateOf(e) : e \in ToSet(s)} \ {Undated}
  OBVIOUS
<1>2. PICK revisions : revisions = Documents({e \in ToSet(s) : DateOf(e) = Max(dates)})
  OBVIOUS
<1>3. PICK I : I = {n \in DOMAIN s : HitOf[Some(s[n])].revision \in revisions}
  OBVIOUS
<1>4. Latest(s) = s \/ Latest(s) = EntriesAt(s, I)
  BY <1>1, <1>2, <1>3 DEF Latest
<1>0. DOMAIN s \subseteq Nat
  BY DEF ItemsFit
<1>5. CASE Latest(s) = s
  BY <1>0, <1>5 DEF Leaves
<1>6. CASE Latest(s) = EntriesAt(s, I)
  <2>1. ItemsFit(EntriesAt(s, I), found) /\ Leaves(EntriesAt(s, I), s, I)
    BY ScopedFits
  <2>2. Leaves(EntriesAt(s, I), s, Nat)
    BY <1>0, <2>1 DEF Leaves
  <2>3. QED
    BY <1>6, <2>1, <2>2
<1>7. QED
  BY <1>4, <1>5, <1>6

LEMMA TokensAreNat == \A e \in SUBSET Hits : Tokens(e) \in Nat
<1>1. ASSUME NEW e \in SUBSET Hits PROVE Tokens(e) \in Nat
  <2>1. PICK f : f = [h \in e |-> HitOf[h].tokens]
    OBVIOUS
  <2>2. \A h \in e : f[h] \in Nat
    BY <2>1, AnswerConstants
  <2>3. IsFiniteSet(e)
    BY AnswerConstants, FS_Subset
  <2>4. SumOver(f, e) \in Nat
    BY <2>2, <2>3, SumFacts
  <2>5. QED
    BY <2>1, <2>4 DEF Tokens, SumOver
<1>2. QED
  BY <1>1

\* What the assembly shows is found, in the repository that was asked for,
\* apart and within the budget.
Shown(parts, found) ==
    /\ ItemsFit(parts, found) /\ Apart(parts)
    /\ TokensOf(parts) <= MaxContext
    /\ question.target => \A n \in DOMAIN parts : OfRepository(parts[n])

LEMMA AssembledFits ==
    ASSUME NEW s \in Seq(Hits)
    PROVE  Shown(Assembled(s), ToSet(s))
<1>1. PICK found, merged : found = ToSet(s) /\ merged = Merged(s)
  OBVIOUS
<1>2. PICK I : I = {n \in DOMAIN merged : OfRepository(merged[n])}
  OBVIOUS
<1>3. PICK scoped : scoped = IF question.target THEN EntriesAt(merged, I) ELSE merged
  OBVIOUS
<1>4. PICK timely : timely = IF question.latest THEN Latest(scoped) ELSE scoped
  OBVIOUS
<1>5. PICK apart : apart = Independent(timely)
  OBVIOUS
<1>6. Assembled(s) = WithinBudget(apart)
  BY <1>1, <1>2, <1>3, <1>4, <1>5 DEF Assembled
<1>7. ItemsFit(merged, found)
  BY <1>1, MergedFits
<1>8. /\ ItemsFit(scoped, found)
      /\ question.target => \A n \in DOMAIN scoped : OfRepository(scoped[n])
  <2>1. CASE question.target
    <3>1. scoped = EntriesAt(merged, I)
      BY <1>3, <2>1
    <3>2. ItemsFit(scoped, found) /\ Leaves(scoped, merged, I)
      BY <1>7, <3>1, ScopedFits
    <3>3. QED
      BY <1>2, <3>2 DEF Leaves
  <2>2. CASE ~question.target
    BY <1>3, <1>7, <2>2
  <2>3. QED
    BY <2>1, <2>2
<1>9. ItemsFit(timely, found) /\ Leaves(timely, scoped, Nat)
  <2>1. CASE question.latest
    BY <1>4, <1>8, <2>1, LatestFits
  <2>2. CASE ~question.latest
    <3>1. DOMAIN scoped \subseteq Nat /\ timely = scoped
      BY <1>4, <1>8, <2>2 DEF ItemsFit
    <3>2. QED
      BY <1>8, <3>1 DEF Leaves
  <2>3. QED
    BY <2>1, <2>2
<1>10. ItemsFit(apart, found) /\ Apart(apart) /\ Leaves(apart, timely, Nat)
  BY <1>5, <1>9, IndependentFits
<1>11. PICK t : t = WithinBudget(apart)
  OBVIOUS
<1>12. /\ Thins(t, apart, Len(apart), SUBSET Hits, Nat) /\ TokensOf(t) <= MaxContext
  <2>1. apart \in Seq(SUBSET Hits)
    BY <1>10 DEF ItemsFit
  <2>2. QED
    BY <1>11, <2>1, TokensAreNat, BudgetThins
<1>13. ItemsFit(t, found) /\ Apart(t) /\ Leaves(t, apart, Nat)
  BY <1>10, <1>12, ThinnerFits
<1>14. question.target => \A n \in DOMAIN t : OfRepository(t[n])
  <2>1. SUFFICES ASSUME question.target, NEW n \in DOMAIN t PROVE OfRepository(t[n])
    OBVIOUS
  <2>2. PICK x \in DOMAIN apart : t[n] = apart[x]
    BY <1>13, <2>1 DEF Leaves
  <2>3. PICK y \in DOMAIN timely : apart[x] = timely[y]
    BY <1>10 DEF Leaves
  <2>4. PICK z \in DOMAIN scoped : timely[y] = scoped[z]
    BY <1>9 DEF Leaves
  <2>5. QED
    BY <1>8, <2>1, <2>2, <2>3, <2>4
<1>15. QED
  BY <1>1, <1>6, <1>11, <1>12, <1>13, <1>14 DEF Shown

(***************************************************************************)
(* The turn.  From the first assembly on, what the turn holds is in the    *)
(* range; from the first draft on, the evidence is what was assembled of   *)
(* it; what is answered was a valid draft.                                 *)
(***************************************************************************)
AnswerSpec == AnswerInit /\ [][AnswerNext]_answerVars

InBounds(s) == Bounded(question) => \A n \in DOMAIN s : InRange(s[n])
Before == {"idle", "searching", "searching_again", "embedding"}
Chosen ==
    /\ evidence = Assembled(hits) /\ InBounds(hits)
    /\ RequirementMet(hits) /\ Sufficient(evidence)

TurnTyped ==
    /\ question \in Questions /\ setup \in Setups /\ hits \in Seq(Hits) /\ drafts \in Nat
    /\ at \in Before \cup {"acquiring", "assembling", "drafting", "observing", "end"}
DraftsFit ==
    /\ at \in Before \cup {"acquiring", "assembling"} => drafts = 0
    /\ at = "drafting" => drafts <= setup.retries
    /\ drafts <= 1 + setup.retries
ChoiceFits ==
    /\ at \in {"acquiring", "assembling"} => InBounds(hits)
    /\ at \in {"drafting", "observing"} \/ drafts > 0 \/ outcome = "answered" => Chosen
VerdictFits ==
    /\ at = "observing" \/ outcome = "answered" => ValidDraft(cited, quotes)
    /\ at # "end" => outcome = "none"
AnswerInv == TurnTyped /\ DraftsFit /\ ChoiceFits /\ VerdictFits

LEMMA ValidFits ==
    ASSUME NEW s \in Seq(Hits)
    PROVE  ValidHits(s) \in Seq(Hits) /\ InBounds(ValidHits(s))
<1>1. CASE ~Bounded(question)
  BY <1>1 DEF ValidHits, InBounds
<1>2. CASE Bounded(question)
  <2>1. PICK I, t : I = {n \in DOMAIN s : InRange(s[n])} /\ t = EntriesAt(s, I)
    OBVIOUS
  <2>2. ValidHits(s) = t
    BY <1>2, <2>1 DEF ValidHits
  <2>3. Thins(t, s, Len(s), Hits, I) /\ Len(s) \in Nat
    BY <2>1, EntriesThin
  <2>4. t \in Seq(Hits) /\ \A k \in DOMAIN t : \E x \in I \cap (1 .. Len(s)) : t[k] = s[x]
    BY <2>3, ThinsKeep
  <2>5. \A k \in DOMAIN t : InRange(t[k])
    BY <2>1, <2>4
  <2>6. QED
    BY <2>2, <2>4, <2>5 DEF InBounds
<1>3. QED
  BY <1>1, <1>2

LEMMA ResultsAre == \A r \in Results : r \in Seq(Hits)
BY DEF Results, SearchResults

LEMMA FusedIs ==
    ASSUME NEW s \in Seq(Hits), NEW r \in Seq(Hits), NEW order \in SetToSeqs(ToSet(s) \cup ToSet(r))
    PROVE  Fused(order) \in Seq(Hits)
<1>1. PICK all, n : all = ToSet(s) \cup ToSet(r) /\ n = Cardinality(all)
  OBVIOUS
<1>2. all \in SUBSET Hits
  BY <1>1 DEF ToSet
<1>3. n \in Nat
  BY <1>1, <1>2, AnswerConstants, FS_Subset, FS_CardinalityType
<1>4. order \in [1 .. n -> all]
  BY <1>1 DEF SetToSeqs
<1>5. order \in Seq(Hits)
  BY <1>2, <1>3, <1>4
<1>6. Thins(EntriesAt(order, FusedPlaces(order)), order, Len(order), Hits, FusedPlaces(order))
  BY <1>5, EntriesThin
<1>7. QED
  BY <1>6 DEF Thins, Fused

LEMMA GoesFits ==
    ASSUME NEW s \in Seq(Hits), Goes(s)
    PROVE  hits' \in Seq(Hits) /\ InBounds(hits') /\ at' \in {"acquiring", "assembling"}
<1>1. hits' = ValidHits(s) /\ at' \in {"acquiring", "assembling"}
  BY DEF Goes
<1>2. QED
  BY <1>1, ValidFits

\* A step of the searches ends the turn or leaves hits for the next step.
SearchMoved ==
    /\ at \in Before \ {"idle"} /\ UNCHANGED <<question, setup, evidence, drafts, cited, quotes>>
    /\ hits' \in Seq(Hits)
    /\ \/ at' = "end" /\ outcome' = "database_retrieval"
       \/ at' \in {"searching_again", "embedding"} /\ outcome' = outcome
       \/ at' \in {"acquiring", "assembling"} /\ outcome' = outcome /\ InBounds(hits')

LEMMA SearchMovedKeeps == ASSUME AnswerInv, SearchMoved PROVE AnswerInv'
<1>1. /\ question \in Questions /\ setup \in Setups /\ drafts = 0 /\ outcome = "none"
      /\ setup.retries \in Nat
  BY AnswerConstants DEF AnswerInv, SearchMoved, TurnTyped, DraftsFit, VerdictFits, Before
<1>2. UNCHANGED <<question, setup, evidence, drafts, cited, quotes>>
  BY DEF SearchMoved
<1>3. TurnTyped'
  BY <1>1, <1>2 DEF SearchMoved, TurnTyped, Before
<1>4. outcome' # "answered" /\ at' \notin {"drafting", "observing"} /\ (at' # "end" => outcome' = "none")
  BY <1>1 DEF SearchMoved
<1>5. DraftsFit'
  BY <1>1, <1>2, <1>4 DEF DraftsFit
<1>6. ChoiceFits'
  <2>1. at' \in {"acquiring", "assembling"} => InBounds(hits')
    BY DEF SearchMoved
  <2>2. InBounds(hits)' <=> InBounds(hits')
    BY <1>2 DEF InBounds, Bounded, TimeRangeSource, InRange
  <2>3. QED
    BY <1>1, <1>2, <1>4, <2>1, <2>2 DEF ChoiceFits
<1>7. VerdictFits'
  BY <1>4 DEF VerdictFits
<1>8. QED
  BY <1>3, <1>5, <1>6, <1>7 DEF AnswerInv

LEMMA SearchSteps ==
    ASSUME AnswerInv, SearchFts \/ LexicalFallback \/ EmbedAndFuse
    PROVE  SearchMoved
<1>1. hits \in Seq(Hits)
  BY DEF AnswerInv, TurnTyped
<1>2. CASE SearchFts
  <2>1. at = "searching" /\ UNCHANGED <<question, setup, evidence, drafts, cited, quotes>>
    BY <1>2 DEF SearchFts
  <2>2. CASE Throws("database_retrieval") /\ UNCHANGED hits
    BY <1>1, <2>1, <2>2 DEF SearchMoved, Throws, Before
  <2>3. CASE \E r \in Results :
               /\ IF r = <<>> /\ ~setup.acquisition /\ setup.lexicalFallback
                  THEN at' = "searching_again" /\ hits' = r
                  ELSE IF setup.embedding THEN at' = "embedding" /\ hits' = r
                  ELSE Goes(r)
               /\ UNCHANGED outcome
    <3>1. PICK r \in Results : /\ \/ at' \in {"searching_again", "embedding"} /\ hits' = r
                                  \/ Goes(r)
                               /\ UNCHANGED outcome
      BY <2>3
    <3>2. r \in Seq(Hits)
      BY ResultsAre
    <3>3. CASE Goes(r)
      BY <2>1, <3>1, <3>2, <3>3, GoesFits DEF SearchMoved, Before
    <3>4. CASE at' \in {"searching_again", "embedding"} /\ hits' = r
      BY <2>1, <3>1, <3>2, <3>4 DEF SearchMoved, Before
    <3>5. QED
      BY <3>1, <3>3, <3>4
  <2>4. QED
    BY <1>2, <2>2, <2>3 DEF SearchFts
<1>3. CASE LexicalFallback
  <2>1. at = "searching_again" /\ UNCHANGED <<question, setup, evidence, drafts, cited, quotes>>
    BY <1>3 DEF LexicalFallback
  <2>2. CASE Throws("database_retrieval") /\ UNCHANGED hits
    BY <1>1, <2>1, <2>2 DEF SearchMoved, Throws, Before
  <2>3. CASE \E r \in Results :
               /\ IF setup.embedding THEN at' = "embedding" /\ hits' = r ELSE Goes(r)
               /\ UNCHANGED outcome
    <3>1. PICK r \in Results : /\ \/ at' = "embedding" /\ hits' = r
                                  \/ Goes(r)
                               /\ UNCHANGED outcome
      BY <2>3
    <3>2. r \in Seq(Hits)
      BY ResultsAre
    <3>3. CASE Goes(r)
      BY <2>1, <3>1, <3>2, <3>3, GoesFits DEF SearchMoved, Before
    <3>4. CASE at' = "embedding" /\ hits' = r
      BY <2>1, <3>1, <3>2, <3>4 DEF SearchMoved, Before
    <3>5. QED
      BY <3>1, <3>3, <3>4
  <2>4. QED
    BY <1>3, <2>2, <2>3 DEF LexicalFallback
<1>4. CASE EmbedAndFuse
  <2>1. at = "embedding" /\ UNCHANGED <<question, setup, evidence, drafts, cited, quotes>>
    BY <1>4 DEF EmbedAndFuse
  <2>2. CASE Throws("database_retrieval") /\ UNCHANGED hits
    BY <1>1, <2>1, <2>2 DEF SearchMoved, Throws, Before
  <2>3. CASE \E s \in Seq(Hits) : Goes(s) /\ UNCHANGED outcome
    BY <2>1, <2>3, GoesFits DEF SearchMoved, Before
  <2>4. ASSUME NEW r \in Results, NEW order \in SetToSeqs(ToSet(hits) \cup ToSet(r))
        PROVE  Fused(order) \in Seq(Hits)
    BY <1>1, ResultsAre, FusedIs
  <2>5. QED
    BY <1>1, <1>4, <2>2, <2>3, <2>4 DEF EmbedAndFuse
<1>5. QED
  BY <1>2, <1>3, <1>4

LEMMA AskedKeeps ==
    ASSUME AnswerInv, NEW q \in Questions, NEW s \in Setups, Asked(q, s)
    PROVE  AnswerInv'
<1>1. /\ at = "idle" /\ question' = q /\ setup' = s /\ UNCHANGED <<hits, evidence, drafts, cited, quotes>>
      /\ \/ at' = "end" /\ outcome' = "invalid_time_range"
         \/ at' = "searching" /\ outcome' = outcome
  BY DEF Asked, Throws
<1>2. drafts = 0 /\ outcome = "none" /\ s.retries \in Nat
  BY <1>1, AnswerConstants DEF AnswerInv, DraftsFit, VerdictFits, Before
<1>3. TurnTyped'
  BY <1>1 DEF AnswerInv, TurnTyped, Before
<1>4. DraftsFit' /\ ChoiceFits' /\ VerdictFits'
  BY <1>1, <1>2 DEF DraftsFit, ChoiceFits, VerdictFits
<1>5. QED
  BY <1>3, <1>4 DEF AnswerInv

LEMMA AcquireKeeps == ASSUME AnswerInv, Acquire PROVE AnswerInv'
<1>1. /\ at = "acquiring" /\ at' = "assembling"
      /\ UNCHANGED <<question, setup, evidence, drafts, cited, quotes, outcome>>
  BY DEF Acquire
<1>2. /\ drafts = 0 /\ outcome = "none" /\ setup.retries \in Nat /\ hits \in Seq(Hits)
      /\ InBounds(hits)
  BY <1>1, AnswerConstants DEF AnswerInv, TurnTyped, DraftsFit, ChoiceFits, VerdictFits
<1>3. hits' \in Seq(Hits) /\ InBounds(hits')
  <2>1. CASE UNCHANGED hits
    BY <1>1, <1>2, <2>1
  <2>2. CASE \E r \in Results : hits' = IF ReSearched(r) # <<>> THEN ReSearched(r) ELSE hits
    <3>1. PICK r \in Results : hits' = ReSearched(r) \/ hits' = hits
      BY <2>2
    <3>2. ReSearched(r) \in Seq(Hits) /\ InBounds(ReSearched(r))
      BY ResultsAre, ValidFits DEF ReSearched
    <3>3. QED
      BY <1>2, <3>1, <3>2
  <2>3. QED
    BY <2>1, <2>2 DEF Acquire
<1>4. TurnTyped'
  BY <1>1, <1>3 DEF AnswerInv, TurnTyped
<1>5. InBounds(hits)' <=> InBounds(hits')
  BY <1>1 DEF InBounds, Bounded, TimeRangeSource, InRange
<1>6. DraftsFit' /\ ChoiceFits' /\ VerdictFits'
  BY <1>1, <1>2, <1>3, <1>5 DEF DraftsFit, ChoiceFits, VerdictFits
<1>7. QED
  BY <1>4, <1>6 DEF AnswerInv

\* What the choice rests on, where neither the question nor the hits change
LEMMA ChosenStays ==
    ASSUME UNCHANGED <<question, hits, evidence>> PROVE Chosen' <=> Chosen
<1>1. InBounds(hits)' <=> InBounds(hits)
  BY DEF InBounds, Bounded, TimeRangeSource, InRange
<1>2. Assembled(hits)' = Assembled(hits)
  BY DEF Assembled
<1>3. RequirementMet(hits)' <=> RequirementMet(hits)
  BY DEF RequirementMet
<1>4. Sufficient(evidence)' <=> Sufficient(evidence)
  BY DEF Sufficient
<1>5. QED
  BY <1>1, <1>2, <1>3, <1>4 DEF Chosen

LEMMA AssembleKeeps == ASSUME AnswerInv, Assemble PROVE AnswerInv'
<1>1. at = "assembling" /\ UNCHANGED <<question, setup, hits, drafts, cited, quotes>>
  BY DEF Assemble
<1>2. /\ drafts = 0 /\ outcome = "none" /\ setup.retries \in Nat /\ hits \in Seq(Hits)
      /\ InBounds(hits)
  BY <1>1, AnswerConstants DEF AnswerInv, TurnTyped, DraftsFit, ChoiceFits, VerdictFits
<1>3. PICK parts : parts = Assembled(hits)
  OBVIOUS
<1>4. \/ /\ RequirementMet(hits) /\ Sufficient(parts)
         /\ evidence' = parts /\ at' = "drafting" /\ outcome' = outcome
      \/ at' = "end" /\ outcome' = "insufficient_evidence" /\ evidence' = evidence
  BY <1>3 DEF Assemble, Throws
<1>5. TurnTyped' /\ DraftsFit' /\ VerdictFits'
  BY <1>1, <1>2, <1>4 DEF AnswerInv, TurnTyped, DraftsFit, VerdictFits
<1>6. CASE at' = "drafting"
  <2>1. RequirementMet(hits) /\ Sufficient(parts) /\ evidence' = parts
    BY <1>4, <1>6
  <2>2. InBounds(hits)' <=> InBounds(hits)
    BY <1>1 DEF InBounds, Bounded, TimeRangeSource, InRange
  <2>3. Assembled(hits)' = Assembled(hits)
    BY <1>1 DEF Assembled
  <2>4. RequirementMet(hits)' <=> RequirementMet(hits)
    BY <1>1 DEF RequirementMet
  <2>5. Sufficient(evidence)' <=> Sufficient(evidence')
    BY <1>1 DEF Sufficient
  <2>6. Chosen'
    BY <1>2, <1>3, <2>1, <2>2, <2>3, <2>4, <2>5 DEF Chosen
  <2>7. QED
    BY <1>5, <1>6, <2>6 DEF AnswerInv, ChoiceFits
<1>7. CASE at' = "end" /\ outcome' = "insufficient_evidence"
  BY <1>1, <1>2, <1>5, <1>7 DEF AnswerInv, ChoiceFits
<1>8. QED
  BY <1>4, <1>6, <1>7

LEMMA DraftKeeps == ASSUME AnswerInv, Draft PROVE AnswerInv'
<1>1. /\ at = "drafting" /\ drafts' = drafts + 1
      /\ UNCHANGED <<question, setup, hits, evidence>>
  BY DEF Draft
<1>2. /\ drafts \in Nat /\ setup.retries \in Nat /\ drafts <= setup.retries
      /\ Chosen /\ outcome = "none"
  BY <1>1, AnswerConstants DEF AnswerInv, TurnTyped, DraftsFit, ChoiceFits, VerdictFits
<1>3. \/ at' = "end" /\ outcome' \in {"timeout", "model_provider", "insufficient_evidence"}
      \/ at' = "observing" /\ outcome' = outcome /\ ValidDraft(cited', quotes')
      \/ at' = "drafting" /\ outcome' = outcome /\ Again(drafts + 1)
  BY DEF Draft, Throws
<1>4. TurnTyped'
  BY <1>1, <1>3 DEF AnswerInv, TurnTyped
<1>5. DraftsFit'
  BY <1>1, <1>2, <1>3 DEF DraftsFit, Again, Before
<1>6. Chosen'
  BY <1>1, <1>2, ChosenStays
<1>7. ValidDraft(cited, quotes)' <=> ValidDraft(cited', quotes')
  BY <1>1 DEF ValidDraft, Verbatim, Bounded, TimeRangeSource, InRange, DateOf, Some
<1>8. ChoiceFits' /\ VerdictFits'
  BY <1>2, <1>3, <1>6, <1>7 DEF ChoiceFits, VerdictFits
<1>9. QED
  BY <1>4, <1>5, <1>8 DEF AnswerInv

LEMMA RespondKeeps == ASSUME AnswerInv, Respond PROVE AnswerInv'
<1>1. /\ at = "observing" /\ at' = "end" /\ UNCHANGED <<question, setup, hits, evidence, drafts, cited, quotes>>
  BY DEF Respond, Throws
<1>2. Chosen /\ ValidDraft(cited, quotes)
  BY <1>1 DEF AnswerInv, ChoiceFits, VerdictFits
<1>3. TurnTyped' /\ DraftsFit'
  BY <1>1 DEF AnswerInv, TurnTyped, DraftsFit, Before
<1>4. Chosen'
  BY <1>1, <1>2, ChosenStays
<1>5. ValidDraft(cited, quotes)'
  BY <1>1, <1>2 DEF ValidDraft, Verbatim, Bounded, TimeRangeSource, InRange, DateOf, Some
<1>6. ChoiceFits' /\ VerdictFits'
  BY <1>1, <1>4, <1>5 DEF ChoiceFits, VerdictFits
<1>7. QED
  BY <1>3, <1>6 DEF AnswerInv

LEMMA AnswerInvInit == AnswerInit => AnswerInv
<1> SUFFICES ASSUME AnswerInit PROVE AnswerInv
  OBVIOUS
<1>1. question \in Questions /\ setup \in Setups
  BY AnswerConstants DEF AnswerInit
<1>2. setup.retries \in Nat
  BY <1>1, AnswerConstants
<1>3. QED
  BY <1>1, <1>2 DEF AnswerInit, AnswerInv, TurnTyped, DraftsFit, ChoiceFits, VerdictFits, Before

LEMMA AnswerInvNext == AnswerInv /\ [AnswerNext]_answerVars => AnswerInv'
<1> SUFFICES ASSUME AnswerInv, [AnswerNext]_answerVars PROVE AnswerInv'
  OBVIOUS
<1>1. CASE UNCHANGED answerVars
  <2>1. UNCHANGED <<question, setup, at, hits, evidence, drafts, cited, quotes, outcome>>
    BY <1>1 DEF answerVars
  <2>2. Chosen' <=> Chosen
    BY <2>1, ChosenStays
  <2>3. ValidDraft(cited, quotes)' <=> ValidDraft(cited, quotes)
    BY <2>1 DEF ValidDraft, Verbatim, Bounded, TimeRangeSource, InRange, DateOf, Some
  <2>4. InBounds(hits)' <=> InBounds(hits)
    BY <2>1 DEF InBounds, Bounded, TimeRangeSource, InRange
  <2>5. QED
    BY <2>1, <2>2, <2>3, <2>4 DEF AnswerInv, TurnTyped, DraftsFit, ChoiceFits, VerdictFits
<1>2. CASE SearchFts \/ LexicalFallback \/ EmbedAndFuse
  BY <1>2, SearchSteps, SearchMovedKeeps
<1>3. CASE (\E q \in Questions, s \in Setups : Asked(q, s)) \/ Acquire \/ Assemble \/ Draft \/ Respond
  BY <1>3, AskedKeeps, AcquireKeeps, AssembleKeeps, DraftKeeps, RespondKeeps
<1>4. QED
  BY <1>1, <1>2, <1>3 DEF AnswerNext

\* What was chosen has as many documents as the comparison has subjects.
LEMMA SubjectsAreCovered ==
    ASSUME AnswerInv, Sufficient(evidence), evidence \in Seq(SUBSET Hits), question.intent = "compare_interest"
    PROVE  Cardinality(Documents(ToSet(evidence))) >= question.topics
<1>1. PICK D, n, t : D = Documents(ToSet(evidence)) /\ n = Len(evidence) /\ t = question.topics
  OBVIOUS
<1>2. t \in Nat /\ n \in Nat /\ DOMAIN evidence = 1 .. n
  BY <1>1, AnswerConstants DEF AnswerInv, TurnTyped
<1>3. Cardinality(D) \in Nat
  <2>1. PICK f : f = [k \in 1 .. n |-> HitOf[Some(evidence[k])].revision]
    OBVIOUS
  <2>2. D = {f[k] : k \in 1 .. n}
    BY <1>1, <1>2, <2>1 DEF Documents, ToSet
  <2>3. f \in Surjection(1 .. n, D)
    BY <2>1, <2>2 DEF Surjection
  <2>4. 1 \in Int /\ n \in Int
    BY <1>2
  <2>5. IsFiniteSet(1 .. n)
    BY <2>4, FS_Interval
  <2>6. IsFiniteSet(D)
    BY <2>3, <2>5, FS_Surjection
  <2>7. QED
    BY <2>6, FS_CardinalityType
<1>4. Cardinality(D) >= Max({2, t})
  BY <1>1 DEF Sufficient
<1>5. Max({2, t}) \in Nat /\ Max({2, t}) >= t
  <2>1. \E x \in {2, t} : \A y \in {2, t} : x >= y
    BY <1>2
  <2>2. Max({2, t}) \in {2, t} /\ \A y \in {2, t} : Max({2, t}) >= y
    BY <2>1 DEF Max
  <2>3. QED
    BY <1>2, <2>2
<1>6. QED
  BY <1>1, <1>2, <1>3, <1>4, <1>5

\* Whatever the index holds and the searches, the acquisition and the model
\* return, and whichever of them fails: an answer cites evidence that the model
\* was shown, inside a bounded range, of the repository that was asked for, apart
\* and within the budget, and the model is asked only about evidence that
\* suffices and no more often than the retries allow (generateAnswer,
\* assembleContextEvidence, validateAnswerDraft).
THEOREM AnswersStaySound == AnswerSpec => []AnswersAreSound
<1>1. AnswerInit => AnswerInv
  BY AnswerInvInit
<1>2. AnswerInv /\ [AnswerNext]_answerVars => AnswerInv'
  BY AnswerInvNext
<1>3. AnswerInv => AnswersAreSound
  <2> SUFFICES ASSUME AnswerInv PROVE AnswersAreSound
    OBVIOUS
  <2>1. ModelIsSpared
    BY DEF AnswerInv, DraftsFit, ChoiceFits, Chosen, ModelIsSpared
  <2>2. ASSUME outcome = "answered" PROVE AnswersRestOnEvidence
    <3>1. Chosen /\ ValidDraft(cited, quotes) /\ hits \in Seq(Hits)
      BY <2>2 DEF AnswerInv, TurnTyped, ChoiceFits, VerdictFits
    <3>2. Shown(evidence, ToSet(hits))
      BY <3>1, AssembledFits DEF Chosen
    <3>3. evidence \in Seq(SUBSET Hits) /\ \A n \in DOMAIN evidence : ItemFits(evidence[n], ToSet(hits))
      BY <3>2 DEF Shown, ItemsFit
    <3>4. cited # {} /\ cited \subseteq 1 .. Len(evidence) /\ DOMAIN evidence = 1 .. Len(evidence)
      BY <3>1, <3>3 DEF ValidDraft
    <3>5. ASSUME NEW h \in UNION ToSet(evidence)
          PROVE  (Bounded(question) => InRange(h)) /\ (question.target => HitOf[h].repo)
      <4>1. PICK n \in DOMAIN evidence : h \in evidence[n]
        BY <3>5 DEF ToSet
      <4>2. /\ evidence[n] \subseteq ToSet(hits) /\ evidence[n] \subseteq Hits
            /\ Some(evidence[n]) \in evidence[n]
            /\ HitOf[Some(evidence[n])].revision = HitOf[h].revision
        BY <3>3, <4>1 DEF ItemFits, Some
      <4>3. Bounded(question) => InRange(h)
        <5>1. PICK m \in DOMAIN hits : h = hits[m]
          BY <4>1, <4>2 DEF ToSet
        <5>2. QED
          BY <3>1, <5>1 DEF Chosen, InBounds
      <4>4. HitOf[h].repo = HitOf[Some(evidence[n])].repo
        BY <4>1, <4>2, AnswerConstants
      <4>5. question.target => HitOf[Some(evidence[n])].repo
        BY <3>2, <4>1 DEF Shown, OfRepository
      <4>6. QED
        BY <4>3, <4>4, <4>5
    <3>6. ASSUME NEW k \in cited, NEW h \in evidence[k], HitOf[h].verbatim PROVE quotes
      BY <3>1, <3>6 DEF ValidDraft, Verbatim
    <3>7. \A j, k \in DOMAIN evidence : j # k =>
            evidence[j] \cap evidence[k] = {} /\ ~SameUpstream(evidence[j], evidence[k])
      BY <3>2 DEF Shown, ItemsFit, Apart
    <3>8. TokensOf(evidence) <= MaxContext
      BY <3>2 DEF Shown
    <3>9. question.intent = "compare_interest" =>
            Cardinality(Documents(ToSet(evidence))) >= question.topics
      BY <3>1, <3>3, SubjectsAreCovered DEF Chosen
    <3>10. PICK shown : shown = [k \in cited |-> evidence[k]]
      OBVIOUS
    <3>11. ASSUME NEW k \in cited, NEW h \in UNION ToSet(evidence), h \in shown[k], HitOf[h].verbatim
           PROVE  quotes
      BY <3>6, <3>10, <3>11
    <3>12. QED
      BY <3>4, <3>5, <3>7, <3>8, <3>9, <3>10, <3>11 DEF AnswersRestOnEvidence
  <2>3. AnswersRestOnEvidence
    <3>1. CASE outcome # "answered"
      BY <3>1 DEF AnswersRestOnEvidence
    <3>2. QED
      BY <2>2, <3>1
  <2>4. QED
    BY <2>1, <2>3 DEF AnswersAreSound
<1>4. QED
  BY <1>1, <1>2, <1>3, PTL DEF AnswerSpec
=============================================================================
