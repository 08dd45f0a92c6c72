---------------------------- MODULE CollectorProofs ----------------------------
(***************************************************************************)
(* Proofs about the collectors: the requests that share one connection     *)
(* (PoliteFetch), the browser sessions (BrowserSession) and the pages of a *)
(* partition (SourcePages).                                                *)
(***************************************************************************)
EXTENDS Collectors, DataLemmas

(***************************************************************************)
(* The connection.  Who waits for the pause or fetches is first in a line  *)
(* in which every caller stands once, and a query that waits has no        *)
(* answer in the cache: only who is first could enter one.                 *)
(***************************************************************************)
FetchSpec == FetchInit /\ [][FetchNext]_fetchVars

Places == {"free", "queued", "waiting", "fetching"}
CallShape == [at : Places, query : Queries \cup {Nobody}]

CallFits(c) ==
    /\ caller[c].at = "free" <=> c \notin ToSet(line)
    /\ caller[c].at # "free" => caller[c].query \in Queries
    /\ caller[c].at \in {"waiting", "fetching"} => line # <<>> /\ Head(line) = c
    /\ caller[c].at = "waiting" => age[caller[c].query] = Ttl

FetchInv ==
    /\ since \in 0 .. Horizon /\ age \in [Queries -> 0 .. Ttl]
    /\ caller \in [Callers -> CallShape] /\ Once(line, Callers)
    /\ started \in [pause : Spacing .. Horizon, had : {Ttl}]
    /\ served = Nobody \/ (served \in 0 .. Ttl /\ served < Ttl)
    /\ \A c \in Callers : CallFits(c)

LEMMA Times ==
    /\ Spacing \in Nat /\ Ttl \in Nat
    /\ Horizon \in Nat /\ Spacing <= Horizon /\ Ttl <= Horizon
    /\ \A most \in Nat, n \in Nat : UpTo(most, n) \in 0 .. most
    /\ \A n \in Nat : n >= Ttl => UpTo(Ttl, n) = Ttl
BY FetchConstants DEF Horizon, UpTo

LEMMA FreeCall == Free \in CallShape /\ Free.at = "free"
BY DEF Free, CallShape, Places

LEMMA FetchInvInit == FetchInit => FetchInv
<1> SUFFICES ASSUME FetchInit PROVE FetchInv
  OBVIOUS
<1>1. Once(line, Callers) /\ ToSet(line) = {}
  BY NobodyQueues DEF FetchInit
<1>2. since \in 0 .. Horizon /\ age \in [Queries -> 0 .. Ttl]
  BY Times DEF FetchInit
<1>3. caller \in [Callers -> CallShape] /\ \A c \in Callers : caller[c].at = "free"
  BY FreeCall DEF FetchInit
<1>4. started \in [pause : Spacing .. Horizon, had : {Ttl}] /\ served = Nobody
  BY Times DEF FetchInit
<1>5. \A c \in Callers : CallFits(c)
  BY <1>1, <1>3 DEF CallFits
<1>6. QED
  BY <1>1, <1>2, <1>3, <1>4, <1>5 DEF FetchInv

LEMMA AdvanceKeeps == ASSUME FetchInv, Advance PROVE FetchInv'
<1>1. /\ since' = UpTo(Horizon, since + 1) /\ age' = [q \in Queries |-> UpTo(Ttl, age[q] + 1)]
      /\ UNCHANGED <<caller, line, started, served>>
  BY DEF Advance
<1>2. since \in 0 .. Horizon /\ age \in [Queries -> 0 .. Ttl]
  BY DEF FetchInv
<1>3. since' \in 0 .. Horizon
  BY <1>1, <1>2, Times
<1>4. ASSUME NEW q \in Queries
      PROVE  age'[q] \in 0 .. Ttl /\ (age[q] = Ttl => age'[q] = Ttl)
  <2>1. age[q] + 1 \in Nat /\ (age[q] = Ttl => age[q] + 1 >= Ttl) /\ age'[q] = UpTo(Ttl, age[q] + 1)
    <3>1. age[q] \in 0 .. Ttl /\ Ttl \in Nat /\ age'[q] = UpTo(Ttl, age[q] + 1)
      BY <1>1, <1>2, Times
    <3>2. QED
      BY <3>1
  <2>2. QED
    BY <2>1, Times
<1>5. age' \in [Queries -> 0 .. Ttl]
  BY <1>1, <1>4
<1>6. ASSUME NEW c \in Callers PROVE CallFits(c)'
  <2>1. CallFits(c)
    BY DEF FetchInv
  <2>2. QED
    BY <1>1, <1>4, <2>1 DEF CallFits
<1>7. QED
  BY <1>1, <1>3, <1>5, <1>6 DEF FetchInv

\* Who is first leaves the line; nobody else waits or fetches.
LEMMA LeavesWell ==
    ASSUME FetchInv, NEW c \in Callers, line # <<>>, Head(line) = c, Leaves(c), Releases,
           since' = since, started' = started, age' \in [Queries -> 0 .. Ttl],
           served' = Nobody \/ (served' \in 0 .. Ttl /\ served' < Ttl)
    PROVE  FetchInv'
<1>1. Once(line, Callers) /\ caller \in [Callers -> CallShape]
  BY DEF FetchInv
<1>2. Once(line', Callers) /\ ToSet(line') = ToSet(line) \ {c}
  BY <1>1, FirstLeaves DEF Releases
<1>3. /\ caller' \in [Callers -> CallShape] /\ caller'[c].at = "free"
      /\ \A d \in Callers \ {c} : caller'[d] = caller[d]
  BY <1>1, FreeCall DEF Leaves
<1>4. ASSUME NEW d \in Callers PROVE CallFits(d)'
  <2>1. CASE d = c
    BY <1>2, <1>3, <2>1 DEF CallFits
  <2>2. CASE d # c
    <3>1. CallFits(d)
      BY DEF FetchInv
    <3>2. QED
      BY <1>2, <1>3, <2>2, <3>1 DEF CallFits
  <2>3. QED
    BY <2>1, <2>2
<1>5. QED
  BY <1>2, <1>3, <1>4 DEF FetchInv

\* A call goes on where it stands in the line.
LEMMA GoesOn ==
    ASSUME FetchInv, NEW c \in Callers, NEW w \in CallShape,
           caller' = [caller EXCEPT ![c] = w], caller[c].at # "free", w.query = caller[c].query,
           w.at \in {"waiting", "fetching"}, line # <<>>, Head(line) = c,
           w.at = "waiting" => age[w.query] = Ttl,
           UNCHANGED <<line, age>>, since' \in 0 .. Horizon,
           started' \in [pause : Spacing .. Horizon, had : {Ttl}], served' = served
    PROVE  FetchInv'
<1>1. /\ caller' \in [Callers -> CallShape] /\ caller'[c] = w
      /\ \A d \in Callers \ {c} : caller'[d] = caller[d]
  BY DEF FetchInv
<1>2. ASSUME NEW d \in Callers PROVE CallFits(d)'
  <2>1. CallFits(d)
    BY DEF FetchInv
  <2>2. QED
    BY <1>1, <2>1 DEF CallFits
<1>3. QED
  BY <1>1, <1>2 DEF FetchInv

LEMMA AskKeeps == ASSUME FetchInv, NEW c \in Callers, NEW q \in Queries, Ask(c, q) PROVE FetchInv'
<1>1. /\ caller[c] = Free /\ UNCHANGED <<since, age, started>>
      /\ caller \in [Callers -> CallShape] /\ Once(line, Callers) /\ age \in [Queries -> 0 .. Ttl]
  BY DEF Ask, FetchInv
<1>2. CASE Fresh(q)
  <2>1. served' = age[q] /\ UNCHANGED <<caller, line>>
    BY <1>2 DEF Ask
  <2>2. served' \in 0 .. Ttl /\ served' < Ttl
    BY <1>1, <1>2, <2>1 DEF Fresh
  <2>3. QED
    BY <1>1, <2>1, <2>2 DEF FetchInv, CallFits
<1>3. CASE ~Fresh(q)
  <2>1. PICK w : w = [at |-> "queued", query |-> q]
    OBVIOUS
  <2>2. caller' = [caller EXCEPT ![c] = w] /\ line' = Append(line, c) /\ served' = served
    BY <1>3, <2>1 DEF Ask
  <2>3. w \in CallShape /\ w.at = "queued" /\ w.query = q
    BY <2>1, Times DEF CallShape, Places
  <2>4. c \notin ToSet(line)
    BY <1>1, FreeCall DEF FetchInv, CallFits
  <2>5. /\ Once(line', Callers) /\ ToSet(line') = ToSet(line) \cup {c} /\ line' # <<>>
        /\ line # <<>> => Head(line') = Head(line)
    BY <1>1, <2>2, <2>4, LastQueues
  <2>6. /\ caller' \in [Callers -> CallShape] /\ caller'[c] = w
        /\ \A d \in Callers \ {c} : caller'[d] = caller[d]
    BY <1>1, <2>2, <2>3
  <2>7. ASSUME NEW d \in Callers PROVE CallFits(d)'
    <3>1. CASE d = c
      BY <2>3, <2>5, <2>6, <3>1 DEF CallFits
    <3>2. CASE d # c
      <4>1. CallFits(d)
        BY DEF FetchInv
      <4>2. QED
        BY <1>1, <2>5, <2>6, <3>2, <4>1 DEF CallFits
    <3>3. QED
      BY <3>1, <3>2
  <2>8. QED
    BY <1>1, <2>2, <2>5, <2>6, <2>7 DEF FetchInv
<1>4. QED
  BY <1>2, <1>3

LEMMA EnterKeeps == ASSUME FetchInv, NEW c \in Callers, Enter(c) PROVE FetchInv'
<1>1. /\ line # <<>> /\ Head(line) = c /\ caller[c].at = "queued"
      /\ UNCHANGED <<since, age, started>>
      /\ caller \in [Callers -> CallShape] /\ age \in [Queries -> 0 .. Ttl]
  BY DEF Enter, FetchInv
<1>2. PICK q \in Queries : q = caller[c].query
  BY <1>1 DEF FetchInv, CallFits
<1>3. age[q] \in 0 .. Ttl /\ Ttl \in Nat
  BY <1>1, Times
<1>4. CASE Fresh(q)
  <2>1. served' = age[q] /\ Leaves(c) /\ Releases
    BY <1>2, <1>4 DEF Enter
  <2>2. served' \in 0 .. Ttl /\ served' < Ttl
    BY <1>3, <1>4, <2>1 DEF Fresh
  <2>3. QED
    BY <1>1, <2>1, <2>2, LeavesWell
<1>5. CASE ~Fresh(q)
  <2>1. caller' = [caller EXCEPT ![c].at = "waiting"] /\ UNCHANGED <<line, served>>
    BY <1>2, <1>5 DEF Enter, At
  <2>2. PICK w : w = [caller[c] EXCEPT !.at = "waiting"]
    OBVIOUS
  <2>3. /\ w \in CallShape /\ w.at = "waiting" /\ w.query = q
        /\ caller' = [caller EXCEPT ![c] = w]
    BY <1>1, <1>2, <2>1, <2>2 DEF CallShape, Places
  <2>4. age[q] = Ttl
    BY <1>3, <1>5 DEF Fresh
  <2>5. since' \in 0 .. Horizon /\ started' \in [pause : Spacing .. Horizon, had : {Ttl}]
    BY <1>1 DEF FetchInv
  <2>6. /\ caller[c].at # "free" /\ w.query = caller[c].query /\ age[w.query] = Ttl
        /\ w.at \in {"waiting", "fetching"} /\ UNCHANGED <<line, age, served>>
    BY <1>1, <1>2, <2>1, <2>3, <2>4
  <2>7. QED
    BY <1>1, <2>3, <2>5, <2>6, GoesOn
<1>6. QED
  BY <1>4, <1>5

LEMMA StartKeeps == ASSUME FetchInv, NEW c \in Callers, Start(c) PROVE FetchInv'
<1>1. /\ caller[c].at = "waiting" /\ since >= Spacing /\ since' = 0
      /\ started' = [pause |-> since, had |-> age[caller[c].query]]
      /\ caller' = [caller EXCEPT ![c].at = "fetching"] /\ UNCHANGED <<line, age, served>>
      /\ caller \in [Callers -> CallShape] /\ since \in 0 .. Horizon
  BY DEF Start, At, FetchInv
<1>2. line # <<>> /\ Head(line) = c /\ age[caller[c].query] = Ttl
  BY <1>1 DEF FetchInv, CallFits
<1>3. PICK w : w = [caller[c] EXCEPT !.at = "fetching"]
  OBVIOUS
<1>4. /\ w \in CallShape /\ w.at = "fetching" /\ w.query = caller[c].query
      /\ caller' = [caller EXCEPT ![c] = w]
  BY <1>1, <1>3 DEF CallShape, Places
<1>5. started' \in [pause : Spacing .. Horizon, had : {Ttl}]
  <2>1. since \in Spacing .. Horizon
    BY <1>1, Times
  <2>2. QED
    BY <1>1, <1>2, <2>1
<1>6. since' \in 0 .. Horizon
  BY <1>1, Times
<1>7. QED
  BY <1>1, <1>2, <1>4, <1>5, <1>6, GoesOn

LEMMA AnswerKeeps == ASSUME FetchInv, NEW c \in Callers, Answered(c) PROVE FetchInv'
<1>1. /\ caller[c].at = "fetching" /\ Leaves(c) /\ Releases /\ UNCHANGED <<since, started, served>>
      /\ age' = [age EXCEPT ![caller[c].query] = UpTo(Ttl, since)]
  BY DEF Answered
<1>2. line # <<>> /\ Head(line) = c
  BY <1>1 DEF FetchInv, CallFits
<1>3. PICK n : n = UpTo(Ttl, since)
  OBVIOUS
<1>4. since \in Nat /\ n \in 0 .. Ttl
  BY <1>3, Times DEF FetchInv
<1>5. age' \in [Queries -> 0 .. Ttl]
  BY <1>1, <1>3, <1>4 DEF FetchInv
<1>6. served' = Nobody \/ (served' \in 0 .. Ttl /\ served' < Ttl)
  BY <1>1 DEF FetchInv
<1>7. QED
  BY <1>1, <1>2, <1>5, <1>6, LeavesWell

LEMMA FailKeeps == ASSUME FetchInv, NEW c \in Callers, Fails(c) PROVE FetchInv'
<1>1. /\ caller[c].at = "fetching" /\ Leaves(c) /\ Releases
      /\ UNCHANGED <<since, age, started, served>>
  BY DEF Fails
<1>2. line # <<>> /\ Head(line) = c
  BY <1>1 DEF FetchInv, CallFits
<1>3. /\ age' \in [Queries -> 0 .. Ttl]
      /\ served' = Nobody \/ (served' \in 0 .. Ttl /\ served' < Ttl)
  BY <1>1 DEF FetchInv
<1>4. QED
  BY <1>1, <1>2, <1>3, LeavesWell

LEMMA FetchInvNext == FetchInv /\ [FetchNext]_fetchVars => FetchInv'
<1> SUFFICES ASSUME FetchInv, [FetchNext]_fetchVars PROVE FetchInv'
  OBVIOUS
<1>1. CASE UNCHANGED fetchVars
  BY <1>1 DEF fetchVars, FetchInv, CallFits
<1>2. CASE FetchNext
  BY <1>2, AdvanceKeeps, AskKeeps, EnterKeeps, StartKeeps, AnswerKeeps, FailKeeps
     DEF FetchNext
<1>3. QED
  BY <1>1, <1>2

(***************************************************************************)
(* However many callers share the connection, one of them uses it, a       *)
(* request starts the whole pause after the one before it, none asks what  *)
(* the cache could answer, and the cache answers nothing that is too old.  *)
(***************************************************************************)
THEOREM RequestsStayPolite == FetchSpec => []PoliteRequests
<1>1. FetchInv => PoliteRequests
  <2> SUFFICES ASSUME FetchInv PROVE PoliteRequests
    OBVIOUS
  <2>1. OneAtATime
    <3>1. PICK S : S = {c \in Callers : caller[c].at \in {"waiting", "fetching"}}
      OBVIOUS
    <3>2. S = {} \/ S = {Head(line)}
      BY <3>1 DEF FetchInv, CallFits
    <3>3. Cardinality(S) <= 1
      <4>1. Cardinality({}) = 0 /\ Cardinality({Head(line)}) = 1
        BY FS_EmptySet, FS_Singleton
      <4>2. QED
        BY <3>2, <4>1
    <3>4. started.pause >= Spacing
      BY Times DEF FetchInv
    <3>5. QED
      BY <3>1, <3>3, <3>4 DEF OneAtATime
  <2>2. NoNeedlessRequest
    BY DEF FetchInv, NoNeedlessRequest
  <2>3. QED
    BY <2>1, <2>2 DEF PoliteRequests
<1>2. QED
  BY <1>1, FetchInvInit, FetchInvNext, PTL DEF FetchSpec

(***************************************************************************)
(* A browser session.  From its context on, what is open is owned or is    *)
(* the page; a browser whose context is awaited is owned by nobody yet.    *)
(***************************************************************************)
SessionSteps == {"start", "open", "context", "route", "navigate", "response", "probe", "discover",
                 "extract", "closing", "done"}

OpenFits ==
    /\ step \in {"start", "open"} => open = {} /\ owned = {}
    /\ step = "context" => open = {"browser"} /\ owned = {}
    /\ step \in SessionSteps \ {"start", "open", "context", "closing", "done"} =>
           open \subseteq owned \cup {"page"}
    /\ step = "closing" =>
           \/ open \subseteq owned \cup {"page"}
           \/ open = {"browser"} /\ owned = {} /\ verdict = "error"
    /\ NothingLeftOpen

KeptFits ==
    /\ step \notin {"extract", "closing", "done"} => kept = {}
    /\ step \in {"response", "probe", "discover", "extract"} => landed # "elsewhere"
    /\ step \in {"discover", "extract"} => (wall => probes # {})
    /\ ItemsAreFromTheSite

SessionInv == step \in SessionSteps /\ OpenFits /\ KeptFits

LEMMA SessionInvInit == SessionInit => SessionInv
BY DEF SessionInit, SessionIdle, SessionInv, SessionSteps, OpenFits, NothingLeftOpen, KeptFits,
   ItemsAreFromTheSite

\* Before the page is asked: resources are opened, and nothing is kept.
LEMMA OpeningKeeps ==
    ASSUME SessionInv,
           StartReddit \/ StartTrials \/ OpenPage \/ OpenBrowser \/ OpenContext \/ NotConfigured \/ Route
    PROVE  SessionInv'
<1>1. /\ step' \in SessionSteps /\ kept = {} /\ kept' = {}
      /\ step' \notin {"response", "probe", "discover", "extract"}
  BY DEF SessionInv, SessionSteps, KeptFits, StartReddit, StartTrials, OpenPage, OpenBrowser,
     OpenContext, NotConfigured, Route, Goes, Throws
<1>2. KeptFits'
  BY <1>1 DEF KeptFits, ItemsAreFromTheSite
<1>3. OpenFits'
  <2>1. CASE StartReddit \/ StartTrials
    BY <2>1 DEF SessionInv, SessionSteps, OpenFits, NothingLeftOpen, StartReddit, StartTrials, Goes
  <2>2. CASE OpenPage \/ OpenBrowser \/ NotConfigured
    BY <2>2 DEF SessionInv, SessionSteps, OpenFits, NothingLeftOpen, OpenPage, OpenBrowser,
       NotConfigured, Goes, Throws
  <2>3. CASE OpenContext
    BY <2>3 DEF SessionInv, SessionSteps, OpenFits, NothingLeftOpen, OpenContext, Goes, Throws, Owns
  <2>4. CASE Route
    BY <2>4 DEF SessionInv, SessionSteps, OpenFits, NothingLeftOpen, Route, Goes, Throws
  <2>5. QED
    BY <2>1, <2>2, <2>3, <2>4
<1>4. QED
  BY <1>1, <1>2, <1>3 DEF SessionInv

\* The page is reached, looked at and read: what is open stays as it is.
LEMMA ReadingKeeps ==
    ASSUME SessionInv,
           \/ NavigateReddit \/ NavigateTrials \/ Response \/ ProbeReddit \/ ProbeTrials
           \/ DiscoverPosts \/ ExtractTrials \/ ExtractPost \/ Finish
    PROVE  SessionInv'
<1>1. /\ step \in {"navigate", "response", "probe", "discover", "extract"}
      /\ step' \in {"response", "probe", "discover", "extract", "closing"}
      /\ open' = open /\ owned' = owned
  BY DEF SessionInv, SessionSteps, NavigateReddit, NavigateTrials, Response, ProbeReddit,
     ProbeTrials, DiscoverPosts, ExtractTrials, ExtractPost, Finish, Goes, Throws
<1>2. step' \in SessionSteps /\ OpenFits'
  BY <1>1 DEF SessionInv, SessionSteps, OpenFits, NothingLeftOpen
<1>3. KeptFits'
  <2>1. CASE NavigateReddit
    BY <2>1 DEF SessionInv, SessionSteps, KeptFits, ItemsAreFromTheSite, NavigateReddit, Goes, Throws
  <2>2. CASE NavigateTrials
    BY <2>2 DEF SessionInv, SessionSteps, KeptFits, ItemsAreFromTheSite, NavigateTrials, Goes, Throws
  <2>3. CASE Response
    BY <2>3 DEF SessionInv, SessionSteps, KeptFits, ItemsAreFromTheSite, Response, Goes, Throws
  <2>4. CASE ProbeReddit \/ ProbeTrials
    <3>1. PICK shown \in SUBSET Probes :
              /\ wall <=> shown # {}
              /\ step' = "closing" \/ (step' = "discover" /\ shown \subseteq probes')
      BY <2>4 DEF ProbeReddit, ProbeTrials, Goes, Throws, SeesWall
    <3>2. step' = "discover" => (wall => probes' # {})
      BY <3>1
    <3>3. /\ step = "probe" /\ kept' = kept /\ wall' = wall /\ landed' = landed
      BY <2>4 DEF ProbeReddit, ProbeTrials
    <3>4. QED
      BY <3>1, <3>2, <3>3 DEF SessionInv, KeptFits, ItemsAreFromTheSite
  <2>5. CASE DiscoverPosts \/ ExtractTrials \/ ExtractPost \/ Finish
    <3>1. /\ step \in {"discover", "extract"} /\ step' \in {"extract", "closing"}
          /\ UNCHANGED <<landed, wall, probes>>
      BY <2>5 DEF DiscoverPosts, ExtractTrials, ExtractPost, Finish, Goes, Throws
    <3>2. QED
      BY <3>1 DEF SessionInv, KeptFits, ItemsAreFromTheSite
  <2>6. QED
    BY <2>1, <2>2, <2>3, <2>4, <2>5
<1>4. QED
  BY <1>2, <1>3 DEF SessionInv

\* The finally block closes what is owned, and the page.
LEMMA ClosingKeeps == ASSUME SessionInv, CloseAll PROVE SessionInv'
<1>1. /\ step = "closing" /\ step' = "done" /\ open' = open \ (owned \cup {"page"})
      /\ UNCHANGED <<owned, landed, wall, probes, kept, verdict>>
  BY DEF CloseAll, Goes
<1>2. OpenFits'
  <2>1. CASE open \subseteq owned \cup {"page"}
    BY <1>1, <2>1 DEF OpenFits, NothingLeftOpen, SessionSteps
  <2>2. CASE open = {"browser"} /\ owned = {} /\ verdict = "error"
    BY <1>1, <2>2 DEF OpenFits, NothingLeftOpen, SessionSteps
  <2>3. QED
    BY <1>1, <2>1, <2>2 DEF SessionInv, OpenFits
<1>3. KeptFits'
  BY <1>1 DEF SessionInv, KeptFits, ItemsAreFromTheSite
<1>4. QED
  BY <1>1, <1>2, <1>3 DEF SessionInv, SessionSteps

LEMMA SessionInvNext == SessionInv /\ [SessionNext]_sessionVars => SessionInv'
<1> SUFFICES ASSUME SessionInv, [SessionNext]_sessionVars PROVE SessionInv'
  OBVIOUS
<1>1. CASE UNCHANGED sessionVars
  BY <1>1 DEF sessionVars, SessionInv, OpenFits, NothingLeftOpen, KeptFits, ItemsAreFromTheSite
<1>2. CASE SessionNext
  BY <1>2, OpeningKeeps, ReadingKeeps, ClosingKeeps DEF SessionNext
<1>3. QED
  BY <1>1, <1>2

(***************************************************************************)
(* A call that has returned leaves nothing open but a browser that could   *)
(* not make its context, wherever it failed; and what it kept is of a page *)
(* of the site that no working probe took for a login or a challenge.      *)
(***************************************************************************)
THEOREM SessionsStayClean == SessionSpec => []SessionsAreClean
<1>1. SessionInv => SessionsAreClean
  BY DEF SessionInv, OpenFits, KeptFits, SessionsAreClean
<1>2. QED
  BY <1>1, SessionInvInit, SessionInvNext, PTL DEF SessionSpec

(***************************************************************************)
(* The pages of a partition.  What has been read is a beginning of the     *)
(* provider's listing: a page, an offset or nothing.  What the window has  *)
(* there and the partition lacks is no more than the provider withdrew.    *)
(***************************************************************************)
PagedOnes == {"github_releases", "github_search", "stack_exchange", "huggingface_hub"}

\* How many entries of the listing are read when the cursor is p
ReadAt(p) ==
    IF p = None THEN 0
    ELSE IF source \in PagedOnes THEN (p - 1) * Limit
    ELSE IF source = "users_rust_lang" THEN p * ForumPage
    ELSE p

\* What the window has in the first n entries of the listing and is not stored
Behind(n) ==
    {listing[k] : k \in {m \in DOMAIN listing :
        m <= n /\ Inside(listing[m]) /\ listing[m] \notin collected}}

PagesTyped ==
    /\ source \in SourceKeys /\ when \in [PageItems -> Dates] /\ Once(listing, PageItems)
    /\ place \in Nat \cup {None} /\ progress \in {"pending", "deferred", "completed", "partial"}
    /\ collected \subseteq PageItems
    /\ source \in PagedOnes /\ place # None => place > 0
    /\ etag \in Seq(PageItems) \cup {None} /\ unmodified \in BOOLEAN
ListingFits ==
    /\ Listable(listing)
    /\ ToSet(listing) = listedAll \ lost /\ lost \subseteq listedAll /\ listedAll \subseteq PageItems
    /\ \A i \in PageItems \ listedAll : when[i] = "after"
ReadFits ==
    source \in Listers /\ Waiting => Cardinality(Behind(ReadAt(place))) <= Cardinality(lost)
PagesInv == PagesTyped /\ ListingFits /\ ReadFits /\ LossIsBounded /\ StoredInsideWindow

LEMMA Bounds ==
    /\ Limit \in Nat \ {0} /\ ForumPage \in Nat \ {0} /\ PageCap \in Nat \ {0} /\ OffsetCap \in Nat \ {0}
    /\ None \notin PageItems /\ None \notin Nat /\ IsFiniteSet(PageItems)
<1>1. Catalog \in [1 .. Len(Catalog) -> PageItems] /\ DOMAIN Catalog = 1 .. Len(Catalog) /\ Len(Catalog) \in Nat
  BY PagesConstants
<1>2. IsFiniteSet(1 .. Len(Catalog))
  BY <1>1, FS_Interval
<1>3. \A i \in PageItems : \E k \in 1 .. Len(Catalog) : Catalog[k] = i
  BY <1>1 DEF PageItems, ToSet
<1>4. Catalog \in Surjection(1 .. Len(Catalog), PageItems)
  BY <1>1, <1>3 DEF Surjection
<1>5. IsFiniteSet(PageItems)
  BY <1>2, <1>4, FS_Surjection
<1>6. QED
  BY <1>5, PagesConstants

\* A slice of a sequence has the entries between its bounds.
SliceHas(s, q, a, b) ==
    /\ ToSet(s) \subseteq ToSet(q) /\ Len(s) \in Nat
    /\ \A k \in DOMAIN q : a < k /\ k <= b => q[k] \in ToSet(s)
    /\ \A x \in ToSet(s) : \E k \in DOMAIN q : q[k] = x /\ k <= b
    /\ a <= b => Len(s) <= b - a
    /\ a <= b /\ b <= Len(q) => Len(s) = b - a
    /\ a <= Len(q) /\ Len(q) <= b => Len(s) = Len(q) - a
    /\ Len(s) > 0 => a + 1 \in DOMAIN q /\ s[1] = q[a + 1]

LEMMA Sliced ==
    ASSUME NEW S, NEW q \in Seq(S), NEW a \in Nat, NEW b \in Nat, NEW s, s = Slice(q, a + 1, b)
    PROVE  s \in Seq(S) /\ SliceHas(s, q, a, b)
<1>1. PICK l, e : l = Len(q) /\ e = (IF b < l THEN b ELSE l)
  OBVIOUS
<1>2. l \in Nat /\ l = Len(q) /\ DOMAIN q = 1 .. l /\ \A k \in 1 .. l : q[k] \in S
  BY <1>1
<1>3. /\ e \in Nat /\ e <= l /\ e <= b
      /\ b <= l => e = b
      /\ l <= b => e = l
      /\ \A k \in Nat : k <= l /\ k <= b => k <= e
  BY <1>1, <1>2
<1>4. s = SubSeq(q, a + 1, e)
  BY <1>1 DEF Slice
<1>6. /\ s \in Seq(S) /\ Len(s) = (IF a + 1 <= e THEN e - (a + 1) + 1 ELSE 0)
      /\ \A k \in 1 .. e - (a + 1) + 1 : s[k] = q[a + 1 + k - 1]
  <2>1. \A k \in a + 1 .. e : q[k] \in S
    BY <1>2, <1>3
  <2>2. QED
    BY <1>3, <1>4, <2>1, SubSeqProperties
<1>7. /\ Len(s) \in Nat /\ DOMAIN s = 1 .. Len(s)
      /\ a < e => Len(s) = e - a
      /\ ~(a < e) => Len(s) = 0
      /\ \A k \in 1 .. e - a : s[k] = q[a + k]
  <2>1. DOMAIN s = 1 .. Len(s)
    BY <1>6
  <2>2. (a < e => Len(s) = e - a) /\ (~(a < e) => Len(s) = 0)
    BY <1>3, <1>6
  <2>3. Len(s) \in Nat
    BY <1>3, <2>2
  <2>4. ASSUME NEW k \in 1 .. e - a PROVE s[k] = q[a + k]
    <3>1. k \in 1 .. e - (a + 1) + 1 /\ a + 1 + k - 1 = a + k
      BY <1>3, <2>4
    <3>2. QED
      BY <1>6, <3>1
  <2>5. QED
    BY <2>1, <2>2, <2>3, <2>4
<1>8. ASSUME NEW k \in DOMAIN s PROVE s[k] = q[a + k] /\ a + k \in DOMAIN q /\ a + k <= b
  <2>1. k \in 1 .. Len(s) /\ Len(s) \in Nat
    BY <1>7, <1>8
  <2>2. a < e /\ k \in 1 .. e - a
    BY <1>3, <1>7, <2>1
  <2>3. a + k \in 1 .. l /\ a + k <= b
    BY <1>2, <1>3, <2>2
  <2>4. QED
    BY <1>2, <1>7, <2>2, <2>3
<1>9. ASSUME NEW k \in DOMAIN q, a < k, k <= b PROVE k - a \in DOMAIN s /\ s[k - a] = q[k]
  <2>1. k \in Nat /\ k <= e /\ k - a \in 1 .. e - a /\ a < e /\ a + (k - a) = k
    BY <1>2, <1>3, <1>9
  <2>2. QED
    BY <1>7, <2>1
<1>10. /\ ToSet(s) \subseteq ToSet(q)
       /\ \A x \in ToSet(s) : \E k \in DOMAIN q : q[k] = x /\ k <= b
       /\ \A k \in DOMAIN q : a < k /\ k <= b => q[k] \in ToSet(s)
  <2>1. ASSUME NEW k \in DOMAIN q, a < k, k <= b PROVE q[k] \in ToSet(s)
    BY <1>9, <2>1 DEF ToSet
  <2>2. QED
    BY <1>8, <2>1 DEF ToSet
<1>11. /\ a <= b => Len(s) <= b - a
       /\ a <= b /\ b <= l => Len(s) = b - a
       /\ a <= l /\ l <= b => Len(s) = l - a
  BY <1>2, <1>3, <1>7
<1>12. Len(s) > 0 => a + 1 \in DOMAIN q /\ s[1] = q[a + 1]
  <2>1. Len(s) > 0 => 1 \in DOMAIN s
    BY <1>7
  <2>2. QED
    BY <1>8, <2>1
<1>13. QED
  BY <1>2, <1>6, <1>7, <1>10, <1>11, <1>12 DEF SliceHas

LEMMA PagesBegin ==
    ASSUME NEW n \in Nat \ {0}, NEW l \in Nat
    PROVE  /\ n - 1 \in Nat /\ (n - 1) * l \in Nat /\ n * l \in Nat
           /\ n * l = (n - 1) * l + l /\ (n + 1 - 1) * l = n * l
<1>1. PICK m \in Nat : n = m + 1
  <2>1. n - 1 \in Nat /\ n = (n - 1) + 1
    OBVIOUS
  <2>2. QED
    BY <2>1
<1>2. n - 1 = m /\ n + 1 - 1 = n
  BY <1>1
<1>3. m * l \in Nat /\ n * l \in Nat
  BY <1>1
<1>4. (m + 1) * l = m * l + l
  BY <1>1
<1>5. QED
  BY <1>1, <1>2, <1>3, <1>4

\* What is behind is finite, and lacking from the window is what is behind.
LEMMA BehindIsFinite ==
    ASSUME PagesTyped, NEW S, S \subseteq PageItems
    PROVE  IsFiniteSet(S) /\ Cardinality(S) \in Nat
BY Bounds, FS_Subset, FS_CardinalityType

LEMMA FewerIn ==
    ASSUME NEW S, NEW T, T \subseteq PageItems, S \subseteq T
    PROVE  /\ Cardinality(S) \in Nat /\ Cardinality(T) \in Nat /\ Cardinality(S) <= Cardinality(T)
<1>1. IsFiniteSet(T)
  BY Bounds, FS_Subset
<1>2. IsFiniteSet(S) /\ Cardinality(S) <= Cardinality(T)
  BY <1>1, FS_Subset
<1>3. QED
  BY <1>1, <1>2, FS_CardinalityType

LEMMA ListingFacts ==
    ASSUME PagesTyped
    PROVE  /\ listing \in Seq(PageItems) /\ Len(listing) \in Nat /\ DOMAIN listing = 1 .. Len(listing)
           /\ ToSet(listing) \subseteq PageItems
           /\ \A k \in DOMAIN listing : listing[k] \in ToSet(listing)
           /\ \A n : Behind(n) \subseteq PageItems
<1>1. listing \in Seq(PageItems)
  BY DEF PagesTyped, Once
<1>2. \A k \in DOMAIN listing : listing[k] \in PageItems
  BY <1>1
<1>3. QED
  BY <1>1, <1>2 DEF ToSet, Behind

LEMMA MissedIsBehind ==
    ASSUME PagesTyped, ListingFits, NEW C
    PROVE  {i \in listedAll \ (lost \cup C) : Inside(i)}
               = {listing[k] : k \in {m \in DOMAIN listing :
                     m <= Len(listing) /\ Inside(listing[m]) /\ listing[m] \notin C}}
<1>1. ASSUME NEW i
      PROVE  i \in listedAll \ (lost \cup C) /\ Inside(i)
             <=> \E k \in DOMAIN listing :
                     k <= Len(listing) /\ Inside(listing[k]) /\ listing[k] \notin C /\ i = listing[k]
  <2>1. i \in listedAll \ lost <=> \E k \in DOMAIN listing : listing[k] = i
    BY DEF ListingFits, ToSet
  <2>2. \A k \in DOMAIN listing : k <= Len(listing)
    BY ListingFacts
  <2>3. QED
    BY <2>1, <2>2
<1>2. QED
  BY <1>1

\* A page read on from the place b to the place c leaves no more behind.
LEMMA PageLeavesBehind ==
    ASSUME PagesTyped, NEW b \in Nat, NEW c \in Nat, NEW items,
           listing' = listing, when' = when, collected' = collected \cup items,
           \A k \in DOMAIN listing : b < k /\ k <= c /\ Inside(listing[k]) => listing[k] \in items
    PROVE  Behind(c)' \subseteq Behind(b)
<1>1. ASSUME NEW i \in Behind(c)' PROVE i \in Behind(b)
  <2>1. PICK k \in DOMAIN listing :
            k <= c /\ listing[k] = i /\ Inside(i) /\ i \notin collected /\ i \notin items
    BY <1>1 DEF Behind, Inside
  <2>2. k \in Nat /\ ~(b < k)
    BY <2>1, ListingFacts
  <2>3. k <= b
    BY <2>2
  <2>4. QED
    BY <2>1, <2>3 DEF Behind
<1>2. QED
  BY <1>1

(***************************************************************************)
(* Each collector takes what the window has between its place and the next *)
(* place, or the end.                                                      *)
(***************************************************************************)
Takes(items, n) ==
    \A k \in DOMAIN listing : ReadAt(place) < k /\ k <= n /\ Inside(listing[k]) => listing[k] \in items
Checked(items) ==
    source \in Revalidating =>
        \A i \in items : Inside(i) \/ (source = "github_search" /\ when[i] = "undated")
PageFits(page) ==
    /\ page.items \subseteq PageItems /\ Checked(page.items)
    /\ \/ /\ page.disposition = "continue" /\ page.next \in Nat \ {0}
          /\ source \in Listers => Takes(page.items, ReadAt(page.next))
       \/ /\ page.disposition = "complete" /\ page.next = None
          /\ source \in Listers /\ ~Unmodified => Takes(page.items, Len(listing))
       \/ page.disposition = "partial" /\ page.next = None

LEMMA BuiltIs ==
    ASSUME NEW i, NEW n, NEW d
    PROVE  Built(i, n, d).items = i /\ Built(i, n, d).next = n /\ Built(i, n, d).disposition = d
BY DEF Built

\* The page at the place of a collector that counts pages from one
LEMMA PagedFacts ==
    ASSUME PagesTyped, source \in PagedOnes, NEW p, p = FromPage(1)
    PROVE  /\ p \in Nat \ {0} /\ p + 1 \in Nat \ {0} /\ p * Limit \in Nat
           /\ ReadAt(place) = (p - 1) * Limit /\ ReadAt(p + 1) = p * Limit /\ ReadAt(place) \in Nat
           /\ p * Limit = ReadAt(place) + Limit
           /\ PageOf(p, Limit) \in Seq(PageItems) /\ ToSet(PageOf(p, Limit)) \subseteq PageItems
           /\ \A k \in DOMAIN listing :
                  ReadAt(place) < k /\ k <= p * Limit => listing[k] \in ToSet(PageOf(p, Limit))
           /\ \A i \in ToSet(PageOf(p, Limit)) : \E k \in DOMAIN listing : listing[k] = i /\ k <= p * Limit
           /\ p * Limit < Len(listing) => Len(PageOf(p, Limit)) = Limit
           /\ Len(PageOf(p, Limit)) < Limit => Len(listing) < p * Limit
           /\ Len(PageOf(p, Limit)) > 0 =>
                  /\ ReadAt(place) + 1 \in DOMAIN listing
                  /\ PageOf(p, Limit)[1] = listing[ReadAt(place) + 1]
<1>1. p \in Nat \ {0} /\ p # None /\ p + 1 \in Nat \ {0} /\ p + 1 # None
  BY Bounds DEF PagesTyped, FromPage
<1>2. PICK a \in Nat, b \in Nat : a = (p - 1) * Limit /\ b = p * Limit /\ b = a + Limit /\ (p + 1 - 1) * Limit = b
  BY <1>1, Bounds, PagesBegin
<1>3. ReadAt(place) = a
  <2>1. CASE place = None
    <3>1. p = 1 /\ p - 1 = 0
      BY <2>1 DEF FromPage
    <3>2. a = 0
      BY <1>2, <3>1, Bounds
    <3>3. QED
      BY <2>1, <3>2 DEF ReadAt
  <2>2. CASE place # None
    BY <1>2, <2>2 DEF ReadAt, FromPage
  <2>3. QED
    BY <2>1, <2>2
<1>4. ReadAt(p + 1) = b
  BY <1>1, <1>2 DEF ReadAt
<1>5. PICK s, l : s = PageOf(p, Limit) /\ l = Len(listing) /\ l \in Nat
  BY ListingFacts
<1>6. s = Slice(listing, a + 1, b)
  BY <1>2, <1>5 DEF PageOf
<1>7. /\ s \in Seq(PageItems) /\ ToSet(s) \subseteq ToSet(listing) /\ Len(s) \in Nat
      /\ \A k \in DOMAIN listing : a < k /\ k <= b => listing[k] \in ToSet(s)
      /\ \A i \in ToSet(s) : \E k \in DOMAIN listing : listing[k] = i /\ k <= b
      /\ a <= b /\ b <= l => Len(s) = b - a
      /\ a <= l /\ l <= b => Len(s) = l - a
      /\ Len(s) > 0 => a + 1 \in DOMAIN listing /\ s[1] = listing[a + 1]
  <2>1. /\ listing \in Seq(PageItems) /\ a \in Nat /\ b \in Nat
    BY <1>2, ListingFacts
  <2>2. s \in Seq(PageItems) /\ SliceHas(s, listing, a, b)
    BY <1>6, <2>1, Sliced
  <2>3. QED
    BY <1>5, <2>2 DEF SliceHas
<1>8. b < l => Len(s) = Limit
  BY <1>2, <1>5, <1>7, Bounds
<1>9. Len(s) < Limit => l < b
  BY <1>2, <1>5, <1>7, Bounds
<1>10. ToSet(s) \subseteq PageItems
  BY <1>7, ListingFacts
<1>11. QED
  BY <1>1, <1>2, <1>3, <1>4, <1>5, <1>7, <1>8, <1>9, <1>10

LEMMA WindowOf ==
    ASSUME NEW q
    PROVE  /\ InWindow(q) \subseteq ToSet(q) /\ \A i \in InWindow(q) : Inside(i)
           /\ \A i \in ToSet(q) : Inside(i) => i \in InWindow(q)
BY DEF InWindow

\* What comes in the order of its date after an entry older than the window
\* is not in the window.
LEMMA OlderEnds ==
    ASSUME PagesTyped, ListingFits, source = "github_releases",
           NEW j \in DOMAIN listing, when[listing[j]] = "before", NEW k \in DOMAIN listing, j <= k
    PROVE  ~Inside(listing[k])
<1>1. j = k \/ j < k
  BY ListingFacts
<1>2. CASE j = k
  BY <1>2 DEF Inside
<1>3. CASE j < k
  <2>1. SUFFICES ASSUME when[listing[k]] = "in" PROVE FALSE
    BY DEF Inside
  <2>2. NewestFirst(listing)
    BY DEF ListingFits, Listable, ByDate
  <2>3. Age[when[listing[j]]] <= Age[when[listing[k]]]
    BY <1>3, <2>1, <2>2 DEF NewestFirst
  <2>4. QED
    BY <2>1, <2>3 DEF Age
<1>4. QED
  BY <1>1, <1>2, <1>3

LEMMA ReleasesFit ==
    ASSUME PagesTyped, ListingFits, source = "github_releases"
    PROVE  PageFits(ReleasesPage)
<1>1. PICK p, s : p = FromPage(1) /\ s = PageOf(p, Limit)
  OBVIOUS
<1>2. PICK b : b = p * Limit
  OBVIOUS
<1>3. /\ p + 1 \in Nat \ {0} /\ b \in Nat /\ ReadAt(p + 1) = b /\ ToSet(s) \subseteq PageItems
      /\ \A k \in DOMAIN listing : ReadAt(place) < k /\ k <= b => listing[k] \in ToSet(s)
      /\ \A i \in ToSet(s) : \E k \in DOMAIN listing : listing[k] = i /\ k <= b
  BY <1>1, <1>2, PagedFacts DEF PagedOnes
<1>4. EndOfFeed = "complete"
  BY DEF EndOfFeed, NoHistory, HistoryMode, Filtered
<1>5. \E more \in BOOLEAN :
          /\ b < Len(listing) => more
          /\ ReleasesPage = IF Unmodified THEN Built({}, None, "complete")
                            ELSE IF ~(\E i \in ToSet(s) : when[i] = "before") /\ more
                            THEN Built(InWindow(s), p + 1, "continue")
                            ELSE Built(InWindow(s), None, "complete")
  <2>1. PICK more \in BOOLEAN : more = (b < Len(listing) \/ (p = 1 /\ Len(s) = Limit))
    OBVIOUS
  <2>2. WITNESS more \in BOOLEAN
  <2>3. QED
    BY <1>1, <1>2, <1>4, <2>1 DEF ReleasesPage
<1>6. Takes(InWindow(s), b)
  BY <1>3, WindowOf DEF Takes
<1>7. ASSUME (\E i \in ToSet(s) : when[i] = "before") \/ ~(b < Len(listing))
      PROVE  Takes(InWindow(s), Len(listing))
  <2>1. ASSUME NEW k \in DOMAIN listing, ReadAt(place) < k, Inside(listing[k])
        PROVE  listing[k] \in InWindow(s)
    <3>1. CASE k <= b
      BY <1>6, <2>1, <3>1 DEF Takes
    <3>2. CASE ~(k <= b)
      <4>1. k \in Nat /\ k <= Len(listing) /\ Len(listing) \in Nat
        BY ListingFacts
      <4>2. b < Len(listing)
        BY <1>3, <3>2, <4>1
      <4>3. PICK i \in ToSet(s) : when[i] = "before"
        BY <1>7, <4>2
      <4>4. PICK j \in DOMAIN listing : listing[j] = i /\ j <= b
        BY <1>3, <4>3
      <4>5. j <= k
        BY <1>3, <3>2, <4>1, <4>4, ListingFacts
      <4>6. QED
        BY <2>1, <4>3, <4>4, <4>5, OlderEnds
    <3>3. QED
      BY <3>1, <3>2
  <2>2. QED
    BY <2>1 DEF Takes
<1>8. InWindow(s) \subseteq PageItems /\ Checked(InWindow(s)) /\ Checked({})
  BY <1>3, WindowOf DEF Checked
<1>9. PICK more \in BOOLEAN :
          /\ b < Len(listing) => more
          /\ ReleasesPage = IF Unmodified THEN Built({}, None, "complete")
                            ELSE IF ~(\E i \in ToSet(s) : when[i] = "before") /\ more
                            THEN Built(InWindow(s), p + 1, "continue")
                            ELSE Built(InWindow(s), None, "complete")
  BY <1>5
<1>10. CASE Unmodified
  BY <1>8, <1>9, <1>10, BuiltIs DEF PageFits
<1>11. CASE ~Unmodified
  BY <1>3, <1>6, <1>7, <1>8, <1>9, <1>11, BuiltIs DEF PageFits
<1>12. QED
  BY <1>10, <1>11

LEMMA SearchFits ==
    ASSUME PagesTyped, source = "github_search"
    PROVE  PageFits(SearchPage)
<1>1. PICK p, s, b : p = FromPage(1) /\ s = PageOf(p, Limit) /\ b = p * Limit
  OBVIOUS
<1>2. /\ p + 1 \in Nat \ {0} /\ p \in Nat /\ b \in Nat /\ ReadAt(p + 1) = b /\ ToSet(s) \subseteq PageItems
      /\ \A k \in DOMAIN listing : ReadAt(place) < k /\ k <= b => listing[k] \in ToSet(s)
      /\ b < Len(listing) => Len(s) = Limit
  BY <1>1, PagedFacts DEF PagedOnes
<1>3. PICK items : items = {i \in ToSet(s) : when[i] \in {"in", "undated"}}
  OBVIOUS
<1>4. SearchPage = IF p < PageCap /\ b < Len(listing) /\ Len(s) = Limit
                   THEN Built(items, p + 1, "continue")
                   ELSE Built(items, None, IF p >= PageCap /\ b < Len(listing) THEN "partial" ELSE "complete")
  BY <1>1, <1>3 DEF SearchPage
<1>5. items \subseteq PageItems /\ Checked(items)
  BY <1>2, <1>3 DEF Checked, Inside
<1>6. Takes(items, b)
  BY <1>2, <1>3 DEF Takes, Inside
<1>7. ASSUME ~(b < Len(listing)) PROVE Takes(items, Len(listing))
  BY <1>2, <1>6, <1>7, ListingFacts DEF Takes
<1>8. p < PageCap \/ p >= PageCap
  BY <1>2, Bounds
<1>9. QED
  BY <1>2, <1>4, <1>5, <1>6, <1>7, <1>8, BuiltIs DEF PageFits

LEMMA StackFits ==
    ASSUME PagesTyped, source = "stack_exchange"
    PROVE  PageFits(StackExchangePage)
<1>1. PICK p, s, b : p = FromPage(1) /\ s = PageOf(p, Limit) /\ b = p * Limit
  OBVIOUS
<1>2. /\ p + 1 \in Nat \ {0} /\ b \in Nat /\ ReadAt(p + 1) = b /\ ToSet(s) \subseteq PageItems
      /\ \A k \in DOMAIN listing : ReadAt(place) < k /\ k <= b => listing[k] \in ToSet(s)
  BY <1>1, PagedFacts DEF PagedOnes
<1>3. StackExchangePage = IF b < Len(listing) THEN Built(InWindow(s), p + 1, "continue")
                          ELSE Built(InWindow(s), None, "complete")
  BY <1>1 DEF StackExchangePage
<1>4. InWindow(s) \subseteq PageItems /\ Checked(InWindow(s)) /\ Takes(InWindow(s), b)
  BY <1>2, WindowOf DEF Checked, Takes
<1>5. ASSUME ~(b < Len(listing)) PROVE Takes(InWindow(s), Len(listing))
  BY <1>2, <1>4, <1>5, ListingFacts DEF Takes
<1>6. QED
  BY <1>2, <1>3, <1>4, <1>5, BuiltIs DEF PageFits

LEMMA ModelsFit ==
    ASSUME PagesTyped, source = "huggingface_hub"
    PROVE  PageFits(ModelsPage)
<1>1. PICK p, s, b : p = FromPage(1) /\ s = PageOf(p, Limit) /\ b = p * Limit
  OBVIOUS
<1>2. /\ p + 1 \in Nat \ {0} /\ b \in Nat /\ ReadAt(p + 1) = b /\ ToSet(s) \subseteq PageItems
      /\ \A k \in DOMAIN listing : ReadAt(place) < k /\ k <= b => listing[k] \in ToSet(s)
      /\ Len(s) < Limit => Len(listing) < b
      /\ s \in Seq(PageItems)
  BY <1>1, PagedFacts DEF PagedOnes
<1>3. ModelsPage = IF Len(s) >= Limit THEN Built(ToSet(s), p + 1, "continue")
                   ELSE Built(ToSet(s), None, "complete")
  BY <1>1 DEF ModelsPage, ModelsListing
<1>4. Takes(ToSet(s), b) /\ Checked(ToSet(s))
  BY <1>2 DEF Takes, Checked, Revalidating
<1>5. ASSUME ~(Len(s) >= Limit) PROVE Takes(ToSet(s), Len(listing))
  <2>1. Len(s) \in Nat
    BY <1>2
  <2>2. Len(listing) < b
    BY <1>2, <1>5, <2>1, Bounds
  <2>3. QED
    BY <1>2, <1>4, <2>2, ListingFacts DEF Takes
<1>6. QED
  BY <1>2, <1>3, <1>4, <1>5, BuiltIs DEF PageFits

LEMMA ArxivFits ==
    ASSUME PagesTyped, source = "arxiv"
    PROVE  PageFits(ArxivPage)
<1>1. PICK a, s, n, l : a = FromPage(0) /\ s = Slice(listing, a + 1, a + Limit) /\ n = a + Len(s) /\ l = Len(listing)
  OBVIOUS
<1>2. a \in Nat /\ a + Limit \in Nat /\ l \in Nat /\ a # None
  BY <1>1, Bounds, ListingFacts DEF PagesTyped, FromPage
<1>3. ReadAt(place) = a
  BY <1>1 DEF ReadAt, FromPage, PagedOnes
<1>4. PICK b : b = a + Limit
  OBVIOUS
<1>5. listing \in Seq(PageItems) /\ b \in Nat /\ a < b /\ s = Slice(listing, a + 1, b)
  BY <1>1, <1>2, <1>4, Bounds, ListingFacts
<1>6. s \in Seq(PageItems) /\ SliceHas(s, listing, a, b)
  BY <1>2, <1>5, Sliced
<1>7. /\ ToSet(s) \subseteq PageItems /\ Len(s) \in Nat /\ n \in Nat
      /\ \A k \in DOMAIN listing : a < k /\ k <= b => listing[k] \in ToSet(s)
      /\ b <= l => n = b
      /\ a <= l /\ l <= b => n = l
  <2>1. ToSet(s) \subseteq ToSet(listing) /\ ToSet(listing) \subseteq PageItems
    BY <1>6, ListingFacts DEF SliceHas
  <2>2. Len(s) \in Nat /\ (b <= l => Len(s) = b - a) /\ (a <= l /\ l <= b => Len(s) = l - a)
    BY <1>1, <1>2, <1>5, <1>6 DEF SliceHas
  <2>3. n \in Nat /\ (b <= l => n = b) /\ (a <= l /\ l <= b => n = l)
    BY <1>1, <1>2, <1>5, <2>2
  <2>4. \A k \in DOMAIN listing : a < k /\ k <= b => listing[k] \in ToSet(s)
    BY <1>6 DEF SliceHas
  <2>5. QED
    BY <2>1, <2>2, <2>3, <2>4
<1>8. ArxivPage = IF (n < l /\ s # <<>>) /\ n < OffsetCap
                  THEN Built(InWindow(s), n, "continue")
                  ELSE Built(InWindow(s), None, IF n < l /\ s # <<>> THEN "partial" ELSE "complete")
  BY <1>1 DEF ArxivPage
<1>9. s # <<>> <=> Len(s) > 0
  BY <1>6
<1>10. Takes(InWindow(s), b)
  BY <1>3, <1>7, WindowOf DEF Takes
<1>11. ASSUME n < l, s # <<>> PROVE n = b /\ n \in Nat \ {0} /\ ReadAt(n) = n
  <2>1. n > a
    BY <1>1, <1>2, <1>7, <1>9, <1>11
  <2>2. n = b
    BY <1>2, <1>5, <1>7, <1>11, <2>1
  <2>3. n \in Nat \ {0} /\ n # None
    BY <1>2, <1>5, <2>2, Bounds
  <2>4. QED
    BY <2>2, <2>3 DEF ReadAt, PagedOnes
<1>12. ASSUME ~(n < l /\ s # <<>>) PROVE Takes(InWindow(s), l)
  <2>1. l <= b
    <3>1. SUFFICES ASSUME b < l PROVE FALSE
      BY <1>2, <1>5
    <3>2. n = b /\ Len(s) > 0
      BY <1>1, <1>2, <1>5, <1>7, <3>1
    <3>3. QED
      BY <1>9, <1>12, <3>1, <3>2
  <2>2. \A k \in DOMAIN listing : k <= b
    BY <1>1, <1>2, <1>5, <2>1, ListingFacts
  <2>3. QED
    BY <1>10, <2>2 DEF Takes
<1>13. InWindow(s) \subseteq PageItems /\ Checked(InWindow(s))
  BY <1>7, WindowOf DEF Checked
<1>14. QED
  BY <1>1, <1>8, <1>10, <1>11, <1>12, <1>13, BuiltIs DEF PageFits

\* A page of the forum is no longer than what a request may take.
LEMMA TopicsAreTaken ==
    ASSUME NEW s \in Seq(PageItems), Len(s) <= Limit
    PROVE  /\ ForumTopics(s) \subseteq ToSet(s)
           /\ \A i \in ToSet(s) : Inside(i) => i \in ForumTopics(s)
<1> DEFINE Wanted(n) == when[s[n]] \in {"in", "atEnd"}
           Before(m) == {j \in 1 .. m : Wanted(j)}
<1>1. DOMAIN s = 1 .. Len(s) /\ Len(s) \in Nat
  OBVIOUS
<1>2. ASSUME NEW m \in DOMAIN s PROVE Cardinality(Before(m)) <= Limit
  <2>1. m \in Nat /\ m <= Limit /\ m >= 1
    BY <1>1, <1>2, Bounds
  <2>2. IsFiniteSet(1 .. m) /\ Cardinality(1 .. m) = m
    BY <2>1, FS_Interval
  <2>3. Before(m) \in SUBSET (1 .. m)
    OBVIOUS
  <2>4. Cardinality(Before(m)) <= m /\ IsFiniteSet(Before(m))
    BY <2>2, <2>3, FS_Subset
  <2>5. Cardinality(Before(m)) \in Nat
    BY <2>4, FS_CardinalityType
  <2>6. QED
    BY <2>1, <2>4, <2>5, Bounds
<1>3. ForumTopics(s) = {s[n] : n \in {m \in DOMAIN s : Wanted(m) /\ Cardinality(Before(m)) <= Limit}}
  BY DEF ForumTopics
<1> HIDE DEF Before
<1>4. ForumTopics(s) = {s[n] : n \in {m \in DOMAIN s : Wanted(m)}}
  BY <1>2, <1>3
<1>5. QED
  BY <1>4 DEF ToSet, Inside

LEMMA ForumFits ==
    ASSUME PagesTyped, source = "users_rust_lang", ForumPage <= Limit
    PROVE  PageFits(ForumListing)
<1>1. PICK p, s, a, b, l : /\ p = FromPage(0) /\ s = PageOf(p + 1, ForumPage) /\ l = Len(listing)
                           /\ a = p * ForumPage /\ b = (p + 1) * ForumPage
  OBVIOUS
<1>2. p \in Nat /\ p + 1 \in Nat \ {0} /\ p + 1 - 1 = p /\ p # None /\ p + 1 # None /\ l \in Nat
  BY <1>1, Bounds, ListingFacts DEF PagesTyped, FromPage
<1>3. a \in Nat /\ b \in Nat /\ b = a + ForumPage /\ a < b
  <2>1. (p + 1) * ForumPage = (p + 1 - 1) * ForumPage + ForumPage /\ (p + 1 - 1) * ForumPage \in Nat
    BY <1>2, Bounds, PagesBegin
  <2>2. a \in Nat /\ b = a + ForumPage
    BY <1>1, <1>2, <2>1
  <2>3. QED
    BY <2>2, Bounds
<1>4. ReadAt(place) = a
  <2>1. CASE place = None
    <3>1. p = 0 /\ ForumPage \in Nat
      BY <1>1, <2>1, Bounds DEF FromPage
    <3>2. a = 0
      BY <1>1, <3>1
    <3>3. QED
      BY <2>1, <3>2 DEF ReadAt
  <2>2. CASE place # None
    BY <1>1, <2>2 DEF ReadAt, FromPage, PagedOnes
  <2>3. QED
    BY <2>1, <2>2
<1>5. ReadAt(p + 1) = b
  BY <1>1, <1>2 DEF ReadAt, PagedOnes
<1>6. s = Slice(listing, a + 1, b) /\ listing \in Seq(PageItems)
  BY <1>1, <1>2, ListingFacts DEF PageOf
<1>7. s \in Seq(PageItems) /\ SliceHas(s, listing, a, b)
  BY <1>3, <1>6, Sliced
<1>8. Len(s) \in Nat /\ Len(s) <= Limit
  <2>1. Len(s) \in Nat /\ (a <= b => Len(s) <= b - a)
    BY <1>7 DEF SliceHas
  <2>2. QED
    BY <1>3, <2>1, Bounds
<1>9. PICK items : items = ForumTopics(s)
  OBVIOUS
<1>10. items \subseteq ToSet(s) /\ \A i \in ToSet(s) : Inside(i) => i \in items
  BY <1>7, <1>8, <1>9, TopicsAreTaken
<1>11. ForumListing = IF b < l /\ s # <<>> THEN Built(items, p + 1, "continue")
                      ELSE Built(items, None, EndOfFeed)
  BY <1>1, <1>9 DEF ForumListing
<1>12. EndOfFeed \in {"partial", "complete"}
  BY DEF EndOfFeed
<1>13. items \subseteq PageItems /\ Checked(items)
  <2>1. ToSet(s) \subseteq PageItems
    BY <1>7, ListingFacts DEF SliceHas
  <2>2. QED
    BY <1>10, <2>1 DEF Checked, Revalidating
<1>14. Takes(items, b)
  BY <1>4, <1>7, <1>10 DEF Takes, SliceHas
<1>15. ASSUME ~(b < l /\ s # <<>>) PROVE Takes(items, l)
  <2>1. l <= b
    <3>1. SUFFICES ASSUME b < l PROVE FALSE
      BY <1>2, <1>3
    <3>2. Len(s) = b - a
      BY <1>1, <1>2, <1>3, <1>7, <3>1 DEF SliceHas
    <3>3. s # <<>>
      BY <1>3, <1>7, <3>2
    <3>4. QED
      BY <1>15, <3>1, <3>3
  <2>2. \A k \in DOMAIN listing : k <= b
    BY <1>1, <1>2, <1>3, <2>1, ListingFacts
  <2>3. QED
    BY <1>14, <2>2 DEF Takes
<1>16. QED
  BY <1>1, <1>2, <1>5, <1>11, <1>12, <1>13, <1>14, <1>15, BuiltIs DEF PageFits

LEMMA DownloadsFit ==
    ASSUME PagesTyped, source = "npm_downloads"
    PROVE  PageFits(DownloadsPage)
<1>1. InWindow(listing) \subseteq PageItems /\ Checked(InWindow(listing))
  BY WindowOf, ListingFacts DEF Checked
<1>2. Takes(InWindow(listing), Len(listing))
  BY WindowOf, ListingFacts DEF Takes
<1>3. QED
  BY <1>1, <1>2, BuiltIs DEF PageFits, DownloadsPage

\* What pages nothing takes one page, or none, and ends.
LEMMA OthersFit ==
    ASSUME PagesTyped, source \notin Listers
    PROVE  PageFits(RegistryPage) /\ PageFits(ArticlePage) /\ PageFits(BrowserPage)
<1>1. ASSUME NEW n \in Nat \ {0} PROVE ToSet(PageOf(1, n)) \subseteq PageItems
  <2>1. (1 - 1) * n = 0 /\ 1 * n = n /\ 0 \in Nat
    OBVIOUS
  <2>2. PICK s : s = PageOf(1, n)
    OBVIOUS
  <2>3. s = Slice(listing, 0 + 1, n) /\ listing \in Seq(PageItems)
    BY <2>1, <2>2, ListingFacts DEF PageOf
  <2>4. SliceHas(s, listing, 0, n)
    BY <2>1, <2>3, Sliced
  <2>5. QED
    BY <2>2, <2>4, ListingFacts DEF SliceHas
<1>2. ToSet(PageOf(1, 1)) \subseteq PageItems /\ Articles \subseteq PageItems
  BY <1>1, Bounds DEF Articles
<1>3. EndOfFeed \in {"partial", "complete"}
  BY DEF EndOfFeed
<1>4. \A items : Checked(items)
  BY DEF Checked, Revalidating
<1>5. ASSUME NEW items, items \subseteq PageItems PROVE PageFits(Built(items, None, EndOfFeed))
  BY <1>3, <1>4, <1>5, BuiltIs DEF PageFits
<1>6. QED
  BY <1>2, <1>5 DEF RegistryPage, ArticlePage, BrowserPage

LEMMA ServedFits ==
    ASSUME PagesTyped, ListingFits, ForumPage <= Limit
    PROVE  PageFits(Served)
<1>1. CASE source \in Listers
  <2>1. \/ source = "github_releases" /\ Served = ReleasesPage
        \/ source = "github_search" /\ Served = SearchPage
        \/ source = "arxiv" /\ Served = ArxivPage
        \/ source = "stack_exchange" /\ Served = StackExchangePage
        \/ source = "users_rust_lang" /\ Served = ForumListing
        \/ source = "huggingface_hub" /\ Served = ModelsPage
        \/ source = "npm_downloads" /\ Served = DownloadsPage
    BY <1>1 DEF Listers, Served
  <2>2. QED
    BY <2>1, ReleasesFit, SearchFits, ArxivFits, StackFits, ForumFits, ModelsFit, DownloadsFit
<1>2. CASE source \notin Listers
  <2>1. Served \in {RegistryPage, ArticlePage, BrowserPage}
    BY <1>2 DEF Listers, Served
  <2>2. QED
    BY <1>2, <2>1, OthersFit
<1>3. QED
  BY <1>1, <1>2

(***************************************************************************)
(* The steps.                                                              *)
(***************************************************************************)
LEMMA ReadIsNat ==
    ASSUME NEW p \in Nat \cup {None}, source \in PagedOnes /\ p # None => p > 0
    PROVE  ReadAt(p) \in Nat
<1>1. CASE p = None
  BY <1>1 DEF ReadAt
<1>2. CASE p # None /\ source \in PagedOnes
  <2>1. p \in Nat \ {0}
    BY <1>2
  <2>2. (p - 1) * Limit \in Nat
    BY <2>1, Bounds, PagesBegin
  <2>3. QED
    BY <1>2, <2>2 DEF ReadAt
<1>3. CASE p # None /\ source \notin PagedOnes
  <2>1. p * ForumPage \in Nat
    BY <1>3, Bounds
  <2>2. QED
    BY <1>3, <2>1 DEF ReadAt
<1>4. QED
  BY <1>1, <1>2, <1>3

LEMMA ValidatorsTyped ==
    ASSUME PagesTyped, NEW page
    PROVE  Validators(page) \subseteq Seq(PageItems) \cup {None}
<1>1. CASE source = "github_releases"
  <2>1. PageOf(FromPage(1), Limit) \in Seq(PageItems)
    BY <1>1, PagedFacts DEF PagedOnes
  <2>2. QED
    BY <2>1 DEF Validators
<1>2. CASE source # "github_releases"
  BY <1>2 DEF Validators
<1>3. QED
  BY <1>1, <1>2

\* An error leaves the partition where it is.
LEMMA FailKeepsPages ==
    ASSUME PagesInv, Waiting, Fail, UNCHANGED <<source, mode, when, listing, listedAll, lost>>,
           unmodified' \in BOOLEAN
    PROVE  PagesInv'
<1>1. /\ progress' = "deferred"
      /\ UNCHANGED <<source, mode, when, listing, listedAll, lost, collected, place, etag>>
      /\ unmodified' \in BOOLEAN
  BY DEF Fail
<1>2. PagesTyped'
  BY <1>1 DEF PagesInv, PagesTyped
<1>3. ListingFits'
  BY <1>1 DEF PagesInv, ListingFits, Listable, NewestFirst
<1>4. ReadFits'
  <2>1. Behind(ReadAt(place))' = Behind(ReadAt(place))
    BY <1>1 DEF Behind, ReadAt, Inside
  <2>2. QED
    BY <1>1, <2>1 DEF PagesInv, ReadFits
<1>5. LossIsBounded' /\ StoredInsideWindow'
  BY <1>1 DEF PagesInv, LossIsBounded, StoredInsideWindow, Inside
<1>6. QED
  BY <1>2, <1>3, <1>4, <1>5 DEF PagesInv

\* Nothing is behind a partition that begins again.
LEMMA BeginsAgain ==
    ASSUME PagesInv, Waiting, Commit(Built({}, None, "deferred")),
           UNCHANGED <<source, mode, when, listing, listedAll, lost>>, unmodified' \in BOOLEAN
    PROVE  PagesInv'
<1>1. /\ progress' = "deferred" /\ place' = None /\ collected' = collected /\ etag' = None
      /\ UNCHANGED <<source, mode, when, listing, listedAll, lost>> /\ unmodified' \in BOOLEAN
  BY BuiltIs DEF Commit, StateAfter, Validators
<1>2. PagesTyped'
  BY <1>1 DEF PagesInv, PagesTyped
<1>3. ListingFits'
  BY <1>1 DEF PagesInv, ListingFits, Listable, NewestFirst
<1>4. ReadFits'
  <2>1. ReadAt(place)' = 0
    BY <1>1 DEF ReadAt
  <2>2. Behind(0)' = {}
    <3>1. \A k \in DOMAIN listing : ~(k <= 0)
      BY ListingFacts DEF PagesInv
    <3>2. QED
      BY <1>1, <3>1 DEF Behind
  <2>3. Cardinality({}) = 0 /\ Cardinality(lost) \in Nat
    <3>1. lost \subseteq PageItems
      BY DEF PagesInv, ListingFits
    <3>2. QED
      BY <3>1, FS_EmptySet, BehindIsFinite DEF PagesInv
  <2>4. QED
    BY <1>1, <2>1, <2>2, <2>3 DEF ReadFits
<1>5. LossIsBounded' /\ StoredInsideWindow'
  BY <1>1 DEF PagesInv, LossIsBounded, StoredInsideWindow, Inside
<1>6. QED
  BY <1>2, <1>3, <1>4, <1>5 DEF PagesInv

\* A page that fits is committed.
LEMMA CommitKeepsPages ==
    ASSUME PagesInv, Waiting, NEW page, PageFits(page), Commit(page),
           UNCHANGED <<source, mode, when, listing, listedAll, lost>>,
           unmodified' \in BOOLEAN, source \in Listers => unmodified' = Unmodified
    PROVE  PagesInv'
<1>1. /\ progress' = StateAfter[page.disposition] /\ place' = page.next
      /\ collected' = collected \cup page.items
      /\ UNCHANGED <<source, mode, when, listing, listedAll, lost>>
  BY DEF Commit
<1>2. /\ page.disposition = "continue" => progress' = "pending"
      /\ page.disposition = "complete" => progress' = "completed"
      /\ page.disposition = "partial" => progress' = "partial"
      /\ page.disposition \in {"continue", "complete", "partial"}
      /\ page.items \subseteq PageItems /\ page.next \in Nat \cup {None}
      /\ page.next # None => page.next > 0
  BY <1>1 DEF PageFits, StateAfter
<1>3. PagesTyped'
  <2>1. UNCHANGED <<source, when, listing>> /\ place' \in Nat \cup {None}
    BY <1>1, <1>2
  <2>2. progress' \in {"pending", "deferred", "completed", "partial"} /\ collected' \subseteq PageItems
    BY <1>1, <1>2 DEF PagesInv, PagesTyped
  <2>3. etag' \in Seq(PageItems) \cup {None}
    BY ValidatorsTyped DEF PagesInv, Commit
  <2>4. QED
    BY <1>1, <1>2, <2>1, <2>2, <2>3 DEF PagesInv, PagesTyped
<1>4. ListingFits'
  BY <1>1 DEF PagesInv, ListingFits, Listable, NewestFirst
<1>5. PICK b : b = ReadAt(place) /\ b \in Nat
  BY ReadIsNat DEF PagesInv, PagesTyped
<1>6. ASSUME NEW c \in Nat, Takes(page.items, c), source \in Listers
      PROVE  Cardinality(Behind(c)') \in Nat /\ Cardinality(Behind(c)') <= Cardinality(lost)
  <2>1. Behind(c)' \subseteq Behind(b)
    BY <1>1, <1>5, <1>6, PageLeavesBehind DEF PagesInv, Takes
  <2>2. Behind(b) \subseteq PageItems /\ lost \subseteq PageItems
    BY ListingFacts DEF PagesInv, ListingFits
  <2>3. Cardinality(Behind(b)) <= Cardinality(lost)
    BY <1>5, <1>6 DEF PagesInv, ReadFits
  <2>4. /\ Cardinality(Behind(c)') \in Nat /\ Cardinality(Behind(b)) \in Nat /\ Cardinality(lost) \in Nat
        /\ Cardinality(Behind(c)') <= Cardinality(Behind(b))
    BY <2>1, <2>2, FewerIn
  <2>5. QED
    BY <2>3, <2>4
<1>7. ReadFits'
  <2>1. SUFFICES ASSUME source \in Listers, page.disposition = "continue"
                 PROVE  (Cardinality(Behind(ReadAt(place))) <= Cardinality(lost))'
    BY <1>1, <1>2 DEF ReadFits, Waiting
  <2>2. PICK c : c = ReadAt(page.next) /\ c \in Nat
    BY <1>2, ReadIsNat DEF PageFits
  <2>3. Takes(page.items, c)
    BY <2>1, <2>2 DEF PageFits
  <2>4. ReadAt(place)' = c
    BY <1>1, <2>2 DEF ReadAt
  <2>5. Behind(ReadAt(place))' = Behind(c)'
    BY <2>4 DEF Behind
  <2>6. QED
    BY <1>1, <1>6, <2>1, <2>2, <2>3, <2>5
<1>8. LossIsBounded'
  <2>1. SUFFICES ASSUME source \in Listers, page.disposition = "complete", ~Unmodified
                 PROVE  (Cardinality({i \in listedAll \ (lost \cup collected) : Inside(i)}) <= Cardinality(lost))'
    BY <1>1, <1>2 DEF LossIsBounded
  <2>2. PICK l : l = Len(listing) /\ l \in Nat
    BY ListingFacts DEF PagesInv
  <2>3. Takes(page.items, l)
    BY <2>1, <2>2 DEF PageFits
  <2>4. PICK C : C = collected'
    OBVIOUS
  <2>5. {i \in listedAll \ (lost \cup C) : Inside(i)}
            = {listing[k] : k \in {m \in DOMAIN listing :
                  m <= Len(listing) /\ Inside(listing[m]) /\ listing[m] \notin C}}
    BY MissedIsBehind DEF PagesInv
  <2>6. {i \in listedAll \ (lost \cup collected) : Inside(i)}' = Behind(l)'
    BY <1>1, <2>2, <2>4, <2>5 DEF Behind, Inside
  <2>7. QED
    BY <1>1, <1>6, <2>1, <2>2, <2>3, <2>6
<1>9. StoredInsideWindow'
  BY <1>1 DEF PagesInv, StoredInsideWindow, PageFits, Checked, Inside
<1>10. QED
  BY <1>3, <1>4, <1>7, <1>8, <1>9 DEF PagesInv

LEMMA CollectKeeps ==
    ASSUME PagesInv, ForumPage <= Limit, CollectPage
    PROVE  PagesInv'
<1>1. /\ Waiting /\ UNCHANGED <<source, mode, when, listing, listedAll, lost>>
      /\ unmodified' = Unmodified /\ unmodified' \in BOOLEAN
  BY DEF CollectPage, Unmodified
<1>2. PICK page : page = Served /\ PageFits(page)
  BY ServedFits DEF PagesInv
<1>3. Fail \/ Commit(page)
  BY <1>2 DEF CollectPage
<1>4. QED
  BY <1>1, <1>2, <1>3, FailKeepsPages, CommitKeepsPages

\* A refused or failed request is deferred, or its page is an empty one of a
\* browser collector.
LEMMA RefusalKeeps ==
    ASSUME PagesInv, RateLimited \/ RequestFails
    PROVE  PagesInv'
<1>1. /\ Waiting /\ UNCHANGED <<source, mode, when, listing, listedAll, lost>>
      /\ unmodified' \in BOOLEAN
  BY DEF RateLimited, RequestFails, Refuse, PagesInv, PagesTyped
<1>2. \/ Fail \/ Commit(Built({}, None, "deferred"))
      \/ source \in {"reddit", "chrome_origin_trials"} /\ Commit(BrowserPage)
  BY DEF RateLimited, RequestFails
<1>3. CASE source \in {"reddit", "chrome_origin_trials"} /\ Commit(BrowserPage)
  <2>1. source \notin Listers
    BY <1>3 DEF Listers
  <2>2. PICK page : page = BrowserPage /\ PageFits(page)
    BY <2>1, OthersFit DEF PagesInv
  <2>3. QED
    BY <1>1, <1>3, <2>1, <2>2, CommitKeepsPages
<1>4. QED
  BY <1>1, <1>2, <1>3, FailKeepsPages, BeginsAgain

\* A new entry is not in the window and pushes nothing out of what was read.
LEMMA PublishKeeps ==
    ASSUME PagesInv, NEW i \in PageItems, Publish(i)
    PROVE  PagesInv'
<1>1. /\ Waiting /\ source \notin Filtered /\ i \notin listedAll /\ listing' = <<i>> \o listing
      /\ listedAll' = listedAll \cup {i}
      /\ UNCHANGED <<source, mode, when, place, etag, progress, collected, lost, unmodified>>
  BY DEF Publish
<1>2. when[i] = "after" /\ i \notin ToSet(listing) /\ Once(listing, PageItems)
  BY <1>1 DEF PagesInv, ListingFits, PagesTyped
<1>3. PICK q, t : q = listing /\ t = listing' /\ t = <<i>> \o q
  BY <1>1
<1>4. /\ Once(t, PageItems) /\ ToSet(t) = ToSet(q) \cup {i} /\ t[1] = i /\ DOMAIN t = 1 .. Len(q) + 1
      /\ \A k \in DOMAIN t : k # 1 => k - 1 \in DOMAIN q /\ t[k] = q[k - 1]
  <2>1. Once(q, PageItems) /\ i \in PageItems /\ i \notin ToSet(q)
    BY <1>2, <1>3
  <2>2. LedBy(t, i, q)
    BY <1>3 DEF LedBy
  <2>3. QED
    BY <2>1, <2>2, JoinsFirst
<1>5. Len(q) \in Nat /\ DOMAIN q = 1 .. Len(q)
  BY <1>3, ListingFacts DEF PagesInv
<1>6. PagesTyped'
  BY <1>1, <1>3, <1>4 DEF PagesInv, PagesTyped
<1>7. Listable(listing)'
  <2>1. Listable(q)
    BY <1>3 DEF PagesInv, ListingFits
  <2>2. ASSUME NewestFirst(q) PROVE NewestFirst(t)
    <3>1. ASSUME NEW j \in DOMAIN t, NEW k \in DOMAIN t, j < k, when[t[j]] # "undated", when[t[k]] # "undated"
          PROVE  Age[when[t[j]]] <= Age[when[t[k]]]
      <4>1. CASE j = 1
        <5>1. t[k] \in PageItems
          BY <1>4, <3>1 DEF Once
        <5>2. when[t[k]] \in DOMAIN Age /\ when[t[j]] = "after"
          BY <1>2, <1>4, <3>1, <4>1, <5>1 DEF PagesInv, PagesTyped, Dates
        <5>3. \A d \in DOMAIN Age : Age["after"] <= Age[d]
          BY DEF Age
        <5>4. QED
          BY <5>2, <5>3
      <4>2. CASE j # 1
        <5>1. k # 1 /\ j - 1 < k - 1
          BY <1>4, <1>5, <3>1, <4>2
        <5>2. /\ j - 1 \in DOMAIN q /\ t[j] = q[j - 1]
              /\ k - 1 \in DOMAIN q /\ t[k] = q[k - 1]
          BY <1>4, <3>1, <4>2, <5>1
        <5>3. QED
          BY <2>2, <3>1, <5>1, <5>2 DEF NewestFirst
      <4>3. QED
        BY <4>1, <4>2
    <3>2. QED
      BY <3>1 DEF NewestFirst
  <2>3. ASSUME NEW k \in DOMAIN t PROVE t[k] = i \/ \E j \in DOMAIN q : t[k] = q[j]
    BY <1>4, <2>3
  <2>4. (source \in ByDate => NewestFirst(q)) /\
        (source \notin {"github_releases", "users_rust_lang"} => \A k \in DOMAIN q : when[q[k]] # "barred")
    BY <2>1 DEF Listable
  <2>5. Listable(t)
    BY <1>1, <1>2, <2>2, <2>3, <2>4 DEF Listable
  <2>6. QED
    BY <1>1, <1>3, <2>5 DEF Listable, NewestFirst
<1>8. ListingFits'
  <2>1. /\ ToSet(listing)' = (listedAll \ lost)' /\ (lost \subseteq listedAll)' /\ (listedAll \subseteq PageItems)'
        /\ (\A j \in PageItems \ listedAll : when[j] = "after")'
    BY <1>1, <1>3, <1>4 DEF PagesInv, ListingFits
  <2>2. QED
    BY <1>7, <2>1 DEF ListingFits
<1>9. ReadFits'
  <2>1. SUFFICES ASSUME source \in Listers
                 PROVE  (Cardinality(Behind(ReadAt(place))) <= Cardinality(lost))'
    BY <1>1 DEF ReadFits
  <2>2. PICK b : b = ReadAt(place) /\ b \in Nat
    BY ReadIsNat DEF PagesInv, PagesTyped
  <2>3. Behind(ReadAt(place))' = Behind(b)'
    BY <1>1, <2>2 DEF Behind, ReadAt
  <2>4. ASSUME NEW x \in Behind(b)' PROVE x \in Behind(b)
    <3>1. PICK k \in DOMAIN t : k <= b /\ t[k] = x /\ Inside(x) /\ x \notin collected
      BY <1>1, <1>3, <2>4 DEF Behind, Inside
    <3>2. k # 1
      BY <1>2, <1>4, <3>1 DEF Inside
    <3>3. k - 1 \in DOMAIN q /\ q[k - 1] = x /\ k - 1 <= b
      BY <1>4, <2>2, <3>1, <3>2
    <3>4. QED
      BY <1>3, <3>1, <3>3 DEF Behind
  <2>5. Behind(b) \subseteq PageItems /\ lost \subseteq PageItems
    BY ListingFacts DEF PagesInv, ListingFits
  <2>6. /\ Cardinality(Behind(b)') \in Nat /\ Cardinality(Behind(b)) \in Nat /\ Cardinality(lost) \in Nat
        /\ Cardinality(Behind(b)') <= Cardinality(Behind(b))
    BY <2>4, <2>5, FewerIn
  <2>7. Cardinality(Behind(b)) <= Cardinality(lost)
    BY <1>1, <2>1, <2>2 DEF PagesInv, ReadFits
  <2>8. QED
    BY <1>1, <2>3, <2>6, <2>7
<1>10. LossIsBounded' /\ StoredInsideWindow'
  BY <1>1 DEF PagesInv, LossIsBounded, StoredInsideWindow, Inside, Waiting
<1>11. QED
  BY <1>6, <1>8, <1>9, <1>10 DEF PagesInv

\* Where an entry is withdrawn, the first one not read comes among those read.
LEMMA WithdrawKeeps ==
    ASSUME PagesInv, NEW i \in PageItems, Withdraw(i)
    PROVE  PagesInv'
<1>1. /\ Waiting /\ lost' = lost \cup {i}
      /\ UNCHANGED <<source, mode, when, place, etag, progress, collected, listedAll, unmodified>>
  BY DEF Withdraw
<1>2. PICK n \in DOMAIN listing : listing[n] = i /\ listing' = RemoveAt(listing, n)
  BY DEF Withdraw
<1>3. PICK q, t : q = listing /\ t = listing' /\ t = RemoveAt(q, n)
  BY <1>2
<1>4. /\ Once(t, PageItems) /\ ToSet(t) = ToSet(q) \ {i} /\ Len(q) \in Nat \ {0}
      /\ DOMAIN t = 1 .. Len(q) - 1
      /\ \A k \in DOMAIN t : /\ k < n => k \in DOMAIN q /\ t[k] = q[k]
                             /\ k >= n => k + 1 \in DOMAIN q /\ t[k] = q[k + 1]
  <2>1. Once(q, PageItems) /\ n \in DOMAIN q /\ q[n] = i
    BY <1>2, <1>3 DEF PagesInv, PagesTyped
  <2>2. QED
    BY <1>3, <2>1, OneLeaves
<1>5. DOMAIN q = 1 .. Len(q) /\ n \in 1 .. Len(q)
  BY <1>2, <1>3, ListingFacts DEF PagesInv
<1>6. ASSUME NEW k \in DOMAIN t
      PROVE  \E j \in DOMAIN q : t[k] = q[j] /\ ((k < n /\ j = k) \/ (k >= n /\ j = k + 1))
  <2>1. k < n \/ k >= n
    BY <1>4, <1>5
  <2>2. QED
    BY <1>4, <2>1
<1>7. PagesTyped'
  BY <1>1, <1>3, <1>4 DEF PagesInv, PagesTyped
<1>8. Listable(listing)'
  <2>1. Listable(q)
    BY <1>3 DEF PagesInv, ListingFits
  <2>2. ASSUME NewestFirst(q) PROVE NewestFirst(t)
    <3>1. ASSUME NEW j \in DOMAIN t, NEW k \in DOMAIN t, j < k, when[t[j]] # "undated", when[t[k]] # "undated"
          PROVE  Age[when[t[j]]] <= Age[when[t[k]]]
      <4>1. PICK x \in DOMAIN q : t[j] = q[x] /\ ((j < n /\ x = j) \/ (j >= n /\ x = j + 1))
        BY <1>6, <3>1
      <4>2. PICK y \in DOMAIN q : t[k] = q[y] /\ ((k < n /\ y = k) \/ (k >= n /\ y = k + 1))
        BY <1>6, <3>1
      <4>3. x < y
        BY <1>4, <1>5, <3>1, <4>1, <4>2
      <4>4. QED
        BY <2>2, <3>1, <4>1, <4>2, <4>3 DEF NewestFirst
    <3>2. QED
      BY <3>1 DEF NewestFirst
  <2>3. ASSUME NEW k \in DOMAIN t PROVE \E j \in DOMAIN q : t[k] = q[j]
    BY <1>6
  <2>4. Listable(t)
    BY <2>1, <2>2, <2>3 DEF Listable
  <2>5. QED
    BY <1>1, <1>3, <2>4 DEF Listable, NewestFirst
<1>9. i \in listedAll /\ i \notin lost /\ ToSet(q) = listedAll \ lost
  <2>1. i \in ToSet(listing)
    BY <1>2 DEF ToSet
  <2>2. QED
    BY <1>3, <2>1 DEF PagesInv, ListingFits
<1>10. ListingFits'
  <2>1. /\ ToSet(listing)' = (listedAll \ lost)' /\ (lost \subseteq listedAll)' /\ (listedAll \subseteq PageItems)'
        /\ (\A j \in PageItems \ listedAll : when[j] = "after")'
    BY <1>1, <1>3, <1>4, <1>9 DEF PagesInv, ListingFits
  <2>2. QED
    BY <1>8, <2>1 DEF ListingFits
<1>11. ReadFits'
  <2>1. SUFFICES ASSUME source \in Listers
                 PROVE  (Cardinality(Behind(ReadAt(place))) <= Cardinality(lost))'
    BY <1>1 DEF ReadFits
  <2>2. PICK b : b = ReadAt(place) /\ b \in Nat
    BY ReadIsNat DEF PagesInv, PagesTyped
  <2>3. Behind(ReadAt(place))' = Behind(b)'
    BY <1>1, <2>2 DEF Behind, ReadAt
  <2>4. ASSUME NEW x \in Behind(b)' PROVE x \in Behind(b) \cup {q[b + 1]}
    <3>1. PICK k \in DOMAIN t : k <= b /\ t[k] = x /\ Inside(x) /\ x \notin collected
      BY <1>1, <1>3, <2>4 DEF Behind, Inside
    <3>2. PICK j \in DOMAIN q : t[k] = q[j] /\ ((k < n /\ j = k) \/ (k >= n /\ j = k + 1))
      BY <1>6
    <3>3. j <= b \/ j = b + 1
      BY <1>4, <2>2, <3>1, <3>2
    <3>4. QED
      BY <1>3, <3>1, <3>2, <3>3 DEF Behind
  <2>5. Behind(b) \subseteq PageItems /\ lost \subseteq PageItems
    BY ListingFacts DEF PagesInv, ListingFits
  <2>6. /\ IsFiniteSet(Behind(b) \cup {q[b + 1]}) /\ IsFiniteSet(Behind(b)) /\ Cardinality(Behind(b)) \in Nat
        /\ Cardinality(Behind(b) \cup {q[b + 1]}) \in Nat
        /\ Cardinality(Behind(b) \cup {q[b + 1]}) <= Cardinality(Behind(b)) + 1
    <3>1. IsFiniteSet(Behind(b)) /\ Cardinality(Behind(b)) \in Nat
      BY <2>5, BehindIsFinite DEF PagesInv
    <3>2. QED
      BY <3>1, FS_AddElement
  <2>7. /\ Cardinality(Behind(b)') \in Nat
        /\ Cardinality(Behind(b)') <= Cardinality(Behind(b) \cup {q[b + 1]})
    <3>1. Behind(b)' \in SUBSET (Behind(b) \cup {q[b + 1]})
      BY <2>4
    <3>2. QED
      BY <2>6, <3>1, FS_Subset, FS_CardinalityType
  <2>8. Cardinality(lost') = Cardinality(lost) + 1 /\ Cardinality(lost) \in Nat
    <3>1. IsFiniteSet(lost) /\ Cardinality(lost) \in Nat
      BY <2>5, BehindIsFinite DEF PagesInv
    <3>2. Cardinality(lost \cup {i}) = Cardinality(lost) + 1
      BY <1>9, <3>1, FS_AddElement
    <3>3. QED
      BY <1>1, <3>1, <3>2
  <2>9. Cardinality(Behind(b)) <= Cardinality(lost)
    BY <1>1, <2>1, <2>2 DEF PagesInv, ReadFits
  <2>10. Cardinality(Behind(b)') <= Cardinality(lost')
    BY <2>6, <2>7, <2>8, <2>9
  <2>11. QED
    BY <2>3, <2>10
<1>12. LossIsBounded' /\ StoredInsideWindow'
  BY <1>1 DEF PagesInv, LossIsBounded, StoredInsideWindow, Inside, Waiting
<1>13. QED
  BY <1>7, <1>10, <1>11, <1>12 DEF PagesInv

LEMMA PagesInvInit == PagesInit => PagesInv
<1> SUFFICES ASSUME PagesInit PROVE PagesInv
  OBVIOUS
<1>1. Once(Catalog, PageItems)
  <2>1. IsFiniteSet(PageItems) /\ Catalog \in Seq(PageItems) /\ ToSet(Catalog) = PageItems
    BY Bounds, PagesConstants DEF PageItems
  <2>2. \A j, k \in DOMAIN Catalog : Catalog[j] = Catalog[k] => j = k
    BY PagesConstants DEF IsInjective
  <2>3. Catalog \in Bijection(1 .. Len(Catalog), PageItems) /\ Len(Catalog) \in Nat
    <3>1. Catalog \in [1 .. Len(Catalog) -> PageItems] /\ DOMAIN Catalog = 1 .. Len(Catalog)
      BY <2>1
    <3>2. \A x \in PageItems : \E k \in 1 .. Len(Catalog) : Catalog[k] = x
      BY <2>1, <3>1 DEF ToSet
    <3>3. QED
      BY <2>1, <2>2, <3>1, <3>2 DEF Bijection, Injection, Surjection, IsInjective
  <2>4. Cardinality(PageItems) = Len(Catalog)
    <3>1. IsFiniteSet(1 .. Len(Catalog)) /\ Cardinality(1 .. Len(Catalog)) = Len(Catalog)
      BY <2>3, FS_Interval
    <3>2. QED
      BY <2>3, <3>1, FS_Bijection DEF ExistsBijection
  <2>5. QED
    BY <2>1, <2>2, <2>4 DEF Once
<1>2. Once(listing, PageItems)
  <2>1. listing \in {Catalog, Tail(Catalog)} /\ Catalog # <<>>
    BY PagesConstants DEF PagesInit
  <2>2. Once(Tail(Catalog), PageItems)
    BY <1>1, <2>1, FirstLeaves
  <2>3. QED
    BY <1>1, <2>1, <2>2
<1>3. PagesTyped
  BY <1>2 DEF PagesInit, PagesTyped
<1>4. ListingFits
  <2>1. ToSet(listing) \subseteq PageItems
    BY <1>3, ListingFacts
  <2>2. QED
    BY <2>1 DEF PagesInit, ListingFits
<1>5. ReadFits
  <2>1. ReadAt(place) = 0 /\ lost = {}
    BY DEF PagesInit, ReadAt
  <2>2. \A k \in DOMAIN listing : ~(k <= 0)
    BY <1>3, ListingFacts
  <2>3. Behind(0) = {}
    BY <2>2 DEF Behind
  <2>4. QED
    BY <2>1, <2>3, FS_EmptySet DEF ReadFits
<1>6. LossIsBounded /\ StoredInsideWindow
  BY DEF PagesInit, LossIsBounded, StoredInsideWindow
<1>7. QED
  BY <1>3, <1>4, <1>5, <1>6 DEF PagesInv

LEMMA PagesInvNext ==
    ASSUME ForumPage <= Limit
    PROVE  PagesInv /\ [PagesNext]_pageVars => PagesInv'
<1> SUFFICES ASSUME PagesInv, [PagesNext]_pageVars PROVE PagesInv'
  OBVIOUS
<1>1. CASE UNCHANGED pageVars
  <2>1. UNCHANGED <<source, mode, when, listing, place, etag, progress, collected, listedAll, lost,
                    unmodified>>
    BY <1>1 DEF pageVars
  <2>2. PagesTyped' /\ ListingFits'
    BY <2>1 DEF PagesInv, PagesTyped, ListingFits, Listable, NewestFirst
  <2>3. ReadFits'
    BY <2>1 DEF PagesInv, ReadFits, Behind, ReadAt, Inside, Waiting
  <2>4. LossIsBounded' /\ StoredInsideWindow'
    BY <2>1 DEF PagesInv, LossIsBounded, StoredInsideWindow, Inside
  <2>5. QED
    BY <2>2, <2>3, <2>4 DEF PagesInv
<1>2. CASE PagesNext
  BY <1>2, CollectKeeps, RefusalKeeps, PublishKeeps, WithdrawKeeps DEF PagesNext
<1>3. QED
  BY <1>1, <1>2

(***************************************************************************)
(* The validator of a cursor stands for the page read before its place.    *)
(* The first item of that page has not moved further on than the provider  *)
(* listed new ones, so that the next page begins with it, and is the same, *)
(* only after as many as a page has.                                       *)
(***************************************************************************)
ValidatorFits ==
    /\ moves \in Nat /\ Cardinality(lost) <= moves
    /\ Waiting => ~unmodified
    /\ source = "github_releases" /\ Waiting /\ etag # None =>
        /\ place # None /\ Len(etag) > 0 /\ etag[1] \in listedAll
        /\ \A k \in DOMAIN listing :
                listing[k] = etag[1] => k + Limit <= ReadAt(place) + 1 + Listed
WindowInv == PagesInv /\ ValidatorFits /\ EndsUnreadIfShifted

LEMMA LostIsCounted == ASSUME PagesInv PROVE IsFiniteSet(lost) /\ Cardinality(lost) \in Nat
<1>1. lost \subseteq PageItems
  BY DEF PagesInv, ListingFits
<1>2. QED
  BY <1>1, BehindIsFinite DEF PagesInv

\* A 304 ends a partition whose listing moved by a page.
LEMMA UnmodifiedIsShifted ==
    ASSUME WindowInv, Waiting, Unmodified PROVE Listed >= Limit
<1>1. source = "github_releases" /\ etag # None /\ PageOf(FromPage(1), Limit) = etag
  BY DEF Unmodified
<1>2. PICK a : a = ReadAt(place)
  OBVIOUS
<1>3. Len(etag) > 0 /\ \A k \in DOMAIN listing : listing[k] = etag[1] => k + Limit <= a + 1 + Listed
  BY <1>1, <1>2 DEF WindowInv, ValidatorFits
<1>4. a \in Nat /\ a + 1 \in DOMAIN listing /\ etag[1] = listing[a + 1]
  BY <1>1, <1>2, <1>3, PagedFacts DEF WindowInv, PagesInv, PagedOnes
<1>5. a + 1 + Limit <= a + 1 + Listed
  BY <1>3, <1>4
<1>6. Listed \in Int /\ Limit \in Nat
  BY LostIsCounted, Bounds DEF Listed, WindowInv, ValidatorFits
<1>7. QED
  BY <1>4, <1>5, <1>6

LEMMA CollectingKeepsValidator ==
    ASSUME WindowInv, CollectPage
    PROVE  ValidatorFits' /\ EndsUnreadIfShifted'
<1>1. /\ Waiting /\ unmodified' = Unmodified
      /\ UNCHANGED <<source, mode, when, listing, listedAll, lost, moves>>
  BY DEF CollectPage
<1>2. moves \in Nat /\ Cardinality(lost) \in Nat /\ Cardinality(lost) <= moves /\ Listed' = Listed
  BY <1>1, LostIsCounted DEF WindowInv, ValidatorFits, Listed
<1>3. EndsUnreadIfShifted'
  BY <1>1, <1>2, UnmodifiedIsShifted DEF EndsUnreadIfShifted
<1>4. CASE Unmodified
  <2>1. source = "github_releases" /\ Served = Built({}, None, "complete")
    BY <1>4 DEF Unmodified, Served, ReleasesPage
  <2>2. ~Invalid(Served)
    BY <2>1, BuiltIs DEF Invalid, NoHistory, HistoryMode, Filtered
  <2>3. progress' = "completed"
    BY <2>1, <2>2, BuiltIs DEF CollectPage, Commit, StateAfter
  <2>4. QED
    BY <1>1, <1>2, <1>3, <2>3 DEF ValidatorFits, Waiting
<1>5. CASE ~Unmodified
  <2>1. SUFFICES ASSUME source = "github_releases", Waiting', etag' # None
        PROVE  /\ place' # None /\ Len(etag') > 0 /\ etag'[1] \in listedAll
               /\ \A k \in DOMAIN listing :
                      listing[k] = etag'[1] => k + Limit <= ReadAt(place)' + 1 + Listed
    BY <1>1, <1>2, <1>3, <1>5 DEF ValidatorFits
  <2>2. CASE Fail
    <3>1. UNCHANGED <<place, etag>> /\ ReadAt(place)' = ReadAt(place)
      BY <1>1, <2>2 DEF Fail, ReadAt
    <3>2. QED
      BY <1>1, <2>1, <3>1 DEF WindowInv, ValidatorFits
  <2>3. CASE ~Fail
    <3>1. PICK p, s : p = FromPage(1) /\ s = PageOf(p, Limit)
      OBVIOUS
    <3>2. Served = ReleasesPage /\ Commit(ReleasesPage)
      BY <2>1, <2>3 DEF CollectPage, Served
    <3>3. ReleasesPage.disposition = "continue" /\ etag' = s
      BY <2>1, <3>1, <3>2 DEF Commit, Validators
    <3>4. \E older, more \in BOOLEAN :
              /\ more => p * Limit < Len(listing) \/ Len(s) = Limit
              /\ ReleasesPage = IF ~older /\ more THEN Built(InWindow(s), p + 1, "continue")
                                ELSE Built(InWindow(s), None, IF older THEN "complete" ELSE EndOfFeed)
      <4>1. PICK older, more \in BOOLEAN :
                /\ older = (\E i \in ToSet(s) : when[i] = "before")
                /\ more = (p * Limit < Len(listing) \/ (p = 1 /\ Len(s) = Limit))
        OBVIOUS
      <4>2. WITNESS older \in BOOLEAN, more \in BOOLEAN
      <4>3. QED
        BY <1>5, <3>1, <4>1 DEF ReleasesPage
    <3>5. EndOfFeed \in {"partial", "complete"}
      BY DEF EndOfFeed
    <3>6. /\ ReleasesPage.next = p + 1
          /\ p * Limit < Len(listing) \/ Len(s) = Limit
      BY <3>3, <3>4, <3>5, BuiltIs
    <3>7. /\ p \in Nat \ {0} /\ p + 1 \in Nat \ {0} /\ ReadAt(p + 1) = p * Limit
          /\ ReadAt(place) \in Nat /\ p * Limit = ReadAt(place) + Limit
          /\ p * Limit < Len(listing) => Len(s) = Limit
          /\ Len(s) > 0 => ReadAt(place) + 1 \in DOMAIN listing /\ s[1] = listing[ReadAt(place) + 1]
      BY <2>1, <3>1, PagedFacts DEF WindowInv, PagesInv, PagedOnes
    <3>8. Limit \in Nat \ {0} /\ None \notin Nat
      BY Bounds
    <3>9. place' = p + 1 /\ ReadAt(place)' = p * Limit
      BY <1>1, <3>2, <3>6, <3>7 DEF Commit, ReadAt
    <3>10. PICK a, b : a = ReadAt(place) /\ b = p * Limit
      OBVIOUS
    <3>11. a \in Nat /\ b = a + Limit /\ a + 1 \in DOMAIN listing /\ s[1] = listing[a + 1]
      BY <3>6, <3>7, <3>8, <3>10
    <3>12. ASSUME NEW k \in DOMAIN listing, listing[k] = s[1] PROVE k + Limit <= b + 1 + Listed
      <4>1. k = a + 1
        BY <3>11, <3>12 DEF WindowInv, PagesInv, PagesTyped, Once
      <4>2. Listed \in Nat
        BY <1>2 DEF Listed
      <4>3. QED
        BY <3>8, <3>11, <4>1, <4>2
    <3>13. Len(s) > 0 /\ s[1] \in listedAll
      <4>1. s[1] \in ToSet(listing)
        BY <3>11 DEF ToSet
      <4>2. QED
        BY <3>6, <3>7, <3>8, <4>1 DEF WindowInv, PagesInv, ListingFits
    <3>14. QED
      BY <3>3, <3>7, <3>8, <3>9, <3>10, <3>12, <3>13
  <2>4. QED
    BY <2>2, <2>3
<1>6. QED
  BY <1>3, <1>4, <1>5

LEMMA RefusalKeepsValidator ==
    ASSUME WindowInv, RateLimited \/ RequestFails
    PROVE  ValidatorFits' /\ EndsUnreadIfShifted'
<1>1. /\ Waiting /\ UNCHANGED <<source, mode, when, listing, listedAll, lost, moves, unmodified>>
      /\ Listed' = Listed
  BY DEF RateLimited, RequestFails, Refuse, Listed
<1>2. EndsUnreadIfShifted' /\ ~unmodified'
  BY <1>1 DEF WindowInv, ValidatorFits, EndsUnreadIfShifted
<1>3. \/ Fail \/ Commit(Built({}, None, "deferred"))
      \/ source \in {"reddit", "chrome_origin_trials"}
  BY DEF RateLimited, RequestFails
<1>4. CASE Fail
  <2>1. UNCHANGED <<place, etag>> /\ ReadAt(place)' = ReadAt(place)
    BY <1>1, <1>4 DEF Fail, ReadAt
  <2>2. QED
    BY <1>1, <1>2, <2>1 DEF WindowInv, ValidatorFits
<1>5. CASE Commit(Built({}, None, "deferred"))
  <2>1. etag' = None
    BY <1>5, BuiltIs DEF Commit, Validators
  <2>2. QED
    BY <1>1, <1>2, <2>1 DEF WindowInv, ValidatorFits
<1>6. CASE source \in {"reddit", "chrome_origin_trials"}
  BY <1>1, <1>2, <1>6 DEF WindowInv, ValidatorFits
<1>7. QED
  BY <1>3, <1>4, <1>5, <1>6

LEMMA PublishKeepsValidator ==
    ASSUME WindowInv, NEW i \in PageItems, Publish(i)
    PROVE  ValidatorFits' /\ EndsUnreadIfShifted'
<1>1. /\ Waiting /\ listing' = <<i>> \o listing /\ i \notin listedAll /\ moves' = moves + 1
      /\ listedAll' = listedAll \cup {i} /\ UNCHANGED <<source, place, etag, progress, lost, unmodified>>
  BY DEF Publish
<1>2. moves \in Nat /\ Cardinality(lost) \in Nat /\ Cardinality(lost) <= moves /\ ~unmodified
  BY <1>1, LostIsCounted DEF WindowInv, ValidatorFits
<1>3. PICK n : n = Listed /\ n \in Nat
  BY <1>2 DEF Listed
<1>4. Listed' = n + 1 /\ moves' \in Nat /\ Cardinality(lost') <= moves'
  BY <1>1, <1>2, <1>3 DEF Listed
<1>5. EndsUnreadIfShifted' /\ ~unmodified'
  BY <1>1, <1>2 DEF EndsUnreadIfShifted
<1>6. ReadAt(place)' = ReadAt(place) /\ (Waiting' <=> Waiting)
  BY <1>1 DEF ReadAt, Waiting
<1>7. ASSUME source = "github_releases", etag # None
      PROVE  /\ place' # None /\ Len(etag') > 0 /\ etag'[1] \in listedAll'
             /\ \A k \in DOMAIN listing' :
                    listing'[k] = etag'[1] => k + Limit <= ReadAt(place)' + 1 + Listed'
  <2>1. PICK a : a = ReadAt(place) /\ a \in Nat
    BY ReadIsNat DEF WindowInv, PagesInv, PagesTyped
  <2>2. /\ place # None /\ Len(etag) > 0 /\ etag[1] \in listedAll
        /\ \A k \in DOMAIN listing : listing[k] = etag[1] => k + Limit <= a + 1 + n
    BY <1>1, <1>3, <1>7, <2>1 DEF WindowInv, ValidatorFits
  <2>3. PICK q, t : q = listing /\ t = listing' /\ t = <<i>> \o q
    BY <1>1
  <2>4. Once(q, PageItems) /\ i \notin ToSet(q) /\ LedBy(t, i, q)
    BY <1>1, <2>3 DEF WindowInv, PagesInv, PagesTyped, ListingFits, LedBy
  <2>5. /\ DOMAIN t = 1 .. Len(q) + 1 /\ t[1] = i
        /\ \A k \in DOMAIN t : k # 1 => k - 1 \in DOMAIN q /\ t[k] = q[k - 1]
    BY <2>4, JoinsFirst
  <2>6. /\ Len(q) \in Nat /\ Limit \in Nat /\ DOMAIN t = 1 .. Len(q) + 1
    BY <2>3, <2>5, ListingFacts, Bounds DEF WindowInv, PagesInv
  <2>7. ASSUME NEW k \in DOMAIN t, t[k] = etag[1] PROVE k + Limit <= a + 1 + (n + 1)
    <3>1. CASE k # 1
      <4>1. k - 1 \in DOMAIN q /\ q[k - 1] = etag[1]
        BY <2>5, <2>7, <3>1
      <4>2. (k - 1) + Limit <= a + 1 + n
        BY <2>2, <2>3, <4>1
      <4>3. QED
        BY <1>3, <2>1, <2>6, <4>2
    <3>2. CASE k = 1
      BY <1>1, <2>2, <2>5, <2>7, <3>2
    <3>3. QED
      BY <3>1, <3>2
  <2>8. QED
    BY <1>1, <1>4, <1>6, <2>1, <2>2, <2>3, <2>7
<1>8. QED
  BY <1>1, <1>4, <1>5, <1>7 DEF ValidatorFits

LEMMA WithdrawKeepsValidator ==
    ASSUME WindowInv, NEW i \in PageItems, Withdraw(i)
    PROVE  ValidatorFits' /\ EndsUnreadIfShifted'
<1>1. /\ Waiting /\ lost' = lost \cup {i} /\ moves' = moves + 1
      /\ UNCHANGED <<source, place, etag, progress, unmodified, listedAll>>
  BY DEF Withdraw
<1>2. PICK m \in DOMAIN listing : listing[m] = i /\ listing' = RemoveAt(listing, m)
  BY DEF Withdraw
<1>3. i \notin lost
  BY <1>2 DEF WindowInv, PagesInv, ListingFits, ToSet
<1>4. /\ moves \in Nat /\ Cardinality(lost) \in Nat /\ Cardinality(lost) <= moves /\ ~unmodified
      /\ IsFiniteSet(lost)
  BY <1>1, LostIsCounted DEF WindowInv, ValidatorFits
<1>5. Cardinality(lost') = Cardinality(lost) + 1
  BY <1>1, <1>3, <1>4, FS_AddElement
<1>6. PICK n : n = Listed /\ n \in Nat
  BY <1>4 DEF Listed
<1>7. Listed' = n /\ moves' \in Nat /\ Cardinality(lost') <= moves'
  BY <1>1, <1>4, <1>5, <1>6 DEF Listed
<1>8. EndsUnreadIfShifted' /\ ~unmodified'
  BY <1>1, <1>4 DEF EndsUnreadIfShifted
<1>9. ReadAt(place)' = ReadAt(place) /\ (Waiting' <=> Waiting)
  BY <1>1 DEF ReadAt, Waiting
<1>10. ASSUME source = "github_releases", etag # None
       PROVE  /\ place' # None /\ Len(etag') > 0 /\ etag'[1] \in listedAll'
              /\ \A k \in DOMAIN listing' :
                     listing'[k] = etag'[1] => k + Limit <= ReadAt(place)' + 1 + Listed'
  <2>1. PICK a : a = ReadAt(place) /\ a \in Nat
    BY ReadIsNat DEF WindowInv, PagesInv, PagesTyped
  <2>2. /\ place # None /\ Len(etag) > 0 /\ etag[1] \in listedAll
        /\ \A k \in DOMAIN listing : listing[k] = etag[1] => k + Limit <= a + 1 + n
    BY <1>1, <1>6, <1>10, <2>1 DEF WindowInv, ValidatorFits
  <2>3. PICK q, t : q = listing /\ t = listing' /\ t = RemoveAt(q, m)
    BY <1>2
  <2>4. Once(q, PageItems) /\ m \in DOMAIN q
    BY <1>2, <2>3 DEF WindowInv, PagesInv, PagesTyped
  <2>5. /\ Len(q) \in Nat \ {0} /\ DOMAIN t = 1 .. Len(q) - 1
        /\ \A k \in DOMAIN t : /\ k < m => k \in DOMAIN q /\ t[k] = q[k]
                               /\ k >= m => k + 1 \in DOMAIN q /\ t[k] = q[k + 1]
    BY <2>3, <2>4, OneLeaves
  <2>6. Limit \in Nat /\ m \in 1 .. Len(q)
    BY <2>3, <2>4, ListingFacts, Bounds DEF WindowInv, PagesInv
  <2>7. ASSUME NEW k \in DOMAIN t, t[k] = etag[1] PROVE k + Limit <= a + 1 + n
    <3>1. k \in Nat /\ (k < m \/ k >= m)
      BY <2>5, <2>6
    <3>2. CASE k < m
      BY <2>2, <2>3, <2>5, <2>7, <3>2
    <3>3. CASE k >= m
      <4>1. (k + 1) + Limit <= a + 1 + n
        BY <2>2, <2>3, <2>5, <2>7, <3>3
      <4>2. QED
        BY <1>6, <2>1, <2>6, <3>1, <4>1
    <3>4. QED
      BY <3>1, <3>2, <3>3
  <2>8. QED
    BY <1>1, <1>7, <1>9, <2>1, <2>2, <2>3, <2>7
<1>11. QED
  BY <1>1, <1>7, <1>8, <1>10 DEF ValidatorFits

LEMMA WindowInvNext ==
    ASSUME ForumPage <= Limit
    PROVE  WindowInv /\ [PagesNext]_pageVars => WindowInv'
<1> SUFFICES ASSUME WindowInv, [PagesNext]_pageVars PROVE WindowInv'
  OBVIOUS
<1>1. PagesInv'
  BY PagesInvNext DEF WindowInv
<1>2. CASE UNCHANGED pageVars
  <2>1. UNCHANGED <<source, listing, listedAll, place, etag, progress, lost, unmodified, moves>>
    BY <1>2 DEF pageVars
  <2>2. ValidatorFits' /\ EndsUnreadIfShifted'
    BY <2>1 DEF WindowInv, ValidatorFits, EndsUnreadIfShifted, Listed, ReadAt, Waiting
  <2>3. QED
    BY <1>1, <2>2 DEF WindowInv
<1>3. CASE PagesNext
  <2>1. ValidatorFits' /\ EndsUnreadIfShifted'
    BY <1>3, CollectingKeepsValidator, RefusalKeepsValidator, PublishKeepsValidator,
       WithdrawKeepsValidator DEF PagesNext
  <2>2. QED
    BY <1>1, <2>1 DEF WindowInv
<1>4. QED
  BY <1>2, <1>3

\* However the provider adds, withdraws, refuses and fails between the pages
\* of a partition, whatever caps it has, what a collector completes lacks no
\* more of its window than was withdrawn, unless a 304 for the next page ended
\* it, which takes as many new items as a page has; and what checks its dates
\* stores nothing outside (the collectors' collectPage, commitPage).  The
\* forum takes the first Limit topics of a page, so its pages must not be
\* longer: the worker asks for 100 where the forum lists 30.
THEOREM WindowsAreCollected ==
    ASSUME ForumPage <= Limit PROVE PagesSpec => []CollectsTheWindow
<1>1. PagesInit => WindowInv
  <2> SUFFICES ASSUME PagesInit PROVE WindowInv
    OBVIOUS
  <2>1. PagesInv /\ lost = {} /\ moves = 0 /\ etag = None /\ unmodified = FALSE
    BY PagesInvInit DEF PagesInit
  <2>2. QED
    BY <2>1, FS_EmptySet DEF WindowInv, ValidatorFits, EndsUnreadIfShifted
<1>2. WindowInv /\ [PagesNext]_pageVars => WindowInv'
  BY WindowInvNext
<1>3. WindowInv => CollectsTheWindow
  BY DEF WindowInv, PagesInv, CollectsTheWindow
<1>4. QED
  BY <1>1, <1>2, <1>3, PTL DEF PagesSpec

(***************************************************************************)
(* The types.  They need nothing of the dates and no bound on the pages of *)
(* the forum, so that they are kept for every value of the constants.      *)
(***************************************************************************)
PagesShape ==
    /\ PagesTyped /\ mode \in {"backfill", "incremental"}
    /\ ToSet(listing) \subseteq listedAll /\ listedAll \cup lost \subseteq PageItems
    /\ moves \in 0 .. MaxMoves /\ refusals \in 0 .. MaxRefusals
PageShape(page) ==
    /\ page.items \subseteq PageItems
    /\ page.disposition \in {"continue", "complete", "deferred", "partial"}
    /\ page.next = None \/ page.next \in Nat \ {0}

LEMMA ForumShape == ASSUME PagesTyped, source = "users_rust_lang" PROVE PageShape(ForumListing)
<1>1. PICK p, n, s, b : /\ p = FromPage(0) /\ n = p + 1
                        /\ s = PageOf(n, ForumPage) /\ b = n * ForumPage
  OBVIOUS
<1>2. n \in Nat \ {0}
  BY <1>1, Bounds DEF PagesTyped, FromPage
<1>3. ToSet(s) \subseteq PageItems
  <2>1. PICK a : a = (n - 1) * ForumPage
    OBVIOUS
  <2>2. a \in Nat /\ b \in Nat
    BY <1>1, <1>2, <2>1, Bounds, PagesBegin
  <2>3. s = Slice(listing, a + 1, b)
    BY <1>1, <2>1 DEF PageOf
  <2>4. listing \in Seq(PageItems) /\ ToSet(listing) \subseteq PageItems
    BY ListingFacts
  <2>5. SliceHas(s, listing, a, b)
    BY <2>2, <2>3, <2>4, Sliced
  <2>6. QED
    BY <2>4, <2>5 DEF SliceHas
<1>4. PICK items : items = ForumTopics(s)
  OBVIOUS
<1>5. items \subseteq PageItems
  BY <1>3, <1>4 DEF ForumTopics, ToSet
<1>6. ForumListing = IF b < Len(listing) /\ s # <<>> THEN Built(items, n, "continue")
                     ELSE Built(items, None, EndOfFeed)
  BY <1>1, <1>4 DEF ForumListing
<1>7. EndOfFeed \in {"partial", "complete"}
  BY DEF EndOfFeed
<1>8. QED
  BY <1>2, <1>5, <1>6, <1>7, BuiltIs DEF PageShape

LEMMA ReleasesShape == ASSUME PagesTyped, source = "github_releases" PROVE PageShape(ReleasesPage)
<1>1. PICK p, s : p = FromPage(1) /\ s = PageOf(p, Limit)
  OBVIOUS
<1>2. p + 1 \in Nat \ {0} /\ ToSet(s) \subseteq PageItems
  BY <1>1, PagedFacts DEF PagedOnes
<1>3. InWindow(s) \subseteq PageItems
  BY <1>2, WindowOf
<1>4. \E older, more \in BOOLEAN :
          ReleasesPage = IF Unmodified THEN Built({}, None, "complete")
                         ELSE IF ~older /\ more THEN Built(InWindow(s), p + 1, "continue")
                         ELSE Built(InWindow(s), None, IF older THEN "complete" ELSE EndOfFeed)
  BY <1>1 DEF ReleasesPage
<1>5. EndOfFeed \in {"partial", "complete"}
  BY DEF EndOfFeed
<1>6. QED
  BY <1>2, <1>3, <1>4, <1>5, BuiltIs DEF PageShape

LEMMA ServedShape == ASSUME PagesTyped PROVE PageShape(Served)
<1>1. ASSUME NEW page, PageFits(page) PROVE PageShape(page)
  BY <1>1 DEF PageFits, PageShape
<1>2. CASE source \in Listers
  <2>1. \/ source = "github_releases" /\ Served = ReleasesPage
        \/ source = "github_search" /\ Served = SearchPage
        \/ source = "arxiv" /\ Served = ArxivPage
        \/ source = "stack_exchange" /\ Served = StackExchangePage
        \/ source = "users_rust_lang" /\ Served = ForumListing
        \/ source = "huggingface_hub" /\ Served = ModelsPage
        \/ source = "npm_downloads" /\ Served = DownloadsPage
    BY <1>2 DEF Listers, Served
  <2>2. CASE source \in {"github_releases", "users_rust_lang"}
    BY <2>1, <2>2, ReleasesShape, ForumShape
  <2>3. CASE source \notin {"github_releases", "users_rust_lang"}
    <3>1. PageFits(Served)
      BY <2>1, <2>3, SearchFits, ArxivFits, StackFits, ModelsFit, DownloadsFit
    <3>2. QED
      BY <1>1, <3>1
  <2>4. QED
    BY <2>2, <2>3
<1>3. CASE source \notin Listers
  <2>1. Served \in {RegistryPage, ArticlePage, BrowserPage}
    BY <1>3 DEF Listers, Served
  <2>2. PageFits(Served)
    BY <1>3, <2>1, OthersFit
  <2>3. QED
    BY <1>1, <2>2
<1>4. QED
  BY <1>2, <1>3

LEMMA PagesShapeInit == PagesInit => PagesShape
<1> SUFFICES ASSUME PagesInit PROVE PagesShape
  OBVIOUS
<1>1. PagesTyped
  BY PagesInvInit DEF PagesInv
<1>2. ToSet(listing) \subseteq PageItems
  BY <1>1, ListingFacts
<1>3. MaxMoves \in Nat /\ MaxRefusals \in Nat
  BY PagesConstants
<1>4. QED
  BY <1>1, <1>2, <1>3 DEF PagesInit, PagesShape

\* A page, a refusal or an error changes what is stored and nothing of the listing.
LEMMA StoringKeepsShape ==
    ASSUME PagesShape, CollectPage \/ RateLimited \/ RequestFails
    PROVE  PagesShape'
<1>1. /\ UNCHANGED <<source, mode, when, listing, listedAll, lost, moves>>
      /\ refusals' \in 0 .. MaxRefusals /\ unmodified' \in BOOLEAN
  <2>1. MaxRefusals \in Nat
    BY PagesConstants
  <2>2. CASE CollectPage
    BY <2>2 DEF CollectPage, Unmodified, PagesShape
  <2>3. CASE RateLimited \/ RequestFails
    <3>1. Refuse
      BY <2>3 DEF RateLimited, RequestFails
    <3>2. refusals \in 0 .. MaxRefusals /\ unmodified \in BOOLEAN
      BY DEF PagesShape, PagesTyped
    <3>3. QED
      BY <2>1, <3>1, <3>2 DEF Refuse
  <2>4. QED
    BY <2>2, <2>3
<1>2. Fail \/ \E page : PageShape(page) /\ Commit(page)
  <2>1. CASE CollectPage
    <3>1. PICK page : page = Served
      OBVIOUS
    <3>2. PageShape(page)
      BY <3>1, ServedShape DEF PagesShape
    <3>3. Fail \/ Commit(page)
      BY <2>1, <3>1 DEF CollectPage
    <3>4. QED
      BY <3>2, <3>3
  <2>2. CASE RateLimited \/ RequestFails
    <3>1. EndOfFeed \in {"partial", "complete"}
      BY DEF EndOfFeed
    <3>2. PageShape(Built({}, None, "deferred")) /\ PageShape(BrowserPage)
      BY <3>1, BuiltIs DEF PageShape, BrowserPage
    <3>3. Fail \/ Commit(Built({}, None, "deferred")) \/ Commit(BrowserPage)
      BY <2>2 DEF RateLimited, RequestFails
    <3>4. QED
      BY <3>2, <3>3
  <2>3. QED
    BY <2>1, <2>2
<1>3. /\ place' \in Nat \cup {None} /\ (place' = place \/ place' = None \/ place' > 0)
      /\ progress' \in {"pending", "deferred", "completed", "partial"}
      /\ collected' \subseteq PageItems /\ etag' \in Seq(PageItems) \cup {None}
  <2>1. CASE Fail
    BY <2>1 DEF Fail, PagesShape, PagesTyped
  <2>2. CASE ~Fail
    <3>1. PICK page : PageShape(page) /\ Commit(page)
      BY <1>2, <2>2
    <3>2. progress' \in {"pending", "deferred", "completed", "partial"}
      BY <3>1 DEF PageShape, Commit, StateAfter
    <3>3. etag' \in Seq(PageItems) \cup {None}
      BY <3>1, ValidatorsTyped DEF PagesShape, Commit
    <3>4. QED
      BY <3>1, <3>2, <3>3 DEF PageShape, Commit, PagesShape, PagesTyped
  <2>3. QED
    BY <2>1, <2>2
<1>4. PagesTyped'
  BY <1>1, <1>3 DEF PagesShape, PagesTyped
<1>5. QED
  BY <1>1, <1>4 DEF PagesShape

LEMMA ListingKeepsShape ==
    ASSUME PagesShape, NEW i \in PageItems, Publish(i) \/ Withdraw(i)
    PROVE  PagesShape'
<1>1. /\ UNCHANGED <<source, mode, when, place, etag, progress, collected, refusals, unmodified>>
      /\ moves' \in 0 .. MaxMoves
  <2>1. MaxMoves \in Nat /\ moves \in 0 .. MaxMoves
    BY PagesConstants DEF PagesShape
  <2>2. QED
    BY <2>1 DEF Publish, Withdraw
<1>2. /\ Once(listing', PageItems) /\ ToSet(listing') \subseteq listedAll'
      /\ listedAll' \cup lost' \subseteq PageItems
  <2>1. PICK q, t : q = listing /\ t = listing'
    OBVIOUS
  <2>2. Once(q, PageItems) /\ ToSet(q) \subseteq listedAll /\ listedAll \cup lost \subseteq PageItems
    BY <2>1 DEF PagesShape, PagesTyped
  <2>3. CASE Publish(i)
    <3>1. i \notin ToSet(q) /\ LedBy(t, i, q)
      BY <2>1, <2>2, <2>3 DEF Publish, LedBy
    <3>2. Once(t, PageItems) /\ ToSet(t) = ToSet(q) \cup {i}
      BY <2>2, <3>1, JoinsFirst
    <3>3. QED
      BY <2>1, <2>2, <2>3, <3>2 DEF Publish
  <2>4. CASE Withdraw(i)
    <3>1. PICK n \in DOMAIN q : t = RemoveAt(q, n)
      BY <2>1, <2>4 DEF Withdraw
    <3>2. Once(t, PageItems) /\ ToSet(t) = ToSet(q) \ {q[n]}
      BY <2>2, <3>1, OneLeaves
    <3>3. QED
      BY <2>1, <2>2, <2>4, <3>2 DEF Withdraw
  <2>5. QED
    BY <2>3, <2>4
<1>3. QED
  BY <1>1, <1>2 DEF PagesShape, PagesTyped

LEMMA PagesShapeNext == PagesShape /\ [PagesNext]_pageVars => PagesShape'
<1> SUFFICES ASSUME PagesShape, [PagesNext]_pageVars PROVE PagesShape'
  OBVIOUS
<1>1. CASE UNCHANGED pageVars
  BY <1>1 DEF pageVars, PagesShape, PagesTyped
<1>2. CASE PagesNext
  BY <1>2, StoringKeepsShape, ListingKeepsShape DEF PagesNext
<1>3. QED
  BY <1>1, <1>2

\* A session: a call that has ended keeps some of the cards it found.
LEMMA SessionTypesNext ==
    SessionInv /\ SessionTypeOK /\ [SessionNext]_sessionVars => SessionTypeOK'
<1> SUFFICES ASSUME SessionInv, SessionTypeOK, [SessionNext]_sessionVars PROVE SessionTypeOK'
  OBVIOUS
<1>1. CASE UNCHANGED sessionVars
  BY <1>1 DEF sessionVars, SessionTypeOK
<1>2. CASE StartReddit \/ StartTrials \/ OpenPage \/ OpenBrowser \/ OpenContext \/ NotConfigured
  BY <1>2 DEF SessionTypeOK, StartReddit, StartTrials, OpenPage, OpenBrowser, OpenContext,
     NotConfigured, Goes, Throws, Owns
<1>3. CASE Route
  <2>1. /\ tracing' \in BOOLEAN /\ guarded' \in BOOLEAN
        /\ open' \subseteq open \cup {"page"} /\ verdict' \in {verdict, "error"}
        /\ UNCHANGED <<site, owned, landed, wall, probes, found, kept>>
    BY <1>3 DEF Route, Goes, Throws, SessionTypeOK
  <2>2. QED
    BY <2>1 DEF SessionTypeOK
<1>4. CASE NavigateReddit \/ NavigateTrials
  <2>1. /\ landed' \in {"site", "login", "elsewhere"} /\ wall' \in BOOLEAN
        /\ verdict' \in {verdict, "error"}
        /\ UNCHANGED <<site, open, owned, guarded, tracing, probes, found, kept>>
    BY <1>4 DEF NavigateReddit, NavigateTrials, Goes, Throws
  <2>2. QED
    BY <2>1 DEF SessionTypeOK
<1>5. CASE Response \/ ProbeReddit \/ ProbeTrials
  BY <1>5 DEF SessionTypeOK, Response, ProbeReddit, ProbeTrials, Goes, Throws
<1>6. CASE DiscoverPosts \/ ExtractTrials \/ ExtractPost
  BY <1>6 DEF SessionTypeOK, DiscoverPosts, ExtractTrials, ExtractPost, Goes, Throws
<1>7. CASE Finish
  BY <1>7 DEF SessionTypeOK, Finish, Goes, Throws
<1>8. CASE CloseAll
  <2>1. /\ open' \subseteq open /\ tracing' \in BOOLEAN
        /\ UNCHANGED <<site, owned, guarded, landed, wall, probes, found, kept, verdict>>
    BY <1>8 DEF CloseAll
  <2>2. QED
    BY <2>1 DEF SessionTypeOK
<1>9. QED
  BY <1>1, <1>2, <1>3, <1>4, <1>5, <1>6, <1>7, <1>8 DEF SessionNext

(***************************************************************************)
(* The collectors keep their types: whatever the provider lists, refuses   *)
(* or withdraws, a listing holds each item once, a partition has a page, an *)
(* offset or no cursor and one of its four states, a session one of its    *)
(* verdicts, and the ages of the connection stay within its horizon.       *)
(***************************************************************************)
THEOREM CollectorsKeepTypes == CollectorsSpec => []CollectorsTypeOK
<1> DEFINE Inv == PagesShape /\ SessionInv /\ SessionTypeOK /\ FetchInv
<1>1. CollectorsInit => Inv
  <2>1. SessionInit => SessionTypeOK
    BY DEF SessionInit, SessionIdle, SessionTypeOK
  <2>2. QED
    BY <2>1, PagesShapeInit, SessionInvInit, FetchInvInit DEF CollectorsInit
<1>2. Inv /\ [CollectorsNext]_collectorVars => Inv'
  <2> SUFFICES ASSUME Inv, [CollectorsNext]_collectorVars PROVE Inv'
    OBVIOUS
  <2>1. [PagesNext]_pageVars /\ [SessionNext]_sessionVars /\ [FetchNext]_fetchVars
    BY DEF CollectorsNext, collectorVars
  <2>2. QED
    BY <2>1, PagesShapeNext, SessionInvNext, SessionTypesNext, FetchInvNext
<1>3. Inv => CollectorsTypeOK
  <2> SUFFICES ASSUME Inv PROVE CollectorsTypeOK
    OBVIOUS
  <2>1. PagesTypeOK
    BY DEF PagesShape, PagesTyped, Once, PagesTypeOK
  <2>2. FetchTypeOK
    <3>1. started \in [pause : 0 .. Horizon, had : 0 .. Ttl]
      <4>1. started \in [pause : Spacing .. Horizon, had : {Ttl}]
        BY DEF FetchInv
      <4>2. Spacing .. Horizon \subseteq 0 .. Horizon /\ Ttl \in 0 .. Ttl
        BY Times
      <4>3. QED
        BY <4>1, <4>2
    <3>2. line \in Seq(Callers)
      BY DEF FetchInv, Once
    <3>3. QED
      BY <3>1, <3>2 DEF FetchInv, FetchTypeOK, CallShape, Places
  <2>3. QED
    BY <2>1, <2>2 DEF CollectorsTypeOK
<1>4. QED
  BY <1>1, <1>2, <1>3, PTL DEF CollectorsSpec
=============================================================================
