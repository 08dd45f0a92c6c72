----------------------------- MODULE SourcePages -----------------------------
(***************************************************************************)
(* The pages that the source collectors make of what a provider answers,   *)
(* for one partition of one target, from the first page to its end.        *)
(*                                                                         *)
(* CollectionState leaves open what a collector returns; here the          *)
(* collector is the code and the provider is open: between two requests it *)
(* lists new items, withdraws old ones, refuses a request for its rate, or *)
(* fails.  A step is one delivery: the request, the page that the          *)
(* collector builds of the reply and its commit.                           *)
(***************************************************************************)
EXTENDS Naturals, Sequences, FiniteSets, SequencesExt

CONSTANTS
    SourceKeys,   \* the source keys in use
    Catalog,      \* the items of the provider, in its order
    None,         \* null
    Limit,        \* request.limit: items of a page
    ForumPage,    \* topics that Discourse lists on a page
    PageCap,      \* pages that GitHub search serves (10 in the code)
    OffsetCap,    \* results that arXiv serves (10000 in the code)
    MaxMoves,     \* bound: items the provider adds or withdraws
    MaxRefusals   \* bound: requests that the provider refuses or that fail

PageItems == ToSet(Catalog)

ASSUME PagesConstants ==
    /\ Catalog \in Seq(PageItems) /\ Catalog # <<>> /\ IsInjective(Catalog)
    /\ SourceKeys \subseteq
        {"github_releases", "github_search", "arxiv", "stack_exchange",
         "users_rust_lang", "huggingface_hub", "npm_registry",
         "npm_downloads", "reddit", "chrome_origin_trials", "react_blog"}
    /\ {Limit, ForumPage, PageCap, OffsetCap} \subseteq Nat \ {0}
    /\ None \notin PageItems \cup Nat
    /\ {MaxMoves, MaxRefusals} \subseteq Nat

VARIABLES
    source,     \* target.sourceKey, fixed by Init
    mode,       \* partition.mode, fixed by Init
    when,       \* item -> where its date lies with respect to [from, to)
    listing,    \* what the provider lists now, in its order
    place,      \* collection_partitions.cursor: a page, an offset or None
    etag,       \* the validator in that cursor: what it stands for, or None
    progress,   \* collection_partitions.state
    collected,  \* raw_items committed
    listedAll,  \* history: items listed since the first request
    lost,       \* history: items that the provider withdrew
    unmodified, \* history: a 304 ended the partition
    moves, refusals

pageVars == <<source, mode, when, listing, place, etag, progress, collected,
              listedAll, lost, unmodified, moves, refusals>>

(***************************************************************************)
(* Where the date of an item lies with respect to the window [from, to):   *)
(* "atEnd" is exactly at `to`, which is outside.  A provider that filters  *)
(* by date does it to the second and inclusively, and lists "atEnd" too.   *)
(* "barred" is dated inside and not to be kept: a draft release, a topic   *)
(* from before the licence of the forum.                                   *)
(***************************************************************************)
Age == [after |-> 1, atEnd |-> 2, in |-> 3, barred |-> 3, before |-> 4]
Dates == DOMAIN Age \cup {"undated"}
Inside(i) == when[i] = "in"

Filtered == {"arxiv", "stack_exchange", "npm_downloads"}
ByDate == Filtered \cup {"github_releases"}
HistoryMode(s) ==
    CASE s \in {"npm_registry", "chrome_origin_trials"} -> "snapshot_only"
      [] s \in {"users_rust_lang", "reddit", "react_blog"} -> "feed_only"
      [] s \in Filtered -> "historical_range"
      [] OTHER -> "paginated_history"
NoHistory(s) == HistoryMode(s) \in {"feed_only", "snapshot_only"}

NewestFirst(seq) ==
    \A j, k \in DOMAIN seq :
        j < k /\ "undated" \notin {when[seq[j]], when[seq[k]]} =>
            Age[when[seq[j]]] <= Age[when[seq[k]]]
Listable(q) ==
    /\ source \in ByDate => NewestFirst(q)
    /\ source \notin {"github_releases", "users_rust_lang"} =>
        \A k \in DOMAIN q : when[q[k]] # "barred"
    /\ source \in Filtered => \A k \in DOMAIN q : when[q[k]] \in {"in", "atEnd"}

Slice(q, first, last) == SubSeq(q, first, IF last < Len(q) THEN last ELSE Len(q))
PageOf(n, size) == Slice(listing, (n - 1) * size + 1, n * size)
InWindow(q) == {i \in ToSet(q) : Inside(i)}
Built(items, next, disposition) ==
    [items |-> items, next |-> next, disposition |-> disposition]

----------------------------------------------------------------------------
(***************************************************************************)
(* What each collector makes of a page that the provider served.           *)
(***************************************************************************)
EndOfFeed ==
    IF NoHistory(source) /\ mode = "backfill" THEN "partial" ELSE "complete"
FromPage(first) == IF place = None THEN first ELSE place

\* The request for a page of releases carries the validator of the page read
\* before it: where the provider would serve the same again, it answers 304
Unmodified ==
    source = "github_releases" /\ etag # None /\ PageOf(FromPage(1), Limit) = etag

\* Drafts and undated releases are left out.  A page that
\* reaches a release older than the window is the last, and so is a 304.  A
\* listing of one page has no Link header: if full, it seems to go on.
ReleasesPage ==
    LET page == FromPage(1)
        served == PageOf(page, Limit)
        older == \E i \in ToSet(served) : when[i] = "before"
        more == page * Limit < Len(listing) \/ (page = 1 /\ Len(served) = Limit)
    IN  IF Unmodified THEN Built({}, None, "complete")
        ELSE IF ~older /\ more
        THEN Built(InWindow(served), page + 1, "continue")
        ELSE Built(InWindow(served), None, IF older THEN "complete" ELSE EndOfFeed)

\* An undated result is kept
SearchPage ==
    LET page == FromPage(1)
        served == PageOf(page, Limit)
        items == {i \in ToSet(served) : when[i] \in {"in", "undated"}}
        more == page * Limit < Len(listing)
    IN  IF page < PageCap /\ more /\ Len(served) = Limit
        THEN Built(items, page + 1, "continue")
        ELSE Built(items, None,
                   IF page >= PageCap /\ more THEN "partial" ELSE "complete")

ArxivPage ==
    LET start == FromPage(0)
        served == Slice(listing, start + 1, start + Limit)
        next == start + Len(served)
        more == next < Len(listing) /\ served # <<>>
    IN  IF more /\ next < OffsetCap
        THEN Built(InWindow(served), next, "continue")
        ELSE Built(InWindow(served), None, IF more THEN "partial" ELSE "complete")

StackExchangePage ==
    LET page == FromPage(1)
        served == PageOf(page, Limit)
        more == page * Limit < Len(listing)
    IN  Built(InWindow(served), IF more THEN page + 1 ELSE None,
              IF more THEN "continue" ELSE "complete")

\* The end of the window is inclusive here, and the first Limit topics of a
\* page are fetched although the next request asks for the next page
ForumTopics(served) ==
    LET Wanted(n) == when[served[n]] \in {"in", "atEnd"}
    IN  {served[n] : n \in {m \in DOMAIN served :
            Wanted(m) /\ Cardinality({j \in 1 .. m : Wanted(j)}) <= Limit}}
ForumListing ==
    LET page == FromPage(0)
        served == PageOf(page + 1, ForumPage)
        more == (page + 1) * ForumPage < Len(listing) /\ served # <<>>
    IN  Built(ForumTopics(served), IF more THEN page + 1 ELSE None,
              IF more THEN "continue" ELSE EndOfFeed)

\* Faulty variant: the next cursor is the page just read
ModelsPageStuck ==
    LET page == FromPage(1)
        served == PageOf(page, Limit)
        more == Len(served) >= Limit
    IN  Built(ToSet(served), IF more THEN page ELSE None,
              IF more THEN "continue" ELSE "complete")

\* No date filter; a full page is taken to have a successor
ModelsListing == PageOf(FromPage(1), Limit)
ModelsPage ==
    LET page == FromPage(1)
        served == ModelsListing
        more == Len(served) >= Limit
    IN  Built(ToSet(served), IF more THEN page + 1 ELSE None,
              IF more THEN "continue" ELSE "complete")

\* One document, whatever its date
RegistryPage == Built(ToSet(PageOf(1, 1)), None, EndOfFeed)

\* A range of days in one answer
DownloadsPage == Built(InWindow(listing), None, "complete")

\* The feed is discovered and each of its first Limit entries extracted;
\* whatever remains of it, the page is the end
Articles == ToSet(PageOf(1, Limit))
ArticlePage == Built(Articles, None, EndOfFeed)

\* The browser collectors swallow every error, and the page adapter gives
\* them no browser: the page is empty and its disposition as if read to the
\* end
BrowserPage == Built({}, None, EndOfFeed)

Served ==
    CASE source = "github_releases" -> ReleasesPage
      [] source = "github_search" -> SearchPage
      [] source = "arxiv" -> ArxivPage
      [] source = "stack_exchange" -> StackExchangePage
      [] source = "users_rust_lang" -> ForumListing
      [] source = "huggingface_hub" -> ModelsPage
      [] source = "npm_registry" -> RegistryPage
      [] source = "npm_downloads" -> DownloadsPage
      [] source = "react_blog" -> ArticlePage
      [] OTHER -> BrowserPage

----------------------------------------------------------------------------
(***************************************************************************)
(* Commit.  Stack Exchange names the URL of an item canonical_url, where   *)
(* the commit demands canonicalUrl.  A page that continues must move.      *)
(***************************************************************************)
Invalid(page) ==
    \/ page.disposition = "continue" /\ page.next \in {None, place}
    \/ page.disposition = "complete" /\ mode = "backfill" /\ NoHistory(source)
    \/ source = "stack_exchange" /\ page.items # {}

\* Faulty variant: the disposition is stored as the state
StateAfterRaw ==
    [continue |-> "continue", complete |-> "completed",
     deferred |-> "deferred", partial |-> "partial"]

StateAfter ==
    [continue |-> "pending", complete |-> "completed",
     deferred |-> "deferred", partial |-> "partial"]

\* Faulty variant: the validator outlives the cursor that it came with
ValidatorsKept(page) ==
    IF source = "github_releases" /\ page.disposition = "continue"
    THEN {None, PageOf(FromPage(1), Limit)}
    ELSE {etag}

\* The validators that the next cursor may carry: the answer may have none
Validators(page) ==
    IF source = "github_releases" /\ page.disposition = "continue"
    THEN {None, PageOf(FromPage(1), Limit)}
    ELSE {None}

Commit(page) ==
    /\ collected' = collected \cup page.items
    /\ place' = page.next
    /\ etag' \in Validators(page)
    /\ progress' = StateAfter[page.disposition]

\* executePartitionPage after an error: the place is kept
Fail ==
    /\ progress' = "deferred"
    /\ UNCHANGED <<collected, place, etag>>

Waiting == progress \in {"pending", "deferred"}
Refuse ==
    /\ refusals < MaxRefusals
    /\ refusals' = refusals + 1
    /\ UNCHANGED <<source, mode, when, listing, listedAll, lost, unmodified, moves>>

CollectPage ==
    /\ Waiting
    /\ IF Invalid(Served) THEN Fail ELSE Commit(Served)
    /\ unmodified' = Unmodified
    /\ UNCHANGED <<source, mode, when, listing, listedAll, lost, moves, refusals>>

\* The collectors that turn a rate limit into a deferred page
Deferring ==
    {"github_releases", "github_search", "stack_exchange", "npm_registry",
     "npm_downloads"}

RateLimited ==
    /\ Waiting
    /\ Refuse
    /\ CASE source \in Deferring ->
                \/ Commit(Built({}, None, "deferred"))
                \/ Fail    \* the time to retry has passed: the commit rejects
         [] source \in {"reddit", "chrome_origin_trials"} -> Commit(BrowserPage)
         [] OTHER -> Fail

RequestFails ==
    /\ Waiting
    /\ Refuse
    /\ IF source \in {"reddit", "chrome_origin_trials"}
       THEN Commit(BrowserPage)
       ELSE Fail

----------------------------------------------------------------------------
(* The provider *)

\* New items are newer than the window, which is in the past
Publish(i) ==
    /\ Waiting
    /\ moves < MaxMoves
    /\ source \notin Filtered
    /\ i \notin listedAll
    /\ listing' = <<i>> \o listing
    /\ listedAll' = listedAll \cup {i}
    /\ moves' = moves + 1
    /\ UNCHANGED <<source, mode, when, place, etag, progress, collected, lost,
                   unmodified, refusals>>

Withdraw(i) ==
    /\ Waiting
    /\ moves < MaxMoves
    /\ \E k \in DOMAIN listing : listing[k] = i /\ listing' = RemoveAt(listing, k)
    /\ lost' = lost \cup {i}
    /\ moves' = moves + 1
    /\ UNCHANGED <<source, mode, when, place, etag, progress, collected,
                   listedAll, unmodified, refusals>>

PagesInit ==
    /\ source \in SourceKeys
    /\ mode \in {"backfill", "incremental"}
    /\ when \in [PageItems -> Dates]
    /\ listing \in {Catalog, Tail(Catalog)}
    /\ Listable(listing)
    /\ \A i \in PageItems \ ToSet(listing) : when[i] = "after"
    /\ listedAll = ToSet(listing)
    /\ place = None /\ etag = None
    /\ progress = "pending"
    /\ collected = {}
    /\ lost = {}
    /\ unmodified = FALSE
    /\ moves = 0
    /\ refusals = 0

PagesNext ==
    \/ CollectPage
    \/ RateLimited
    \/ RequestFails
    \/ \E i \in PageItems : Publish(i) \/ Withdraw(i)

PagesSpec == PagesInit /\ [][PagesNext]_pageVars /\ WF_pageVars(CollectPage)

----------------------------------------------------------------------------
PagesTypeOK ==
    /\ source \in SourceKeys /\ mode \in {"backfill", "incremental"}
    /\ when \in [PageItems -> Dates]
    /\ listing \in Seq(PageItems) /\ Cardinality(ToSet(listing)) = Len(listing)
    /\ place \in Nat \cup {None} /\ etag \in Seq(PageItems) \cup {None}
    /\ unmodified \in BOOLEAN
    /\ progress \in {"pending", "deferred", "completed", "partial"}
    /\ collected \cup listedAll \cup lost \subseteq PageItems
    /\ moves \in 0 .. MaxMoves /\ refusals \in 0 .. MaxRefusals

Ended == progress \in {"completed", "partial"}

\* The collectors that page through a listing or read all of it
Listers == {"github_releases", "github_search", "arxiv", "stack_exchange",
            "users_rust_lang", "huggingface_hub", "npm_downloads"}
Revalidating == Listers \ {"users_rust_lang", "huggingface_hub"}

\* A partition that a paging collector completes has every item of the window
\* that the provider listed and still has, but for one for each item that it
\* withdrew meanwhile (a withdrawal shifts the first item of the next page
\* onto a page already read): new items, restarts and caps lose nothing.
\* Excepted is a partition that a 304 ended: see below.
LossIsBounded ==
    progress = "completed" /\ source \in Listers /\ ~unmodified =>
        LET missed == {i \in listedAll \ (lost \cup collected) : Inside(i)}
        IN  Cardinality(missed) <= Cardinality(lost)

\* The collectors that check the dates themselves store nothing outside
\* [from, to), whatever the provider's own filter lets through, but for
\* search results without a date.
StoredInsideWindow ==
    source \in Revalidating => \A i \in collected :
        Inside(i) \/ (source = "github_search" /\ when[i] = "undated")

\* The validator of one page, sent for the next, ends a partition with the rest
\* of its window unread only where the provider listed as many new items
\* meanwhile as a page has, which moved the page read onto the next: never in
\* a listing that grows by less, nor in the first request or after a restart.
Listed == moves - Cardinality(lost)
EndsUnreadIfShifted == unmodified => Listed >= Limit

\* What a partition has collected is its window: nothing but for what the
\* provider withdrew is missing once it is complete, nothing lies outside,
\* and the only other way to leave a part unread is a shift by whole pages.
CollectsTheWindow == LossIsBounded /\ StoredInsideWindow /\ EndsUnreadIfShifted

\* A partition ends once the provider no longer refuses it, whatever was
\* listed or withdrawn meanwhile; only Stack Exchange pages, which the commit
\* rejects, are retried for ever.
PartitionEnds ==
    <>(Ended \/ (source = "stack_exchange" /\ \E i \in listedAll : Inside(i)))

\* A refused request leaves the partition at its place, to be continued there
\* (COLLECTION_CONTRACTS.md:48).
DeferredKeepsPlace ==
    [][progress' = "deferred" => place' = place]_pageVars

\* A partition never becomes complete in a step whose request was refused or
\* failed (COLLECTION_CONTRACTS.md:47, 53).
RefusalIsNotTheEnd ==
    [][refusals' # refusals => progress' # "completed"]_pageVars
=============================================================================
