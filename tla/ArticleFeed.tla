----------------------------- MODULE ArticleFeed -----------------------------
(***************************************************************************)
(* The collector of articles.  A call reads a feed, or an index, with the  *)
(* validator of the last reading, and then every article that its cursor   *)
(* does not name, up to a limit; the caller stores the items and keeps the *)
(* cursor.  Any throw ends the call with nothing.  And the text of an      *)
(* article, out of the tags of its page.                                   *)
(***************************************************************************)
EXTENDS Naturals, Sequences, SequencesExt, FiniteSets

CONSTANTS
    FeedEntries,    \* what the provider lists
    ArticleAt,      \* the URL of an entry
    Barred,         \* URLs that the guard of the policy refuses
    FeedKinds,      \* subset of {"feed", "index"}
    ArticleLimit,   \* context.limit
    ArticleTokens,  \* tokens of a page: kind and tag
    Containers,     \* the tags that may hold an article, best first
    Dropped,        \* tags whose content is no text of an article
    Voids,          \* elements without content
    MaxFeedCalls, MaxFeedMoves, MaxFeedFaults, MaxArticle  \* bounds

ASSUME ArticleAssumption ==
    /\ ArticleLimit \in Nat /\ Len(Containers) \in Nat
    /\ \A t \in ArticleTokens : t.kind \in {"text", "open", "close"}

VARIABLES
    feedKind,    \* config.discovery.type, fixed by Init
    listed,      \* what the provider lists
    feedTag,     \* its ETag; 0 stands for none
    feedCursor,  \* the cursor of the last call whose items were stored
    feedCall,    \* the call that is under way
    handed,      \* history: how often the item of a URL was stored
    pagesRead,   \* history: pages whose items were stored
    feedCalls, feedMoves, feedFaults,
    articlePage  \* tokens of a page

feedVars ==
    <<feedKind, listed, feedTag, feedCursor, feedCall, handed, pagesRead, feedCalls, feedMoves,
      feedFaults>>
articleVars == <<feedVars, articlePage>>

ArticleUrls == {ArticleAt[e] : e \in FeedEntries}
\* seen: processedUrls; cut: history, whether the limit left entries unread
NoFeedCursor == [tag |-> 0, seen |-> {}, cut |-> FALSE]
NoFeedCall == [at |-> "idle", page |-> FALSE, from |-> NoFeedCursor, left |-> <<>>, found |-> <<>>, tag |-> 0]

ArticleInit ==
    /\ feedKind \in FeedKinds
    /\ listed = <<>> /\ feedTag = 1
    /\ feedCursor = NoFeedCursor /\ feedCall = NoFeedCall
    /\ handed = [u \in ArticleUrls |-> 0] /\ pagesRead = 0
    /\ feedCalls = 0 /\ feedMoves = 0 /\ feedFaults = 0
    /\ articlePage = <<>>

\* The entry whose article comes next: those that were processed are passed
\* over, and after `limit' items the rest is left.
Seen(c) == c.from.seen \cup ToSet(c.found)
AtLimit(c) == Len(c.found) >= ArticleLimit
Awaited(c) ==
    LET first == SelectInSeq(c.left, LAMBDA e : ArticleAt[e] \notin Seen(c))
        rest == IF first = 0 THEN <<>> ELSE SubSeq(c.left, first, Len(c.left))
    IN  [c EXCEPT !.left = rest, !.at = IF rest = <<>> \/ AtLimit(c) THEN "storing" ELSE "reading"]

\* `collect' is given the cursor; a page of a target begins without one.
AskForArticles(page) ==
    /\ feedCall.at = "idle" /\ feedCalls < MaxFeedCalls
    /\ feedCalls' = feedCalls + 1
    /\ feedCall' = [NoFeedCall EXCEPT !.at = "asking", !.page = page,
                                       !.from = IF page THEN NoFeedCursor ELSE feedCursor]
    /\ UNCHANGED <<feedKind, listed, feedTag, feedCursor, handed, pagesRead, feedMoves, feedFaults,
                   articlePage>>

\* An index names a URL once; a feed may name it again.
OnceEach(entries) ==
    FoldLeft(LAMBDA kept, e :
        IF \E n \in DOMAIN kept : ArticleAt[kept[n]] = ArticleAt[e] THEN kept ELSE Append(kept, e),
        <<>>, entries)
Entries == IF feedKind = "index" THEN OnceEach(listed) ELSE listed

\* 304: no items, and the cursor is the one that came.  A provider may leave
\* out its validators.
Discover ==
    LET c == feedCall IN
    /\ c.at = "asking"
    /\ IF c.from.tag = feedTag
       THEN feedCall' = NoFeedCall
       ELSE \E tag \in {0, feedTag} : feedCall' = Awaited([c EXCEPT !.left = Entries, !.tag = tag])
    /\ UNCHANGED <<feedKind, listed, feedTag, feedCursor, handed, pagesRead, feedCalls, feedMoves,
                   feedFaults, articlePage>>

ReadArticle ==
    LET u == ArticleAt[Head(feedCall.left)] IN
    /\ feedCall.at = "reading" /\ u \notin Barred
    /\ feedCall' = Awaited([feedCall EXCEPT !.found = Append(@, u)])
    /\ UNCHANGED <<feedKind, listed, feedTag, feedCursor, handed, pagesRead, feedCalls, feedMoves,
                   feedFaults, articlePage>>

\* A URL that is refused throws, and what was read is lost with it.
RefuseArticle ==
    /\ feedCall.at = "reading" /\ ArticleAt[Head(feedCall.left)] \in Barred
    /\ feedCall' = NoFeedCall
    /\ UNCHANGED <<feedKind, listed, feedTag, feedCursor, handed, pagesRead, feedCalls, feedMoves,
                   feedFaults, articlePage>>

\* The cursor of a call names what the one before it named and what it found;
\* that of a page is dropped.
NextCursor(c) == [tag |-> c.tag, seen |-> Seen(c), cut |-> c.left # <<>>]
StoreArticles ==
    LET c == feedCall IN
    /\ c.at = "storing"
    /\ handed' = [u \in ArticleUrls |-> handed[u] + (IF u \in ToSet(c.found) THEN 1 ELSE 0)]
    /\ feedCursor' = IF c.page THEN feedCursor ELSE NextCursor(c)
    /\ pagesRead' = IF c.page THEN pagesRead + 1 ELSE pagesRead
    /\ feedCall' = NoFeedCall
    /\ UNCHANGED <<feedKind, listed, feedTag, feedCalls, feedMoves, feedFaults, articlePage>>

\* A request fails, or the caller before it has stored what it was given.
ArticlesAreLost ==
    /\ feedCall.at # "idle" /\ feedFaults < MaxFeedFaults
    /\ feedFaults' = feedFaults + 1
    /\ feedCall' = NoFeedCall
    /\ UNCHANGED <<feedKind, listed, feedTag, feedCursor, handed, pagesRead, feedCalls, feedMoves, articlePage>>

\* The provider lists an entry on top, or drops its last one.
FeedMoves ==
    /\ feedMoves < MaxFeedMoves /\ feedMoves' = feedMoves + 1
    /\ \/ \E e \in FeedEntries \ ToSet(listed) : listed' = <<e>> \o listed
       \/ listed # <<>> /\ listed' = Front(listed)
    /\ feedTag' = feedTag + 1
    /\ UNCHANGED <<feedKind, feedCursor, feedCall, handed, pagesRead, feedCalls, feedFaults, articlePage>>

FeedNext ==
    \/ \E page \in BOOLEAN : AskForArticles(page)
    \/ Discover \/ ReadArticle \/ RefuseArticle \/ StoreArticles \/ ArticlesAreLost \/ FeedMoves

-----------------------------------------------------------------------------
(* The text of an article.  The open elements are kept by the number of    *)
(* their token; a closing tag closes the last open element of its name and *)
(* what is open inside of it, or nothing.                                  *)
TagAt(n) == articlePage[n].tag
ReadTag(s, n) ==
    LET t == articlePage[n]
        m == SelectLastInSeq(s.open, LAMBDA k : TagAt(k) = t.tag)
    IN  CASE t.kind = "text" -> [s EXCEPT !.texts = @ \cup {[at |-> n, under |-> ToSet(s.open)]}]
          [] t.kind = "open" -> IF t.tag \in Voids THEN s ELSE [s EXCEPT !.open = Append(@, n)]
          [] OTHER -> IF m = 0 THEN s ELSE [s EXCEPT !.open = SubSeq(@, 1, m - 1)]
ParseXmlOrHtml ==
    FoldLeft(ReadTag, [open |-> <<>>, texts |-> {}], [n \in DOMAIN articlePage |-> n]).texts

\* The first element of the best container that the page has, or 0: the page
Elements(tag) == {n \in DOMAIN articlePage : articlePage[n].kind = "open" /\ TagAt(n) = tag}
ContentRoot ==
    LET best == SelectInSeq(Containers, LAMBDA tag : Elements(tag) # {})
    IN  IF best = 0 THEN 0
        ELSE CHOOSE n \in Elements(Containers[best]) : \A m \in Elements(Containers[best]) : n <= m
\* The texts under the root, without those under an element that is dropped
\* there; what is dropped around the root does not count.
CleanBodyText ==
    LET root == ContentRoot
    IN  {t.at : t \in {t \in ParseXmlOrHtml :
            /\ root = 0 \/ root \in t.under
            /\ \A k \in t.under : k > root => TagAt(k) \notin Dropped}}

NextArticleToken ==
    /\ Len(articlePage) < MaxArticle
    /\ \E t \in ArticleTokens : articlePage' = Append(articlePage, t)
    /\ UNCHANGED feedVars

-----------------------------------------------------------------------------
ArticleTypeOK ==
    /\ listed \in Seq(FeedEntries) /\ feedTag \in Nat
    /\ feedCall.at \in {"idle", "asking", "reading", "storing"}
    /\ Seen(feedCall) \subseteq ArticleUrls /\ feedCursor.seen \subseteq ArticleUrls
    /\ handed \in [ArticleUrls -> Nat]
    /\ articlePage \in Seq(ArticleTokens)

\* However the feed moves and calls fail, an article is stored once, and again
\* only by a page, the cursor names no article that was not stored, and the
\* provider's 304 hides no article from the next call, except where the limit
\* cut a reading short: then the rest stays hidden until the provider lists
\* something else.
FeedIsRead ==
    /\ \A u \in ArticleUrls : handed[u] <= 1 + pagesRead
    /\ \A u \in feedCursor.seen : handed[u] > 0
    /\ Len(feedCall.found) <= ArticleLimit /\ Cardinality(ToSet(feedCall.found)) = Len(feedCall.found)
    /\ feedCursor.tag = feedTag /\ ~feedCursor.cut =>
           \A n \in DOMAIN listed : ArticleAt[listed[n]] \in feedCursor.seen

\* Token n is inside the element that token j opens.
TagsOpen(j, n) ==
    Cardinality({m \in j .. n : articlePage[m].kind = "open" /\ TagAt(m) \notin Voids})
        - Cardinality({m \in j .. n : articlePage[m].kind = "close"})
Inside(j, n) ==
    /\ articlePage[j].kind = "open" /\ TagAt(j) \notin Voids
    /\ \A m \in j .. n : TagsOpen(j, m) > 0
\* Every closing tag closes the element that was opened last.
ClosedInOrder ==
    \A n \in DOMAIN articlePage : articlePage[n].kind = "close" =>
        \E j \in 1 .. n - 1 : TagAt(j) = TagAt(n) /\ Inside(j, n - 1) /\ TagsOpen(j, n) = 0
\* Of a page whose tags are closed in order, and of its beginning up to any
\* place, exactly the texts inside the root and outside of every element that
\* is dropped in it are kept.
TextIsOfTheArticle ==
    ClosedInOrder =>
        LET root == ContentRoot
        IN  CleanBodyText = {n \in DOMAIN articlePage :
                /\ articlePage[n].kind = "text"
                /\ root = 0 \/ (root <= n /\ Inside(root, n))
                /\ ~\E j \in root + 1 .. n : Inside(j, n) /\ TagAt(j) \in Dropped}
=============================================================================
