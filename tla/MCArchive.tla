----------------------------- MODULE MCArchive -----------------------------
(***************************************************************************)
(* The services of MCServices, and beside them what keeps the archive: the *)
(* evaluation of a release, the commands of the operators, the groups of   *)
(* duplicates, the texts of the corpus and their topics, the ingestion of  *)
(* a run, the feed of articles and their text, retention and restores, the *)
(* reports of coverage, the slots of the sources and the life of a worker. *)
(* `part' says which of them moves.                                        *)
(***************************************************************************)
EXTENDS MCServices, ReleaseEvaluation, OperatorCommands, ArchiveCorpus, ArchiveCustody,
        WorkerRuntime

-----------------------------------------------------------------------------
\* A release of two labels: one is answered from a chunk, the other from none.
\* The corpus moves once, to another date of the chunk.
CONSTANTS pos, neg, k1, r1, r2
RunCodes == [r \in Runs |-> [fixed |-> "v1", repair |-> r]]
Label(revs, chunks, answered) ==
    [revisions |-> revs, chunks |-> chunks, target |-> "node", from |-> 1, to |-> 3,
     answered |-> answered]
TwoLabels == [i \in {pos, neg} |-> IF i = pos THEN Label({"v"}, {k1}, TRUE) ELSE Label({}, {}, FALSE)]
CorpusOf(day) ==
    [chunks |-> [c \in {k1} |-> [revision |-> "v", target |-> "node", date |-> day]],
     intact |-> TRUE, rights |-> TRUE, partitions |-> TRUE, approved |-> TRUE]
TwoCorpora == <<CorpusOf(1), CorpusOf(2)>>
ReservesOf == [k \in {"embedding", "chat"} |-> IF k = "chat" THEN 2 ELSE 1]
OneVerdict == {[claims |-> 20, citations |-> 20, supported |-> 19, covered |-> 18, unsupported |-> 1]}

-----------------------------------------------------------------------------
\* Three commands of two operators, by key, kind, argument and actor
CONSTANTS c1, c2, c3, v1, v2
Cmd(key, kind, arg, actor) == [key |-> key, kind |-> kind, arg |-> arg, actor |-> actor]
PlanOf(a, b, c) == [q \in CommandRequests |-> IF q = c1 THEN a ELSE IF q = c2 THEN b ELSE c]
OnePlan ==
    PlanOf(Cmd("k", "run", "npm", "ann"), Cmd("k", "run", "npm", "ann"), Cmd("k", "run", "arxiv", "ann"))
SomePlans == {
    OnePlan,
    PlanOf(Cmd("k", "register", v2, "ann"), Cmd("l", "enable", "t", "ann"), Cmd("m", "enable", "t", "bob")),
    PlanOf(Cmd("k", "enable", "t", "ann"), Cmd("l", "disable", "t", "bob"), Cmd("m", "replay", "t", "bob")),
    PlanOf(Cmd("k", "review", "accepted", "ann"), Cmd("l", "review", "rejected", "bob"), Cmd("k", "review", "accepted", "bob")),
    PlanOf(Cmd("k", "cohort", "m1", "ann"), Cmd("l", "cohort", "m2", "bob"), Cmd("l", "replay", "t", "bob")),
    PlanOf(Cmd("k", "enable", "t", "ann"), Cmd("l", "replay", "t", "bob"), Cmd("m", "replay", "t", "bob"))}

-----------------------------------------------------------------------------
\* Texts: two of one body, one with the URL of the second, two that are similar
CONSTANTS x1, x2, x3, x4
Words(url, text, words, verb) ==
    [url |-> url, canon |-> url, body |-> text, key |-> url, titleWords |-> {1},
     bodyWords |-> words, verbatim |-> verb]
FourTexts == [t \in {x1, x2, x3, x4} |->
    CASE t = x1 -> Words("u1", "b1", {1, 2, 3, 4}, FALSE)
      [] t = x2 -> Words("u2", "b1", {1, 2, 3, 4}, FALSE)
      [] t = x3 -> Words("u2", "b2", {1, 2, 3, 5, 6, 7}, TRUE)
      [] t = x4 -> Words("u3", "b3", {1, 2, 3, 4, 5, 6, 7}, FALSE)]

-----------------------------------------------------------------------------
\* Items of every source, with and without what a normalizer falls back from
RawItem(source, has, day, itemDay, license, author) ==
    LET Given(f, v) == IF f \in has THEN v ELSE Nil
    IN  [id |-> "id", source |-> source, urlSource |-> Nil, url |-> "url", link |-> Given("link", "link"),
         title |-> Given("title", "title"), name |-> Given("name", "name"), version |-> Given("name", "1"),
         text |-> Given("text", "text"), post |-> Nil, date |-> day, itemDate |-> itemDay, from |-> day,
         license |-> license, rights |-> Nil, author |-> author, topic |-> Given("name", "topic"),
         count |-> Nil, status |-> "Active", collected |-> 5]
TwelveSources == {"github_releases", "stack_exchange", "users_rust_lang", "arxiv",
    "chrome_release_notes", "react_blog", "chrome_origin_trials", "npm_registry", "npm_downloads",
    "github_search", "huggingface_hub", "other"}
SomeItems == {RawItem(s, has, d, e, l, a) :
    s \in TwelveSources, has \in SUBSET {"link", "title", "name", "text"},
    d \in {Nil, 2}, e \in {Nil, 3}, l \in {Nil, "mit"}, a \in {Nil, "ann"}}
LineOf(kind, level, words) == [kind |-> kind, level |-> level, words |-> words]
SomeLines == {LineOf("blank", 0, <<>>), LineOf("heading", 1, <<1>>), LineOf("heading", 2, <<1>>),
    LineOf("fence", 0, <<1>>), LineOf("table", 0, <<1>>), LineOf("text", 0, <<1, 2>>),
    LineOf("text", 0, <<4>>)}
TokenOf(kind, tag, hidden, void) == [kind |-> kind, tag |-> tag, hidden |-> hidden, void |-> void]
SomeTokens == {TokenOf("text", "", FALSE, FALSE), TokenOf("open", "p", FALSE, FALSE),
    TokenOf("open", "div", TRUE, FALSE), TokenOf("open", "img", TRUE, TRUE),
    TokenOf("close", "p", FALSE, FALSE), TokenOf("close", "div", FALSE, FALSE)}

-----------------------------------------------------------------------------
\* A backfill of three slices, one that a feed cannot serve, one of a target
\* that is disabled, and two incremental requests
PlanRequest(mode, window, collectable, feedOnly) ==
    [mode |-> mode, window |-> window, slice |-> 2, collectable |-> collectable, feedOnly |-> feedOnly]
SomeRequests == {
    PlanRequest("backfill", <<1, 6>>, TRUE, FALSE), PlanRequest("backfill", <<1, 6>>, TRUE, TRUE),
    PlanRequest("on_demand", <<1, 6>>, FALSE, FALSE),
    PlanRequest("incremental", <<>>, TRUE, FALSE), PlanRequest("incremental", <<2, 2>>, TRUE, FALSE)}

-----------------------------------------------------------------------------
\* Topics: one of an ambiguous and a sure alias, one of a Korean alias, one sure
TopicEntry(slug, aliases, ambiguous, contexts, sources) ==
    [slug |-> slug, aliases |-> aliases, ambiguous |-> ambiguous, contexts |-> contexts, sources |-> sources]
SomeTaxonomy == {TopicEntry("nodejs", {"node", "nodejs"}, {"node"}, {"runtime"}, {"npm"}),
    TopicEntry("queue", {"bullmq", "queue-ko"}, {"queue-ko"}, {"job-ko"}, {"so"}),
    TopicEntry("deno", {"deno"}, {}, {}, {})}
PieceOf(kind, name) == [kind |-> kind, name |-> name]
SomePieces == {PieceOf("alias", a) : a \in {"node", "nodejs", "queue-ko"}}
    \cup {PieceOf("context", "runtime"), PieceOf("space", ""), PieceOf("word", ""), PieceOf("particle", "")}
RangeOf(given, whole, from, to) ==
    [given |-> given, whole |-> whole, wellFormed |-> TRUE, from |-> from, to |-> to]
SpanOf(amount, unit) == [amount |-> amount, unit |-> unit]
SomeSpans == {SpanOf(0, 1), SpanOf(7, 1), SpanOf(12, 30), SpanOf(366, 1)}
SomeRanges == {RangeOf(FALSE, FALSE, 0, 0), RangeOf(TRUE, FALSE, 0, 0), RangeOf(TRUE, TRUE, 600, 700),
               RangeOf(TRUE, TRUE, 700, 600)}

-----------------------------------------------------------------------------
\* Two pages of a source; the first has an item twice
CONSTANTS y1, y2, nextPlace
TwoPages == [c \in {NoPlace, nextPlace} |->
    IF c = NoPlace THEN [items |-> <<y1, y2, y1>>, next |-> nextPlace] ELSE [items |-> <<y2>>, next |-> NoPlace]]

-----------------------------------------------------------------------------
\* Four entries: two of one URL, one of a URL that the policy refuses
CONSTANTS f1, f2, f3, f4
FourEntries == [e \in {f1, f2, f3, f4} |->
    CASE e \in {f1, f2} -> "u1" [] e = f3 -> "u2" [] e = f4 -> "barred"]
ThreeContainers == <<"article", "main", "body">>
PageTags == {[kind |-> "text", tag |-> ""], [kind |-> "open", tag |-> "br"]}
    \cup {[kind |-> k, tag |-> t] : k \in {"open", "close"}, t \in {"article", "main", "nav"}}

-----------------------------------------------------------------------------
\* An old item of each of two sources, one that came lately, and one of a
\* source that the table of days does not have; events of two of them
Day(d) == [source |-> "npm", day |-> d]
SomeRows == [r \in {"old", "older", "late", "other"} |->
    CASE r = "old" -> Day(4) [] r = "older" -> [source |-> "arxiv", day |-> 0] [] r = "late" -> Day(9)
      [] r = "other" -> [source |-> "unlisted", day |-> 0]]
EventAt(raw, state, d) == [row |-> raw, status |-> state, day |-> d]
SomeKept == {{"other"}, {"old", "older"}, {"old", "late"}}
SomeEvents == [e \in {"e1", "e2"} |->
    IF e = "e1" THEN EventAt("old", "skipped", 4) ELSE EventAt("late", "failed", 5)]
SomeQueries == [u \in {"u1", "u2"} |-> IF u = "u1" THEN 6 ELSE 7]
SomeDays == [s \in {"npm", "arxiv"} |-> IF s = "npm" THEN 3 ELSE 9]
AskToPurge(dry, token, custom) == [day |-> 10, dry |-> dry, token |-> token, custom |-> custom]
NoDays == [s \in {} |-> 0]
SomePurges == {AskToPurge(TRUE, FALSE, NoDays), AskToPurge(FALSE, FALSE, NoDays), AskToPurge(FALSE, TRUE, NoDays),
               AskToPurge(FALSE, TRUE, [s \in {"npm"} |-> 7]), AskToPurge(FALSE, TRUE, [s \in {"npm"} |-> -1])}
TableOf(rows, checksum) == [named |-> TRUE, rows |-> rows, checksum |-> checksum]
ManifestOf(tables, total) ==
    [version |-> TRUE, named |-> TRUE, dimensions |-> 3, tables |-> tables, total |-> total]
SomeManifests == {ManifestOf(tables, total) :
    tables \in {<<>>, <<TableOf(2, TRUE)>>, <<TableOf(2, TRUE), TableOf(1, TRUE)>>,
                <<TableOf(2, FALSE)>>, <<TableOf(2, TRUE), TableOf(-1, TRUE)>>},
    total \in {-1, 2, 3}}
SomeDrills == {[dry |-> d, token |-> t] : d, t \in BOOLEAN}

-----------------------------------------------------------------------------
\* A cohort of two members; one is collected in a slice for each period, a
\* late one over both, and for a question; the other is not collected.  An item
\* that only the question finds has no date and the signature of the member.
CONSTANTS n1, n2, sig
SliceAs(t, how, window, found) == [target |-> t, mode |-> how, window |-> window, items |-> found]
SomeSlices == [p \in {"base", "now", "asked", "both"} |->
    CASE p = "base" -> SliceAs(n1, "backfill", <<1, 3>>, {"early"})
      [] p = "now" -> SliceAs(n1, "incremental", <<3, 5>>, {"late"})
      [] p = "asked" -> SliceAs(n1, "on_demand", <<3, 5>>, {"late", "found"})
      [] p = "both" -> SliceAs(n1, "backfill", <<1, 5>>, {})]
ItemAs(published, day, signature) ==
    [day |-> published, metricDay |-> day, value |-> 1, signature |-> signature, licensed |-> TRUE,
     embeddable |-> TRUE]
SomeItemFacts == [i \in {"early", "late", "found"} |->
    CASE i = "early" -> ItemAs(1, 1, NoSignature) [] i = "late" -> ItemAs(3, 3, NoSignature)
      [] i = "found" -> ItemAs(NoDate, 4, sig)]
TwoPeriods == <<<<1, 3>>, <<3, 5>>>>
TwoMembers == <<[target |-> n1, signature |-> sig], [target |-> n2, signature |-> "other"]>>

-----------------------------------------------------------------------------
\* What the configuration gives to the constants.  TLC evaluates the body of
\* such a definition at every use of its constant, and the tables above once.
GivenFiveHits == FiveHits
GivenSomeQuestions == SomeQuestions
GivenSomeSetups == SomeSetups
GivenSomeCalls == SomeCalls
GivenSomeWirings == SomeWirings
GivenOneClient == OneClient
GivenRunCodes == RunCodes
GivenTwoLabels == TwoLabels
GivenTwoCorpora == TwoCorpora
GivenReservesOf == ReservesOf
GivenOneVerdict == OneVerdict
GivenSomePlans == SomePlans
GivenFourTexts == FourTexts
GivenSomeItems == SomeItems
GivenSomeLines == SomeLines
GivenSomeTokens == SomeTokens
GivenSomeRequests == SomeRequests
GivenSomeTaxonomy == SomeTaxonomy
GivenSomePieces == SomePieces
GivenSomeRanges == SomeRanges
GivenSomeSpans == SomeSpans
GivenTwoPages == TwoPages
GivenFourEntries == FourEntries
GivenPageTags == PageTags
GivenThreeContainers == ThreeContainers
GivenSomeRows == SomeRows
GivenSomeEvents == SomeEvents
GivenSomeQueries == SomeQueries
GivenSomeDays == SomeDays
GivenSomePurges == SomePurges
GivenSomeManifests == SomeManifests
GivenSomeDrills == SomeDrills
GivenTwoMembers == TwoMembers
GivenSomeSlices == SomeSlices
GivenSomeItemFacts == SomeItemFacts
GivenTwoPeriods == TwoPeriods

-----------------------------------------------------------------------------
servicesVars == <<answerVars, acquisitionVars, apiVars, webVars>>
keptVars == <<corpusVars, ingestVars, custodyVars>>

ArchiveInit ==
    /\ AnswerInit /\ AcquisitionInit /\ ApiInit /\ WebInit
    /\ ReleaseInit /\ CommandInit /\ GroupInit /\ TextInit /\ TopicInit /\ IngestInit
    /\ ArticleInit /\ CustodyInit /\ CoverageInit /\ SlotInit /\ RuntimeInit
    /\ part \in {"answer", "acquisition", "api", "web", "release", "commands",
                 "groups", "text", "topics", "ingestion", "feed", "article",
                 "retention", "restore", "coverage", "slots", "local", "runtime", "planner"}
    /\ part = "acquisition" \/ wired = {}
    /\ part = "commands" \/ (asked = OnePlan /\ runPorts = {})
    /\ asked = OnePlan \/ runPorts = {"rows", "queue"}
    /\ part = "ingestion" \/ feedState = "on"
    /\ part = "feed" \/ feedKind = "feed"
    /\ rawKept \in IF part # "retention" THEN {{}}
                   ELSE IF "purge_audit" \in custodyPorts THEN SomeKept ELSE {{"old"}, {"other"}}
    /\ "purge" \in custodyPorts => part = "retention"
    /\ "purge_audit" \in custodyPorts => part = "retention"
    /\ "drill_audit" \in custodyPorts => part = "restore"
    /\ part = "restore" \/ shelf = "empty"

ServicesPart ==
    /\ ServicesNext
    /\ UNCHANGED <<releaseVars, commandVars, keptVars, slotVars, runtimeVars>>
ReleasePart ==
    /\ part = "release" /\ ReleaseNext
    /\ UNCHANGED <<part, servicesVars, commandVars, keptVars, slotVars, runtimeVars>>
CommandPart ==
    /\ part = "commands" /\ CommandNext
    /\ UNCHANGED <<part, servicesVars, releaseVars, keptVars, slotVars, runtimeVars>>
GroupPart ==
    /\ part = "groups" /\ GroupNext
    /\ UNCHANGED <<part, servicesVars, releaseVars, commandVars, textVars, topicText, ingestVars,
                   articleVars, custodyVars, coverageVars, slotVars, runtimeVars>>
TextPart ==
    /\ \/ part = "text" /\ TextNext /\ UNCHANGED topicText
       \/ part = "topics" /\ TopicNext /\ UNCHANGED textVars
    /\ UNCHANGED <<part, servicesVars, releaseVars, commandVars, groupVars, ingestVars, articleVars,
                   custodyVars, coverageVars, slotVars, runtimeVars>>
CustodyPart ==
    /\ \/ part = "ingestion" /\ IngestNext /\ UNCHANGED <<articleVars, custodyVars>>
       \/ part = "feed" /\ FeedNext /\ UNCHANGED <<ingestVars, custodyVars>>
       \/ part = "article" /\ NextArticleToken /\ UNCHANGED <<ingestVars, custodyVars>>
       \/ part = "retention" /\ RetentionNext /\ UNCHANGED <<ingestVars, articleVars>>
       \/ part = "restore" /\ DrillNext /\ UNCHANGED <<ingestVars, articleVars>>
    /\ UNCHANGED <<part, servicesVars, releaseVars, commandVars, groupVars, textVars, topicText,
                   coverageVars, slotVars, runtimeVars>>
CoveragePart ==
    /\ part = "coverage" /\ CoverageNext
    /\ UNCHANGED <<part, servicesVars, releaseVars, commandVars, groupVars, textVars, topicText,
                   ingestVars, articleVars, custodyVars, slotVars, runtimeVars>>
SlotPart ==
    /\ \/ part = "slots" /\ RedisNext
       \/ part = "local" /\ LocalNext
    /\ UNCHANGED <<part, servicesVars, releaseVars, commandVars, keptVars, runtimeVars>>
RuntimePart ==
    /\ \/ part \in {"runtime", "planner"} /\ ProcessNext
       \/ part = "runtime" /\ (LoopNext \/ WorkNext \/ StopNext)
       \/ part = "planner" /\ PlanNext
    /\ UNCHANGED <<part, servicesVars, releaseVars, commandVars, keptVars, slotVars>>

archiveVars ==
    <<part, servicesVars, releaseVars, commandVars, keptVars, slotVars, runtimeVars>>
ArchiveNext ==
    \/ ServicesPart \/ ReleasePart \/ CommandPart \/ GroupPart \/ TextPart \/ CustodyPart
    \/ CoveragePart \/ SlotPart \/ RuntimePart
ArchiveSpec == ArchiveInit /\ [][ArchiveNext]_archiveVars

\* The operators' commands alone, and the duplicates alone
CommandSpec == ArchiveInit /\ part = "commands" /\ [][CommandPart]_archiveVars
GroupSpec == ArchiveInit /\ part = "groups" /\ [][GroupPart]_archiveVars

\* The types of the parts
ArchiveTypeOK ==
    CASE part = "release" -> ReleaseTypeOK
      [] part = "commands" -> CommandTypeOK
      [] part = "groups" -> GroupTypeOK
      [] part = "text" -> TextTypeOK
      [] part = "topics" -> TopicTypeOK
      [] part = "ingestion" -> IngestTypeOK
      [] part \in {"feed", "article"} -> ArticleTypeOK
      [] part \in {"retention", "restore"} -> CustodyTypeOK
      [] part = "coverage" -> CoverageTypeOK
      [] part \in {"slots", "local"} -> SlotTypeOK
      [] part \in {"runtime", "planner"} -> RuntimeTypeOK
      [] OTHER -> ServicesTypeOK
=============================================================================
