----------------------------- MODULE CorpusText -----------------------------
(***************************************************************************)
(* What becomes of a raw item: the document and the observations that the  *)
(* normalizer of its source makes of the payload, the text that is left of *)
(* its markup, and the chunks that the text is cut into.  Pure functions;  *)
(* a state is one input to them.                                           *)
(***************************************************************************)
EXTENDS Naturals, Sequences, SequencesExt, FiniteSets

CONSTANTS
    RawItems,      \* raw items, with the fields that the normalizers read
    LineKinds,     \* lines of a body: kind, level of a heading, tokens of each word
    MarkupTokens,  \* tokens of a page: kind, tag, hidden, void
    MaxTokens,     \* tokens of a chunk
    Cutoff,        \* the day from which the forum has a license
    Nil,
    MaxLines, MaxMarkup      \* bounds: lines and tokens of an input

\* A raw item has its fields, no license is Nil, a line has the tokens of its
\* words, a row of a table some and a blank line none, and a token is a tag or a text.
ASSUME TextAssumption ==
    /\ Nil \notin RawItems /\ Nil \notin {"mit-or-apache-2.0", "cc0-1.0", "cc-by-4.0"}
    /\ \A i \in RawItems : DOMAIN i =
           {"id", "source", "urlSource", "url", "link", "title", "name", "version", "text", "post",
            "date", "itemDate", "from", "license", "rights", "author", "topic", "count", "status",
            "collected"}
    /\ \A line \in LineKinds :
           /\ line.kind \in {"blank", "heading", "fence", "table", "text"} /\ line.level \in Nat
           /\ line.words \in Seq(Nat)
           /\ line.kind = "table" => line.words # <<>>
           /\ line.kind = "blank" => line.words = <<>>
    /\ \A t \in MarkupTokens :
           t.kind \in {"text", "open", "close"} /\ t.hidden \in BOOLEAN /\ t.void \in BOOLEAN
    /\ MaxTokens \in Nat

VARIABLES
    rawItem,       \* a raw item, or Nil
    body,          \* lines of a sanitized text
    markup         \* tokens of a page
textVars == <<rawItem, body, markup>>

-----------------------------------------------------------------------------
(***************************************************************************)
(* The normalizers.  The hash of a document covers every field of it: two  *)
(* documents are one revision when they are equal.                         *)
(***************************************************************************)
Or(a, b) == IF a # Nil THEN a ELSE b
Normalized(type, url, title, text, author, date, license) ==
    [type |-> type, url |-> url, title |-> title, text |-> text, author |-> author,
     date |-> date, license |-> license]
Observation(type, subject, from, to, value) ==
    [type |-> type, subject |-> subject, from |-> from, to |-> to, value |-> value]
\* The publication date of the payload, or else that of the raw item
PublishedOf(i) == Or(i.date, i.itemDate)
DayOf(i) == Or(PublishedOf(i), i.collected)

\* A hint, the item's own key, what its URL says, or GitHub releases
SourceKey(i, hint) == Or(hint, Or(i.source, Or(i.urlSource, "github_releases")))

\* The date of the commit is never read.
ReleaseNote(i) ==
    Normalized("release_note", Or(i.link, i.url), Or(i.title, Or(i.name, i.id)),
               Or(i.text, Or(i.name, i.id)), Nil, PublishedOf(i), Or(i.rights, i.license))
ReleaseSeen(i) == Observation("release_activity", Or(i.link, i.url), DayOf(i), DayOf(i), 1)

\* The name of an asker is kept only with the license of what was asked.
Question(i) ==
    Normalized("qa_post", Or(i.link, i.url), Or(i.title, i.id), Or(i.text, Or(i.title, i.id)),
               IF i.license # Nil THEN i.author ELSE Nil, PublishedOf(i), i.license)
QuestionSeen(i) ==
    Observation("community_mentions", Or(i.topic, "stack_exchange"), DayOf(i), DayOf(i),
                Or(i.count, 1))

\* Posts of the forum have a license from the cutoff on, and no author.
ForumPost(i) ==
    Normalized("forum_post", IF i.name # Nil THEN <<i.name, i.id>> ELSE i.url,
               Or(i.title, "Discourse Topic"), Or(i.post, Or(i.text, Or(i.title, "Discourse Topic"))),
               Nil, PublishedOf(i),
               IF PublishedOf(i) # Nil /\ PublishedOf(i) >= Cutoff THEN "mit-or-apache-2.0" ELSE Nil)
ForumSeen(i) == Observation("community_mentions", "rust", DayOf(i), DayOf(i), Or(i.count, 1))

Paper(i) ==
    Normalized("paper", Or(i.link, <<"abs", i.id>>), Or(i.title, i.id), Or(i.text, ""),
               i.author, PublishedOf(i), "cc0-1.0")
PaperSeen(i) == Observation("paper_activity", Or(i.topic, "cs.AI"), DayOf(i), DayOf(i), 1)

ChromeNotes(i) ==
    Normalized("release_note", Or(i.link, <<"notes", Or(i.version, i.id)>>),
               Or(i.title, <<"Chrome", Or(i.version, i.id)>>), Or(i.text, ""), Nil,
               PublishedOf(i), "cc-by-4.0")
ChromeSeen(i) == Observation("release_activity", "chrome", DayOf(i), DayOf(i), 1)

ReactPost(i) ==
    Normalized("article", Or(i.link, i.url), Or(i.title, "React Blog"), Or(i.text, ""),
               i.author, PublishedOf(i), "cc-by-4.0")

\* A trial has milestones and is never dated.
OriginTrial(i) ==
    Normalized("article", Or(i.url, "origintrials"), Or(i.title, Or(i.name, "Chrome Origin Trial")),
               <<Or(i.title, i.name), i.status, i.version, i.text>>, Nil, Nil, "cc-by-4.0")

\* All versions of a package have the page of the package for their URL.
PackageRelease(i) ==
    Normalized("release_note", <<"package", Or(i.name, i.id)>>,
               <<Or(i.name, i.id), Or(i.version, "0.0.0")>>,
               Or(i.text, <<Or(i.name, i.id), Or(i.version, "0.0.0")>>), Nil, PublishedOf(i), i.license)
PackageSeen(i) == Observation("release_activity", Or(i.name, i.id), DayOf(i), DayOf(i), 1)

\* Downloads, searches and models are observations only.
DownloadsSeen(i) ==
    Observation("package_downloads", Or(i.name, i.id), Or(i.from, i.collected),
                Or(i.date, i.collected), Or(i.count, 0))
SearchSeen(i) ==
    Observation(IF i.topic = "issues" THEN "issue_discussion" ELSE "repo_attention",
                Or(i.name, i.id), i.collected, i.collected, Or(i.count, 0))
ModelSeen(i) ==
    Observation("model_activity", Or(i.name, i.id), Or(i.date, i.collected),
                Or(i.date, i.collected), Or(i.count, 1))
Generic(i) ==
    Normalized("article", i.url, Or(i.title, i.id), Or(i.text, ""), Nil, i.itemDate, i.rights)

NormalizedDocuments(i) ==
    LET key == SourceKey(i, Nil)
    IN  CASE key = "github_releases" -> {ReleaseNote(i)}
          [] key = "stack_exchange" -> {Question(i)}
          [] key = "users_rust_lang" -> {ForumPost(i)}
          [] key = "arxiv" -> {Paper(i)}
          [] key = "chrome_release_notes" -> {ChromeNotes(i)}
          [] key = "react_blog" -> {ReactPost(i)}
          [] key = "chrome_origin_trials" -> {OriginTrial(i)}
          [] key = "npm_registry" -> {PackageRelease(i)}
          [] key \in {"npm_downloads", "github_search", "huggingface_hub"} -> {}
          [] OTHER -> {Generic(i)}
Observations(i) ==
    LET key == SourceKey(i, Nil)
    IN  CASE key = "github_releases" -> {ReleaseSeen(i)}
          [] key = "stack_exchange" -> {QuestionSeen(i)}
          [] key = "users_rust_lang" -> {ForumSeen(i)}
          [] key = "arxiv" -> {PaperSeen(i)}
          [] key = "chrome_release_notes" -> {ChromeSeen(i)}
          [] key = "npm_registry" -> {PackageSeen(i)}
          [] key = "npm_downloads" -> {DownloadsSeen(i)}
          [] key = "github_search" -> {SearchSeen(i)}
          [] key = "huggingface_hub" -> {ModelSeen(i)}
          [] OTHER -> {}

-----------------------------------------------------------------------------
(***************************************************************************)
(* The markup of a page.  An element is hidden by itself or by one that is *)
(* open around it; a closing tag closes the nearest open element of its    *)
(* name and all that is open inside of it, or nothing.                     *)
(***************************************************************************)
Hiding(stack) == stack # <<>> /\ Last(stack).hidden
Opened(s, t) ==
    IF t.void THEN s
    ELSE [s EXCEPT !.open = Append(@, [tag |-> t.tag, hidden |-> t.hidden \/ Hiding(@)])]
Closed(s, t) ==
    LET n == SelectLastInSeq(s.open, LAMBDA e : e.tag = t.tag)
    IN  IF n = 0 THEN s ELSE [s EXCEPT !.open = SubSeq(@, 1, n - 1)]
ReadToken(s, n) ==
    LET t == markup[n]
    IN  CASE t.kind = "open" -> Opened(s, t)
          [] t.kind = "close" -> Closed(s, t)
          [] OTHER -> IF Hiding(s.open) THEN s ELSE [s EXCEPT !.kept = @ \cup {n}]
SanitizeHtml == FoldLeft(ReadToken, [open |-> <<>>, kept |-> {}],
                         [n \in DOMAIN markup |-> n]).kept

-----------------------------------------------------------------------------
(***************************************************************************)
(* The chunker.  Lines are gathered into blocks; a fenced block or a table *)
(* is never split, and a block of text is split between words.             *)
(***************************************************************************)
Block(lines, path, atomic) == [lines |-> lines, path |-> path, atomic |-> atomic]
Flush(s, what) ==
    IF s[what] = <<>> THEN s
    ELSE [s EXCEPT !.blocks = Append(@, Block(s[what], s.path, what # "pending")),
                   ![what] = <<>>]
FlushBoth(s) == Flush(Flush(s, "pending"), "table")
\* A heading ends the headings of its level and below.
Under(path, level, n) ==
    [l \in {l \in DOMAIN path : l < level} \cup {level} |-> IF l = level THEN n ELSE path[l]]

ReadLine(s, n) ==
    LET line == body[n]
    IN  CASE s.fence # <<>> /\ line.kind = "fence" ->
                 Flush([s EXCEPT !.fence = Append(@, n)], "fence")
          [] s.fence # <<>> /\ line.kind # "fence" -> [s EXCEPT !.fence = Append(@, n)]
          [] s.fence = <<>> /\ line.kind = "fence" -> [FlushBoth(s) EXCEPT !.fence = <<n>>]
          [] s.fence = <<>> /\ line.kind = "heading" ->
                 [FlushBoth(s) EXCEPT !.path = Under(@, line.level, n)]
          [] s.fence = <<>> /\ line.kind = "table" ->
                 [Flush(s, "pending") EXCEPT !.table = Append(@, n)]
          [] s.fence = <<>> /\ line.kind = "blank" -> Flush(Flush(s, "table"), "pending")
          [] OTHER -> [Flush(s, "table") EXCEPT !.pending = Append(@, n)]
NothingCollected ==
    [blocks |-> <<>>, path |-> [l \in {} |-> 0], pending |-> <<>>, table |-> <<>>, fence |-> <<>>]
CollectBlocks ==
    LET read == FoldLeft(ReadLine, NothingCollected, [n \in DOMAIN body |-> n])
    IN  Flush(Flush(Flush(read, "fence"), "table"), "pending").blocks

\* The words of a line, as <<line, word>>
WordsOf(n) == [w \in DOMAIN body[n].words |-> <<n, w>>]
WordsIn(lines) == FlattenSeq([k \in DOMAIN lines |-> WordsOf(lines[k])])
TokensIn(words) == FoldLeft(LAMBDA sum, w : sum + body[w[1]].words[w[2]], 0, words)
Chunk(words, block) == [words |-> words, path |-> block.path, atomic |-> block.atomic]
AddWord(parts, w) ==
    IF parts # <<>> /\ TokensIn(Append(Last(parts), w)) <= MaxTokens
    THEN Append(Front(parts), Append(Last(parts), w))
    ELSE Append(parts, <<w>>)
SplitOversizedBlock(block) ==
    LET words == WordsIn(block.lines)
        parts == IF block.atomic \/ TokensIn(words) <= MaxTokens THEN <<words>>
                 ELSE FoldLeft(AddWord, <<>>, words)
    IN  [k \in DOMAIN parts |-> Chunk(parts[k], block)]
ChunkDocument ==
    LET blocks == CollectBlocks
    IN  FlattenSeq([b \in DOMAIN blocks |-> SplitOversizedBlock(blocks[b])])

-----------------------------------------------------------------------------
TextInit == rawItem = Nil /\ body = <<>> /\ markup = <<>>
NextItem ==
    /\ body = <<>> /\ markup = <<>> /\ rawItem = Nil
    /\ rawItem' \in RawItems
    /\ UNCHANGED <<body, markup>>
NextLine ==
    /\ rawItem = Nil /\ markup = <<>> /\ Len(body) < MaxLines
    /\ \E k \in LineKinds : body' = Append(body, k)
    /\ UNCHANGED <<rawItem, markup>>
NextToken ==
    /\ rawItem = Nil /\ body = <<>> /\ Len(markup) < MaxMarkup
    /\ \E t \in MarkupTokens : markup' = Append(markup, t)
    /\ UNCHANGED <<rawItem, body>>
TextNext == NextItem \/ NextLine \/ NextToken

-----------------------------------------------------------------------------
TextTypeOK ==
    (rawItem = Nil \/ rawItem \in RawItems) /\ body \in Seq(LineKinds) /\ markup \in Seq(MarkupTokens)

\* The same payload gives the same revision whenever it is collected, dates
\* are those of the source, and who wrote it is named only under a license:
\* otherwise every collection would make a revision, and a search for recent
\* texts would find what was only recently collected.
RevisionsAreStable ==
    rawItem # Nil =>
        /\ \A day \in 0 .. 9 : NormalizedDocuments([rawItem EXCEPT !.collected = day]) = NormalizedDocuments(rawItem)
        /\ \A d \in NormalizedDocuments(rawItem) :
               /\ d.date \in {Nil, rawItem.date, rawItem.itemDate}
               /\ d.author # Nil => d.license # Nil
        /\ NormalizedDocuments(rawItem) # {} \/ Observations(rawItem) # {}

\* The part of a page from an opening tag to the tag that closes it
Opens(j, k) == Cardinality({n \in j .. k : markup[n].kind = "open" /\ ~markup[n].void})
Closes(j, k) == Cardinality({n \in j .. k : markup[n].kind = "close"})
Pairs(j, k) ==
    /\ markup[j].kind = "open" /\ ~markup[j].void /\ markup[k].kind = "close"
    /\ Opens(j, k) = Closes(j, k)
    /\ \A m \in j .. k - 1 : Opens(j, m) > Closes(j, m)
WellNested ==
    /\ \A j \in DOMAIN markup : markup[j].kind = "open" /\ ~markup[j].void =>
           \E k \in j + 1 .. Len(markup) : Pairs(j, k) /\ markup[j].tag = markup[k].tag
    /\ Opens(1, Len(markup)) = Closes(1, Len(markup))
\* On a page whose tags are well nested, exactly the text outside of every
\* hidden element is kept.
VisibleTextIsKept ==
    WellNested =>
        SanitizeHtml = {n \in DOMAIN markup :
            /\ markup[n].kind = "text"
            /\ ~\E j \in 1 .. n, k \in n .. Len(markup) : Pairs(j, k) /\ markup[j].hidden}

\* A line is in a fenced block when an odd number of fences is above it.
Fences(n) == Cardinality({m \in 1 .. n : body[m].kind = "fence"})
Fenced(n) == body[n].kind = "fence" \/ Fences(n) % 2 = 1
Heading(n) == body[n].kind = "heading" /\ ~Fenced(n)
HeadingsOver(n) ==
    {m \in 1 .. n - 1 : Heading(m) /\ \A o \in m + 1 .. n - 1 : Heading(o) =>
                            body[o].level > body[m].level}
\* The chunks hold every word that is no heading once, in order, under the
\* headings that it stands under; a table or a fenced block is in one chunk,
\* and other chunks have at most the tokens that an embedding takes, unless
\* a single word has more.
ChunksHoldTheText ==
    LET chunks == ChunkDocument
    IN  /\ FlattenSeq([c \in DOMAIN chunks |-> chunks[c].words])
           = FlattenSeq([n \in DOMAIN body |-> IF Heading(n) THEN <<>> ELSE WordsOf(n)])
        /\ \A c \in DOMAIN chunks :
               LET chunk == chunks[c]
               IN  /\ chunk.words # <<>> =>
                          {chunk.path[l] : l \in DOMAIN chunk.path} = HeadingsOver(chunk.words[1][1])
                   /\ chunk.atomic \/ TokensIn(chunk.words) <= MaxTokens \/ Len(chunk.words) = 1
        /\ \A n \in 1 .. Len(body) - 1 :
               body[n].kind = "table" /\ body[n + 1].kind = "table" /\ ~Fenced(n)
                   => \E c \in DOMAIN chunks :
                          {<<n, 1>>, <<n + 1, 1>>} \subseteq ToSet(chunks[c].words)
TextIsKept == RevisionsAreStable /\ VisibleTextIsKept /\ ChunksHoldTheText
=============================================================================
