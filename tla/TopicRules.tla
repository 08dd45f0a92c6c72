----------------------------- MODULE TopicRules -----------------------------
(***************************************************************************)
(* Which topics a text speaks of, and what a question asks for: the        *)
(* taxonomy's classifier, which enrichment and the parser of questions     *)
(* share.  Pure functions; a state is one text, piece by piece.  A piece   *)
(* is an alias, the word of a context, a space, another word, or a Korean  *)
(* particle, which may follow an alias without a space.                    *)
(***************************************************************************)
EXTENDS Integers, Sequences

CONSTANTS
    Taxonomy,      \* entries: slug, aliases, ambiguous, contexts, sources
    TopicPieces,   \* pieces: kind and, of an alias or a context word, name
    TopicSources,  \* keys of sources
    NoSource,      \* a question has no source
    Earliest,     \* 1970-01-01
    Ranges,        \* time ranges of a request: given, whole, wellFormed, from, to
    Durations,     \* spans that a question names: amount, and the days of its unit
    ThisDay,
    MaxPieces      \* bound: pieces of a text

\* Days are numbers, a unit has some, and no entry is told by the source that
\* a question lacks.
ASSUME TopicAssumption ==
    /\ Earliest \in Int /\ ThisDay \in Int /\ Earliest < ThisDay
    /\ \A r \in Ranges : r.from \in Int /\ r.to \in Int
    /\ \A span \in Durations : span.amount \in Nat /\ span.unit \in Nat \ {0}
    /\ \A e \in Taxonomy : NoSource \notin e.sources

VARIABLE topicText

TopicInit == topicText = <<>>
TopicNext ==
    /\ Len(topicText) < MaxPieces
    /\ \E p \in TopicPieces : topicText' = Append(topicText, p)

-----------------------------------------------------------------------------
KindAt(text, n) == IF n \in DOMAIN text THEN text[n].kind ELSE "space"
NameAt(text, n) == IF n \in DOMAIN text THEN text[n].name ELSE ""
Occurs(text, n, alias) == KindAt(text, n) = "alias" /\ NameAt(text, n) = alias

\* From one place where the alias occurs to the next
AliasMatches(text, alias) ==
    \E n \in DOMAIN text :
        /\ Occurs(text, n, alias)
        /\ KindAt(text, n - 1) = "space" /\ KindAt(text, n + 1) \in {"space", "particle"}

\* A context pattern: an alias, a space and a word; a letter of Korean ends a
\* word of a pattern.  (The few patterns of one word alone are left out.)
ContextFound(text, entry) ==
    \E n \in DOMAIN text, alias \in entry.ambiguous :
        /\ Occurs(text, n, alias) /\ KindAt(text, n - 1) \in {"space", "particle"}
        /\ n + 1 \in DOMAIN text /\ KindAt(text, n + 1) = "space"
        /\ KindAt(text, n + 2) = "context" /\ NameAt(text, n + 2) \in entry.contexts
        /\ KindAt(text, n + 3) \in {"space", "particle"}

Heard(text, entry) == {a \in entry.aliases : AliasMatches(text, a)}
Direct(text, entry) == Heard(text, entry) \ entry.ambiguous
Unsure(text, entry) == Heard(text, entry) \cap entry.ambiguous
ContextConstrained(text, entry) == Unsure(text, entry) # {} /\ ContextFound(text, entry)
SourceConstrained(text, entry, source) == Unsure(text, entry) # {} /\ source \in entry.sources

Confidence(text, entry) ==
    IF Direct(text, entry) # {} THEN 100 ELSE IF ContextConstrained(text, entry) THEN 90 ELSE 80
ClassifyTopics(text, source) ==
    {[slug |-> e.slug, confidence |-> Confidence(text, e)] :
        e \in {e \in Taxonomy : \/ Direct(text, e) # {}
                                \/ ContextConstrained(text, e)
                                \/ SourceConstrained(text, e, source)}}

-----------------------------------------------------------------------------
(* The parser of a question.                                               *)

\* containsAlias knows no particles.
ContainsAlias(text, alias) ==
    \E n \in DOMAIN text : /\ Occurs(text, n, alias)
                           /\ KindAt(text, n - 1) = "space" /\ KindAt(text, n + 1) = "space"

SlugsOf(topics) == {t.slug : t \in topics}
\* Aliases, each with the topics that it could mean and the question does not
Ambiguities(text, classified) ==
    UNION {{[alias |-> a, slug |-> e.slug] : a \in {a \in e.ambiguous : ContainsAlias(text, a)}} :
           e \in {e \in Taxonomy : e.slug \notin classified}}

RangeIsRefused(r) == r.given /\ (~r.whole \/ ~r.wellFormed \/ r.to <= r.from)
Names(span) == span.amount \in 1 .. 365
\* The range that a question is searched for, and what it names beside it
ResolveTimeRange(r, span) ==
    IF r.given THEN [from |-> r.from, to |-> r.to, asked |-> "explicit"]
    ELSE IF Names(span)
    THEN [from |-> ThisDay - span.amount * span.unit, to |-> ThisDay, asked |-> "natural_language"]
    ELSE [from |-> Earliest, to |-> ThisDay, asked |-> "unbounded"]
ParseQuery(text) ==
    LET topics == ClassifyTopics(text, NoSource)
    IN  [entities |-> topics, ambiguities |-> Ambiguities(text, SlugsOf(topics))]

-----------------------------------------------------------------------------
TopicTypeOK == topicText \in Seq(TopicPieces)

\* What a text says is heard wherever it stands: a longer document has every
\* topic of its parts with at least their confidence, and its source only adds
\* topics.  In a question an ambiguous alias that stands alone is an entity or
\* an ambiguity and no topic is both, and the range that is searched is the
\* one that was asked for.
TopicsAreHeard ==
    LET whole == ClassifyTopics(topicText, NoSource)
        Within(topics, others) ==
            \A t \in topics : \E u \in others : u.slug = t.slug /\ u.confidence >= t.confidence
    IN
    /\ \A n \in DOMAIN topicText : KindAt(topicText, n) = "space" =>
           /\ Within(ClassifyTopics(SubSeq(topicText, 1, n - 1), NoSource), whole)
           /\ Within(ClassifyTopics(SubSeq(topicText, n + 1, Len(topicText)), NoSource), whole)
    /\ \A s \in TopicSources : Within(whole, ClassifyTopics(topicText, s))
    /\ LET q == ParseQuery(topicText)
       IN  /\ \A a \in q.ambiguities : a.slug \notin SlugsOf(q.entities)
           /\ \A e \in Taxonomy : \A a \in e.ambiguous : ContainsAlias(topicText, a) =>
                  e.slug \in SlugsOf(q.entities) \/ [alias |-> a, slug |-> e.slug] \in q.ambiguities
    /\ \A r \in Ranges, span \in Durations : ~RangeIsRefused(r) =>
           LET range == ResolveTimeRange(r, span)
           IN  range.from < range.to /\ (r.given => range.from = r.from /\ range.to = r.to)
=============================================================================
