----------------------------- MODULE AnswerTurn -----------------------------
(***************************************************************************)
(* One question to the answer service: the searches, the fused and         *)
(* filtered hits, the acquisition of missing evidence, the evidence that   *)
(* is shown to the model, its draft, one regeneration, and the answer.     *)
(*                                                                         *)
(* A step is what runs between two awaits.  The index, the model and the   *)
(* acquisition are the environment: a search may find any hits, a draft    *)
(* may cite anything, and every one of them may fail.                      *)
(***************************************************************************)
EXTENDS Integers, Sequences, SequencesExt, FiniteSets, FiniteSetsExt

CONSTANTS
    Hits,          \* chunks of the index
    HitOf,         \* hit -> revision, heading, ordinal, source, cluster, date, tokens, text, repo, verbatim
    Questions,     \* what is asked: intent, given, phrase, latest, target, topics, needs
    Setups,        \* options of the service
    From, To,      \* the bounds of a range, in the unit of `date`
    Undated,       \* no publishedAt
    NoCluster,     \* no duplicateClusterId
    MaxContext,    \* maxContextTokens
    MaxFound,      \* bound: hits of a search
    FusedLimit     \* limit of the fusion

\* A revision is of one document: its hits share its URL, date and cluster.
ASSUME AnswerConstants ==
    /\ \A h \in Hits :
        /\ HitOf[h].ordinal \in Nat /\ HitOf[h].tokens \in Nat /\ HitOf[h].repo \in BOOLEAN
        /\ \A k \in Hits : HitOf[k].revision = HitOf[h].revision =>
            /\ HitOf[k].repo = HitOf[h].repo /\ HitOf[k].date = HitOf[h].date
            /\ HitOf[k].cluster = HitOf[h].cluster
    /\ IsFiniteSet(Hits) /\ Questions # {} /\ Setups # {}
    /\ \A q \in Questions : q.topics \in Nat
    /\ \A s \in Setups : s.retries \in Nat
    /\ MaxContext \in Nat

VARIABLES
    question, setup,
    at,            \* the await at which the turn is
    hits,          \* searchHits, and then effectiveHits
    evidence,      \* contextAssembly.evidence: each item a set of chunks
    drafts,        \* completions asked of the model
    cited,         \* keys the last draft cites
    quotes,        \* whether it has the excerpts of what it cites word for word
    outcome,       \* status of the answer, or what was thrown
    observed       \* whether metric observations were added

answerVars == <<question, setup, at, hits, evidence, drafts, cited, quotes,
                outcome, observed>>

-----------------------------------------------------------------------------
(***************************************************************************)
(* The question, as the parser reads it.                                   *)
(***************************************************************************)
\* Wording decides the intent and whether only the latest release is meant.
Intents == {"trend_summary", "recent_updates", "compare_interest", "emerging_topics"}

\* Both ends or none, well formed and in order
BadRange(q) == q.given \in {"half", "malformed", "empty"}

\* A range that the request gives goes before the one that the words give
TimeRangeSource(q) ==
    IF q.given = "valid" THEN "explicit"
    ELSE IF q.phrase THEN "natural_language" ELSE "unbounded"
Bounded(q) == TimeRangeSource(q) # "unbounded"

InRange(h) == HitOf[h].date # Undated /\ HitOf[h].date >= From /\ HitOf[h].date < To

\* The entries of s that stand at the places in I, in their order
EntriesAt(s, I) ==
    FoldLeft(LAMBDA kept, n : IF n \in I THEN Append(kept, s[n]) ELSE kept, <<>>,
             [n \in DOMAIN s |-> n])

\* What is published outside a bounded range, or undated, is dropped.
ValidHits(s) ==
    IF Bounded(question) THEN EntriesAt(s, {n \in DOMAIN s : InRange(s[n])}) ELSE s

-----------------------------------------------------------------------------
(***************************************************************************)
(* The hits, and what becomes of them as evidence.                         *)
(***************************************************************************)
ClusterKey(h) == IF HitOf[h].cluster = NoCluster THEN HitOf[h].revision ELSE HitOf[h].cluster

\* Candidates of both lists in the order of their scores, at most two of a
\* revision and of a cluster, and no source with more than its share.
FusedPlaces(order) ==
    LET sources == {HitOf[h].source : h \in ToSet(order)}
        share == IF Cardinality(sources) > 1 THEN (FusedLimit * 6 + 9) \div 10 ELSE FusedLimit
        H(n) == HitOf[order[n]]
        Fits(taken, n) ==
            /\ Cardinality(taken) < FusedLimit
            /\ Cardinality({k \in taken : H(k).revision = H(n).revision}) < 2
            /\ Cardinality({k \in taken : ClusterKey(order[k]) = ClusterKey(order[n])}) < 2
            /\ Cardinality({k \in taken : H(k).source = H(n).source}) < share
    IN  FoldLeftDomain(LAMBDA taken, n : IF Fits(taken, n) THEN taken \cup {n} ELSE taken, {}, order)
Fused(order) == EntriesAt(order, FusedPlaces(order))

\* Chunks of a revision and heading whose ordinals follow one another are one
\* item, which takes the place of the first of them that was found.
SameSection(h, k) ==
    HitOf[k].revision = HitOf[h].revision /\ HitOf[k].heading = HitOf[h].heading
RunOf(h, all) ==
    {k \in all : /\ SameSection(h, k)
                 /\ \A n \in HitOf[h].ordinal .. HitOf[k].ordinal
                            \cup HitOf[k].ordinal .. HitOf[h].ordinal :
                        \E j \in all : SameSection(h, j) /\ HitOf[j].ordinal = n}
Merged(s) ==
    LET firsts == EntriesAt(s, {n \in DOMAIN s : \A m \in 1 .. n - 1 : s[m] \notin RunOf(s[n], ToSet(s))})
    IN  [n \in DOMAIN firsts |-> RunOf(firsts[n], ToSet(s))]

Some(e) == CHOOSE h \in e : TRUE
OfRepository(e) == HitOf[Some(e)].repo
DateOf(e) == HitOf[Some(e)].date
Documents(some) == {HitOf[Some(e)].revision : e \in some}

\* Only the revisions published last, unless nothing is dated
Latest(items) ==
    LET dates == {DateOf(e) : e \in ToSet(items)} \ {Undated}
        revisions == Documents({e \in ToSet(items) : DateOf(e) = Max(dates)})
    IN  IF dates = {} THEN items
        ELSE EntriesAt(items, {n \in DOMAIN items : HitOf[Some(items[n])].revision \in revisions})

\* The first of a cluster; items of no cluster are compared by their text.
SameUpstream(d, e) ==
    LET c == HitOf[Some(e)].cluster
    IN  IF c # NoCluster THEN HitOf[Some(d)].cluster = c
        ELSE HitOf[Some(d)].cluster = NoCluster
             /\ {HitOf[h].text : h \in d} = {HitOf[h].text : h \in e}
Independent(items) ==
    EntriesAt(items, {n \in DOMAIN items : \A m \in 1 .. n - 1 : ~SameUpstream(items[m], items[n])})

\* Items that would exceed the budget are left out, later ones may still fit.
Tokens(e) == SumFunctionOnSet([h \in e |-> HitOf[h].tokens], e)
TokensOf(items) ==
    SumFunctionOnSet([n \in DOMAIN items |-> Tokens(items[n])], DOMAIN items)
WithinBudget(items) ==
    FoldLeft(LAMBDA kept, e :
                 IF TokensOf(kept) + Tokens(e) > MaxContext THEN kept
                 ELSE Append(kept, e), <<>>, items)

Assembled(s) ==
    LET merged == Merged(s)
        scoped == IF question.target
                  THEN EntriesAt(merged, {n \in DOMAIN merged : OfRepository(merged[n])}) ELSE merged
        eligible == IF question.latest THEN Latest(scoped) ELSE scoped
    IN  WithinBudget(Independent(eligible))

\* A comparison takes as many documents as it has subjects, at least two.
Sufficient(items) ==
    /\ items # <<>>
    /\ question.intent = "compare_interest" =>
        Cardinality(Documents(ToSet(items))) >= Max({2, question.topics})
    /\ question.intent = "emerging_topics" => Cardinality(Documents(ToSet(items))) >= 2

\* The kind of evidence the question is about; a combined score is refused
RequirementMet(s) ==
    /\ "prohibited" \notin question.needs
    /\ question.needs # {} => \E h \in ToSet(s) : HitOf[h].source \in question.needs

-----------------------------------------------------------------------------
(***************************************************************************)
(* The turn.                                                               *)
(***************************************************************************)
SearchResults == UNION {[1 .. n -> Hits] : n \in 0 .. MaxFound}
Results == {s \in SearchResults : IsInjective(s)}

Throws(what) == at' = "end" /\ outcome' = what

Asked(q, s) ==
    /\ at = "idle"
    /\ question' = q /\ setup' = s
    /\ IF BadRange(q) THEN Throws("invalid_time_range")
       ELSE at' = "searching" /\ UNCHANGED outcome
    /\ UNCHANGED <<hits, evidence, drafts, cited, quotes, observed>>

\* Where nothing relevant and sufficient is there, evidence is acquired
Goes(s) ==
    LET valid == ValidHits(s)
    IN  /\ hits' = valid
        /\ \E relevant \in BOOLEAN :
            at' = IF setup.acquisition
                     /\ ~(relevant /\ valid # <<>> /\ Sufficient(Assembled(valid)))
                  THEN "acquiring" ELSE "assembling"

\* Full text, then its lexical fallbacks, which are only tried where nothing
\* can be acquired; the last of them that ran is what was found.
SearchFts ==
    /\ at = "searching"
    /\ \/ Throws("database_retrieval") /\ UNCHANGED hits
       \/ \E r \in Results :
            /\ IF r = <<>> /\ ~setup.acquisition /\ setup.lexicalFallback
               THEN at' = "searching_again" /\ hits' = r
               ELSE IF setup.embedding THEN at' = "embedding" /\ hits' = r
               ELSE Goes(r)
            /\ UNCHANGED outcome
    /\ UNCHANGED <<question, setup, evidence, drafts, cited, quotes, observed>>

LexicalFallback ==
    /\ at = "searching_again"
    /\ \/ Throws("database_retrieval") /\ UNCHANGED hits
       \/ \E r \in Results :
            /\ IF setup.embedding THEN at' = "embedding" /\ hits' = r ELSE Goes(r)
            /\ UNCHANGED outcome
    /\ UNCHANGED <<question, setup, evidence, drafts, cited, quotes, observed>>

\* A failure of the embedding or of the vector search leaves the hits of the
\* full text, unless the fallback is not allowed.
EmbedAndFuse ==
    /\ at = "embedding"
    /\ \/ \E r \in Results : \E order \in SetToSeqs(ToSet(hits) \cup ToSet(r)) :
            Goes(Fused(order)) /\ UNCHANGED outcome
       \/ /\ IF setup.embeddingFallback THEN Goes(hits) /\ UNCHANGED outcome
             ELSE Throws("database_retrieval") /\ UNCHANGED hits
    /\ UNCHANGED <<question, setup, evidence, drafts, cited, quotes, observed>>

\* Faulty variant: the hits of the second search keep what is out of range
ReSearchedUnfiltered(s) == s
ReSearched(s) == ValidHits(s)

\* Acquisition runs once, with one search after it; an error of either is a
\* limitation of the answer, and what was found before stays.
Acquire ==
    /\ at = "acquiring"
    /\ at' = "assembling"
    /\ \/ UNCHANGED hits
       \/ \E r \in Results : hits' = IF ReSearched(r) # <<>> THEN ReSearched(r) ELSE hits
    /\ UNCHANGED <<question, setup, evidence, drafts, cited, quotes, outcome, observed>>

Assemble ==
    /\ at = "assembling"
    /\ LET items == Assembled(hits)
       IN  IF RequirementMet(hits) /\ Sufficient(items)
           THEN evidence' = items /\ at' = "drafting" /\ UNCHANGED outcome
           ELSE Throws("insufficient_evidence") /\ UNCHANGED evidence
    /\ UNCHANGED <<question, setup, hits, drafts, cited, quotes, observed>>

\* A draft may cite any key, the one after the last standing for a made-up one
Keys == 1 .. Len(evidence) + 1
Verbatim(k) == \E h \in evidence[k] : HitOf[h].verbatim
ValidDraft(keys, exact) ==
    /\ keys # {} /\ keys \subseteq 1 .. Len(evidence)
    /\ \A k \in keys :
        /\ Bounded(question) => DateOf(evidence[k]) = Undated \/ InRange(Some(evidence[k]))
        /\ Verbatim(k) => exact

Again(n) == n = 1 /\ setup.retries > 0

\* The chat model: a draft that is not valid is asked for once more.
Draft ==
    /\ at = "drafting"
    /\ drafts' = drafts + 1
    /\ \/ UNCHANGED <<cited, quotes>> /\ Throws("timeout")
       \/ UNCHANGED <<cited, quotes>> /\ Throws("model_provider")
       \/ \E keys \in SUBSET Keys, exact \in BOOLEAN :
            /\ cited' = keys /\ quotes' = exact
            /\ IF ValidDraft(keys, exact) THEN at' = "observing" /\ UNCHANGED outcome
               ELSE IF Again(drafts + 1) THEN at' = "drafting" /\ UNCHANGED outcome
               ELSE Throws("insufficient_evidence")
    /\ UNCHANGED <<question, setup, hits, evidence, observed>>

\* Numbers of the same metric, unit and completeness, beside the answer; an
\* error of their query is the error of the whole request.
Compares ==
    /\ setup.metrics /\ Bounded(question) /\ question.topics > 0
    /\ question.intent \in {"compare_interest", "trend_summary"}
Respond ==
    /\ at = "observing"
    /\ \/ /\ Throws("answered")
          /\ observed' = Compares
       \/ Compares /\ Throws("error") /\ UNCHANGED observed
    /\ UNCHANGED <<question, setup, hits, evidence, drafts, cited, quotes>>

AnswerInit ==
    /\ question = CHOOSE q \in Questions : TRUE
    /\ setup = CHOOSE s \in Setups : TRUE
    /\ at = "idle" /\ hits = <<>> /\ evidence = <<>>
    /\ drafts = 0 /\ cited = {} /\ quotes = FALSE /\ observed = FALSE
    /\ outcome = "none"

AnswerNext ==
    \/ \E q \in Questions, s \in Setups : Asked(q, s)
    \/ SearchFts \/ LexicalFallback \/ EmbedAndFuse \/ Acquire
    \/ Assemble \/ Draft \/ Respond

-----------------------------------------------------------------------------
AnswerTypeOK ==
    /\ question \in Questions /\ setup \in Setups
    /\ at \in {"idle", "searching", "searching_again", "embedding", "acquiring",
               "assembling", "drafting", "observing", "end"}
    /\ ToSet(hits) \subseteq Hits
    /\ \A e \in ToSet(evidence) : e \in SUBSET Hits \ {{}}
    /\ drafts \in 0 .. 2 /\ cited \subseteq 1 .. Len(evidence) + 1
    /\ quotes \in BOOLEAN /\ observed \in BOOLEAN
    /\ outcome \in {"none", "invalid_time_range", "database_retrieval", "timeout",
                    "model_provider", "insufficient_evidence", "answered", "error"}

\* Whatever the searches, the acquisition and the model return, and whichever
\* of them fails, an answer cites evidence the model was shown, dated inside
\* a bounded range, independent of one another and enough for its intent.
AnswersRestOnEvidence ==
    outcome = "answered" =>
        LET shown == [k \in cited |-> evidence[k]]
        IN  /\ cited # {} /\ cited \subseteq 1 .. Len(evidence)
            /\ \A k \in cited, h \in UNION ToSet(evidence) :
                /\ Bounded(question) => InRange(h)
                /\ question.target => HitOf[h].repo
                /\ h \in shown[k] /\ HitOf[h].verbatim => quotes
            /\ \A j, k \in DOMAIN evidence : j # k =>
                /\ evidence[j] \cap evidence[k] = {}
                /\ ~SameUpstream(evidence[j], evidence[k])
            /\ TokensOf(evidence) <= MaxContext
            /\ question.intent = "compare_interest" =>
                Cardinality(Documents(ToSet(evidence))) >= question.topics

\* The model is asked at most twice, and never about evidence that does not
\* suffice or of a kind the question is not about.
ModelIsSpared ==
    /\ drafts <= 1 + setup.retries
    /\ drafts > 0 => RequirementMet(hits) /\ Sufficient(evidence)

\* Both: what is answered rests on evidence, and the model is not asked to
\* answer without it.
AnswersAreSound == AnswersRestOnEvidence /\ ModelIsSpared

\* comment of evidence-requirements.ts: evidence of another kind never stands
\* in for what the question is about.
NoSubstitution ==
    outcome = "answered" /\ question.needs # {} =>
        \E k \in DOMAIN evidence, h \in Hits :
            h \in evidence[k] /\ HitOf[h].source \in question.needs
=============================================================================
