----------------------------- MODULE MCServices -----------------------------
(***************************************************************************)
(* What answers a question: one turn of the answer service, the            *)
(* acquisition of what it lacks, the requests of the API, and the page in  *)
(* the browser.  They share no state; `part`, which Init fixes, says which *)
(* of them moves.                                                          *)
(***************************************************************************)
EXTENDS AnswerTurn, BoundedAcquisition, ApiRequests, WebClient, TLC

CONSTANTS h1, h2, h3, h4, h5, q1, q2, q3, x
VARIABLE part

\* Two chunks of a release that follow one another, a thread and a preprint
\* of one duplicate group, and a count of downloads
Hit(rev, ord, src, cl, d, tok, txt, repo, verb) ==
    [revision |-> rev, heading |-> "Changes", ordinal |-> ord, source |-> src, cluster |-> cl, date |-> d,
     tokens |-> tok, text |-> txt, repo |-> repo, verbatim |-> verb]
FiveHits == [h \in Hits |->
    CASE h = h1 -> Hit("r1", 0, "github_releases", NoCluster, 2, 1, "t1", TRUE, FALSE)
      [] h = h2 -> Hit("r1", 1, "github_releases", NoCluster, 2, 2, "t2", TRUE, FALSE)
      [] h = h3 -> Hit("r2", 0, "stack_exchange", "c", 3, 2, "t1", FALSE, TRUE)
      [] h = h4 -> Hit("r3", 0, "arxiv", "c", Undated, 1, "t1", TRUE, FALSE)
      [] h = h5 -> Hit("r4", 0, "npm_downloads", NoCluster, 4, 1, "t5", TRUE, FALSE)]

Q(intent, given, phrase, latest, target, topics, needs) ==
    [intent |-> intent, given |-> given, phrase |-> phrase, latest |-> latest,
     target |-> target, topics |-> topics, needs |-> needs]
SomeQuestions == {
    Q("trend_summary", "valid", FALSE, FALSE, FALSE, 1, {}),
    Q("trend_summary", "none", FALSE, FALSE, FALSE, 0, {"arxiv"}),
    Q("recent_updates", "none", TRUE, TRUE, TRUE, 1, {}),
    Q("recent_updates", "none", FALSE, TRUE, FALSE, 1, {"npm_downloads"}),
    Q("compare_interest", "valid", FALSE, FALSE, FALSE, 2, {}),
    Q("emerging_topics", "none", FALSE, FALSE, FALSE, 0, {"prohibited"}),
    Q("emerging_topics", "none", TRUE, FALSE, FALSE, 0, {}),
    Q("trend_summary", "half", FALSE, FALSE, FALSE, 0, {})}

S(embeds, falls, acquires, lexical, retries, metrics) ==
    [embedding |-> embeds, embeddingFallback |-> falls, acquisition |-> acquires,
     lexicalFallback |-> lexical, retries |-> retries, metrics |-> metrics]
SomeSetups == {S(TRUE, TRUE, TRUE, TRUE, 1, TRUE), S(FALSE, TRUE, FALSE, TRUE, 1, FALSE),
               S(TRUE, FALSE, FALSE, FALSE, 0, FALSE)}

Ask(s, f, a, covered, late) ==
    [searches |-> s, fetches |-> f, attempts |-> a, covered |-> covered, late |-> late]
SomeCalls == {Ask(2, 2, 9, FALSE, FALSE), Ask(1, 1, 2, FALSE, FALSE),
              Ask(0, 1, 1, FALSE, TRUE), Ask(1, 1, 1, TRUE, FALSE)}

AllWrites == {"raw", "revision", "chunks", "attached", "ready"}
SomeWirings == {{}, {"budget"}, {"budget"} \cup AllWrites, AllWrites \ {"raw", "ready"}}

OneClient == [r \in Requests |-> x]

ServicesInit ==
    /\ AnswerInit /\ AcquisitionInit /\ ApiInit /\ WebInit
    /\ part \in {"answer", "acquisition", "api", "web"}
    /\ part = "acquisition" \/ wired = {}

AnswerPart ==
    /\ part = "answer" /\ AnswerNext
    /\ UNCHANGED <<part, acquisitionVars, apiVars, webVars>>
AcquisitionPart ==
    /\ part = "acquisition" /\ AcquisitionNext
    /\ UNCHANGED <<part, answerVars, apiVars, webVars>>
ApiPart ==
    /\ part = "api" /\ ApiNext
    /\ UNCHANGED <<part, answerVars, acquisitionVars, webVars>>
WebPart ==
    /\ part = "web" /\ WebNext
    /\ UNCHANGED <<part, answerVars, acquisitionVars, apiVars>>

ServicesNext == AnswerPart \/ AcquisitionPart \/ ApiPart \/ WebPart
ServicesSpec ==
    ServicesInit
    /\ [][ServicesNext]_<<part, answerVars, acquisitionVars, apiVars, webVars>>

\* The types of the parts
ServicesTypeOK ==
    AnswerTypeOK /\ AcquisitionTypeOK /\ ApiTypeOK /\ WebTypeOK
=============================================================================
