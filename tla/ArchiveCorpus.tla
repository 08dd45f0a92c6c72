---------------------------- MODULE ArchiveCorpus ----------------------------
(***************************************************************************)
(* What the archive makes of what it keeps: the groups of duplicates, the  *)
(* texts of the items and their chunks, the topics, the text of a page of  *)
(* a feed and the reports of coverage, each at its own pace and none with  *)
(* a variable of another.                                                  *)
(***************************************************************************)
EXTENDS DuplicateGroups, CorpusText, TopicRules, ArticleFeed, CoverageReports

corpusVars == <<groupVars, textVars, topicText, articleVars, coverageVars>>

CorpusInit == GroupInit /\ TextInit /\ TopicInit /\ ArticleInit /\ CoverageInit
CorpusNext ==
    \/ GroupNext /\ UNCHANGED <<textVars, topicText, articleVars, coverageVars>>
    \/ TextNext /\ UNCHANGED <<groupVars, topicText, articleVars, coverageVars>>
    \/ TopicNext /\ UNCHANGED <<groupVars, textVars, articleVars, coverageVars>>
    \/ NextArticleToken /\ UNCHANGED <<groupVars, textVars, topicText, coverageVars>>
    \/ CoverageNext /\ UNCHANGED <<groupVars, textVars, topicText, articleVars>>
CorpusSpec == CorpusInit /\ [][CorpusNext]_corpusVars

\* What deduplication, normalization and classification promise of the corpus:
\* a group holds exact duplicates, the text of an item is kept, whole and the
\* same every time, a topic is found wherever the text speaks of it, and what
\* a report of the corpus says of it is so.
CorpusIsSound ==
    GroupsAreExact /\ TextIsKept /\ TopicsAreHeard /\ TextIsOfTheArticle /\ ReportsAreHonest
=============================================================================
