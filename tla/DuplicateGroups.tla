--------------------------- MODULE DuplicateGroups ---------------------------
(***************************************************************************)
(* Saving a normalized text as a revision of a document, and putting the   *)
(* document into a group with those that say the same.  A job reads the    *)
(* documents, decides, and writes cluster, assignments and memberships one *)
(* statement at a time, while other jobs do the same.                      *)
(***************************************************************************)
EXTENDS Naturals, FiniteSets

CONSTANTS
    TextsOf,     \* text -> url, canon (its URL normalized), body, key, title and
                 \* body words, verbatim
    DocIds, ClusterIds, Jobs,
    Free, NoUrl, NoDoc, NoGroup, NoKey,
    MaxJobs,     \* bound: jobs that start
    JobFaults    \* bound: jobs that fail between two statements

\* No identifier of a row is the mark of its absence, and no row is either.
ASSUME GroupAssumption ==
    /\ NoDoc \notin DocIds /\ NoGroup \notin ClusterIds /\ MaxJobs \in Nat /\ JobFaults \in Nat
    /\ \A t, u \in DOMAIN TextsOf :
           /\ {"canon", "body", "key"} \subseteq DOMAIN TextsOf[t]
           /\ \A g \in ClusterIds \cup {NoGroup} :
                  Free # [url |-> TextsOf[u].url, group |-> g, current |-> t]

VARIABLES
    docs,        \* id -> url, group, current revision
    revisions,   \* <<document, text>>
    groups,      \* cluster -> its representative
    members,     \* <<cluster, document, text>>, accepted
    job,         \* what each job is at
    judged,      \* jobs that said "exact duplicate": <<document, its match>>
    jobsStarted,     \* jobs so far
    jobFaults
groupVars == <<docs, revisions, groups, members, job, judged, jobsStarted, jobFaults>>

AllTexts == DOMAIN TextsOf
NoJob == [at |-> "idle", text |-> Free, doc |-> NoDoc, own |-> NoGroup,
          match |-> NoDoc, group |-> NoGroup]
Stored == {d \in DocIds : docs[d] # Free}
JobMoves(j, at) == job' = [job EXCEPT ![j].at = at]

-----------------------------------------------------------------------------
(***************************************************************************)
(* saveNormalizedDocument: one transaction, but its look for the document  *)
(* of a URL locks nothing.                                                 *)
(***************************************************************************)
StartJob(j, t) ==
    /\ job[j] = NoJob /\ jobsStarted < MaxJobs /\ jobsStarted' = jobsStarted + 1
    /\ job' = [job EXCEPT ![j] = [NoJob EXCEPT !.at = "saving", !.text = t,
           !.doc = IF \E d \in Stored : docs[d].url # NoUrl /\ docs[d].url = TextsOf[t].url
                   THEN CHOOSE d \in Stored : docs[d].url = TextsOf[t].url ELSE NoDoc]]
    /\ UNCHANGED <<docs, revisions, groups, members, judged, jobFaults>>

\* The first revision of a document is its current one; later ones are not.
\* (Bound: there are DocIds documents, and below ClusterIds groups.)
SaveNormalizedDocument(j) ==
    /\ job[j].at = "saving" /\ (job[j].doc = NoDoc => Stored # DocIds)
    /\ \E d \in IF job[j].doc = NoDoc THEN {CHOOSE d \in DocIds : d \notin Stored} ELSE {job[j].doc} :
           /\ docs' = IF d \in Stored THEN docs
                      ELSE [docs EXCEPT ![d] = [url |-> TextsOf[job[j].text].url,
                                                group |-> NoGroup, current |-> job[j].text]]
           /\ revisions' = revisions \cup {<<d, job[j].text>>}
           /\ job' = [job EXCEPT ![j].at = "reading", ![j].doc = d]
    /\ UNCHANGED <<groups, members, judged, jobsStarted, jobFaults>>

-----------------------------------------------------------------------------
(***************************************************************************)
(* deduplicate: three stages, the first candidate of the first that has    *)
(* one.  No order is asked of the list of documents.                       *)
(***************************************************************************)
SameKey(t, c) == t.key # NoKey /\ c.key = t.key
SameUrl(t, c) == t.canon # NoUrl /\ c.canon = t.canon
SameBody(t, c) == c.body = t.body
ExactMatches(t, others) ==
    LET first == {d \in DOMAIN others : SameKey(t, others[d])}
        second == {d \in DOMAIN others : SameUrl(t, others[d])}
        third == {d \in DOMAIN others : SameBody(t, others[d])}
    IN  IF first # {} THEN first ELSE IF second # {} THEN second ELSE third

\* Jaccard similarity of the words, 72 parts of the body and 28 of the title,
\* and a threshold of 80; nothing in common with nothing is alike.
Parts(a, b) == IF a \cup b = {} THEN <<1, 1>> ELSE <<Cardinality(a \cap b), Cardinality(a \cup b)>>
Alike(t, c) ==
    LET body == Parts(t.bodyWords, c.bodyWords)
        title == Parts(t.titleWords, c.titleWords)
    IN  72 * body[1] * title[2] + 28 * title[1] * body[2] >= 80 * body[2] * title[2]
NearDuplicates(t, others) == {d \in DOMAIN others : Alike(t, others[d])}
NearThreshold(t, c) ==
    LET body == Parts(t.bodyWords, c.bodyWords)
        title == Parts(t.titleWords, c.titleWords)
    IN  72 * body[1] * title[2] + 28 * title[1] * body[2] <= 88 * body[2] * title[2]
ReviewReasons(t, others) ==
    LET near == NearDuplicates(t, others)
    IN  {"threshold_near" : d \in {d \in near : NearThreshold(t, others[d])}}
        \cup {"verbatim_only" : d \in {d \in near : t.verbatim \/ others[d].verbatim}}

\* The handler tells of a candidate its current revision, and no natural key.
ReadJob(j) ==
    /\ job[j].at = "reading"
    /\ job' = [job EXCEPT ![j].at = "deciding", ![j].own = docs[job[j].doc].group]
    /\ UNCHANGED <<docs, revisions, groups, members, judged, jobsStarted, jobFaults>>
GroupCandidates(j) ==
    [d \in Stored \ {job[j].doc} |-> [TextsOf[docs[d].current] EXCEPT !.key = NoKey]]

Decided(j, m) ==
    LET given == IF docs[m].group # NoGroup THEN docs[m].group ELSE job[j].own
    IN  /\ job' = [job EXCEPT ![j].match = m, ![j].group = given,
                              ![j].at = IF given = NoGroup THEN "creating" ELSE "assigning"]
        /\ judged' = judged \cup {<<job[j].doc, m>>}
\* Faulty variant: a suggestion is taken for a duplicate.
SuggestionMerged(j) ==
    /\ job[j].at = "deciding"
    /\ LET t == TextsOf[job[j].text]
           matches == ExactMatches(t, GroupCandidates(j)) \cup NearDuplicates(t, GroupCandidates(j))
       IN  \/ \E m \in matches : Decided(j, m)
           \/ matches = {} /\ JobMoves(j, "recording") /\ UNCHANGED judged
    /\ UNCHANGED <<docs, revisions, groups, members, jobsStarted, jobFaults>>
\* The group of the match, or that of the document, or a new one; what is
\* only alike is suggested.
Deduplicate(j) ==
    /\ job[j].at = "deciding"
    /\ LET matches == ExactMatches(TextsOf[job[j].text], GroupCandidates(j))
       IN  \/ \E m \in matches : Decided(j, m)
           \/ matches = {} /\ JobMoves(j, "recording") /\ UNCHANGED judged
    /\ UNCHANGED <<docs, revisions, groups, members, jobsStarted, jobFaults>>

-----------------------------------------------------------------------------
\* A new group has the match as its representative, which is assigned first.
CreateCluster(j) ==
    /\ job[j].at = "creating" /\ DOMAIN groups # ClusterIds
    /\ LET g == CHOOSE g \in ClusterIds : g \notin DOMAIN groups
       IN  /\ groups' = [h \in DOMAIN groups \cup {g} |->
                             IF h = g THEN job[j].match ELSE groups[h]]
           /\ job' = [job EXCEPT ![j].at = "assigning representative", ![j].group = g]
    /\ UNCHANGED <<docs, revisions, members, judged, jobsStarted, jobFaults>>
AssignRepresentative(j) ==
    /\ job[j].at = "assigning representative" /\ JobMoves(j, "recording representative")
    /\ docs' = [docs EXCEPT ![job[j].match].group = job[j].group]
    /\ UNCHANGED <<revisions, groups, members, judged, jobsStarted, jobFaults>>
RecordRepresentative(j) ==
    /\ job[j].at = "recording representative" /\ JobMoves(j, "assigning")
    /\ members' = members \cup {<<job[j].group, job[j].match, docs[job[j].match].current>>}
    /\ UNCHANGED <<docs, revisions, groups, judged, jobsStarted, jobFaults>>
AssignTarget(j) ==
    /\ job[j].at = "assigning" /\ JobMoves(j, "recording")
    /\ docs' = [docs EXCEPT ![job[j].doc].group = job[j].group]
    /\ UNCHANGED <<revisions, groups, members, judged, jobsStarted, jobFaults>>
\* The membership of the target, and the event that ends the job.
RecordTarget(j) ==
    /\ job[j].at = "recording" /\ job' = [job EXCEPT ![j] = NoJob]
    /\ members' = IF job[j].group = NoGroup THEN members
                  ELSE members \cup {<<job[j].group, job[j].doc, job[j].text>>}
    /\ UNCHANGED <<docs, revisions, groups, judged, jobsStarted, jobFaults>>

\* What a job has written before it fails stays; its text is worked on again.
JobFails(j) ==
    /\ job[j] # NoJob /\ jobFaults < JobFaults /\ jobFaults' = jobFaults + 1
    /\ job' = [job EXCEPT ![j] = NoJob]
    /\ UNCHANGED <<docs, revisions, groups, members, judged, jobsStarted>>

GroupInit ==
    /\ docs = [d \in DocIds |-> Free] /\ revisions = {} /\ members = {} /\ judged = {}
    /\ groups = [g \in {} |-> NoDoc]
    /\ job = [j \in Jobs |-> NoJob] /\ jobsStarted = 0 /\ jobFaults = 0
GroupNext ==
    \E j \in Jobs :
        \/ \E t \in AllTexts : StartJob(j, t)
        \/ SaveNormalizedDocument(j) \/ ReadJob(j) \/ Deduplicate(j)
        \/ CreateCluster(j) \/ AssignRepresentative(j) \/ RecordRepresentative(j)
        \/ AssignTarget(j) \/ RecordTarget(j) \/ JobFails(j)

-----------------------------------------------------------------------------
GroupTypeOK ==
    /\ \A d \in Stored : docs[d].current \in AllTexts /\ docs[d].group \in ClusterIds \cup {NoGroup}
    /\ revisions \subseteq DocIds \X AllTexts
    /\ members \subseteq ClusterIds \X DocIds \X AllTexts
    /\ DOMAIN groups \subseteq ClusterIds /\ DOMAIN job = Jobs /\ jobFaults \in 0 .. JobFaults

\* Two documents say the same when a revision of one and a revision of the
\* other have one URL or one body.
SaysTheSame(d, e) ==
    \E r, s \in revisions :
        /\ r[1] = d /\ s[1] = e
        /\ SameUrl(TextsOf[r[2]], TextsOf[s[2]]) \/ SameBody(TextsOf[r[2]], TextsOf[s[2]])
\* They hang together when no set of documents parts them that holds, with a
\* document, all that say the same.
Whole(some) == \A d \in some, e \in Stored : SaysTheSame(d, e) => e \in some
HangTogether(d, e) == \A some \in SUBSET Stored : d \in some /\ Whole(some) => e \in some

\* "It never auto-merges them": whatever jobs overlap or fail between two
\* statements, the documents of a group hang together by exact duplicates; a
\* group that a document or a membership names exists, and so does the
\* revision that the membership is for.
GroupsAreExact ==
    /\ \A d, e \in Stored :
           docs[d].group # NoGroup /\ docs[d].group = docs[e].group
           => HangTogether(d, e)
    /\ \A d \in Stored : docs[d].group # NoGroup => docs[d].group \in DOMAIN groups
    /\ \A m \in members : m[1] \in DOMAIN groups /\ <<m[2], m[3]>> \in revisions
    /\ \A g \in DOMAIN groups : groups[g] \in Stored

\* "For exact duplicates: links documents via duplicate_cluster": when no job
\* is under way, two documents of which a job has said so are in one group.
DuplicatesShareAGroup ==
    jobFaults = 0 /\ (\A j \in Jobs : job[j] = NoJob) =>
        \A p \in judged : docs[p[1]].group # NoGroup /\ docs[p[1]].group = docs[p[2]].group
=============================================================================
