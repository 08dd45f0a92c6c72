---------------------------- MODULE CorpusProofs ----------------------------
(***************************************************************************)
(* What the archive promises of its groups, texts, topics and reports for  *)
(* any texts, pages, lines, taxonomies, partitions and bounds.             *)
(***************************************************************************)
EXTENDS ArchiveCorpus, DataLemmas

(***************************************************************************)
(* The groups.  Every document of a group hangs together with the one that *)
(* represents it, and so does every document that a job is about to put    *)
(* there; what hangs together goes on to as documents and revisions are    *)
(* added.                                                                  *)
(***************************************************************************)
Stages == {"idle", "saving", "reading", "deciding", "creating", "assigning representative",
           "recording representative", "assigning", "recording"}
DocRows == [url : {TextsOf[t].url : t \in AllTexts}, group : ClusterIds \cup {NoGroup},
            current : AllTexts]
JobRows == [at : Stages, text : AllTexts \cup {Free}, doc : DocIds \cup {NoDoc},
            own : ClusterIds \cup {NoGroup}, match : DocIds \cup {NoDoc},
            group : ClusterIds \cup {NoGroup}]
GroupTypes ==
    /\ docs \in [DocIds -> DocRows \cup {Free}]
    /\ revisions \subseteq DocIds \X AllTexts
    /\ members \subseteq ClusterIds \X DocIds \X AllTexts
    /\ DOMAIN groups \subseteq ClusterIds
    /\ groups \in [DOMAIN groups -> DocIds]
    /\ job \in [Jobs -> JobRows]
    /\ jobFaults \in 0 .. JobFaults

\* Document d may stand in group g.
Belongs(g, d) == g \in DOMAIN groups /\ HangTogether(groups[g], d)
DocIsTied(d) == /\ <<d, docs[d].current>> \in revisions
                /\ docs[d].group # NoGroup => Belongs(docs[d].group, d)
DocsAreTied == \A d \in Stored : DocIsTied(d)
RepresentativesStored == \A g \in DOMAIN groups : groups[g] \in Stored
MembersAreSaved == \A m \in members : m[1] \in DOMAIN groups /\ <<m[2], m[3]>> \in revisions
Saving(j) == job[j].at = "saving" => /\ job[j].text \in AllTexts /\ job[j].own = NoGroup
                                     /\ job[j].doc = NoDoc \/ job[j].doc \in Stored
Saved(j) == job[j].at \notin {"idle", "saving"} =>
    /\ job[j].text \in AllTexts /\ job[j].doc \in Stored
    /\ <<job[j].doc, job[j].text>> \in revisions
    /\ job[j].own # NoGroup => Belongs(job[j].own, job[j].doc)
    /\ job[j].group # NoGroup => Belongs(job[j].group, job[j].doc)
Matched(j) ==
    job[j].at \in {"creating", "assigning representative", "recording representative"} =>
        job[j].match \in Stored /\ HangTogether(job[j].match, job[j].doc)
Named(j) ==
    /\ job[j].at \in {"assigning representative", "recording representative", "assigning"} =>
           job[j].group # NoGroup
    /\ job[j].at \in {"assigning representative", "recording representative"} =>
           job[j].group # NoGroup /\ groups[job[j].group] = job[j].match
    /\ job[j].at \in {"idle", "saving", "reading", "deciding", "creating"} => job[j].group = NoGroup
JobIsTied(j) == Saving(j) /\ Saved(j) /\ Matched(j) /\ Named(j)
GroupInv ==
    /\ GroupTypes /\ DocsAreTied /\ RepresentativesStored /\ MembersAreSaved
    /\ \A j \in Jobs : JobIsTied(j)

LEMMA SayingIsMutual == \A d, e \in Stored : SaysTheSame(d, e) => SaysTheSame(e, d)
BY SMT DEF SaysTheSame, SameUrl, SameBody

LEMMA HangingIsMutual ==
  ASSUME NEW d \in Stored, NEW e \in Stored, HangTogether(d, e)
  PROVE  HangTogether(e, d)
<1>1. SUFFICES ASSUME NEW some \in SUBSET Stored, e \in some, Whole(some), d \notin some
               PROVE  FALSE
  BY DEF HangTogether
<1>2. Whole(Stored \ some)
  BY <1>1, SayingIsMutual DEF Whole
<1>3. e \in Stored \ some
  BY <1>2, <1>1 DEF HangTogether
<1> QED BY <1>3, <1>1

LEMMA HangingGoesOn ==
  ASSUME NEW d \in Stored, NEW e \in Stored, NEW f \in Stored, HangTogether(d, e), HangTogether(e, f)
  PROVE  HangTogether(d, f)
BY DEF HangTogether

LEMMA SameHangTogether ==
  ASSUME NEW d \in Stored, NEW e \in Stored, SaysTheSame(d, e)
  PROVE  HangTogether(d, e)
BY DEF HangTogether, Whole

\* Documents stay, and revisions.
Grows == Stored \subseteq Stored' /\ revisions \subseteq revisions'

LEMMA HangingStays ==
  ASSUME Grows, NEW d \in Stored, NEW e \in Stored, HangTogether(d, e)
  PROVE  HangTogether(d, e)'
<1>1. SUFFICES ASSUME NEW some \in SUBSET Stored', d \in some, Whole(some)'
               PROVE  e \in some
  BY DEF HangTogether
<1>2. \A x \in Stored, y \in Stored : SaysTheSame(x, y) => SaysTheSame(x, y)'
  BY DEF Grows, SaysTheSame
<1>3. Whole(some \cap Stored)
  BY <1>1, <1>2 DEF Whole, Grows
<1> QED BY <1>1, <1>3 DEF HangTogether

LEMMA GroupsFromInv == GroupInv => GroupsAreExact
<1> SUFFICES ASSUME GroupInv PROVE GroupsAreExact
  OBVIOUS
<1>1. ASSUME NEW d \in Stored, NEW e \in Stored, docs[d].group # NoGroup, docs[d].group = docs[e].group
      PROVE  HangTogether(d, e)
  <2>1. PICK r : r = groups[docs[d].group]
    OBVIOUS
  <2>2. r \in Stored /\ HangTogether(r, d) /\ HangTogether(r, e)
    BY <1>1, <2>1 DEF GroupInv, DocsAreTied, DocIsTied, Belongs, RepresentativesStored
  <2> QED BY <2>2, HangingIsMutual, HangingGoesOn
<1> QED BY <1>1 DEF GroupsAreExact, GroupInv, DocsAreTied, DocIsTied, Belongs, RepresentativesStored, MembersAreSaved

-----------------------------------------------------------------------------
(* The steps.  What a step leaves alone stays tied.                        *)

LEMMA RowsAreKnown == GroupTypes => Stored \subseteq DocIds /\ \A d \in Stored : docs[d] \in DocRows
BY DEF GroupTypes, Stored

\* Groups keep their representative.
Keeps == Grows /\ DOMAIN groups \subseteq DOMAIN groups' /\ \A g \in DOMAIN groups : groups'[g] = groups[g]

LEMMA BelongingStays ==
  ASSUME Keeps, RepresentativesStored, NEW g, NEW d \in Stored, Belongs(g, d)
  PROVE  Belongs(g, d)'
<1>1. PICK r : r = groups[g]
  OBVIOUS
<1>2. r \in Stored /\ HangTogether(r, d) /\ groups'[g] = r /\ g \in DOMAIN groups'
  BY <1>1 DEF Belongs, Keeps, RepresentativesStored
<1>3. HangTogether(r, d)'
  BY <1>2, HangingStays DEF Keeps
<1> QED BY <1>2, <1>3 DEF Belongs, HangTogether, Whole, SaysTheSame

LEMMA JobStays ==
  ASSUME Keeps, GroupInv, NEW j \in Jobs, job'[j] = job[j]
  PROVE  JobIsTied(j)'
<1> USE DEF GroupInv, JobIsTied
<1>1. Saving(j)'
  BY DEF Saving, Keeps, Grows
<1>2. PICK row : row = job[j]
  OBVIOUS
<1>3. Saved(j)'
  BY <1>2, BelongingStays DEF Saved, Keeps, Grows
<1>4. Matched(j)'
  BY <1>2, HangingStays DEF Matched, Saved, Keeps, Grows
<1>5. Named(j)'
  BY DEF Named, Saved, Belongs, Keeps
<1> QED BY <1>1, <1>3, <1>4, <1>5

LEMMA RowsStay ==
  ASSUME Keeps, GroupInv, NEW d \in Stored, docs'[d] = docs[d]
  PROVE  DocIsTied(d)'
<1>1. PICK g : g = docs[d].group
  OBVIOUS
<1>2. g # NoGroup => Belongs(g, d)'
  BY <1>1, BelongingStays DEF GroupInv, DocsAreTied, DocIsTied
<1>3. <<d, docs[d].current>> \in revisions'
  BY DEF GroupInv, DocsAreTied, DocIsTied, Keeps, Grows
<1> QED BY <1>1, <1>2, <1>3 DEF DocIsTied, Belongs, HangTogether, Whole, SaysTheSame

OthersStay(j) == job \in [Jobs -> JobRows] /\ \A i \in Jobs \ {j} : job'[i] = job[i]
RowsSame == UNCHANGED <<docs, revisions, groups>>

LEMMA SameKeeps == RowsSame => Keeps
BY DEF RowsSame, Keeps, Grows, Stored

LEMMA OneJobMoves ==
  ASSUME GroupInv, GroupTypes', NEW j \in Jobs, OthersStay(j), RowsSame, JobIsTied(j)', MembersAreSaved'
  PROVE  GroupInv'
<1>1. Keeps
  BY SameKeeps
<1>2. \A i \in Jobs : JobIsTied(i)'
  BY <1>1, JobStays DEF OthersStay
<1>3. ASSUME NEW d \in Stored' PROVE DocIsTied(d)'
  <2>1. d \in Stored /\ docs'[d] = docs[d]
    BY DEF RowsSame, Stored
  <2> QED BY <2>1, <1>1, RowsStay
<1>4. RepresentativesStored'
  BY DEF GroupInv, RepresentativesStored, RowsSame, Stored
<1> QED BY <1>2, <1>3, <1>4 DEF GroupInv, DocsAreTied

LEMMA MembersStay == RowsSame /\ members' = members /\ MembersAreSaved => MembersAreSaved'
BY DEF RowsSame, MembersAreSaved

LEMMA RowsMean ==
  ASSUME GroupTypes, NEW j \in Jobs
  PROVE  job[j] \in JobRows /\ job[j].at \in Stages /\ job[j].group \in ClusterIds \cup {NoGroup}
         /\ job[j].own \in ClusterIds \cup {NoGroup} /\ job[j].doc \in DocIds \cup {NoDoc}
         /\ job[j].match \in DocIds \cup {NoDoc}
<1>1. job[j] \in JobRows
  BY DEF GroupTypes
<1> QED BY <1>1 DEF JobRows

LEMMA NoJobIsTied ==
  ASSUME NEW j \in Jobs, job'[j] = NoJob
  PROVE  JobIsTied(j)'
BY DEF NoJob, JobIsTied, Saving, Saved, Matched, Named

LEMMA NoJobIsARow == NoJob \in JobRows
BY DEF NoJob, JobRows, Stages

LEMMA StartStep ==
  ASSUME GroupInv, NEW j \in Jobs, NEW t \in AllTexts, StartJob(j, t)
  PROVE  GroupInv'
<1> USE DEF GroupInv
<1>1. PICK d : job' = [job EXCEPT ![j] = [NoJob EXCEPT !.at = "saving", !.text = t, !.doc = d]]
               /\ (d = NoDoc \/ d \in Stored)
  <2>1. PICK d : d = (IF \E e \in Stored : docs[e].url # NoUrl /\ docs[e].url = TextsOf[t].url
                      THEN CHOOSE e \in Stored : docs[e].url = TextsOf[t].url ELSE NoDoc)
    OBVIOUS
  <2>2. d = NoDoc \/ d \in Stored
    BY <2>1
  <2> QED BY <2>1, <2>2 DEF StartJob
<1>2. RowsSame /\ members' = members /\ jobFaults' = jobFaults
  BY DEF StartJob, RowsSame
<1>3. PICK row : row = [NoJob EXCEPT !.at = "saving", !.text = t, !.doc = d]
  OBVIOUS
<1>4. row \in JobRows /\ row.at = "saving" /\ row.text = t /\ row.doc = d /\ row.group = NoGroup /\ row.own = NoGroup
  BY <1>1, <1>3, RowsAreKnown DEF NoJob, JobRows, Stages
<1>5. job'[j] = row /\ OthersStay(j) /\ job' \in [Jobs -> JobRows]
  BY <1>1, <1>3, <1>4 DEF GroupTypes, OthersStay
<1>6. JobIsTied(j)'
  BY <1>1, <1>2, <1>4, <1>5 DEF JobIsTied, Saving, Saved, Matched, Named, RowsSame, Stored
<1>7. GroupTypes'
  BY <1>2, <1>5 DEF GroupTypes, RowsSame
<1> QED BY <1>2, <1>5, <1>6, <1>7, OneJobMoves, MembersStay

LEMMA ReadStep ==
  ASSUME GroupInv, NEW j \in Jobs, ReadJob(j)
  PROVE  GroupInv'
<1> USE DEF GroupInv
<1>1. PICK row : row = job[j]
  OBVIOUS
<1>2. row \in JobRows /\ row.at = "reading"
  BY <1>1, RowsMean DEF ReadJob
<1>3. row.doc \in Stored /\ row.text \in AllTexts /\ <<row.doc, row.text>> \in revisions /\ row.group = NoGroup
  BY <1>1, <1>2 DEF JobIsTied, Saved, Named
<1>4. PICK own : own = docs[row.doc].group
  OBVIOUS
<1>5. own \in ClusterIds \cup {NoGroup} /\ (own # NoGroup => Belongs(own, row.doc))
  BY <1>3, <1>4, RowsAreKnown DEF DocsAreTied, DocIsTied, DocRows
<1>6. PICK next : next = [row EXCEPT !.at = "deciding", !.own = own]
  OBVIOUS
<1>7. next \in JobRows /\ next.at = "deciding" /\ next.own = own /\ next.doc = row.doc
      /\ next.text = row.text /\ next.group = row.group
  BY <1>2, <1>5, <1>6 DEF JobRows, Stages
<1>8. job' = [job EXCEPT ![j] = next] /\ RowsSame /\ members' = members /\ jobFaults' = jobFaults
  BY <1>1, <1>4, <1>6 DEF ReadJob, RowsSame
<1>9. job'[j] = next /\ OthersStay(j) /\ job' \in [Jobs -> JobRows]
  BY <1>7, <1>8 DEF GroupTypes, OthersStay
<1>10. own # NoGroup => Belongs(own, row.doc)'
  BY <1>3, <1>5, <1>8, SameKeeps, BelongingStays
<1>11. JobIsTied(j)'
  BY <1>3, <1>7, <1>8, <1>9, <1>10 DEF JobIsTied, Saving, Saved, Matched, Named, RowsSame, Stored
<1>12. GroupTypes'
  BY <1>8, <1>9 DEF GroupTypes, RowsSame
<1> QED BY <1>8, <1>9, <1>11, <1>12, OneJobMoves, MembersStay

LEMMA MatchesSayTheSame ==
  ASSUME GroupInv, GroupAssumption, NEW j \in Jobs, job[j].doc \in Stored, job[j].text \in AllTexts,
         <<job[j].doc, job[j].text>> \in revisions,
         NEW m \in ExactMatches(TextsOf[job[j].text], GroupCandidates(j))
  PROVE  m \in Stored /\ HangTogether(m, job[j].doc)
<1>1. PICK t, others, d : t = job[j].text /\ others = GroupCandidates(j) /\ d = job[j].doc
  OBVIOUS
<1>2. DOMAIN others = Stored \ {d} /\ \A x \in Stored \ {d} : others[x] = [TextsOf[docs[x].current] EXCEPT !.key = NoKey]
  BY <1>1 DEF GroupCandidates
<1>3. m \in DOMAIN others /\ (SameKey(TextsOf[t], others[m]) \/ SameUrl(TextsOf[t], others[m]) \/ SameBody(TextsOf[t], others[m]))
  BY <1>1 DEF ExactMatches
<1>4. m \in Stored /\ others[m] = [TextsOf[docs[m].current] EXCEPT !.key = NoKey]
  BY <1>2, <1>3
<1>5. PICK c : c = docs[m].current
  OBVIOUS
<1>6. c \in AllTexts /\ <<m, c>> \in revisions
  BY <1>4, <1>5, RowsAreKnown DEF GroupInv, DocsAreTied, DocIsTied, DocRows
<1>7. PICK text : text = TextsOf[c]
  OBVIOUS
<1>8. {"canon", "body", "key"} \subseteq DOMAIN text
  BY <1>6, <1>7 DEF GroupAssumption, AllTexts
<1>9. others[m].key = NoKey /\ others[m].canon = text.canon /\ others[m].body = text.body
  BY <1>4, <1>5, <1>7, <1>8
<1>10. ~SameKey(TextsOf[t], others[m])
  BY <1>9 DEF SameKey
<1>11. SameUrl(text, TextsOf[t]) \/ SameBody(text, TextsOf[t])
  BY <1>3, <1>9, <1>10 DEF SameUrl, SameBody
<1>12. SaysTheSame(m, d)
  <2>1. PICK r : r = <<m, c>> /\ r \in revisions /\ r[1] = m /\ r[2] = c
    BY <1>6
  <2>2. PICK s : s = <<d, t>> /\ s \in revisions /\ s[1] = d /\ s[2] = t
    BY <1>1
  <2> QED BY <2>1, <2>2, <1>11, <1>7 DEF SaysTheSame
<1> QED BY <1>1, <1>4, <1>12, SameHangTogether

\* A job goes on, and nothing else of it changes.
LEMMA OnlyMoves ==
  ASSUME GroupTypes, NEW j \in Jobs, NEW at \in Stages, JobMoves(j, at)
  PROVE  /\ job'[j] = [job[j] EXCEPT !.at = at] /\ OthersStay(j) /\ job' \in [Jobs -> JobRows]
         /\ job'[j].at = at /\ job'[j].doc = job[j].doc /\ job'[j].text = job[j].text
         /\ job'[j].own = job[j].own /\ job'[j].match = job[j].match /\ job'[j].group = job[j].group
<1>1. PICK row : row = job[j]
  OBVIOUS
<1>2. PICK next : next = [row EXCEPT !.at = at]
  OBVIOUS
<1>3. row \in JobRows
  BY <1>1, RowsMean
<1>4. next \in JobRows /\ next.at = at /\ next.doc = row.doc /\ next.text = row.text
      /\ next.own = row.own /\ next.match = row.match /\ next.group = row.group
  BY <1>2, <1>3 DEF JobRows
<1>5. job' = [job EXCEPT ![j] = next]
  BY <1>1, <1>2 DEF JobMoves
<1>6. job'[j] = next /\ OthersStay(j) /\ job' \in [Jobs -> JobRows]
  BY <1>4, <1>5 DEF GroupTypes, OthersStay
<1> QED BY <1>1, <1>2, <1>4, <1>6

\* What a job has saved is saved and tied where it was, while the rest grows.
LEMMA SavedStays ==
  ASSUME GroupInv, Keeps, NEW j \in Jobs, job[j].at \notin {"idle", "saving"},
         job'[j].doc = job[j].doc, job'[j].text = job[j].text, job'[j].own = job[j].own,
         job'[j].group = job[j].group
  PROVE  /\ Saved(j)'
         /\ job'[j].doc \in Stored' /\ job[j].doc \in Stored
<1>1. PICK row : row = job[j]
  OBVIOUS
<1>2. Saved(j) /\ row.at \notin {"idle", "saving"} /\ RepresentativesStored
  BY <1>1 DEF GroupInv, JobIsTied
<1>3. row.text \in AllTexts /\ row.doc \in Stored /\ <<row.doc, row.text>> \in revisions
  BY <1>1, <1>2 DEF Saved
<1>4. (row.own # NoGroup => Belongs(row.own, row.doc)) /\ (row.group # NoGroup => Belongs(row.group, row.doc))
  BY <1>1, <1>2 DEF Saved
<1>5. (row.own # NoGroup => Belongs(row.own, row.doc)') /\ (row.group # NoGroup => Belongs(row.group, row.doc)')
  BY <1>2, <1>3, <1>4, BelongingStays
<1>6. row.doc \in Stored' /\ <<row.doc, row.text>> \in revisions'
  BY <1>3 DEF Keeps, Grows
<1> QED BY <1>1, <1>3, <1>5, <1>6 DEF Saved, Belongs, HangTogether, Whole, SaysTheSame

LEMMA DecideStep ==
  ASSUME GroupInv, GroupAssumption, NEW j \in Jobs, Deduplicate(j)
  PROVE  GroupInv'
<1> USE DEF GroupInv
<1>1. PICK row : row = job[j]
  OBVIOUS
<1>2. row \in JobRows /\ row.at = "deciding"
  BY <1>1, RowsMean DEF Deduplicate
<1>3. /\ row.doc \in Stored /\ row.text \in AllTexts /\ <<row.doc, row.text>> \in revisions
      /\ row.group = NoGroup /\ (row.own # NoGroup => Belongs(row.own, row.doc))
  BY <1>1, <1>2 DEF JobIsTied, Saved, Named
<1>4. RowsSame /\ members' = members /\ jobFaults' = jobFaults /\ Keeps
  BY SameKeeps DEF Deduplicate, RowsSame
<1>5. CASE JobMoves(j, "recording")
  <2>1. /\ job'[j] = [job[j] EXCEPT !.at = "recording"] /\ OthersStay(j) /\ job' \in [Jobs -> JobRows]
        /\ job'[j].at = "recording" /\ job'[j].doc = job[j].doc /\ job'[j].text = job[j].text
        /\ job'[j].own = job[j].own /\ job'[j].match = job[j].match /\ job'[j].group = job[j].group
    BY <1>5, OnlyMoves DEF Stages
  <2>2. Saved(j)'
    BY <1>1, <1>2, <1>4, <2>1, SavedStays
  <2>3. JobIsTied(j)'
    BY <2>1, <2>2, <1>1, <1>3 DEF JobIsTied, Saving, Matched, Named
  <2>4. GroupTypes'
    BY <1>4, <2>1 DEF GroupTypes, RowsSame
  <2> QED BY <1>4, <2>1, <2>3, <2>4, OneJobMoves, MembersStay
<1>6. CASE \E m \in ExactMatches(TextsOf[row.text], GroupCandidates(j)) : Decided(j, m)
  <2>1. PICK m \in ExactMatches(TextsOf[row.text], GroupCandidates(j)) : Decided(j, m)
    BY <1>6
  <2>2. m \in Stored /\ HangTogether(m, row.doc)
    BY <1>1, <1>3, <2>1, MatchesSayTheSame
  <2>3. PICK theirs : theirs = docs[m].group
    OBVIOUS
  <2>4. theirs \in ClusterIds \cup {NoGroup} /\ (theirs # NoGroup => Belongs(theirs, m))
    BY <2>2, <2>3, RowsAreKnown DEF DocsAreTied, DocIsTied, DocRows
  <2>5. theirs # NoGroup => Belongs(theirs, row.doc)
    <3>1. HAVE theirs # NoGroup
    <3>2. PICK r : r = groups[theirs]
      OBVIOUS
    <3>3. r \in Stored /\ HangTogether(r, m) /\ theirs \in DOMAIN groups
      BY <3>1, <3>2, <2>4 DEF Belongs, RepresentativesStored
    <3>4. HangTogether(r, row.doc)
      BY <3>3, <2>2, <1>3, HangingGoesOn
    <3> QED BY <3>2, <3>3, <3>4 DEF Belongs
  <2>6. PICK given : given = IF theirs # NoGroup THEN theirs ELSE row.own
    OBVIOUS
  <2>7. given \in ClusterIds \cup {NoGroup} /\ (given # NoGroup => Belongs(given, row.doc))
    BY <1>2, <1>3, <2>4, <2>5, <2>6 DEF JobRows
  <2>8. PICK next : next = [row EXCEPT !.match = m, !.group = given,
                                       !.at = IF given = NoGroup THEN "creating" ELSE "assigning"]
    OBVIOUS
  <2>9. /\ next \in JobRows /\ next.match = m /\ next.group = given /\ next.doc = row.doc
        /\ next.text = row.text /\ next.own = row.own
        /\ next.at = IF given = NoGroup THEN "creating" ELSE "assigning"
    BY <1>2, <2>2, <2>7, <2>8, RowsAreKnown DEF JobRows, Stages
  <2>10. job' = [job EXCEPT ![j] = next]
    BY <1>1, <2>1, <2>3, <2>6, <2>8 DEF Decided, GroupTypes
  <2>11. job'[j] = next /\ OthersStay(j) /\ job' \in [Jobs -> JobRows]
    BY <2>9, <2>10 DEF GroupTypes, OthersStay
  <2>12. /\ given # NoGroup => Belongs(given, row.doc)'
         /\ row.own # NoGroup => Belongs(row.own, row.doc)'
         /\ HangTogether(m, row.doc)'
    BY <1>3, <1>4, <2>2, <2>7, BelongingStays, HangingStays DEF Keeps
  <2>13. row.doc \in Stored' /\ m \in Stored' /\ <<row.doc, row.text>> \in revisions'
    BY <1>3, <1>4, <2>2 DEF Keeps, Grows
  <2>14. Saved(j)'
    BY <1>3, <2>9, <2>11, <2>12, <2>13 DEF Saved, Belongs, HangTogether, Whole, SaysTheSame
  <2>15. Matched(j)'
    BY <2>9, <2>11, <2>12, <2>13 DEF Matched, HangTogether, Whole, SaysTheSame
  <2>16. JobIsTied(j)'
    BY <2>9, <2>11, <2>14, <2>15 DEF JobIsTied, Saving, Named
  <2>17. GroupTypes'
    BY <1>4, <2>11 DEF GroupTypes, RowsSame
  <2> QED BY <1>4, <2>11, <2>16, <2>17, OneJobMoves, MembersStay
<1>7. (\E m \in ExactMatches(TextsOf[job[j].text], GroupCandidates(j)) : Decided(j, m)) \/ JobMoves(j, "recording")
  BY DEF Deduplicate
<1> QED BY <1>1, <1>5, <1>6, <1>7

LEMMA FailStep ==
  ASSUME GroupInv, GroupAssumption, NEW j \in Jobs, JobFails(j)
  PROVE  GroupInv'
<1> USE DEF GroupInv
<1>1. RowsSame /\ members' = members /\ job' = [job EXCEPT ![j] = NoJob]
  BY DEF JobFails, RowsSame
<1>2. job'[j] = NoJob /\ OthersStay(j) /\ job' \in [Jobs -> JobRows]
  BY <1>1, NoJobIsARow DEF GroupTypes, OthersStay
<1>3. jobFaults' \in 0 .. JobFaults
  BY DEF JobFails, GroupTypes, GroupAssumption
<1>4. GroupTypes'
  BY <1>1, <1>2, <1>3 DEF GroupTypes, RowsSame
<1> QED BY <1>1, <1>2, <1>4, NoJobIsTied, OneJobMoves, MembersStay

LEMMA RecordStep ==
  ASSUME GroupInv, NEW j \in Jobs, RecordTarget(j)
  PROVE  GroupInv'
<1> USE DEF GroupInv
<1>1. RowsSame /\ job' = [job EXCEPT ![j] = NoJob] /\ jobFaults' = jobFaults
  BY DEF RecordTarget, RowsSame
<1>2. job'[j] = NoJob /\ OthersStay(j) /\ job' \in [Jobs -> JobRows]
  BY <1>1, NoJobIsARow DEF GroupTypes, OthersStay
<1>3. PICK row : row = job[j]
  OBVIOUS
<1>4. row.text \in AllTexts /\ row.doc \in Stored /\ <<row.doc, row.text>> \in revisions
      /\ (row.group # NoGroup => row.group \in DOMAIN groups)
  BY <1>3 DEF RecordTarget, JobIsTied, Saved, Belongs
<1>5. PICK m : m = <<row.group, row.doc, row.text>>
  OBVIOUS
<1>a. m[1] = row.group /\ <<m[2], m[3]>> = <<row.doc, row.text>>
  BY <1>5
<1>6. members' = members \/ (row.group # NoGroup /\ members' = members \cup {m})
  BY <1>3, <1>5 DEF RecordTarget
<1>7. members' \subseteq ClusterIds \X DocIds \X AllTexts
  <2>1. row.group # NoGroup => m \in ClusterIds \X DocIds \X AllTexts
    BY <1>4, <1>5, RowsAreKnown DEF GroupTypes
  <2> QED BY <1>6, <2>1 DEF GroupTypes
<1>8. MembersAreSaved'
  BY <1>1, <1>4, <1>a, <1>6 DEF MembersAreSaved, RowsSame
<1>9. GroupTypes'
  BY <1>1, <1>2, <1>7 DEF GroupTypes, RowsSame
<1> QED BY <1>1, <1>2, <1>8, <1>9, NoJobIsTied, OneJobMoves

LEMMA RecordRepresentativeStep ==
  ASSUME GroupInv, NEW j \in Jobs, RecordRepresentative(j)
  PROVE  GroupInv'
<1> USE DEF GroupInv
<1>1. RowsSame /\ JobMoves(j, "assigning") /\ jobFaults' = jobFaults /\ job[j].at = "recording representative" /\ Keeps
  BY SameKeeps DEF RecordRepresentative, RowsSame
<1>2. /\ OthersStay(j) /\ job' \in [Jobs -> JobRows]
      /\ job'[j].at = "assigning" /\ job'[j].doc = job[j].doc /\ job'[j].text = job[j].text
      /\ job'[j].own = job[j].own /\ job'[j].match = job[j].match /\ job'[j].group = job[j].group
  BY <1>1, OnlyMoves DEF Stages
<1>3. PICK row : row = job[j]
  OBVIOUS
<1>4. row.match \in Stored /\ row.group # NoGroup /\ row.group \in DOMAIN groups
  BY <1>1, <1>3 DEF JobIsTied, Matched, Named, Saved, Belongs
<1>5. PICK c : c = docs[row.match].current
  OBVIOUS
<1>6. c \in AllTexts /\ <<row.match, c>> \in revisions
  BY <1>4, <1>5, RowsAreKnown DEF DocsAreTied, DocIsTied, DocRows
<1>7. PICK m : m = <<row.group, row.match, c>>
  OBVIOUS
<1>a. m[1] = row.group /\ <<m[2], m[3]>> = <<row.match, c>>
  BY <1>7
<1>8. members' = members \cup {m}
  BY <1>3, <1>5, <1>7 DEF RecordRepresentative
<1>9. members' \subseteq ClusterIds \X DocIds \X AllTexts
  BY <1>4, <1>6, <1>7, <1>8, RowsAreKnown DEF GroupTypes
<1>10. MembersAreSaved'
  BY <1>1, <1>4, <1>6, <1>a, <1>8 DEF MembersAreSaved, RowsSame
<1>11. GroupTypes'
  BY <1>1, <1>2, <1>9 DEF GroupTypes, RowsSame
<1>12. Saved(j)'
  BY <1>1, <1>2, SavedStays
<1>13. JobIsTied(j)'
  BY <1>2, <1>12, <1>3, <1>4 DEF JobIsTied, Saving, Matched, Named
<1> QED BY <1>1, <1>2, <1>10, <1>11, <1>13, OneJobMoves

LEMMA CreateStep ==
  ASSUME GroupInv, GroupAssumption, NEW j \in Jobs, CreateCluster(j)
  PROVE  GroupInv'
<1> USE DEF GroupInv
<1>1. PICK row : row = job[j]
  OBVIOUS
<1>2. row \in JobRows /\ row.at = "creating"
  BY <1>1, RowsMean DEF CreateCluster
<1>3. /\ row.doc \in Stored /\ row.text \in AllTexts /\ <<row.doc, row.text>> \in revisions
      /\ row.match \in Stored /\ HangTogether(row.match, row.doc)
      /\ (row.own # NoGroup => Belongs(row.own, row.doc))
  BY <1>1, <1>2 DEF JobIsTied, Saved, Matched
<1>4. PICK g : g = CHOOSE c \in ClusterIds : c \notin DOMAIN groups
  OBVIOUS
<1>5. g \in ClusterIds /\ g \notin DOMAIN groups /\ g # NoGroup
  BY <1>4 DEF CreateCluster, GroupTypes, GroupAssumption
<1>6. PICK next : next = [row EXCEPT !.at = "assigning representative", !.group = g]
  OBVIOUS
<1>7. /\ next \in JobRows /\ next.match = row.match /\ next.group = g /\ next.doc = row.doc
      /\ next.text = row.text /\ next.own = row.own /\ next.at = "assigning representative"
  BY <1>2, <1>5, <1>6 DEF JobRows, Stages
<1>8. /\ groups' = [h \in DOMAIN groups \cup {g} |-> IF h = g THEN row.match ELSE groups[h]]
      /\ job' = [job EXCEPT ![j] = next] /\ UNCHANGED <<docs, revisions, members, jobFaults>>
  <2>1. job' = [job EXCEPT ![j].at = "assigning representative", ![j].group = g]
    BY <1>4 DEF CreateCluster
  <2>2. job' = [job EXCEPT ![j] = next]
    <3>1. [[job EXCEPT ![j].at = "assigning representative"] EXCEPT ![j].group = g] = [job EXCEPT ![j] = next]
      BY <1>1, <1>6 DEF GroupTypes
    <3> QED BY <2>1, <3>1
  <2>3. groups' = [h \in DOMAIN groups \cup {g} |-> IF h = g THEN row.match ELSE groups[h]]
    BY <1>1, <1>4 DEF CreateCluster
  <2> QED BY <2>2, <2>3 DEF CreateCluster
<1>9. /\ DOMAIN groups' = DOMAIN groups \cup {g} /\ groups'[g] = row.match
      /\ \A h \in DOMAIN groups : groups'[h] = groups[h]
  BY <1>5, <1>8
<1>10. Keeps /\ Stored' = Stored
  BY <1>8, <1>9 DEF Keeps, Grows, Stored
<1>11. job'[j] = next /\ OthersStay(j) /\ job' \in [Jobs -> JobRows]
  BY <1>7, <1>8 DEF GroupTypes, OthersStay
<1>12. GroupTypes'
  BY <1>3, <1>5, <1>8, <1>9, <1>11, RowsAreKnown DEF GroupTypes
<1>13. \A d \in Stored' : DocIsTied(d)'
  BY <1>8, <1>10, RowsStay
<1>14. RepresentativesStored'
  BY <1>3, <1>9, <1>10 DEF RepresentativesStored
<1>15. MembersAreSaved'
  BY <1>8, <1>9 DEF MembersAreSaved
<1>16. HangTogether(row.match, row.doc)'
  BY <1>3, <1>10, HangingStays DEF Keeps
<1>17. Belongs(g, row.doc)'
  BY <1>9, <1>16 DEF Belongs, HangTogether, Whole, SaysTheSame
<1>18. row.own # NoGroup => Belongs(row.own, row.doc)'
  BY <1>3, <1>10, BelongingStays
<1>19. Saved(j)'
  <2>1. job'[j].doc = row.doc /\ job'[j].text = row.text /\ job'[j].own = row.own /\ job'[j].group = g
    BY <1>7, <1>11
  <2>2. row.doc \in Stored' /\ <<row.doc, row.text>> \in revisions'
    BY <1>3, <1>8, <1>10
  <2> QED BY <2>1, <2>2, <1>3, <1>17, <1>18 DEF Saved, Belongs, HangTogether, Whole, SaysTheSame
<1>20. Matched(j)'
  BY <1>3, <1>7, <1>10, <1>11, <1>16 DEF Matched, HangTogether, Whole, SaysTheSame
<1>21. Named(j)' /\ Saving(j)'
  BY <1>5, <1>7, <1>9, <1>11 DEF Named, Saving
<1>22. \A i \in Jobs : JobIsTied(i)'
  BY <1>10, <1>11, <1>19, <1>20, <1>21, JobStays DEF OthersStay, JobIsTied
<1> QED BY <1>12, <1>13, <1>14, <1>15, <1>22 DEF DocsAreTied

\* A stored document is put into a group that it belongs to.
LEMMA AssigningTies ==
  ASSUME GroupInv, GroupAssumption, NEW j \in Jobs, NEW d \in Stored, NEW g \in DOMAIN groups,
         Belongs(g, d), docs' = [docs EXCEPT ![d].group = g], UNCHANGED <<revisions, groups, members, jobFaults>>,
         OthersStay(j), job' \in [Jobs -> JobRows],
         job[j].at \notin {"idle", "saving"}, job'[j].doc = job[j].doc, job'[j].text = job[j].text,
         job'[j].own = job[j].own, job'[j].group = job[j].group, job'[j].match = job[j].match,
         job'[j].at \in {"recording representative", "recording"},
         job'[j].at = "recording representative" => job[j].at = "assigning representative"
  PROVE  GroupInv'
<1> USE DEF GroupInv
<1>1. PICK row : row = docs[d]
  OBVIOUS
<1>2. row \in DocRows /\ d \in DocIds /\ g \in ClusterIds
  BY <1>1, RowsAreKnown DEF GroupTypes
<1>3. PICK next : next = [row EXCEPT !.group = g]
  OBVIOUS
<1>4. next \in DocRows /\ next.group = g /\ next.current = row.current
      /\ next = [url |-> next.url, group |-> next.group, current |-> next.current]
  BY <1>2, <1>3 DEF DocRows
<1>5. next # Free
  <2>1. PICK u \in AllTexts : next.url = TextsOf[u].url
    BY <1>4 DEF DocRows
  <2> QED BY <2>1, <1>4 DEF DocRows, GroupAssumption, AllTexts
<1>6. docs' = [docs EXCEPT ![d] = next]
  BY <1>1, <1>3
<1>7. docs'[d] = next /\ (\A e \in DocIds \ {d} : docs'[e] = docs[e]) /\ docs' \in [DocIds -> DocRows \cup {Free}]
  <2>1. docs \in [DocIds -> DocRows \cup {Free}]
    BY DEF GroupTypes
  <2> HIDE DEF GroupInv
  <2> QED BY <1>2, <1>4, <1>6, <2>1
<1>8. Stored' = Stored
  <2>1. docs[d] # Free
    BY DEF Stored
  <2>2. \A e \in DocIds : docs'[e] # Free <=> docs[e] # Free
    BY <1>5, <1>7, <2>1
  <2> QED BY <2>2 DEF Stored
<1>9. Keeps
  BY <1>8 DEF Keeps, Grows
<1>10. GroupTypes'
  BY <1>7 DEF GroupTypes
<1>11. ASSUME NEW e \in Stored' PROVE DocIsTied(e)'
  <2>1. CASE e = d
    <3>1. Belongs(g, d)'
      BY <1>9, BelongingStays
    <3>2. <<d, row.current>> \in revisions'
      BY <1>1 DEF DocsAreTied, DocIsTied
    <3> QED BY <2>1, <1>4, <1>7, <3>1, <3>2 DEF DocIsTied, Belongs, HangTogether, Whole, SaysTheSame
  <2>2. CASE e # d
    BY <2>2, <1>7, <1>8, <1>9, RowsStay DEF Stored
  <2> QED BY <2>1, <2>2
<1>12. RepresentativesStored' /\ MembersAreSaved'
  BY <1>8 DEF RepresentativesStored, MembersAreSaved
<1>13. Saved(j)'
  BY <1>9, SavedStays
<1>14. PICK was : was = job[j]
  OBVIOUS
<1>15. was.at = "assigning representative" =>
          /\ was.match \in Stored /\ HangTogether(was.match, was.doc) /\ was.doc \in Stored
          /\ was.group # NoGroup /\ groups[was.group] = was.match
  BY <1>14 DEF JobIsTied, Matched, Named, Saved
<1>16. was.at = "assigning representative" => HangTogether(was.match, was.doc)'
  BY <1>9, <1>15, HangingStays DEF Keeps
<1>17. Matched(j)'
  BY <1>8, <1>14, <1>15, <1>16 DEF Matched, HangTogether, Whole, SaysTheSame
<1>18. Named(j)' /\ Saving(j)'
  BY <1>14, <1>15 DEF Named, Saving
<1>19. \A i \in Jobs : JobIsTied(i)'
  BY <1>9, <1>13, <1>17, <1>18, JobStays DEF OthersStay, JobIsTied
<1> QED BY <1>10, <1>11, <1>12, <1>19 DEF DocsAreTied

LEMMA HangsWithItself == \A d \in Stored : HangTogether(d, d)
BY DEF HangTogether

LEMMA AssignRepresentativeStep ==
  ASSUME GroupInv, GroupAssumption, NEW j \in Jobs, AssignRepresentative(j)
  PROVE  GroupInv'
<1> USE DEF GroupInv
<1>1. PICK row : row = job[j]
  OBVIOUS
<1>2. row.at = "assigning representative" /\ JobMoves(j, "recording representative")
      /\ docs' = [docs EXCEPT ![row.match].group = row.group] /\ UNCHANGED <<revisions, groups, members, jobFaults>>
  BY <1>1 DEF AssignRepresentative
<1>3. /\ OthersStay(j) /\ job' \in [Jobs -> JobRows]
      /\ job'[j].at = "recording representative" /\ job'[j].doc = job[j].doc /\ job'[j].text = job[j].text
      /\ job'[j].own = job[j].own /\ job'[j].match = job[j].match /\ job'[j].group = job[j].group
  BY <1>2, OnlyMoves DEF Stages
<1>4. row.match \in Stored /\ row.group \in DOMAIN groups /\ groups[row.group] = row.match
  BY <1>1, <1>2 DEF JobIsTied, Matched, Named, Saved, Belongs
<1>5. Belongs(row.group, row.match)
  BY <1>4, HangsWithItself DEF Belongs
<1>6. PICK d, g : d = row.match /\ g = row.group
  OBVIOUS
<1>7. d \in Stored /\ g \in DOMAIN groups /\ Belongs(g, d) /\ docs' = [docs EXCEPT ![d].group = g]
  BY <1>2, <1>4, <1>5, <1>6
<1> QED BY <1>1, <1>2, <1>3, <1>7, AssigningTies

LEMMA AssignTargetStep ==
  ASSUME GroupInv, GroupAssumption, NEW j \in Jobs, AssignTarget(j)
  PROVE  GroupInv'
<1> USE DEF GroupInv
<1>1. PICK row : row = job[j]
  OBVIOUS
<1>2. row.at = "assigning" /\ JobMoves(j, "recording")
      /\ docs' = [docs EXCEPT ![row.doc].group = row.group] /\ UNCHANGED <<revisions, groups, members, jobFaults>>
  BY <1>1 DEF AssignTarget
<1>3. /\ OthersStay(j) /\ job' \in [Jobs -> JobRows]
      /\ job'[j].at = "recording" /\ job'[j].doc = job[j].doc /\ job'[j].text = job[j].text
      /\ job'[j].own = job[j].own /\ job'[j].match = job[j].match /\ job'[j].group = job[j].group
  BY <1>2, OnlyMoves DEF Stages
<1>4. row.doc \in Stored /\ Belongs(row.group, row.doc) /\ row.group \in DOMAIN groups
  BY <1>1, <1>2 DEF JobIsTied, Named, Saved, Belongs
<1>6. PICK d, g : d = row.doc /\ g = row.group
  OBVIOUS
<1>7. d \in Stored /\ g \in DOMAIN groups /\ Belongs(g, d) /\ docs' = [docs EXCEPT ![d].group = g]
  BY <1>2, <1>4, <1>6
<1> QED BY <1>1, <1>2, <1>3, <1>7, AssigningTies

LEMMA SaveStep ==
  ASSUME GroupInv, GroupAssumption, NEW j \in Jobs, SaveNormalizedDocument(j)
  PROVE  GroupInv'
<1> USE DEF GroupInv
<1>1. PICK row : row = job[j]
  OBVIOUS
<1>2. row \in JobRows /\ row.at = "saving" /\ (row.doc = NoDoc => Stored # DocIds)
  BY <1>1, RowsMean DEF SaveNormalizedDocument
<1>3. row.text \in AllTexts /\ (row.doc = NoDoc \/ row.doc \in Stored) /\ row.group = NoGroup
  BY <1>1, <1>2 DEF JobIsTied, Saving, Named
<1>4. PICK text : text = row.text
  OBVIOUS
<1>5. PICK d \in IF row.doc = NoDoc THEN {CHOOSE d \in DocIds : d \notin Stored} ELSE {row.doc} :
        /\ docs' = IF d \in Stored THEN docs
                   ELSE [docs EXCEPT ![d] = [url |-> TextsOf[text].url, group |-> NoGroup, current |-> text]]
        /\ revisions' = revisions \cup {<<d, text>>}
        /\ job' = [job EXCEPT ![j].at = "reading", ![j].doc = d]
  BY <1>1, <1>4 DEF SaveNormalizedDocument
<1>6. UNCHANGED <<groups, members, jobFaults>>
  BY DEF SaveNormalizedDocument
<1>7. d \in DocIds
  BY <1>2, <1>3, <1>5, RowsAreKnown
<1>8. PICK new : new = [url |-> TextsOf[text].url, group |-> NoGroup, current |-> text]
  OBVIOUS
<1>9. new \in DocRows /\ new # Free /\ new.group = NoGroup /\ new.current = text
  BY <1>3, <1>4, <1>8 DEF DocRows, AllTexts, GroupAssumption
<1>10. docs' = IF d \in Stored THEN docs ELSE [docs EXCEPT ![d] = new]
  BY <1>5, <1>8
<1>11. /\ docs' \in [DocIds -> DocRows \cup {Free}]
       /\ \A e \in Stored : docs'[e] = docs[e]
       /\ d \notin Stored => docs'[d] = new
       /\ \A e \in DocIds \ {d} : docs'[e] = docs[e]
  BY <1>7, <1>9, <1>10 DEF GroupTypes, Stored
<1>12. Stored' = Stored \cup {d}
  BY <1>7, <1>9, <1>11 DEF Stored
<1>13. Keeps
  BY <1>5, <1>6, <1>12 DEF Keeps, Grows
<1>14. PICK next : next = [row EXCEPT !.at = "reading", !.doc = d]
  OBVIOUS
<1>15. /\ next \in JobRows /\ next.at = "reading" /\ next.doc = d /\ next.text = text
       /\ next.own = row.own /\ next.group = NoGroup
  BY <1>2, <1>3, <1>4, <1>7, <1>14 DEF JobRows, Stages
<1>16. job' = [job EXCEPT ![j] = next]
  BY <1>1, <1>5, <1>14 DEF GroupTypes
<1>17. job'[j] = next /\ OthersStay(j) /\ job' \in [Jobs -> JobRows]
  BY <1>15, <1>16 DEF GroupTypes, OthersStay
<1>18. GroupTypes'
  <2>1. revisions' \subseteq DocIds \X AllTexts
    BY <1>3, <1>4, <1>5, <1>7 DEF GroupTypes
  <2> QED BY <2>1, <1>6, <1>11, <1>17 DEF GroupTypes
<1>19. ASSUME NEW e \in Stored' PROVE DocIsTied(e)'
  <2>1. CASE e \in Stored
    BY <2>1, <1>11, <1>13, RowsStay
  <2>2. CASE e \notin Stored
    <3>1. e = d /\ docs'[d] = new
      BY <2>2, <1>11, <1>12
    <3> QED BY <3>1, <1>5, <1>9 DEF DocIsTied
  <2> QED BY <2>1, <2>2
<1>20. RepresentativesStored' /\ MembersAreSaved'
  BY <1>5, <1>6, <1>12 DEF RepresentativesStored, MembersAreSaved
<1>21. row.own = NoGroup
  BY <1>1, <1>2 DEF JobIsTied, Saving
<1>22. JobIsTied(j)'
  <2>1. job'[j].at = "reading" /\ job'[j].doc = d /\ job'[j].text = text /\ job'[j].own = NoGroup /\ job'[j].group = NoGroup
    BY <1>15, <1>17, <1>21
  <2>2. d \in Stored' /\ text \in AllTexts /\ <<d, text>> \in revisions'
    BY <1>3, <1>4, <1>5, <1>12
  <2>3. Saved(j)'
    BY <2>1, <2>2 DEF Saved
  <2> QED BY <2>1, <2>3 DEF JobIsTied, Saving, Matched, Named
<1>23. \A i \in Jobs : JobIsTied(i)'
  BY <1>13, <1>17, <1>22, JobStays DEF OthersStay
<1> QED BY <1>18, <1>19, <1>20, <1>23 DEF DocsAreTied

LEMMA GroupsInitInv == GroupAssumption /\ GroupInit => GroupInv
<1> SUFFICES ASSUME GroupAssumption, GroupInit PROVE GroupInv
  OBVIOUS
<1>1. docs = [d \in DocIds |-> Free] /\ revisions = {} /\ members = {} /\ groups = [g \in {} |-> NoDoc]
      /\ job = [j \in Jobs |-> NoJob] /\ jobFaults = 0
  BY DEF GroupInit
<1>2. DOMAIN groups = {} /\ Stored = {}
  BY <1>1 DEF Stored
<1>3. GroupTypes
  BY <1>1, <1>2, NoJobIsARow DEF GroupTypes, GroupAssumption
<1>4. \A j \in Jobs : JobIsTied(j)
  BY <1>1 DEF NoJob, JobIsTied, Saving, Saved, Matched, Named
<1> QED BY <1>1, <1>2, <1>3, <1>4 DEF GroupInv, DocsAreTied, RepresentativesStored, MembersAreSaved

LEMMA GroupStep == GroupAssumption /\ GroupInv /\ [GroupNext]_groupVars => GroupInv'
<1> SUFFICES ASSUME GroupAssumption, GroupInv, [GroupNext]_groupVars PROVE GroupInv'
  OBVIOUS
<1>1. CASE UNCHANGED groupVars
  <2>1. RowsSame /\ UNCHANGED <<members, job, jobFaults>> /\ Keeps
    BY <1>1, SameKeeps DEF groupVars, RowsSame
  <2>2. \A j \in Jobs : JobIsTied(j)'
    BY <2>1, JobStays
  <2>3. \A d \in Stored' : DocIsTied(d)'
    BY <2>1, RowsStay DEF RowsSame, Stored
  <2> QED BY <2>1, <2>2, <2>3 DEF RowsSame, GroupInv, GroupTypes, DocsAreTied, RepresentativesStored,
             MembersAreSaved, Stored
<1>2. CASE GroupNext
  BY <1>2, StartStep, SaveStep, ReadStep, DecideStep, CreateStep, AssignRepresentativeStep,
     RecordRepresentativeStep, AssignTargetStep, RecordStep, FailStep DEF GroupNext
<1> QED BY <1>1, <1>2

-----------------------------------------------------------------------------
(***************************************************************************)
(* The reports.  No reason means that every count of a stage is that of    *)
(* the stage before it, and finite sets of one size, one in the other, are *)
(* the same.                                                               *)
(***************************************************************************)
RowsAreFinite ==
    /\ memberships \subseteq Slices \X ReportItems
    /\ measured \subseteq {m[2] : m \in memberships} /\ searchable \subseteq {m[2] : m \in memberships}

LEMMA NoShortage ==
    ASSUME NEW n, DiagnoseCoverage(n) = {},
           n.raw \in Nat, n.checked \in Nat, n.completed \in Nat, n.lexical \in Nat, n.vector \in Nat
    PROVE  n.raw > 0 /\ n.checked <= n.completed /\ n.raw <= n.lexical /\ n.raw <= n.vector
<1> DEFINE asked == n.targets > 0 \/ n.checked > 0
           known == {r \in {"raw_shortage", "processing_pending", "period_gap", "retrieval_miss"} :
            CASE r = "raw_shortage" -> asked /\ n.raw = 0
              [] r = "processing_pending" -> n.raw > 0 /\ (n.lexical < n.raw \/ n.vector < n.raw)
              [] r = "period_gap" ->
                     n.partial > 0 \/ n.checked > n.completed \/ (asked /\ n.checked = 0)
              [] r = "retrieval_miss" -> n.missed > 0}
<1>1. known = {} /\ (n.raw = 0 => asked)
  BY DEF DiagnoseCoverage
<1>2. "raw_shortage" \notin known /\ "processing_pending" \notin known /\ "period_gap" \notin known
  BY <1>1
<1>3. ~(asked /\ n.raw = 0)
  <2> HIDE DEF asked
  <2> QED BY <1>2
<1>4. ~(n.raw > 0 /\ (n.lexical < n.raw \/ n.vector < n.raw))
  <2> HIDE DEF asked
  <2> QED BY <1>2
<1>5. ~(n.checked > n.completed)
  <2> HIDE DEF asked
  <2> QED BY <1>2
<1> HIDE DEF asked, known
<1>6. n.raw > 0
  BY <1>1, <1>3
<1> QED BY <1>4, <1>5, <1>6

LEMMA StagesAreFinite ==
    ASSUME CoverageAssumption, RowsAreFinite, NEW w
    PROVE  /\ IsFiniteSet(EligibleSlices(w)) /\ IsFiniteSet({m[2] : m \in EligibleRaw(w)})
           /\ EligibleVector(w) \subseteq EligibleLexical(w)
           /\ EligibleLexical(w) \subseteq {m[2] : m \in EligibleRaw(w)}
<1>1. EligibleSlices(w) \subseteq Slices /\ EligibleVector(w) \subseteq EligibleLexical(w)
  BY DEF EligibleSlices, EligibleVector
<1>2. {m[2] : m \in EligibleRaw(w)} \subseteq ReportItems
  BY DEF EligibleRaw, RowsAreFinite
<1>3. EligibleLexical(w) \subseteq {m[2] : m \in EligibleRaw(w)}
  BY DEF EligibleLexical
<1> QED BY <1>1, <1>2, <1>3, FS_Subset DEF CoverageAssumption, Slices, ReportItems

AskedIn(w) == {p \in Slices : /\ slices[p] # "absent" /\ SliceOf[p].target \in openTargets
                              /\ Regular(p) /\ Overlaps(p, w)}
Published(w) == {m \in memberships : /\ m[1] \in AskedIn(w)
                                     /\ ItemFacts[m[2]].licensed /\ PublishedIn(m[2], w)}
IsWhole(w) == /\ \A p \in AskedIn(w) : slices[p] = "completed"
              /\ Published(w) # {}
              /\ \A m \in Published(w) : m[2] \in (searchable \cap embedded) \ tombstoned

LEMMA NoReasonFromRows == ASSUME CoverageAssumption, RowsAreFinite PROVE NoReasonMeansWhole
<1>1. SUFFICES ASSUME NEW k \in DOMAIN Periods, CoverageReasons(Periods[k]) = {}
               PROVE  IsWhole(Periods[k])
  BY DEF NoReasonMeansWhole, IsWhole, Published, AskedIn
<1>2. PICK w, n : w = Periods[k] /\ n = CoverageCounts(w) /\ DiagnoseCoverage(n) = {}
  BY <1>1 DEF CoverageReasons
<1>3. PICK checked, completed, raw, lexical, vector :
        /\ checked = EligibleSlices(w) /\ completed = {p \in EligibleSlices(w) : slices[p] = "completed"}
        /\ raw = {m[2] : m \in EligibleRaw(w)} /\ lexical = EligibleLexical(w) /\ vector = EligibleVector(w)
  OBVIOUS
<1>4. /\ n.raw = Cardinality(raw) /\ n.checked = Cardinality(checked) /\ n.completed = Cardinality(completed)
      /\ n.lexical = Cardinality(lexical) /\ n.vector = Cardinality(vector)
  BY <1>2, <1>3 DEF CoverageCounts
<1>5. /\ IsFiniteSet(checked) /\ IsFiniteSet(raw) /\ completed \in SUBSET checked
      /\ lexical \in SUBSET raw /\ vector \in SUBSET raw /\ vector \subseteq lexical
  BY <1>3, StagesAreFinite
<1>6. IsFiniteSet(completed) /\ IsFiniteSet(lexical) /\ IsFiniteSet(vector)
  BY <1>5, FS_Subset
<1>7. /\ n.raw \in Nat /\ n.checked \in Nat /\ n.completed \in Nat /\ n.lexical \in Nat /\ n.vector \in Nat
  BY <1>4, <1>5, <1>6, FS_CardinalityType
<1>8. n.raw > 0 /\ n.checked <= n.completed /\ n.raw <= n.vector
  BY <1>2, <1>7, NoShortage
<1>9. completed = checked
  <2>1. Cardinality(completed) <= Cardinality(checked)
    BY <1>5, FS_Subset
  <2>2. Cardinality(completed) = Cardinality(checked)
    BY <2>1, <1>4, <1>7, <1>8
  <2> QED BY <1>5, <2>2, FS_Subset
<1>10. vector = raw
  <2>1. Cardinality(vector) <= Cardinality(raw)
    BY <1>5, FS_Subset
  <2>2. Cardinality(vector) = Cardinality(raw)
    BY <2>1, <1>4, <1>7, <1>8
  <2> QED BY <1>5, <2>2, FS_Subset
<1>11. raw # {}
  <2>1. SUFFICES ASSUME raw = {} PROVE FALSE
    OBVIOUS
  <2>2. Cardinality(raw) = 0
    BY <2>1, FS_EmptySet
  <2> QED BY <2>2, <1>4, <1>8
<1>12. AskedIn(w) = checked /\ Published(w) = EligibleRaw(w)
  BY <1>3 DEF EligibleSlices, AskedIn, EligibleRaw, Published
<1>14. \A p \in checked : slices[p] = "completed"
  BY <1>3, <1>9
<1>15. EligibleRaw(w) # {}
  BY <1>3, <1>11
<1>16. \A m \in EligibleRaw(w) : m[2] \in (searchable \cap embedded) \ tombstoned
  <2>1. \A i \in vector : i \in lexical /\ i \in embedded
    BY <1>3 DEF EligibleVector
  <2>2. \A i \in lexical : i \in searchable \ tombstoned
    BY <1>3 DEF EligibleLexical
  <2>3. ASSUME NEW m \in EligibleRaw(w) PROVE m[2] \in vector
    BY <1>3, <1>10
  <2> QED BY <2>1, <2>2, <2>3
<1>17. \A p \in AskedIn(w) : slices[p] = "completed"
  BY <1>12, <1>14
<1>18. Published(w) # {} /\ \A m \in Published(w) : m[2] \in (searchable \cap embedded) \ tombstoned
  BY <1>12, <1>15, <1>16
<1>19. IsWhole(w)
  BY <1>17, <1>18 DEF IsWhole
<1> QED BY <1>2, <1>19

(***************************************************************************)
(* A comparison.  What it has found covered stays covered, since what is   *)
(* collected to the end is final and a partition that is planned later was *)
(* not there when it began; and the sums only grow.                        *)
(***************************************************************************)
Figures == Nat \cup {NoValue}
Evaluations == [covered : BOOLEAN, baseline : Figures, current : Figures]
Stations == {"idle", "baseline", "current", "sumBaseline", "sumCurrent", "evaluate", "done"}
CoveredAt(n, k) ==
    /\ \E p \in MemberSlices(CohortMembers[n], Periods[k]) : slices[p] = "completed"
    /\ \A p \in MemberSlices(CohortMembers[n], Periods[k]) \cap comparison.began : slices[p] = "completed"
Within(figure, n, k) == figure \in Nat /\ figure <= RegularTotal(CohortMembers[n], Periods[k])

\* What was read of member n, when the comparison is past it and while it is there
ReadIsWhole(read, n) ==
    read.covered => /\ CoveredAt(n, 1) /\ CoveredAt(n, 2)
                    /\ Within(read.baseline, n, 1) /\ Within(read.current, n, 2)
ReadWhole(n) == ReadIsWhole(comparison.read[n], n)
ReadIsUnderWay(at, read, n) ==
    /\ at = "baseline" => ~read.covered
    /\ at = "current" => (read.covered => CoveredAt(n, 1))
    /\ at \in {"sumBaseline", "sumCurrent"} => CoveredAt(n, 1) /\ CoveredAt(n, 2)
    /\ at = "sumCurrent" => Within(read.baseline, n, 1)
    /\ at \in {"evaluate", "done"} => ReadIsWhole(read, n)
ReadSoFar(n) == ReadIsUnderWay(comparison.at, comparison.read[n], n)
Compared ==
    /\ comparison \in [at : Stations, read : Seq(Evaluations), result : Evaluations, began : SUBSET Slices]
    /\ comparison.at = "idle" => comparison = NoComparison
    /\ comparison.at # "idle" => UnderWay \in 1 .. Len(CohortMembers)
    /\ \A p \in comparison.began : slices[p] # "absent"
    /\ \A n \in 1 .. UnderWay - 1 : ReadWhole(n)
    /\ comparison.at # "idle" => ReadSoFar(UnderWay)
    /\ comparison.at = "done" => comparison.result = Evaluated
SlicesAreKnown == \A p \in Slices : slices[p] \in {"absent", "pending", "partial", "completed"}
CoverageInv ==
    /\ SlicesAreKnown /\ DOMAIN slices = Slices /\ RowsAreFinite /\ collectedSoFar \in 0 .. MaxCollected
    /\ Compared

LEMMA SumOfMore ==
    ASSUME CoverageAssumption, NEW T \in SUBSET ReportItems, NEW S \in SUBSET T
    PROVE  SumOf(S) \in Nat /\ SumOf(T) \in Nat /\ SumOf(S) <= SumOf(T)
<1>1. PICK f : f = [i \in ReportItems |-> ItemFacts[i].value]
  OBVIOUS
<1>2. \A i \in ReportItems : f[i] \in Nat
  BY <1>1 DEF CoverageAssumption, ReportItems
<1>3. IsFiniteSet(T) /\ IsFiniteSet(S)
  BY FS_Subset DEF CoverageAssumption, ReportItems
<1>4. SumOver(f, S) <= SumOver(f, T) /\ SumOver(f, S) \in Nat /\ SumOver(f, T) \in Nat
  <2>1. SumOver(f, S) <= SumOver(f, T)
    BY <1>2, <1>3, SumAtMost
  <2>2. SumOver(f, S) \in Nat /\ SumOver(f, T) \in Nat
    BY <1>2, <1>3, SumFacts
  <2> QED BY <2>1, <2>2
<1>5. SumOf(S) = SumOver(f, S) /\ SumOf(T) = SumOver(f, T)
  BY <1>1 DEF SumOf, SumOver
<1> QED BY <1>4, <1>5

\* What goes on beside a comparison
CollectionGoesOn ==
    /\ comparison' = comparison /\ DOMAIN slices' = DOMAIN slices
    /\ \A p \in Slices : /\ slices[p] # "absent" => slices'[p] # "absent"
                         /\ slices[p] = "completed" => slices'[p] = "completed"
    /\ memberships \subseteq memberships' /\ measured \subseteq measured'

LEMMA TotalsGrow ==
    ASSUME CoverageAssumption, RowsAreFinite, RowsAreFinite', CollectionGoesOn, NEW m, NEW w
    PROVE  /\ RegularTotal(m, w) \in Nat /\ RegularTotal(m, w)' \in Nat
           /\ RegularTotal(m, w) <= RegularTotal(m, w)'
<1>1. PICK S : S = {i \in ObservedIn(w) : /\ BelongsTo(i, m)
                                 /\ \E p \in Slices : <<p, i>> \in memberships /\ Regular(p)}
  OBVIOUS
<1>2. PICK T : T = {i \in ObservedIn(w)' : /\ BelongsTo(i, m)'
                                 /\ \E p \in Slices : <<p, i>> \in memberships' /\ Regular(p)}
  OBVIOUS
<1>3. S \subseteq T
  BY <1>1, <1>2 DEF ObservedIn, BelongsTo, CollectionGoesOn
<1>4. T \subseteq ReportItems
  BY <1>2 DEF ObservedIn, RowsAreFinite
<1>5. SumOf(S) \in Nat /\ SumOf(T) \in Nat /\ SumOf(S) <= SumOf(T)
  BY <1>3, <1>4, SumOfMore
<1>6. RegularTotal(m, w) = SumOf(S)
  BY <1>1 DEF RegularTotal
<1>7. RegularTotal(m, w)' = SumOf(T)
  BY <1>2 DEF RegularTotal, SumOf, ReportItems
<1> QED BY <1>5, <1>6, <1>7

LEMMA TotalIsWithin ==
    ASSUME CoverageAssumption, RowsAreFinite, NEW m, NEW w
    PROVE  Total(m, w) \in Nat /\ RegularTotal(m, w) \in Nat /\ Total(m, w) <= RegularTotal(m, w)
<1>1. PICK S, T : /\ S = {i \in ObservedIn(w) : BelongsTo(i, m) /\ ~OnDemand(i)}
                  /\ T = {i \in ObservedIn(w) : /\ BelongsTo(i, m)
                                 /\ \E p \in Slices : <<p, i>> \in memberships /\ Regular(p)}
  OBVIOUS
<1>2. ASSUME NEW i \in S PROVE i \in T
  <2>1. i \in measured /\ ~OnDemand(i)
    BY <1>1 DEF ObservedIn
  <2>2. PICK m2 \in memberships : m2[2] = i
    BY <2>1 DEF RowsAreFinite
  <2>3. m2[1] \in Slices /\ <<m2[1], i>> \in memberships
    BY <2>2 DEF RowsAreFinite
  <2>4. Regular(m2[1])
    BY <2>1, <2>3 DEF OnDemand
  <2> QED BY <1>1, <2>3, <2>4
<1>3. T \subseteq ReportItems
  BY <1>1 DEF ObservedIn, RowsAreFinite
<1>4. SumOf(S) \in Nat /\ SumOf(T) \in Nat /\ SumOf(S) <= SumOf(T)
  BY <1>2, <1>3, SumOfMore
<1> QED BY <1>1, <1>4 DEF Total, RegularTotal

LEMMA CoveredStays ==
    ASSUME CollectionGoesOn, Compared, NEW n, NEW k, CoveredAt(n, k)
    PROVE  CoveredAt(n, k)'
BY DEF CollectionGoesOn, Compared, CoveredAt, MemberSlices

LEMMA WithinStays ==
    ASSUME CoverageAssumption, RowsAreFinite, RowsAreFinite', CollectionGoesOn, NEW f, NEW n, NEW k, Within(f, n, k)
    PROVE  Within(f, n, k)'
<1>1. PICK m, w : m = CohortMembers[n] /\ w = Periods[k]
  OBVIOUS
<1>2. /\ RegularTotal(m, w) \in Nat /\ RegularTotal(m, w)' \in Nat
      /\ RegularTotal(m, w) <= RegularTotal(m, w)'
  BY TotalsGrow
<1> QED BY <1>1, <1>2 DEF Within

\* Counted is a set of places of a finite sequence.
LEMMA CountedIsFinite ==
    ASSUME Compared
    PROVE  /\ UnderWay \in Nat /\ Counted \subseteq 1 .. UnderWay /\ IsFiniteSet(Counted)
           /\ \A n \in 1 .. UnderWay : comparison.read[n] \in Evaluations
<1>1. comparison.read \in Seq(Evaluations)
  BY DEF Compared
<1>2. PICK read : read = comparison.read
  OBVIOUS
<1>3. Len(read) \in Nat /\ DOMAIN read = 1 .. Len(read) /\ \A n \in 1 .. Len(read) : read[n] \in Evaluations
  BY <1>1, <1>2
<1>4. UnderWay = Len(read) /\ Counted \subseteq 1 .. Len(read)
  BY <1>2, <1>3 DEF UnderWay, Counted
<1>5. 1 \in Int /\ Len(read) \in Int
  BY <1>3
<1>6. IsFiniteSet(1 .. Len(read))
  BY <1>5, FS_Interval
<1> QED BY <1>2, <1>3, <1>4, <1>6, FS_Subset

LEMMA ReadThrough ==
    ASSUME Compared, comparison.at = "done", NEW n \in 1 .. UnderWay
    PROVE  ReadWhole(n)
<1>1. UnderWay \in Nat
  BY CountedIsFinite
<1>2. CASE n = UnderWay
  BY <1>2 DEF Compared, ReadSoFar, ReadIsUnderWay, ReadWhole
<1>3. CASE n # UnderWay
  <2>1. n \in 1 .. UnderWay - 1
    BY <1>1, <1>3
  <2> QED BY <2>1 DEF Compared
<1> QED BY <1>2, <1>3

LEMMA SumsAreWithin ==
    ASSUME CoverageAssumption, RowsAreFinite, Compared, comparison.at = "done", NEW k \in {1, 2},
           NEW f, f = [n \in Counted |-> IF k = 1 THEN comparison.read[n].baseline ELSE comparison.read[n].current],
           NEW g, g = [n \in Counted |-> RegularTotal(CohortMembers[n], Periods[k])]
    PROVE  SumOver(f, Counted) \in Nat /\ SumOver(f, Counted) <= SumOver(g, Counted)
<1>1. ASSUME NEW n \in Counted PROVE f[n] \in Nat /\ g[n] \in Nat /\ f[n] <= g[n]
  <2>1. n \in 1 .. UnderWay /\ comparison.read[n].covered
    BY CountedIsFinite DEF Counted
  <2>2. Within(comparison.read[n].baseline, n, 1) /\ Within(comparison.read[n].current, n, 2)
    BY <2>1, ReadThrough DEF ReadWhole, ReadIsWhole
  <2>3. RegularTotal(CohortMembers[n], Periods[k]) \in Nat
    BY TotalIsWithin
  <2> QED BY <2>2, <2>3 DEF Within
<1>2. IsFiniteSet(Counted)
  BY CountedIsFinite
<1>3. SumOver(f, Counted) <= SumOver(g, Counted)
  BY <1>1, <1>2, SumAtMost
<1>4. SumOver(f, Counted) \in Nat
  BY <1>1, <1>2, SumFacts
<1> QED BY <1>3, <1>4

LEMMA HonestFromInv == ASSUME CoverageAssumption, CoverageInv PROVE ComparisonIsHonest
<1>0. RowsAreFinite /\ Compared
  BY DEF CoverageInv
<1>1. SUFFICES ASSUME comparison.at = "done" PROVE ComparisonIsHonest
  BY DEF ComparisonIsHonest
<1>2. PICK f1, f2, g1, g2 :
        /\ f1 = [n \in Counted |-> comparison.read[n].baseline]
        /\ f2 = [n \in Counted |-> comparison.read[n].current]
        /\ g1 = [n \in Counted |-> RegularTotal(CohortMembers[n], Periods[1])]
        /\ g2 = [n \in Counted |-> RegularTotal(CohortMembers[n], Periods[2])]
  OBVIOUS
<1>3. f1 = [n \in Counted |-> IF 1 = 1 THEN comparison.read[n].baseline ELSE comparison.read[n].current]
      /\ f2 = [n \in Counted |-> IF 2 = 1 THEN comparison.read[n].baseline ELSE comparison.read[n].current]
  BY <1>2
<1>4. SumOver(f1, Counted) \in Nat /\ SumOver(f1, Counted) <= SumOver(g1, Counted)
  BY <1>0, <1>1, <1>2, <1>3, SumsAreWithin
<1>5. SumOver(f2, Counted) \in Nat /\ SumOver(f2, Counted) <= SumOver(g2, Counted)
  BY <1>0, <1>1, <1>2, <1>3, SumsAreWithin
<1>6. PICK result : result = comparison.result
  OBVIOUS
<1>7. /\ result.covered = (Counted # {})
      /\ result.baseline = IF Counted = {} THEN NoValue ELSE SumOver(f1, Counted)
      /\ result.current = IF Counted = {} THEN NoValue ELSE SumOver(f2, Counted)
  BY <1>0, <1>1, <1>2, <1>6 DEF Compared, Evaluated, SumOver
<1>8. NoValue \notin Nat
  BY DEF CoverageAssumption
<1>9. result.covered <=> result.baseline # NoValue
  BY <1>4, <1>7, <1>8
<1>10. result.covered <=> result.current # NoValue
  BY <1>5, <1>7, <1>8
<1>11. ASSUME NEW n \in Counted, NEW k \in DOMAIN Periods
       PROVE  CoveredAt(n, k)
  <2>1. n \in 1 .. UnderWay /\ comparison.read[n].covered
    BY <1>0, CountedIsFinite DEF Counted
  <2>2. CoveredAt(n, 1) /\ CoveredAt(n, 2)
    BY <1>0, <1>1, <2>1, ReadThrough DEF ReadWhole, ReadIsWhole
  <2> QED BY <2>2 DEF CoverageAssumption
<1>12. result.covered => result.baseline <= SumOver(g1, Counted) /\ result.current <= SumOver(g2, Counted)
  BY <1>4, <1>5, <1>7
<1>13. /\ SumOver(g1, Counted) = SumFunctionOnSet([n \in Counted |-> RegularTotal(CohortMembers[n], Periods[1])], Counted)
       /\ SumOver(g2, Counted) = SumFunctionOnSet([n \in Counted |-> RegularTotal(CohortMembers[n], Periods[2])], Counted)
  BY <1>2 DEF SumOver
<1> QED BY <1>6, <1>9, <1>10, <1>11, <1>12, <1>13 DEF ComparisonIsHonest, CoveredAt

LEMMA HonestReports == ASSUME CoverageAssumption, CoverageInv PROVE ReportsAreHonest
BY HonestFromInv, NoReasonFromRows DEF ReportsAreHonest, CoverageInv

LEMMA NothingReadFits == NothingRead \in Evaluations /\ ~NothingRead.covered
BY DEF NothingRead, Evaluations, Figures

LEMMA ReadStays ==
    ASSUME CoverageAssumption, CoverageInv, RowsAreFinite', CollectionGoesOn, NEW read, NEW n
    PROVE  /\ ReadIsWhole(read, n) => ReadIsWhole(read, n)'
           /\ \A at : ReadIsUnderWay(at, read, n) => ReadIsUnderWay(at, read, n)'
<1>1. \A k : CoveredAt(n, k) => CoveredAt(n, k)'
  BY CoveredStays DEF CoverageInv
<1>2. \A k, f : Within(f, n, k) => Within(f, n, k)'
  BY WithinStays DEF CoverageInv
<1>3. ReadIsWhole(read, n) => ReadIsWhole(read, n)'
  BY <1>1, <1>2 DEF ReadIsWhole
<1> QED BY <1>1, <1>2, <1>3 DEF ReadIsUnderWay

LEMMA CollectionStep ==
    ASSUME CoverageAssumption, CoverageInv, CollectionGoesOn, SlicesAreKnown', RowsAreFinite',
           collectedSoFar' \in 0 .. MaxCollected
    PROVE  CoverageInv'
<1>1. Compared
  BY DEF CoverageInv
<1>2. comparison' = comparison /\ UnderWay' = UnderWay
  BY DEF CollectionGoesOn, UnderWay
<1>3. \A n \in 1 .. UnderWay' - 1 : ReadWhole(n)'
  <2>1. ASSUME NEW n \in 1 .. UnderWay - 1 PROVE ReadWhole(n)'
    <3>1. PICK read : read = comparison.read[n]
      OBVIOUS
    <3>2. ReadIsWhole(read, n)'
      BY <1>1, <3>1, ReadStays DEF Compared, ReadWhole
    <3> QED BY <1>2, <3>1, <3>2 DEF ReadWhole
  <2> QED BY <1>2, <2>1
<1>4. comparison'.at # "idle" => ReadSoFar(UnderWay)'
  <2>1. PICK n, at, read : n = UnderWay /\ at = comparison.at /\ read = comparison.read[n]
    OBVIOUS
  <2>2. at # "idle" => ReadIsUnderWay(at, read, n)'
    BY <1>1, <2>1, ReadStays DEF Compared, ReadSoFar
  <2>3. UnderWay' = n /\ comparison'.at = at /\ comparison'.read[n] = read
    BY <1>2, <2>1
  <2> QED BY <2>2, <2>3 DEF ReadSoFar
<1>5. comparison'.at = "done" => comparison'.result = Evaluated'
  BY <1>1, <1>2 DEF Compared, Evaluated, Counted
<1>6. \A p \in comparison'.began : slices'[p] # "absent"
  BY <1>1, <1>2 DEF Compared, CollectionGoesOn
<1>7. Compared'
  BY <1>1, <1>2, <1>3, <1>4, <1>5, <1>6 DEF Compared
<1> QED BY <1>7 DEF CoverageInv, CollectionGoesOn

-----------------------------------------------------------------------------
(* A comparison moves, and the collection does not.                        *)

Still == ComparisonOnly /\ comparison'.began = comparison.began

LEMMA StillCovered ==
    ASSUME Still, NEW n, NEW k
    PROVE  /\ CoveredAt(n, k)' <=> CoveredAt(n, k)
           /\ \A f : Within(f, n, k)' <=> Within(f, n, k)
<1>1. UNCHANGED <<slices, memberships, measured>>
  BY DEF Still, ComparisonOnly, documentVars
<1>2. CoveredAt(n, k)' <=> CoveredAt(n, k)
  BY <1>1 DEF Still, CoveredAt, MemberSlices
<1>3. RegularTotal(CohortMembers[n], Periods[k])' = RegularTotal(CohortMembers[n], Periods[k])
  BY <1>1 DEF RegularTotal, ObservedIn, BelongsTo, SumOf, ReportItems
<1> QED BY <1>2, <1>3 DEF Within

LEMMA StillWhole ==
    ASSUME Still, NEW read, NEW n
    PROVE  /\ ReadIsWhole(read, n)' <=> ReadIsWhole(read, n)
           /\ \A at : ReadIsUnderWay(at, read, n)' <=> ReadIsUnderWay(at, read, n)
<1>1. \A k : CoveredAt(n, k)' <=> CoveredAt(n, k)
  BY StillCovered
<1>2. \A k, f : Within(f, n, k)' <=> Within(f, n, k)
  BY StillCovered
<1> QED BY <1>1, <1>2 DEF ReadIsWhole, ReadIsUnderWay

\* The read of the member under way is replaced.
LEMMA ReadsFit ==
    ASSUME CoverageInv, NEW at \in Stations \ {"idle", "done"}, comparison.at # "idle",
           NEW read \in Evaluations, Reads(at, read), ComparisonOnly,
           ReadIsUnderWay(at, read, UnderWay)
    PROVE  CoverageInv'
<1>1. PICK u, list : u = UnderWay /\ list = comparison.read
  OBVIOUS
<1>2. list \in Seq(Evaluations) /\ u = Len(list) /\ u \in 1 .. Len(CohortMembers)
  BY <1>1 DEF CoverageInv, Compared, UnderWay
<1>3. PICK next : next = [list EXCEPT ![u] = read]
  OBVIOUS
<1>4. next \in Seq(Evaluations) /\ Len(next) = u /\ next[u] = read /\ u \in Nat
      /\ \A n \in 1 .. u - 1 : next[n] = list[n]
  BY <1>2, <1>3
<1>5. comparison' = [comparison EXCEPT !.at = at, !.read = next]
  BY <1>1, <1>3 DEF Reads, CoverageInv, Compared
<1>6. /\ comparison' \in [at : Stations, read : Seq(Evaluations), result : Evaluations, began : SUBSET Slices]
      /\ comparison'.at = at /\ comparison'.read = next /\ comparison'.began = comparison.began
  BY <1>4, <1>5 DEF CoverageInv, Compared
<1>7. UnderWay' = u
  BY <1>4, <1>6 DEF UnderWay
<1>8. Still
  BY <1>6 DEF Still
<1>9. \A n \in 1 .. u - 1 : ReadWhole(n)'
  <2>1. ASSUME NEW n \in 1 .. u - 1 PROVE ReadWhole(n)'
    <3>1. PICK one : one = list[n]
      OBVIOUS
    <3>2. ReadIsWhole(one, n)
      BY <1>1, <3>1, <2>1 DEF CoverageInv, Compared, ReadWhole
    <3>3. ReadIsWhole(one, n)'
      BY <1>8, <3>2, StillWhole
    <3>4. comparison'.read[n] = one
      BY <1>4, <1>6, <3>1
    <3> QED BY <3>3, <3>4 DEF ReadWhole
  <2> QED BY <2>1
<1>10. ReadSoFar(u)'
  <2>1. ReadIsUnderWay(at, read, u)'
    BY <1>1, <1>8, StillWhole
  <2> QED BY <2>1, <1>4, <1>6 DEF ReadSoFar
<1>11. ReadSoFar(UnderWay)' /\ \A n \in 1 .. UnderWay' - 1 : ReadWhole(n)'
  BY <1>7, <1>9, <1>10
<1>12. Compared'
  <2>1. \A p \in comparison'.began : slices'[p] # "absent"
    BY <1>6 DEF CoverageInv, Compared, ComparisonOnly
  <2>2. comparison'.at # "idle" /\ comparison'.at # "done" /\ UnderWay' \in 1 .. Len(CohortMembers)
    BY <1>2, <1>6, <1>7
  <2> QED BY <1>6, <1>11, <2>1, <2>2 DEF Compared
<1> QED BY <1>12 DEF CoverageInv, SlicesAreKnown, RowsAreFinite, ComparisonOnly, documentVars

\* The next member, or the end of the list.
LEMMA ProceedFits ==
    ASSUME CoverageInv, CoverageAssumption, comparison.at # "idle",
           NEW read \in Evaluations, Proceed(read), ComparisonOnly, ReadIsWhole(read, UnderWay)
    PROVE  CoverageInv'
<1>1. CASE ~(UnderWay < Len(CohortMembers))
  <2>1. Reads("evaluate", read)
    BY <1>1 DEF Proceed, Reads
  <2>2. ReadIsUnderWay("evaluate", read, UnderWay)
    BY DEF ReadIsUnderWay
  <2> QED BY <2>1, <2>2, ReadsFit DEF Stations
<1>2. CASE UnderWay < Len(CohortMembers)
  <2>1. PICK u, list : u = UnderWay /\ list = comparison.read
    OBVIOUS
  <2>2. list \in Seq(Evaluations) /\ u = Len(list) /\ u \in 1 .. Len(CohortMembers)
    BY <2>1 DEF CoverageInv, Compared, UnderWay
  <2>3. PICK middle : middle = [list EXCEPT ![u] = read]
    OBVIOUS
  <2>4. middle \in Seq(Evaluations) /\ Len(middle) = u /\ middle[u] = read /\ u \in Nat
        /\ \A n \in 1 .. u - 1 : middle[n] = list[n]
    BY <2>2, <2>3
  <2>5. PICK next : next = Append(middle, NothingRead)
    OBVIOUS
  <2>6. /\ next \in Seq(Evaluations) /\ Len(next) = u + 1 /\ next[u + 1] = NothingRead /\ next[u] = read
        /\ \A n \in 1 .. u - 1 : next[n] = list[n]
    BY <2>2, <2>4, <2>5, NothingReadFits
  <2>7. comparison' = [comparison EXCEPT !.at = "baseline", !.read = next]
    BY <1>2, <2>1, <2>3, <2>5 DEF Proceed, CoverageInv, Compared
  <2>8. /\ comparison' \in [at : Stations, read : Seq(Evaluations), result : Evaluations, began : SUBSET Slices]
        /\ comparison'.at = "baseline" /\ comparison'.read = next /\ comparison'.began = comparison.began
    BY <2>6, <2>7 DEF CoverageInv, Compared, Stations
  <2>9. UnderWay' = u + 1 /\ Still
    BY <2>6, <2>8 DEF UnderWay, Still
  <2>10. \A n \in 1 .. u : ReadWhole(n)'
    <3>1. ASSUME NEW n \in 1 .. u PROVE ReadWhole(n)'
      <4>1. PICK one : one = next[n]
        OBVIOUS
      <4>2. ReadIsWhole(one, n)
        <5>1. CASE n = u
          BY <5>1, <4>1, <2>1, <2>6
        <5>2. CASE n # u
          <6>1. n \in 1 .. u - 1
            BY <5>2, <2>4
          <6> QED BY <6>1, <4>1, <2>1, <2>6 DEF CoverageInv, Compared, ReadWhole
        <5> QED BY <5>1, <5>2
      <4>3. ReadIsWhole(one, n)'
        BY <2>9, <4>2, StillWhole
      <4> QED BY <4>1, <4>3, <2>8 DEF ReadWhole
    <3> QED BY <3>1
  <2>11. ReadSoFar(u + 1)'
    <3>1. PICK v : v = u + 1
      OBVIOUS
    <3>2. comparison'.at = "baseline" /\ ~comparison'.read[v].covered
      BY <3>1, <2>6, <2>8, NothingReadFits
    <3>3. ReadSoFar(v)'
      BY <3>2 DEF ReadSoFar, ReadIsUnderWay
    <3> QED BY <3>1, <3>3
  <2>12. ReadSoFar(UnderWay)' /\ (\A n \in 1 .. UnderWay' - 1 : ReadWhole(n)') /\ UnderWay' \in 1 .. Len(CohortMembers)
    <3>1. UnderWay' - 1 = u /\ UnderWay' \in 1 .. Len(CohortMembers)
      BY <1>2, <2>1, <2>2, <2>4, <2>9 DEF CoverageAssumption
    <3>2. PICK v : v = u + 1
      OBVIOUS
    <3>3. UnderWay' = v /\ ReadSoFar(v)'
      BY <2>9, <2>11, <3>2
    <3> QED BY <2>10, <3>1, <3>3
  <2>13. Compared'
    <3>1. \A p \in comparison'.began : slices'[p] # "absent"
      BY <2>8 DEF CoverageInv, Compared, ComparisonOnly
    <3> QED BY <2>8, <2>12, <3>1 DEF Compared
  <2> QED BY <2>13 DEF CoverageInv, SlicesAreKnown, RowsAreFinite, ComparisonOnly, documentVars
<1> QED BY <1>1, <1>2

\* Where a comparison stands, and what it has of its member
LEMMA StandsAt ==
    ASSUME CoverageInv, comparison.at # "idle"
    PROVE  /\ UnderWay \in 1 .. Len(CohortMembers) /\ comparison.read[UnderWay] \in Evaluations
           /\ ReadIsUnderWay(comparison.at, comparison.read[UnderWay], UnderWay)
<1>1. UnderWay \in 1 .. Len(CohortMembers) /\ comparison.read \in Seq(Evaluations)
  BY DEF CoverageInv, Compared
<1>2. PICK list : list = comparison.read
  OBVIOUS
<1>3. list[Len(list)] \in Evaluations
  BY <1>1, <1>2 DEF UnderWay
<1> QED BY <1>1, <1>2, <1>3 DEF CoverageInv, Compared, ReadSoFar, UnderWay

LEMMA WholeIsCovered ==
    ASSUME CoverageInv, NEW n \in 1 .. Len(CohortMembers), NEW k, CoveredWhole(CohortMembers[n], Periods[k])
    PROVE  CoveredAt(n, k)
BY DEF CoveredWhole, CoveredAt

LEMMA ReadBaselineStep == ASSUME CoverageInv, ReadBaselineSlices PROVE CoverageInv'
<1>1. comparison.at = "baseline"
  BY DEF ReadBaselineSlices
<1>2. PICK read : read = [NothingRead EXCEPT !.covered = CoveredWhole(Member, Periods[1])]
  OBVIOUS
<1>3. read \in Evaluations /\ read.covered = CoveredWhole(Member, Periods[1])
  BY <1>2 DEF NothingRead, Evaluations, Figures, CoveredWhole
<1>4. ReadIsUnderWay("current", read, UnderWay)
  BY <1>1, <1>3, StandsAt, WholeIsCovered DEF ReadIsUnderWay, Member
<1>5. Reads("current", read) /\ ComparisonOnly
  BY <1>2 DEF ReadBaselineSlices
<1> QED BY <1>1, <1>3, <1>4, <1>5, ReadsFit DEF Stations

LEMMA ReadCurrentStep == ASSUME CoverageInv, CoverageAssumption, ReadCurrentSlices PROVE CoverageInv'
<1>1. comparison.at = "current" /\ ComparisonOnly
  BY DEF ReadCurrentSlices
<1>2. CASE comparison.read[UnderWay].covered /\ CoveredWhole(Member, Periods[2])
  <2>1. PICK read : read = [NothingRead EXCEPT !.covered = TRUE]
    OBVIOUS
  <2>2. read \in Evaluations
    BY <2>1 DEF NothingRead, Evaluations, Figures
  <2>3. CoveredAt(UnderWay, 1) /\ CoveredAt(UnderWay, 2)
    BY <1>1, <1>2, StandsAt, WholeIsCovered DEF ReadIsUnderWay, Member
  <2>4. ReadIsUnderWay("sumBaseline", read, UnderWay)
    BY <2>3 DEF ReadIsUnderWay
  <2>5. Reads("sumBaseline", read)
    BY <1>2, <2>1 DEF ReadCurrentSlices
  <2> QED BY <1>1, <2>2, <2>4, <2>5, ReadsFit DEF Stations
<1>3. CASE ~(comparison.read[UnderWay].covered /\ CoveredWhole(Member, Periods[2]))
  <2>1. Proceed(NothingRead)
    BY <1>3 DEF ReadCurrentSlices
  <2>2. ReadIsWhole(NothingRead, UnderWay)
    BY NothingReadFits DEF ReadIsWhole
  <2> QED BY <1>1, <2>1, <2>2, NothingReadFits, ProceedFits
<1> QED BY <1>2, <1>3

LEMMA SumBaselineStep == ASSUME CoverageInv, CoverageAssumption, SumBaseline PROVE CoverageInv'
<1>1. comparison.at = "sumBaseline" /\ ComparisonOnly
  BY DEF SumBaseline
<1>2. PICK old, sum : old = comparison.read[UnderWay] /\ sum = Total(Member, Periods[1])
  OBVIOUS
<1>3. old \in Evaluations /\ CoveredAt(UnderWay, 1) /\ CoveredAt(UnderWay, 2)
  BY <1>1, <1>2, StandsAt DEF ReadIsUnderWay
<1>4. sum \in Nat /\ Within(sum, UnderWay, 1)
  BY <1>2, TotalIsWithin DEF CoverageInv, Within, Member
<1>5. PICK read : read = [old EXCEPT !.baseline = sum]
  OBVIOUS
<1>6. read \in Evaluations /\ read.baseline = sum
  BY <1>3, <1>4, <1>5 DEF Evaluations, Figures
<1>7. ReadIsUnderWay("sumCurrent", read, UnderWay)
  BY <1>3, <1>4, <1>6 DEF ReadIsUnderWay
<1>8. Reads("sumCurrent", read)
  BY <1>2, <1>5 DEF SumBaseline
<1> QED BY <1>1, <1>6, <1>7, <1>8, ReadsFit DEF Stations

LEMMA SumCurrentStep == ASSUME CoverageInv, CoverageAssumption, SumCurrent PROVE CoverageInv'
<1>1. comparison.at = "sumCurrent" /\ ComparisonOnly
  BY DEF SumCurrent
<1>2. PICK old, sum : old = comparison.read[UnderWay] /\ sum = Total(Member, Periods[2])
  OBVIOUS
<1>3. old \in Evaluations /\ CoveredAt(UnderWay, 1) /\ CoveredAt(UnderWay, 2) /\ Within(old.baseline, UnderWay, 1)
  BY <1>1, <1>2, StandsAt DEF ReadIsUnderWay
<1>4. sum \in Nat /\ Within(sum, UnderWay, 2)
  BY <1>2, TotalIsWithin DEF CoverageInv, Within, Member
<1>5. PICK read : read = [old EXCEPT !.current = sum]
  OBVIOUS
<1>6. read \in Evaluations /\ read.current = sum /\ read.baseline = old.baseline
  BY <1>3, <1>4, <1>5 DEF Evaluations, Figures
<1>7. ReadIsWhole(read, UnderWay)
  BY <1>3, <1>4, <1>6 DEF ReadIsWhole
<1>8. Proceed(read)
  BY <1>2, <1>5 DEF SumCurrent
<1> QED BY <1>1, <1>6, <1>7, <1>8, ProceedFits

LEMMA CompareStep == ASSUME CoverageInv, CoverageAssumption, CompareWindows PROVE CoverageInv'
<1>1. PICK began, list : began = {p \in Slices : slices[p] # "absent"} /\ list = <<NothingRead>>
  OBVIOUS
<1>2. /\ list \in Seq(Evaluations) /\ Len(list) = 1 /\ list[1] = NothingRead /\ began \subseteq Slices
  BY <1>1, NothingReadFits
<1>3. comparison' = [comparison EXCEPT !.at = "baseline", !.read = list, !.began = began]
      /\ ComparisonOnly
  BY <1>1 DEF CompareWindows
<1>4. /\ comparison' \in [at : Stations, read : Seq(Evaluations), result : Evaluations, began : SUBSET Slices]
      /\ comparison'.at = "baseline" /\ comparison'.read = list /\ comparison'.began = began
  BY <1>2, <1>3 DEF CoverageInv, Compared, Stations
<1>5. UnderWay' = 1
  BY <1>2, <1>4 DEF UnderWay
<1>6. ReadSoFar(1)'
  BY <1>2, <1>4, NothingReadFits DEF ReadSoFar, ReadIsUnderWay
<1>7. ReadSoFar(UnderWay)' /\ UnderWay' \in 1 .. Len(CohortMembers) /\ \A n \in 1 .. UnderWay' - 1 : ReadWhole(n)'
  <2>1. 1 \in 1 .. Len(CohortMembers) /\ 1 .. 1 - 1 = {}
    BY DEF CoverageAssumption
  <2> QED BY <2>1, <1>5, <1>6
<1>8. \A p \in comparison'.began : slices'[p] # "absent"
  BY <1>1, <1>3, <1>4 DEF ComparisonOnly
<1>9. Compared'
  BY <1>4, <1>7, <1>8 DEF Compared
<1> QED BY <1>3, <1>9 DEF CoverageInv, SlicesAreKnown, RowsAreFinite, ComparisonOnly, documentVars

LEMMA EvaluateStep == ASSUME CoverageInv, CoverageAssumption, EvaluateComparison PROVE CoverageInv'
<1>1. comparison.at = "evaluate" /\ comparison' = [comparison EXCEPT !.at = "done", !.result = Evaluated]
      /\ ComparisonOnly
  BY DEF EvaluateComparison
<1>2. PICK result : result = Evaluated
  OBVIOUS
<1>3. \A n \in Counted : comparison.read[n].baseline \in Nat /\ comparison.read[n].current \in Nat
  <2>1. ASSUME NEW n \in Counted PROVE comparison.read[n].baseline \in Nat /\ comparison.read[n].current \in Nat
    <3>1. n \in 1 .. UnderWay /\ comparison.read[n].covered /\ UnderWay \in Nat
      BY CountedIsFinite DEF Counted, CoverageInv
    <3>2. ReadIsWhole(comparison.read[n], n)
      <4>1. CASE n = UnderWay
        BY <4>1, <1>1, StandsAt DEF ReadIsUnderWay
      <4>2. CASE n # UnderWay
        <5>1. n \in 1 .. UnderWay - 1
          BY <3>1, <4>2
        <5> QED BY <5>1 DEF CoverageInv, Compared, ReadWhole
      <4> QED BY <4>1, <4>2
    <3> QED BY <3>1, <3>2 DEF ReadIsWhole, Within
  <2> QED BY <2>1
<1>4. result \in Evaluations
  <2>1. PICK f, g : f = [n \in Counted |-> comparison.read[n].baseline] /\ g = [n \in Counted |-> comparison.read[n].current]
    OBVIOUS
  <2>2. SumOver(f, Counted) \in Nat /\ SumOver(g, Counted) \in Nat
    <3>1. IsFiniteSet(Counted) /\ \A n \in Counted : f[n] \in Nat /\ g[n] \in Nat
      BY <1>3, <2>1, CountedIsFinite DEF CoverageInv
    <3> QED BY <3>1, SumFacts
  <2>3. result = [covered |-> Counted # {}, baseline |-> IF Counted = {} THEN NoValue ELSE SumOver(f, Counted),
                  current |-> IF Counted = {} THEN NoValue ELSE SumOver(g, Counted)]
    BY <1>2, <2>1 DEF Evaluated, SumOver
  <2> QED BY <2>2, <2>3 DEF Evaluations, Figures
<1>5. /\ comparison' \in [at : Stations, read : Seq(Evaluations), result : Evaluations, began : SUBSET Slices]
      /\ comparison'.at = "done" /\ comparison'.read = comparison.read /\ comparison'.began = comparison.began
      /\ comparison'.result = result
  BY <1>1, <1>2, <1>4 DEF CoverageInv, Compared, Stations
<1>6. Still /\ UnderWay' = UnderWay /\ Evaluated' = result
  BY <1>1, <1>2, <1>5 DEF Still, UnderWay, Evaluated, Counted
<1>7. \A n \in 1 .. UnderWay' - 1 : ReadWhole(n)'
  <2>1. ASSUME NEW n \in 1 .. UnderWay - 1 PROVE ReadWhole(n)'
    <3>1. PICK one : one = comparison.read[n]
      OBVIOUS
    <3>2. ReadIsWhole(one, n)
      BY <3>1 DEF CoverageInv, Compared, ReadWhole
    <3> QED BY <3>1, <3>2, <1>5, <1>6, StillWhole DEF ReadWhole
  <2> QED BY <1>6, <2>1
<1>8. ReadSoFar(UnderWay)'
  <2>1. PICK u, one : u = UnderWay /\ one = comparison.read[u]
    OBVIOUS
  <2>2. ReadIsWhole(one, u)
    BY <1>1, <2>1, StandsAt DEF ReadIsUnderWay
  <2>3. ReadIsWhole(one, u)'
    BY <1>6, <2>2, StillWhole
  <2>4. UnderWay' = u /\ comparison'.read[u] = one /\ comparison'.at = "done"
    BY <1>5, <1>6, <2>1
  <2> QED BY <2>3, <2>4 DEF ReadSoFar, ReadIsUnderWay
<1>9. Compared'
  <2>1. \A p \in comparison'.began : slices'[p] # "absent"
    BY <1>1, <1>5 DEF CoverageInv, Compared, ComparisonOnly
  <2>2. UnderWay' \in 1 .. Len(CohortMembers)
    BY <1>1, <1>6, StandsAt
  <2> QED BY <1>5, <1>6, <1>7, <1>8, <2>1, <2>2 DEF Compared
<1> QED BY <1>1, <1>9 DEF CoverageInv, SlicesAreKnown, RowsAreFinite, ComparisonOnly, documentVars

-----------------------------------------------------------------------------
(* The collection moves.                                                   *)

LEMMA MovesCount ==
    ASSUME CoverageAssumption, CoverageInv, CollectionMoves
    PROVE  collectedSoFar' \in 0 .. MaxCollected
BY DEF CollectionMoves, CoverageInv, CoverageAssumption

\* A partition goes from one state to another, not away from its end.
LEMMA SliceMoves ==
    ASSUME CoverageInv, NEW p \in Slices, slices[p] # "completed",
           NEW state \in {"pending", "partial", "completed"}, slices' = [slices EXCEPT ![p] = state]
    PROVE  /\ DOMAIN slices' = DOMAIN slices /\ SlicesAreKnown'
           /\ \A q \in Slices : /\ slices[q] # "absent" => slices'[q] # "absent"
                                /\ slices[q] = "completed" => slices'[q] = "completed"
<1>1. \A q \in Slices : slices'[q] = IF q = p THEN state ELSE slices[q]
  BY DEF CoverageInv
<1> QED BY <1>1 DEF CoverageInv, SlicesAreKnown

LEMMA PlanStep ==
    ASSUME CoverageAssumption, CoverageInv, NEW p \in Slices, PlanReportedSlice(p)
    PROVE  CoverageInv'
<1>1. /\ collectedSoFar' \in 0 .. MaxCollected /\ comparison' = comparison
      /\ UNCHANGED <<memberships, measured, searchable>>
  BY MovesCount DEF PlanReportedSlice, documentVars
<1>2. /\ DOMAIN slices' = DOMAIN slices /\ SlicesAreKnown'
      /\ \A q \in Slices : /\ slices[q] # "absent" => slices'[q] # "absent"
                           /\ slices[q] = "completed" => slices'[q] = "completed"
  BY SliceMoves DEF PlanReportedSlice
<1>3. RowsAreFinite'
  BY <1>1 DEF CoverageInv, RowsAreFinite
<1> QED BY <1>1, <1>2, <1>3, CollectionStep DEF CollectionGoesOn

LEMMA CommitStep ==
    ASSUME CoverageAssumption, CoverageInv, NEW p \in Slices, NEW items \in SUBSET SliceOf[p].items,
           NEW state \in {"pending", "partial", "completed"}, CommitSlicePage(p, items, state)
    PROVE  CoverageInv'
<1>1. /\ collectedSoFar' \in 0 .. MaxCollected /\ comparison' = comparison
      /\ memberships' = memberships \cup ({p} \X items) /\ UNCHANGED <<measured, searchable>>
  BY MovesCount DEF CommitSlicePage, documentVars
<1>2. /\ DOMAIN slices' = DOMAIN slices /\ SlicesAreKnown'
      /\ \A q \in Slices : /\ slices[q] # "absent" => slices'[q] # "absent"
                           /\ slices[q] = "completed" => slices'[q] = "completed"
  BY SliceMoves DEF CommitSlicePage
<1>3. items \subseteq ReportItems
  BY DEF CoverageAssumption, Slices, ReportItems
<1>4. RowsAreFinite'
  BY <1>1, <1>3 DEF CoverageInv, RowsAreFinite
<1> QED BY <1>1, <1>2, <1>4, CollectionStep DEF CollectionGoesOn

\* The documents and the targets change, and the partitions do not.
LEMMA DocumentsMove ==
    ASSUME CoverageAssumption, CoverageInv, CollectionMoves, UNCHANGED <<slices, memberships, comparison>>,
           measured \subseteq measured', measured' \subseteq measured \cup searchable,
           searchable' \subseteq searchable \cup Known
    PROVE  CoverageInv'
<1>1. collectedSoFar' \in 0 .. MaxCollected
  BY MovesCount
<1>2. RowsAreFinite'
  BY DEF CoverageInv, RowsAreFinite, Known
<1>3. CollectionGoesOn /\ SlicesAreKnown'
  BY DEF CollectionGoesOn, CoverageInv, SlicesAreKnown
<1> QED BY <1>1, <1>2, <1>3, CollectionStep

LEMMA ItemStep ==
    ASSUME CoverageAssumption, CoverageInv, NEW i \in ReportItems,
           PublishItem(i) \/ EmbedItem(i) \/ UpsertObservation(i) \/ TombstoneItem(i)
    PROVE  CoverageInv'
<1>1. CASE PublishItem(i)
  BY <1>1, DocumentsMove DEF PublishItem
<1>2. CASE EmbedItem(i)
  BY <1>2, DocumentsMove DEF EmbedItem
<1>3. CASE UpsertObservation(i)
  BY <1>3, DocumentsMove DEF UpsertObservation
<1>4. CASE TombstoneItem(i)
  BY <1>4, DocumentsMove DEF TombstoneItem
<1> QED BY <1>1, <1>2, <1>3, <1>4

LEMMA TargetStep ==
    ASSUME CoverageAssumption, CoverageInv, NEW t, DisableTarget(t)
    PROVE  CoverageInv'
BY DocumentsMove DEF DisableTarget, documentVars

LEMMA CoverageInitInv == CoverageAssumption /\ CoverageInit => CoverageInv
<1> SUFFICES ASSUME CoverageAssumption, CoverageInit PROVE CoverageInv
  OBVIOUS
<1>1. SlicesAreKnown /\ DOMAIN slices = Slices /\ collectedSoFar \in 0 .. MaxCollected
  BY DEF CoverageInit, SlicesAreKnown, CoverageAssumption
<1>2. RowsAreFinite
  BY DEF CoverageInit, RowsAreFinite
<1>3. comparison = NoComparison
  BY DEF CoverageInit
<1>4. /\ comparison \in [at : Stations, read : Seq(Evaluations), result : Evaluations, began : SUBSET Slices]
      /\ comparison.at = "idle" /\ comparison.read = <<>> /\ comparison.began = {}
  BY <1>3, NothingReadFits DEF NoComparison, Stations
<1>5. UnderWay = 0
  BY <1>4 DEF UnderWay
<1>6. Compared
  BY <1>3, <1>4, <1>5 DEF Compared
<1> QED BY <1>1, <1>2, <1>6 DEF CoverageInv

LEMMA CoverageStep == CoverageAssumption /\ CoverageInv /\ [CoverageNext]_coverageVars => CoverageInv'
<1> SUFFICES ASSUME CoverageAssumption, CoverageInv, [CoverageNext]_coverageVars PROVE CoverageInv'
  OBVIOUS
<1>1. CASE UNCHANGED coverageVars
  <2>1. CollectionGoesOn /\ SlicesAreKnown' /\ RowsAreFinite' /\ collectedSoFar' \in 0 .. MaxCollected
    BY <1>1 DEF coverageVars, CoverageInv, CollectionGoesOn, SlicesAreKnown, RowsAreFinite
  <2> QED BY <2>1, CollectionStep
<1>2. CASE CompareNext
  BY <1>2, CompareStep, ReadBaselineStep, ReadCurrentStep, SumBaselineStep, SumCurrentStep, EvaluateStep DEF CompareNext
<1>3. CASE \E p \in Slices :
           \/ PlanReportedSlice(p)
           \/ \E items \in SUBSET SliceOf[p].items, state \in {"pending", "partial", "completed"} :
                  CommitSlicePage(p, items, state)
  BY <1>3, PlanStep, CommitStep
<1>4. CASE \E i \in ReportItems : PublishItem(i) \/ EmbedItem(i) \/ UpsertObservation(i) \/ TombstoneItem(i)
  BY <1>4, ItemStep
<1>5. CASE \E t \in CohortTargets : DisableTarget(t)
  BY <1>5, TargetStep
<1> QED BY <1>1, <1>2, <1>3, <1>4, <1>5 DEF CoverageNext

-----------------------------------------------------------------------------
(***************************************************************************)
(* Topics.  A part of a text between two boundaries shows the same pieces  *)
(* at shifted places, and before and after it a space.                     *)
(***************************************************************************)
Shows(part, text, offset) ==
    /\ \A m \in DOMAIN part : m + offset \in DOMAIN text /\ NameAt(part, m) = NameAt(text, m + offset)
    /\ \A m \in 0 .. Len(part) + 1 : KindAt(part, m) = KindAt(text, m + offset)

LEMMA PartsShow ==
    ASSUME NEW text \in Seq(TopicPieces), NEW n \in DOMAIN text, KindAt(text, n) = "space"
    PROVE  /\ Shows(SubSeq(text, 1, n - 1), text, 0) /\ SubSeq(text, 1, n - 1) \in Seq(TopicPieces)
           /\ Shows(SubSeq(text, n + 1, Len(text)), text, n) /\ SubSeq(text, n + 1, Len(text)) \in Seq(TopicPieces)
<1>1. PICK l : l = Len(text) /\ l \in Nat /\ DOMAIN text = 1 .. l /\ n \in 1 .. l /\ \A m \in 1 .. l : text[m] \in TopicPieces
  OBVIOUS
<1>2. PICK a, b : a = SubSeq(text, 1, n - 1) /\ b = SubSeq(text, n + 1, l)
  OBVIOUS
<1>3. a \in Seq(TopicPieces) /\ Len(a) = n - 1 /\ DOMAIN a = 1 .. n - 1 /\ \A m \in 1 .. n - 1 : a[m] = text[m]
  BY <1>1, <1>2
<1>4. b \in Seq(TopicPieces) /\ Len(b) = l - n /\ DOMAIN b = 1 .. l - n /\ \A m \in 1 .. l - n : b[m] = text[m + n]
  BY <1>1, <1>2
<1>5. Shows(a, text, 0)
  <2>1. ASSUME NEW m \in DOMAIN a PROVE m + 0 \in DOMAIN text /\ NameAt(a, m) = NameAt(text, m + 0)
    <3>1. m \in DOMAIN text /\ a[m] = text[m] /\ m + 0 = m
      BY <1>1, <1>3, <2>1
    <3> QED BY <3>1, <2>1 DEF NameAt
  <2>2. ASSUME NEW m \in 0 .. Len(a) + 1 PROVE KindAt(a, m) = KindAt(text, m + 0)
    <3>1. m + 0 = m /\ (m \in 1 .. n - 1 \/ m = 0 \/ m = n)
      BY <1>1, <1>3
    <3>2. CASE m \in 1 .. n - 1
      BY <1>1, <1>3, <3>1, <3>2 DEF KindAt
    <3>3. CASE m = 0
      BY <1>1, <1>3, <3>3 DEF KindAt
    <3>4. CASE m = n
      <4>1. n \notin DOMAIN a
        BY <1>1, <1>3
      <4> QED BY <4>1, <3>1, <3>4 DEF KindAt
    <3> QED BY <3>1, <3>2, <3>3, <3>4
  <2> QED BY <2>1, <2>2 DEF Shows
<1>6. Shows(b, text, n)
  <2>1. ASSUME NEW m \in DOMAIN b PROVE m + n \in DOMAIN text /\ NameAt(b, m) = NameAt(text, m + n)
    <3>1. m + n \in DOMAIN text /\ b[m] = text[m + n]
      BY <1>1, <1>4, <2>1
    <3> QED BY <3>1, <2>1 DEF NameAt
  <2>2. ASSUME NEW m \in 0 .. Len(b) + 1 PROVE KindAt(b, m) = KindAt(text, m + n)
    <3>1. m \in 1 .. l - n \/ m = 0 \/ m = l - n + 1
      BY <1>1, <1>4
    <3>2. CASE m \in 1 .. l - n
      <4>1. m \in DOMAIN b /\ m + n \in DOMAIN text /\ b[m] = text[m + n]
        BY <1>1, <1>4, <3>2
      <4> QED BY <4>1 DEF KindAt
    <3>3. CASE m = 0
      <4>1. m \notin DOMAIN b /\ m + n = n
        BY <1>1, <1>4, <3>3
      <4> QED BY <4>1 DEF KindAt
    <3>4. CASE m = l - n + 1
      <4>1. m \notin DOMAIN b /\ m + n = l + 1 /\ m + n \notin DOMAIN text
        <5>1. l - n + 1 \notin 1 .. l - n /\ l - n + 1 + n = l + 1 /\ l + 1 \notin 1 .. l
          BY <1>1
        <5> QED BY <5>1, <1>1, <1>4, <3>4
      <4> QED BY <4>1 DEF KindAt
    <3> QED BY <3>1, <3>2, <3>3, <3>4
  <2> QED BY <2>1, <2>2 DEF Shows
<1> QED BY <1>1, <1>2, <1>3, <1>4, <1>5, <1>6

LEMMA ShownAliases ==
    ASSUME NEW part \in Seq(TopicPieces), NEW text, NEW offset \in Nat, Shows(part, text, offset), NEW alias,
           AliasMatches(part, alias)
    PROVE  AliasMatches(text, alias)
<1>1. PICK n \in DOMAIN part :
        /\ Occurs(part, n, alias)
        /\ KindAt(part, n - 1) = "space" /\ KindAt(part, n + 1) \in {"space", "particle"}
  BY DEF AliasMatches
<1>2. PICK l : l = Len(part) /\ l \in Nat /\ n \in 1 .. l
  OBVIOUS
<1>3. PICK a, b, k : a = n - 1 /\ b = n + 1 /\ k = n + offset
  OBVIOUS
<1>4. a \in 0 .. l + 1 /\ b \in 0 .. l + 1 /\ n \in 0 .. l + 1 /\ a + offset = k - 1 /\ b + offset = k + 1
  BY <1>2, <1>3
<1>5. k \in DOMAIN text /\ Occurs(text, k, alias)
  BY <1>1, <1>2, <1>3, <1>4 DEF Shows, Occurs
<1>6. KindAt(text, k - 1) = "space" /\ KindAt(text, k + 1) \in {"space", "particle"}
  BY <1>1, <1>2, <1>3, <1>4 DEF Shows
<1> QED BY <1>5, <1>6 DEF AliasMatches

LEMMA ShownContexts ==
    ASSUME NEW part \in Seq(TopicPieces), NEW text, NEW offset \in Nat, Shows(part, text, offset), NEW entry,
           ContextFound(part, entry)
    PROVE  ContextFound(text, entry)
<1>1. PICK n \in DOMAIN part, alias \in entry.ambiguous :
        /\ Occurs(part, n, alias) /\ KindAt(part, n - 1) \in {"space", "particle"}
        /\ n + 1 \in DOMAIN part /\ KindAt(part, n + 1) = "space"
        /\ KindAt(part, n + 2) = "context" /\ NameAt(part, n + 2) \in entry.contexts
        /\ KindAt(part, n + 3) \in {"space", "particle"}
  BY DEF ContextFound
<1>2. PICK l : l = Len(part) /\ l \in Nat /\ DOMAIN part = 1 .. l /\ n \in 1 .. l
  OBVIOUS
<1>3. PICK a, b, c, d, k : a = n - 1 /\ b = n + 1 /\ c = n + 2 /\ d = n + 3 /\ k = n + offset
  OBVIOUS
<1>4. c \in DOMAIN part
  <2>1. KindAt(part, c) = "context"
    BY <1>1, <1>3
  <2> QED BY <2>1 DEF KindAt
<1>5. /\ a \in 0 .. l + 1 /\ b \in 0 .. l + 1 /\ c \in 0 .. l + 1 /\ d \in 0 .. l + 1 /\ n \in 0 .. l + 1
      /\ a + offset = k - 1 /\ b + offset = k + 1 /\ c + offset = k + 2 /\ d + offset = k + 3
  <2>1. c \in 1 .. l /\ c = n + 2
    BY <1>2, <1>3, <1>4
  <2>2. a \in 0 .. l + 1 /\ b \in 0 .. l + 1 /\ n \in 0 .. l + 1
    BY <1>2, <1>3
  <2>3. c \in 0 .. l + 1 /\ d = c + 1 /\ d \in 0 .. l + 1
    BY <1>2, <1>3, <2>1
  <2>4. n \in Int /\ offset \in Int
    BY <1>2
  <2>5. a + offset = k - 1 /\ b + offset = k + 1 /\ c + offset = k + 2 /\ d + offset = k + 3
    <3>1. ASSUME NEW x \in Int, NEW y \in Int
          PROVE  (x - 1) + y = (x + y) - 1 /\ (x + 1) + y = (x + y) + 1 /\ (x + 2) + y = (x + y) + 2 /\ (x + 3) + y = (x + y) + 3
      OBVIOUS
    <3> QED BY <1>3, <2>4, <3>1
  <2> QED BY <2>2, <2>3, <2>5
<1>6. k \in DOMAIN text /\ Occurs(text, k, alias)
  BY <1>1, <1>2, <1>3, <1>5 DEF Shows, Occurs
<1>7. k + 1 \in DOMAIN text /\ NameAt(text, k + 2) \in entry.contexts
  BY <1>1, <1>3, <1>4, <1>5 DEF Shows
<1>8. /\ KindAt(text, k - 1) \in {"space", "particle"} /\ KindAt(text, k + 1) = "space"
      /\ KindAt(text, k + 2) = "context" /\ KindAt(text, k + 3) \in {"space", "particle"}
  BY <1>1, <1>2, <1>3, <1>5 DEF Shows
<1> QED BY <1>1, <1>6, <1>7, <1>8 DEF ContextFound

Among(topics, others) ==
    \A t \in topics : \E u \in others : u.slug = t.slug /\ u.confidence >= t.confidence

LEMMA MoreIsHeard ==
    ASSUME NEW part, NEW text, NEW source,
           \A alias : AliasMatches(part, alias) => AliasMatches(text, alias),
           \A entry : ContextFound(part, entry) => ContextFound(text, entry)
    PROVE  Among(ClassifyTopics(part, source), ClassifyTopics(text, source))
<1>1. SUFFICES ASSUME NEW t \in ClassifyTopics(part, source)
               PROVE  \E u \in ClassifyTopics(text, source) : u.slug = t.slug /\ u.confidence >= t.confidence
  BY DEF Among
<1>2. PICK e \in Taxonomy : /\ t = [slug |-> e.slug, confidence |-> Confidence(part, e)]
                            /\ Direct(part, e) # {} \/ ContextConstrained(part, e) \/ SourceConstrained(part, e, source)
  BY DEF ClassifyTopics
<1>3. /\ Direct(part, e) # {} => Direct(text, e) # {}
      /\ Unsure(part, e) # {} => Unsure(text, e) # {}
  BY DEF Direct, Unsure, Heard
<1>4. /\ ContextConstrained(part, e) => ContextConstrained(text, e)
      /\ SourceConstrained(part, e, source) => SourceConstrained(text, e, source)
  BY <1>3 DEF ContextConstrained, SourceConstrained
<1>5. Confidence(text, e) >= Confidence(part, e)
  BY <1>3, <1>4 DEF Confidence
<1>6. [slug |-> e.slug, confidence |-> Confidence(text, e)] \in ClassifyTopics(text, source)
  BY <1>2, <1>3, <1>4 DEF ClassifyTopics
<1>7. PICK u : u = [slug |-> e.slug, confidence |-> Confidence(text, e)] /\ u \in ClassifyTopics(text, source)
  BY <1>6
<1> QED BY <1>2, <1>5, <1>7

LEMMA PartsAreHeard ==
    ASSUME NEW text \in Seq(TopicPieces), NEW n \in DOMAIN text, KindAt(text, n) = "space"
    PROVE  /\ Among(ClassifyTopics(SubSeq(text, 1, n - 1), NoSource), ClassifyTopics(text, NoSource))
           /\ Among(ClassifyTopics(SubSeq(text, n + 1, Len(text)), NoSource), ClassifyTopics(text, NoSource))
<1>1. PICK a, b : a = SubSeq(text, 1, n - 1) /\ b = SubSeq(text, n + 1, Len(text))
  OBVIOUS
<1>2. /\ Shows(a, text, 0) /\ a \in Seq(TopicPieces) /\ Shows(b, text, n) /\ b \in Seq(TopicPieces)
  BY <1>1, PartsShow
<1>3. 0 \in Nat /\ n \in Nat
  OBVIOUS
<1>4. /\ \A alias : AliasMatches(a, alias) => AliasMatches(text, alias)
      /\ \A entry : ContextFound(a, entry) => ContextFound(text, entry)
  BY <1>2, <1>3, ShownAliases, ShownContexts
<1>5. /\ \A alias : AliasMatches(b, alias) => AliasMatches(text, alias)
      /\ \A entry : ContextFound(b, entry) => ContextFound(text, entry)
  BY <1>2, <1>3, ShownAliases, ShownContexts
<1> QED BY <1>1, <1>4, <1>5, MoreIsHeard

LEMMA SourcesOnlyAdd ==
    ASSUME TopicAssumption, NEW text, NEW s
    PROVE  Among(ClassifyTopics(text, NoSource), ClassifyTopics(text, s))
<1>1. \A e \in Taxonomy : ~SourceConstrained(text, e, NoSource)
  BY DEF TopicAssumption, SourceConstrained
<1>2. ClassifyTopics(text, NoSource) \subseteq ClassifyTopics(text, s)
  BY <1>1 DEF ClassifyTopics
<1>3. \A t \in ClassifyTopics(text, NoSource) : t.confidence >= t.confidence
  BY DEF ClassifyTopics, Confidence
<1> QED BY <1>2, <1>3 DEF Among

LEMMA RangesAreThoseAsked ==
    ASSUME TopicAssumption, NEW r \in Ranges, NEW span \in Durations, ~RangeIsRefused(r)
    PROVE  /\ ResolveTimeRange(r, span).from < ResolveTimeRange(r, span).to
           /\ r.given => ResolveTimeRange(r, span).from = r.from /\ ResolveTimeRange(r, span).to = r.to
<1>1. r.from \in Int /\ r.to \in Int /\ ThisDay \in Int /\ Earliest \in Int /\ Earliest < ThisDay
  BY DEF TopicAssumption
<1>2. Names(span) => ThisDay - span.amount * span.unit < ThisDay
  <2>1. PICK a, u : a = span.amount /\ u = span.unit
    OBVIOUS
  <2>2. a \in Nat /\ u \in Nat /\ u > 0
    BY <2>1 DEF TopicAssumption
  <2>3. a \in 1 .. 365 => a * u > 0
    BY <2>2
  <2> QED BY <1>1, <2>1, <2>2, <2>3 DEF Names
<1> QED BY <1>1, <1>2 DEF ResolveTimeRange, RangeIsRefused

LEMMA TopicsFromText == ASSUME TopicAssumption, TopicTypeOK PROVE TopicsAreHeard
<1>1. \A n \in DOMAIN topicText : KindAt(topicText, n) = "space" =>
        /\ Among(ClassifyTopics(SubSeq(topicText, 1, n - 1), NoSource), ClassifyTopics(topicText, NoSource))
        /\ Among(ClassifyTopics(SubSeq(topicText, n + 1, Len(topicText)), NoSource), ClassifyTopics(topicText, NoSource))
  BY PartsAreHeard DEF TopicTypeOK
<1>2. \A s \in TopicSources : Among(ClassifyTopics(topicText, NoSource), ClassifyTopics(topicText, s))
  BY SourcesOnlyAdd
<1>3. ASSUME NEW q, q = ParseQuery(topicText)
      PROVE  /\ \A a \in q.ambiguities : a.slug \notin SlugsOf(q.entities)
             /\ \A e \in Taxonomy : \A a \in e.ambiguous : ContainsAlias(topicText, a) =>
                    e.slug \in SlugsOf(q.entities) \/ [alias |-> a, slug |-> e.slug] \in q.ambiguities
  <2>1. PICK topics, slugs : topics = ClassifyTopics(topicText, NoSource) /\ slugs = SlugsOf(topics)
    OBVIOUS
  <2>2. q.entities = topics /\ q.ambiguities = Ambiguities(topicText, slugs)
    BY <1>3, <2>1 DEF ParseQuery
  <2>3. \A a \in Ambiguities(topicText, slugs) : a.slug \notin slugs
    BY DEF Ambiguities
  <2>4. \A e \in Taxonomy : \A a \in e.ambiguous : ContainsAlias(topicText, a) =>
            e.slug \in slugs \/ [alias |-> a, slug |-> e.slug] \in Ambiguities(topicText, slugs)
    BY DEF Ambiguities
  <2> QED BY <2>1, <2>2, <2>3, <2>4
<1>4. \A r \in Ranges, span \in Durations : ~RangeIsRefused(r) =>
          /\ ResolveTimeRange(r, span).from < ResolveTimeRange(r, span).to
          /\ r.given => ResolveTimeRange(r, span).from = r.from /\ ResolveTimeRange(r, span).to = r.to
  BY RangesAreThoseAsked
<1> QED BY <1>1, <1>2, <1>3, <1>4 DEF TopicsAreHeard, Among

LEMMA TopicStep == TopicTypeOK /\ [TopicNext]_topicText => TopicTypeOK'
BY DEF TopicTypeOK, TopicNext

-----------------------------------------------------------------------------
(***************************************************************************)
(* Elements within elements.  c[m] says how many more elements were opened *)
(* than closed by the first m tokens; O has the places of the tags that    *)
(* open one, C those of the tags that close one.                           *)
(***************************************************************************)
Heights(c, N, O, C) ==
    /\ N \in Nat /\ c \in [0 .. N -> Int]
    /\ O \subseteq 1 .. N /\ C \subseteq 1 .. N /\ O \cap C = {}
    /\ c[0] = 0
    /\ \A m \in 1 .. N : /\ m \in O => c[m] = c[m - 1] + 1
                         /\ m \in C => c[m] = c[m - 1] - 1
                         /\ m \notin O /\ m \notin C => c[m] = c[m - 1]
\* The elements that are open after token n
Around(c, O, n) == {j \in O : j <= n /\ \A m \in j .. n : c[m] > c[j - 1]}

LEMMA LastOne ==
    ASSUME NEW n \in Nat, NEW S \in SUBSET (1 .. n), S # {}
    PROVE  \E x \in S : \A y \in S : x >= y
<1> DEFINE Good == {m \in Nat : \A U \in SUBSET (1 .. m) : U # {} => \E x \in U : \A y \in U : x >= y}
<1>1. 0 \in Good
  BY LastOfPrefix
<1>2. ASSUME NEW m \in Good PROVE m + 1 \in Good
  <2>1. ASSUME NEW U \in SUBSET (1 .. m + 1), U # {} PROVE \E x \in U : \A y \in U : x >= y
    <3>1. CASE m + 1 \in U
      BY <3>1
    <3>2. CASE m + 1 \notin U
      <4>1. U \in SUBSET (1 .. m)
        BY <2>1, <3>2
      <4> QED BY <1>2, <2>1, <4>1
    <3> QED BY <3>1, <3>2
  <2> QED BY <2>1
<1>3. Good = Nat
  <2> HIDE DEF Good
  <2>1. Good \in SUBSET Nat
    BY DEF Good
  <2> QED BY <1>1, <1>2, <2>1, NatSetInduction
<1> QED BY <1>3

LEMMA HeightsAre ==
    ASSUME NEW c, NEW N, NEW O, NEW C, Heights(c, N, O, C)
    PROVE  /\ N \in Nat /\ \A m \in 0 .. N : c[m] \in Int
           /\ \A j \in O : j \in 1 .. N /\ j \in Nat /\ j # 0 /\ c[j - 1] \in Int /\ j \notin C
<1>1. N \in Nat /\ c \in [0 .. N -> Int] /\ O \subseteq 1 .. N /\ O \cap C = {}
  BY DEF Heights
<1>2. ASSUME NEW j \in O PROVE j \in 1 .. N /\ j \in Nat /\ j # 0 /\ c[j - 1] \in Int /\ j \notin C
  <2>1. j \in 1 .. N /\ j \notin C
    BY <1>1
  <2>2. j - 1 \in 0 .. N /\ j \in Nat /\ j # 0
    BY <1>1, <2>1
  <2> QED BY <1>1, <2>1, <2>2
<1> QED BY <1>1, <1>2

LEMMA AroundNothing ==
    ASSUME NEW c, NEW N, NEW O, NEW C, Heights(c, N, O, C)
    PROVE  Around(c, O, 0) = {}
<1>1. \A j \in O : ~(j <= 0)
  BY HeightsAre
<1> QED BY <1>1 DEF Around

LEMMA AroundText ==
    ASSUME NEW c, NEW N, NEW O, NEW C, Heights(c, N, O, C), NEW n \in 0 .. N - 1, n + 1 \notin O, n + 1 \notin C
    PROVE  Around(c, O, n + 1) = Around(c, O, n)
<1>1. n \in Nat /\ n + 1 \in 1 .. N /\ c[n + 1] = c[n] /\ N \in Nat
  BY DEF Heights
<1>2. ASSUME NEW j \in O, j <= n
      PROVE  (\A m \in j .. n + 1 : c[m] > c[j - 1]) <=> (\A m \in j .. n : c[m] > c[j - 1])
  <2>1. j \in Nat
    BY HeightsAre
  <2>2. n \in j .. n /\ j .. n + 1 = (j .. n) \cup {n + 1}
    BY <1>1, <1>2, <2>1
  <2> QED BY <1>1, <2>2
<1>3. \A j \in O : j <= n + 1 <=> j <= n
  BY <1>1 DEF Heights
<1> QED BY <1>2, <1>3 DEF Around

LEMMA AroundOpen ==
    ASSUME NEW c, NEW N, NEW O, NEW C, Heights(c, N, O, C), NEW n \in 0 .. N - 1, n + 1 \in O
    PROVE  Around(c, O, n + 1) = Around(c, O, n) \cup {n + 1}
<1>1. n \in Nat /\ n + 1 \in 1 .. N /\ c[n + 1] = c[n] + 1 /\ N \in Nat /\ c[n] \in Int
  BY DEF Heights
<1>2. ASSUME NEW j \in O, j <= n
      PROVE  (\A m \in j .. n + 1 : c[m] > c[j - 1]) <=> (\A m \in j .. n : c[m] > c[j - 1])
  <2>1. j \in Nat /\ c[j - 1] \in Int
    BY HeightsAre
  <2>2. c[n] > c[j - 1] => c[n + 1] > c[j - 1]
    BY <1>1, <2>1
  <2>3. n \in j .. n /\ j .. n + 1 = (j .. n) \cup {n + 1}
    BY <1>1, <1>2, <2>1
  <2> QED BY <2>2, <2>3
<1>3. \A m \in n + 1 .. n + 1 : c[m] > c[n + 1 - 1]
  <2>1. n + 1 - 1 = n /\ n + 1 .. n + 1 = {n + 1} /\ c[n + 1] > c[n]
    BY <1>1
  <2> QED BY <2>1
<1>4. \A j \in O : j <= n + 1 <=> j <= n \/ j = n + 1
  BY <1>1 DEF Heights
<1> QED BY <1>1, <1>2, <1>3, <1>4 DEF Around

\* What is closed in order is what was opened last.
LEMMA AroundClose ==
    ASSUME NEW c, NEW N, NEW O, NEW C, Heights(c, N, O, C), NEW n \in 0 .. N - 1, n + 1 \in C,
           NEW j \in Around(c, O, n), c[n + 1] = c[j - 1]
    PROVE  /\ Around(c, O, n + 1) = Around(c, O, n) \ {j}
           /\ \A i \in Around(c, O, n) : i <= j
<1>1. n \in Nat /\ n + 1 \in 1 .. N /\ c[n + 1] = c[n] - 1 /\ n + 1 \notin O /\ N \in Nat /\ c[n] \in Int /\ c[n + 1] \in Int
  BY DEF Heights
<1>2. j \in O /\ j \in Nat /\ j <= n /\ j \in 1 .. N /\ c[j - 1] \in Int /\ \A m \in j .. n : c[m] > c[j - 1]
  BY DEF Heights, Around
<1>3. ASSUME NEW i \in Around(c, O, n)
      PROVE  i \in O /\ i \in 1 .. N /\ i <= n /\ c[i - 1] \in Int /\ c[i - 1] < c[n] /\ \A m \in i .. n : c[m] > c[i - 1]
  BY DEF Heights, Around
<1>4. ASSUME NEW i \in Around(c, O, n) PROVE i <= j
  <2>1. SUFFICES ASSUME i > j PROVE FALSE
    BY <1>2, <1>3
  <2>2. i - 1 \in j .. n
    BY <1>1, <1>2, <1>3, <2>1
  <2>3. c[i - 1] > c[j - 1] /\ c[i - 1] < c[n]
    BY <1>2, <1>3, <2>2
  <2> QED BY <1>1, <1>2, <1>3, <2>3
<1>5. ASSUME NEW i \in Around(c, O, n), i # j PROVE i \in Around(c, O, n + 1)
  <2>1. i <= j - 1 /\ j - 1 \in i .. n
    BY <1>1, <1>2, <1>3, <1>4, <1>5
  <2>2. c[j - 1] > c[i - 1]
    BY <1>3, <2>1
  <2>3. \A m \in i .. n + 1 : m \in i .. n \/ m = n + 1
    BY <1>1, <1>3
  <2>4. \A m \in i .. n + 1 : c[m] > c[i - 1]
    BY <1>3, <2>2, <2>3
  <2> QED BY <1>1, <1>3, <2>4 DEF Around
<1>6. j \notin Around(c, O, n + 1)
  <2>1. n + 1 \in j .. n + 1 /\ ~(c[n + 1] > c[j - 1])
    BY <1>1, <1>2
  <2> QED BY <2>1 DEF Around
<1>7. ASSUME NEW i \in Around(c, O, n + 1) PROVE i \in Around(c, O, n)
  <2>1. i \in O /\ i <= n + 1 /\ i # n + 1 /\ \A m \in i .. n + 1 : c[m] > c[i - 1]
    BY <1>1 DEF Around
  <2>3. i \in Nat
    BY <2>1, HeightsAre
  <2>2. i <= n /\ \A m \in i .. n : m \in i .. n + 1
    BY <1>1, <2>1, <2>3
  <2> QED BY <2>1, <2>2 DEF Around
<1> QED BY <1>4, <1>5, <1>6, <1>7

\* The places of the elements that are open, from the outermost to the innermost
Nest(q, A, n) ==
    /\ q \in Seq(1 .. n) /\ ToSet(q) = A
    /\ \A i, k \in DOMAIN q : i < k => q[i] < q[k]

LEMMA NestOpens ==
    ASSUME NEW n \in Nat, NEW q, NEW A, Nest(q, A, n)
    PROVE  Nest(Append(q, n + 1), A \cup {n + 1}, n + 1)
<1>1. PICK t, l : t = Append(q, n + 1) /\ l = Len(q)
  OBVIOUS
<1>2. q \in Seq(1 .. n) /\ l \in Nat /\ DOMAIN q = 1 .. l /\ \A i \in 1 .. l : q[i] \in 1 .. n
  BY <1>1 DEF Nest
<1>3. q \in Seq(1 .. n + 1) /\ n + 1 \in 1 .. n + 1
  <2>1. \A i \in 1 .. l : q[i] \in 1 .. n + 1
    BY <1>2
  <2> QED BY <1>1, <1>2, <2>1
<1>4. t \in Seq(1 .. n + 1) /\ DOMAIN t = 1 .. l + 1 /\ t[l + 1] = n + 1 /\ \A i \in 1 .. l : t[i] = q[i]
  BY <1>1, <1>3
<1>5. \A i \in 1 .. l + 1 : i \in 1 .. l \/ i = l + 1
  BY <1>2
<1>6. ToSet(t) = ToSet(q) \cup {n + 1}
  <2>1. l + 1 \in 1 .. l + 1 /\ \A i \in 1 .. l : i \in 1 .. l + 1
    BY <1>2
  <2> QED BY <1>2, <1>4, <1>5, <2>1 DEF ToSet
<1>7. ASSUME NEW i \in DOMAIN t, NEW k \in DOMAIN t, i < k PROVE t[i] < t[k]
  <2>1. i \in 1 .. l
    BY <1>2, <1>4, <1>7
  <2>2. CASE k \in 1 .. l
    BY <1>2, <1>4, <1>7, <2>1, <2>2 DEF Nest
  <2>3. CASE k = l + 1
    BY <1>2, <1>4, <2>1, <2>3
  <2> QED BY <1>4, <1>5, <2>2, <2>3
<1>8. Nest(t, A \cup {n + 1}, n + 1)
  BY <1>4, <1>6, <1>7 DEF Nest
<1> QED BY <1>1, <1>8

LEMMA NestStays ==
    ASSUME NEW n \in Nat, NEW q, NEW A, Nest(q, A, n)
    PROVE  Nest(q, A, n + 1)
<1>1. q \in Seq(1 .. n) /\ \A i \in 1 .. Len(q) : q[i] \in 1 .. n
  BY DEF Nest
<1>2. \A i \in 1 .. Len(q) : q[i] \in 1 .. n + 1
  BY <1>1
<1>3. q \in Seq(1 .. n + 1)
  BY <1>1, <1>2
<1> QED BY <1>3 DEF Nest

\* The innermost of them is the last of the sequence.
LEMMA NestCloses ==
    ASSUME NEW n \in Nat, NEW q, NEW A, Nest(q, A, n), NEW j \in A, \A i \in A : i <= j
    PROVE  /\ Len(q) \in Nat /\ Len(q) # 0 /\ Len(q) \in DOMAIN q /\ q[Len(q)] = j
           /\ Nest(SubSeq(q, 1, Len(q) - 1), A \ {j}, n + 1)
<1>1. PICK l : l = Len(q)
  OBVIOUS
<1>2. q \in Seq(1 .. n) /\ l \in Nat /\ DOMAIN q = 1 .. l /\ \A i \in 1 .. l : q[i] \in 1 .. n /\ q[i] \in A
  BY <1>1 DEF Nest, ToSet
<1>3. PICK x \in 1 .. l : q[x] = j
  BY <1>2 DEF Nest, ToSet
<1>4. x = l
  <2>1. SUFFICES ASSUME x # l PROVE FALSE
    OBVIOUS
  <2>2. l \in 1 .. l /\ x < l
    BY <1>2, <2>1
  <2>3. q[x] < q[l] /\ q[l] <= j /\ q[l] \in Nat /\ q[x] \in Nat
    BY <1>2, <1>3, <2>2 DEF Nest
  <2> QED BY <1>3, <2>3
<1>5. PICK t : t = SubSeq(q, 1, l - 1)
  OBVIOUS
<1>6. l - 1 \in Nat /\ t \in Seq(1 .. n + 1) /\ DOMAIN t = 1 .. l - 1 /\ \A i \in 1 .. l - 1 : t[i] = q[i]
  <2>1. l - 1 \in Nat /\ l - 1 <= l
    BY <1>2
  <2>2. q \in Seq(1 .. n + 1)
    <3>1. \A i \in 1 .. l : q[i] \in 1 .. n + 1
      BY <1>2
    <3> QED BY <1>1, <1>2, <3>1
  <2> QED BY <1>1, <1>2, <1>5, <2>1, <2>2
<1>7. ToSet(t) = A \ {j}
  <2>1. ToSet(q) = A
    BY DEF Nest
  <2>2. ASSUME NEW i \in 1 .. l - 1 PROVE q[i] # j /\ i \in 1 .. l /\ i < l
    <3>1. i < l /\ i \in 1 .. l /\ l \in 1 .. l
      BY <1>2, <1>6
    <3>2. q[i] < q[l] /\ q[l] \in Nat /\ q[i] \in Nat
      BY <1>2, <3>1 DEF Nest
    <3> QED BY <1>3, <1>4, <3>1, <3>2
  <2>3. ASSUME NEW i \in 1 .. l, q[i] # j PROVE i \in 1 .. l - 1
    BY <1>2, <1>3, <1>4, <2>3
  <2> QED BY <1>2, <1>6, <2>1, <2>2, <2>3 DEF ToSet
<1>8. \A i, k \in DOMAIN t : i < k => t[i] < t[k]
  <2>1. \A i \in 1 .. l - 1 : i \in 1 .. l
    BY <1>2, <1>6
  <2>2. \A i, k \in 1 .. l : i < k => q[i] < q[k]
    BY <1>2 DEF Nest
  <2> QED BY <1>6, <2>1, <2>2
<1>9. Nest(t, A \ {j}, n + 1)
  BY <1>6, <1>7, <1>8 DEF Nest
<1> QED BY <1>1, <1>2, <1>3, <1>4, <1>5, <1>9

HowMany(A, j, n) == Cardinality(A \cap (j .. n))

LEMMA CountsAdd ==
    ASSUME NEW A, NEW j \in Nat \ {0}, NEW n \in Nat, j - 1 <= n
    PROVE  /\ HowMany(A, 1, n) \in Nat /\ HowMany(A, 1, j - 1) \in Nat /\ HowMany(A, j, n) \in Nat
           /\ HowMany(A, 1, n) = HowMany(A, 1, j - 1) + HowMany(A, j, n)
<1>1. PICK B, D, E : B = A \cap (1 .. j - 1) /\ D = A \cap (j .. n) /\ E = A \cap (1 .. n)
  OBVIOUS
<1>2. IsFiniteSet(1 .. j - 1) /\ IsFiniteSet(j .. n)
  <2>1. 1 \in Int /\ j - 1 \in Int /\ j \in Int /\ n \in Int
    OBVIOUS
  <2> QED BY <2>1, FS_Interval
<1>3. IsFiniteSet(B) /\ IsFiniteSet(D)
  BY <1>1, <1>2, FS_Subset
<1>4. E = B \cup D /\ B \cap D = {}
  BY <1>1
<1>5. IsFiniteSet(E) /\ Cardinality(E) = Cardinality(B) + Cardinality(D) - Cardinality(B \cap D)
  BY <1>3, <1>4, FS_Union
<1>6. Cardinality(B \cap D) = 0 /\ Cardinality(B) \in Nat /\ Cardinality(D) \in Nat /\ Cardinality(E) \in Nat
  BY <1>3, <1>4, <1>5, FS_EmptySet, FS_CardinalityType
<1> QED BY <1>1, <1>5, <1>6 DEF HowMany

LEMMA CountsOne ==
    ASSUME NEW A, NEW n \in Nat
    PROVE  /\ HowMany(A, 1, 0) = 0
           /\ HowMany(A, n, n) = IF n \in A THEN 1 ELSE 0
<1>1. 1 .. 0 = {} /\ n .. n = {n}
  OBVIOUS
<1>2. A \cap (1 .. 0) = {} /\ A \cap (n .. n) = IF n \in A THEN {n} ELSE {}
  BY <1>1
<1>3. Cardinality({}) = 0 /\ Cardinality({n}) = 1
  BY FS_EmptySet, FS_Singleton
<1> QED BY <1>2, <1>3 DEF HowMany

Levels(O, C, N) == [m \in 0 .. N |-> HowMany(O, 1, m) - HowMany(C, 1, m)]

LEMMA LevelsAreHeights ==
    ASSUME NEW N \in Nat, NEW O \in SUBSET (1 .. N), NEW C \in SUBSET (1 .. N), O \cap C = {}
    PROVE  Heights(Levels(O, C, N), N, O, C)
<1>1. PICK c : c = Levels(O, C, N)
  OBVIOUS
<1>2. \A m \in 0 .. N : c[m] = HowMany(O, 1, m) - HowMany(C, 1, m)
  BY <1>1 DEF Levels
<1>3. ASSUME NEW m \in 1 .. N
      PROVE  /\ HowMany(O, 1, m) = HowMany(O, 1, m - 1) + (IF m \in O THEN 1 ELSE 0)
             /\ HowMany(C, 1, m) = HowMany(C, 1, m - 1) + (IF m \in C THEN 1 ELSE 0)
             /\ HowMany(O, 1, m - 1) \in Nat /\ HowMany(C, 1, m - 1) \in Nat
  <2>1. m \in Nat \ {0} /\ m - 1 <= m
    OBVIOUS
  <2> QED BY <2>1, CountsAdd, CountsOne
<1>4. \A m \in 0 .. N : HowMany(O, 1, m) \in Nat /\ HowMany(C, 1, m) \in Nat
  <2>1. ASSUME NEW m \in 0 .. N, NEW A PROVE HowMany(A, 1, m) \in Nat
    <3>1. 1 \in Nat \ {0} /\ m \in Nat /\ 1 - 1 <= m
      OBVIOUS
    <3> QED BY <3>1, CountsAdd
  <2> QED BY <2>1
<1>5. c \in [0 .. N -> Int]
  <2>1. \A m \in 0 .. N : HowMany(O, 1, m) - HowMany(C, 1, m) \in Int
    BY <1>4
  <2> QED BY <1>1, <2>1 DEF Levels
<1>6. c[0] = 0
  <2>1. 0 \in 0 .. N /\ 0 \in Nat
    OBVIOUS
  <2> QED BY <1>2, <2>1, CountsOne
<1>7. ASSUME NEW m \in 1 .. N
      PROVE  /\ m \in O => c[m] = c[m - 1] + 1
             /\ m \in C => c[m] = c[m - 1] - 1
             /\ m \notin O /\ m \notin C => c[m] = c[m - 1]
  <2>1. m \in 0 .. N /\ m - 1 \in 0 .. N
    OBVIOUS
  <2>2. /\ c[m] = HowMany(O, 1, m) - HowMany(C, 1, m) /\ c[m - 1] = HowMany(O, 1, m - 1) - HowMany(C, 1, m - 1)
    BY <1>2, <2>1
  <2>3. ~(m \in O /\ m \in C)
    OBVIOUS
  <2> QED BY <1>3, <2>2, <2>3
<1>8. Heights(c, N, O, C)
  BY <1>5, <1>6, <1>7 DEF Heights
<1> QED BY <1>1, <1>8

LEMMA LevelsBetween ==
    ASSUME NEW N \in Nat, NEW O, NEW C, NEW j \in 1 .. N, NEW n \in j - 1 .. N
    PROVE  /\ HowMany(O, j, n) \in Nat /\ HowMany(C, j, n) \in Nat
           /\ HowMany(O, j, n) - HowMany(C, j, n) = Levels(O, C, N)[n] - Levels(O, C, N)[j - 1]
           /\ HowMany(O, j, n) > HowMany(C, j, n) <=> Levels(O, C, N)[n] > Levels(O, C, N)[j - 1]
           /\ HowMany(O, j, n) = HowMany(C, j, n) <=> Levels(O, C, N)[n] = Levels(O, C, N)[j - 1]
<1>1. j \in Nat \ {0} /\ n \in Nat /\ j - 1 <= n /\ n \in 0 .. N /\ j - 1 \in 0 .. N
  OBVIOUS
<1>2. /\ HowMany(O, 1, n) = HowMany(O, 1, j - 1) + HowMany(O, j, n)
      /\ HowMany(C, 1, n) = HowMany(C, 1, j - 1) + HowMany(C, j, n)
      /\ HowMany(O, 1, j - 1) \in Nat /\ HowMany(O, j, n) \in Nat
      /\ HowMany(C, 1, j - 1) \in Nat /\ HowMany(C, j, n) \in Nat
  BY <1>1, CountsAdd
<1>3. PICK a, b : a = Levels(O, C, N)[n] /\ b = Levels(O, C, N)[j - 1]
  OBVIOUS
<1>4. a = HowMany(O, 1, n) - HowMany(C, 1, n) /\ b = HowMany(O, 1, j - 1) - HowMany(C, 1, j - 1)
  BY <1>1, <1>3 DEF Levels
<1> QED BY <1>2, <1>3, <1>4

\* More elements open than close between two places when the second is higher.
CountsAgree(O, C, L, j, n) ==
    /\ HowMany(O, j, n) > HowMany(C, j, n) <=> L[n] > L[j - 1]
    /\ HowMany(O, j, n) = HowMany(C, j, n) <=> L[n] = L[j - 1]

LEMMA LevelsAgree ==
    ASSUME NEW N \in Nat, NEW O, NEW C, NEW j \in 1 .. N, NEW n \in j - 1 .. N
    PROVE  CountsAgree(O, C, Levels(O, C, N), j, n)
<1>1. PICK L : L = Levels(O, C, N)
  OBVIOUS
<1>2. /\ HowMany(O, j, n) > HowMany(C, j, n) <=> L[n] > L[j - 1]
      /\ HowMany(O, j, n) = HowMany(C, j, n) <=> L[n] = L[j - 1]
  BY <1>1, LevelsBetween
<1> QED BY <1>1, <1>2 DEF CountsAgree

LEMMA FrontOf ==
    ASSUME NEW S, NEW q \in Seq(S), NEW m \in 1 .. Len(q)
    PROVE  SubSeq(q, 1, m - 1) \in Seq(S)
<1>1. \A i \in 1 .. m - 1 : q[i] \in S
  OBVIOUS
<1>2. 1 \in Int /\ m - 1 \in Int
  OBVIOUS
<1> QED BY <1>1, <1>2, SubSeqProperties

-----------------------------------------------------------------------------
(***************************************************************************)
(* Articles.                                                               *)
(***************************************************************************)
Size == Len(articlePage)
OpenTags == {m \in 1 .. Size : articlePage[m].kind = "open" /\ TagAt(m) \notin Voids}
CloseTags == {m \in 1 .. Size : articlePage[m].kind = "close"}
TextTags == {m \in 1 .. Size : articlePage[m].kind = "text"}
Above(n) == Around(Levels(OpenTags, CloseTags, Size), OpenTags, n)

LEMMA PageIs ==
    ASSUME articlePage \in Seq(ArticleTokens)
    PROVE  /\ Size \in Nat /\ DOMAIN articlePage = 1 .. Size
           /\ \A m \in 1 .. Size : articlePage[m].kind \in {"text", "open", "close"}
           /\ Heights(Levels(OpenTags, CloseTags, Size), Size, OpenTags, CloseTags)
<1>1. Size \in Nat /\ DOMAIN articlePage = 1 .. Size /\ \A m \in 1 .. Size : articlePage[m] \in ArticleTokens
  BY DEF Size
<1>2. \A m \in 1 .. Size : articlePage[m].kind \in {"text", "open", "close"}
  BY <1>1, ArticleAssumption
<1>3. OpenTags \in SUBSET (1 .. Size) /\ CloseTags \in SUBSET (1 .. Size) /\ OpenTags \cap CloseTags = {}
  BY DEF OpenTags, CloseTags
<1>4. Heights(Levels(OpenTags, CloseTags, Size), Size, OpenTags, CloseTags)
  BY <1>1, <1>3, LevelsAreHeights
<1> QED BY <1>1, <1>2, <1>4

LEMMA TagsBetween ==
    ASSUME articlePage \in Seq(ArticleTokens), NEW j \in 1 .. Size, NEW n \in j - 1 .. Size
    PROVE  /\ TagsOpen(j, n) > 0 <=>
                  Levels(OpenTags, CloseTags, Size)[n] > Levels(OpenTags, CloseTags, Size)[j - 1]
           /\ TagsOpen(j, n) = 0 <=>
                  Levels(OpenTags, CloseTags, Size)[n] = Levels(OpenTags, CloseTags, Size)[j - 1]
<1>1. Size \in Nat
  BY PageIs
<1>2. \A m \in j .. n : m \in 1 .. Size
  BY <1>1
<1>3. /\ {m \in j .. n : articlePage[m].kind = "open" /\ TagAt(m) \notin Voids} = OpenTags \cap (j .. n)
      /\ {m \in j .. n : articlePage[m].kind = "close"} = CloseTags \cap (j .. n)
  BY <1>2 DEF OpenTags, CloseTags
<1>4. TagsOpen(j, n) = HowMany(OpenTags, j, n) - HowMany(CloseTags, j, n)
  BY <1>3 DEF TagsOpen, HowMany
<1>5. /\ HowMany(OpenTags, j, n) \in Nat /\ HowMany(CloseTags, j, n) \in Nat
      /\ HowMany(OpenTags, j, n) > HowMany(CloseTags, j, n) <=>
             Levels(OpenTags, CloseTags, Size)[n] > Levels(OpenTags, CloseTags, Size)[j - 1]
      /\ HowMany(OpenTags, j, n) = HowMany(CloseTags, j, n) <=>
             Levels(OpenTags, CloseTags, Size)[n] = Levels(OpenTags, CloseTags, Size)[j - 1]
  BY <1>1, LevelsBetween
<1> QED BY <1>4, <1>5

LEMMA InsideIsAbove ==
    ASSUME articlePage \in Seq(ArticleTokens), NEW n \in 1 .. Size, NEW j \in 1 .. n
    PROVE  Inside(j, n) <=> j \in Above(n)
<1>1. Size \in Nat /\ j \in 1 .. Size /\ j <= n
  BY PageIs
<1>2. \A m \in j .. n : m \in j - 1 .. Size
  BY <1>1
<1>3. \A m \in j .. n :
        TagsOpen(j, m) > 0 <=> Levels(OpenTags, CloseTags, Size)[m] > Levels(OpenTags, CloseTags, Size)[j - 1]
  BY <1>1, <1>2, TagsBetween
<1>4. j \in OpenTags <=> articlePage[j].kind = "open" /\ TagAt(j) \notin Voids
  BY <1>1 DEF OpenTags
<1> QED BY <1>1, <1>3, <1>4 DEF Inside, Above, Around

LastNamed(q, tag) == SelectLastInSeq(q, LAMBDA k : TagAt(k) = tag)
LEMMA LastNamedIs ==
    ASSUME NEW q, Len(q) \in Nat, NEW tag
    PROVE  /\ LastNamed(q, tag) \in 0 .. Len(q)
           /\ Len(q) # 0 /\ TagAt(q[Len(q)]) = tag => LastNamed(q, tag) = Len(q)
<1>1. PICK l, I, m : /\ l = Len(q) /\ I = {i \in 1 .. l : TagAt(q[i]) = tag}
                     /\ m = LastNamed(q, tag)
  OBVIOUS
<1>2. l \in Nat /\ m = IF I # {} THEN Max(I) ELSE 0
  BY <1>1 DEF SelectLastInSeq, LastNamed
<1>3. I # {} => Max(I) \in I
  BY <1>1, <1>2, LastIsOf
<1>4. ASSUME l # 0, TagAt(q[l]) = tag PROVE m = l
  <2>1. l \in I /\ \A i \in I : i \in 1 .. l
    BY <1>1, <1>2, <1>4
  <2>2. \A x \in I : (\A y \in I : x >= y) => x = l
    BY <1>2, <2>1
  <2>3. \A y \in I : l >= y
    BY <1>2, <2>1
  <2>4. Max(I) = l
    BY <2>1, <2>2, <2>3 DEF Max
  <2> QED BY <1>2, <2>1, <2>4
<1> QED BY <1>1, <1>2, <1>3, <1>4

\* The fold behind ParseXmlOrHtml
PageReads == [open : Seq(1 .. Size), texts : SUBSET [at : 1 .. Size, under : SUBSET (1 .. Size)]]
EmptyPage == [open |-> <<>>, texts |-> {}]
PlacesOfPage == [n \in DOMAIN articlePage |-> n]
ArticleFolds(g) ==
    g = [T \in SUBSET (DOMAIN PlacesOfPage) |->
            IF T = {} THEN EmptyPage ELSE ReadTag(g[T \ {Max(T)}], PlacesOfPage[Max(T)])]

LEMMA ArticleUnfolds == ParseXmlOrHtml = (CHOOSE g : ArticleFolds(g))[DOMAIN PlacesOfPage].texts
BY DEF ParseXmlOrHtml, FoldLeft, MapThenFoldSet, ArticleFolds, EmptyPage, PlacesOfPage

\* What one token does to what was read
LEMMA ReadOne ==
    ASSUME articlePage \in Seq(ArticleTokens), NEW s \in PageReads, NEW n \in 1 .. Size
    PROVE  /\ ReadTag(s, n) \in PageReads
           /\ n \in TextTags => /\ ReadTag(s, n).open = s.open
                                /\ ReadTag(s, n).texts = s.texts \cup {[at |-> n, under |-> ToSet(s.open)]}
           /\ n \in OpenTags => /\ ReadTag(s, n).open = Append(s.open, n)
                                /\ ReadTag(s, n).texts = s.texts
           /\ n \notin TextTags /\ n \notin OpenTags /\ n \notin CloseTags =>
                  ReadTag(s, n).open = s.open /\ ReadTag(s, n).texts = s.texts
           /\ n \in CloseTags =>
                  /\ ReadTag(s, n).texts = s.texts
                  /\ Len(s.open) # 0 /\ TagAt(s.open[Len(s.open)]) = TagAt(n) =>
                         ReadTag(s, n).open = SubSeq(s.open, 1, Len(s.open) - 1)
<1>1. PICK q, x, t, r : q = s.open /\ x = s.texts /\ t = articlePage[n] /\ r = ReadTag(s, n)
  OBVIOUS
<1>2. PICK m : m = LastNamed(q, t.tag)
  OBVIOUS
<1>3. /\ q \in Seq(1 .. Size) /\ Len(q) \in Nat /\ x \in SUBSET [at : 1 .. Size, under : SUBSET (1 .. Size)]
      /\ s = [open |-> q, texts |-> x]
  BY <1>1 DEF PageReads
<1>4. m \in 0 .. Len(q) /\ (Len(q) # 0 /\ TagAt(q[Len(q)]) = TagAt(n) => m = Len(q))
  <2>1. t.tag = TagAt(n)
    BY <1>1 DEF TagAt
  <2>2. Len(q) \in Nat
    BY <1>3
  <2>3. m \in 0 .. Len(q) /\ (Len(q) # 0 /\ TagAt(q[Len(q)]) = t.tag => m = Len(q))
    BY <1>2, <2>2, LastNamedIs
  <2> QED BY <2>1, <2>3
<1>5. r = CASE t.kind = "text" -> [s EXCEPT !.texts = @ \cup {[at |-> n, under |-> ToSet(s.open)]}]
            [] t.kind = "open" -> IF t.tag \in Voids THEN s ELSE [s EXCEPT !.open = Append(@, n)]
            [] OTHER -> IF m = 0 THEN s ELSE [s EXCEPT !.open = SubSeq(@, 1, m - 1)]
  BY <1>1, <1>2, <1>3 DEF ReadTag, LastNamed
<1>6. t.kind \in {"text", "open", "close"}
  BY <1>1, PageIs
<1>7. /\ n \in TextTags <=> t.kind = "text"
      /\ n \in OpenTags <=> t.kind = "open" /\ t.tag \notin Voids
      /\ n \in CloseTags <=> t.kind = "close"
  BY <1>1 DEF TextTags, OpenTags, CloseTags, TagAt
<1>8. ToSet(q) \in SUBSET (1 .. Size) /\ Append(q, n) \in Seq(1 .. Size)
  <2>1. q \in Seq(1 .. Size)
    BY <1>3
  <2>2. \A i \in DOMAIN q : q[i] \in 1 .. Size
    <3>1. DOMAIN q = 1 .. Len(q)
      BY <2>1
    <3> QED BY <2>1, <3>1, ElementOfSeq
  <2>3. Append(q, n) \in Seq(1 .. Size)
    BY <2>1
  <2> QED BY <2>2, <2>3 DEF ToSet
<1>9. m # 0 => SubSeq(q, 1, m - 1) \in Seq(1 .. Size)
  <2>1. q \in Seq(1 .. Size) /\ m \in 0 .. Len(q)
    BY <1>3, <1>4
  <2>2. m # 0 => m \in 1 .. Len(q)
    BY <1>3, <2>1
  <2> QED BY <2>1, <2>2, FrontOf
<1>10. CASE t.kind = "text"
  <2>1. r = [open |-> q, texts |-> x \cup {[at |-> n, under |-> ToSet(q)]}]
    BY <1>1, <1>3, <1>5, <1>10
  <2>2. x \cup {[at |-> n, under |-> ToSet(q)]} \in SUBSET [at : 1 .. Size, under : SUBSET (1 .. Size)]
    BY <1>3, <1>8
  <2>3. r \in PageReads
    BY <1>3, <2>1, <2>2 DEF PageReads
  <2> QED BY <1>1, <1>7, <1>10, <2>1, <2>3
<1>11. CASE t.kind = "open" /\ t.tag \notin Voids
  <2>1. r = [open |-> Append(q, n), texts |-> x]
    BY <1>3, <1>5, <1>11
  <2>2. r \in PageReads
    BY <1>3, <1>8, <2>1 DEF PageReads
  <2> QED BY <1>1, <1>7, <1>11, <2>1, <2>2
<1>12. CASE t.kind = "open" /\ t.tag \in Voids
  <2>1. r = s
    BY <1>5, <1>12
  <2> QED BY <1>1, <1>7, <1>12, <2>1
<1>13. CASE t.kind = "close"
  <2>1. r = IF m = 0 THEN s ELSE [s EXCEPT !.open = SubSeq(@, 1, m - 1)]
    BY <1>5, <1>13
  <2>2. r = IF m = 0 THEN s ELSE [open |-> SubSeq(q, 1, m - 1), texts |-> x]
    <3>1. CASE m = 0
      BY <1>3, <2>1, <3>1
    <3>2. CASE m # 0
      <4>1. r = [s EXCEPT !.open = SubSeq(@, 1, m - 1)]
        BY <2>1, <3>2
      <4>2. r = [open |-> SubSeq(q, 1, m - 1), texts |-> x]
        BY <1>3, <4>1
      <4> QED BY <3>2, <4>2
    <3> QED BY <3>1, <3>2
  <2>3. r \in PageReads /\ r.texts = x
    BY <1>3, <1>9, <2>2 DEF PageReads
  <2>4. Len(q) # 0 /\ TagAt(q[Len(q)]) = TagAt(n) => r.open = SubSeq(q, 1, Len(q) - 1)
    BY <1>4, <2>2
  <2> QED BY <1>1, <1>7, <1>13, <2>3, <2>4
<1> QED BY <1>6, <1>10, <1>11, <1>12, <1>13

LEMMA ArticleReads ==
    ASSUME articlePage \in Seq(ArticleTokens)
    PROVE  \E g : /\ ParseXmlOrHtml = g[1 .. Size].texts /\ g[1 .. 0] = EmptyPage
                  /\ \A m \in 0 .. Size - 1 : g[1 .. m] \in PageReads => g[1 .. m + 1] = ReadTag(g[1 .. m], m + 1)
<1>1. /\ Size \in Nat /\ DOMAIN articlePage = 1 .. Size /\ DOMAIN PlacesOfPage = 1 .. Size
      /\ \A i \in 1 .. Size : PlacesOfPage[i] = i
  BY PageIs DEF PlacesOfPage
<1> DEFINE step == [p \in PageReads \X (1 .. Size) |-> ReadTag(p[1], p[2])]
<1>2. \A a \in PageReads : \A i \in 1 .. Size : ReadTag(a, i) \in PageReads /\ step[<<a, i>>] = ReadTag(a, i)
  BY ReadOne
<1>3. step \in [PageReads \X (1 .. Size) -> PageReads]
  BY <1>2
<1>4. EmptyPage \in PageReads
  <2>1. <<>> \in Seq(1 .. Size)
    BY LastOfPrefix
  <2> QED BY <2>1 DEF EmptyPage, PageReads
<1> HIDE DEF step
<1>5. PICK h : LeftFolds(h, Size, PageReads, EmptyPage, step)
  BY <1>1, <1>3, <1>4, LeftFoldExists
<1>6. ArticleFolds(h)
  <2>1. ASSUME NEW T \in SUBSET (1 .. Size)
        PROVE  h[T] = IF T = {} THEN EmptyPage ELSE ReadTag(h[T \ {Max(T)}], PlacesOfPage[Max(T)])
    <3>1. CASE T = {}
      BY <1>5, <3>1 DEF LeftFolds
    <3>2. CASE T # {}
      <4>1. Max(T) \in 1 .. Size /\ h[T \ {Max(T)}] \in PageReads /\ h[T] = step[<<h[T \ {Max(T)}], Max(T)>>]
        BY <1>5, <3>2 DEF LeftFolds
      <4> QED BY <1>1, <1>2, <3>2, <4>1
    <3> QED BY <3>1, <3>2
  <2>2. h = [T \in SUBSET (1 .. Size) |-> h[T]]
    BY <1>5 DEF LeftFolds
  <2> QED BY <1>1, <2>1, <2>2 DEF ArticleFolds
<1>7. PICK g : g = CHOOSE f : ArticleFolds(f)
  OBVIOUS
<1>8. ArticleFolds(g) /\ ParseXmlOrHtml = g[1 .. Size].texts
  BY <1>1, <1>6, <1>7, ArticleUnfolds
<1>9. \A T \in SUBSET (1 .. Size) :
        g[T] = IF T = {} THEN EmptyPage ELSE ReadTag(g[T \ {Max(T)}], PlacesOfPage[Max(T)])
  BY <1>1, <1>8 DEF ArticleFolds
<1>10. g[1 .. 0] = EmptyPage
  <2>1. 1 .. 0 = {} /\ {} \in SUBSET (1 .. Size)
    BY LastOfPrefix
  <2> QED BY <1>9, <2>1
<1>11. ASSUME NEW m \in 0 .. Size - 1 PROVE g[1 .. m + 1] = ReadTag(g[1 .. m], m + 1)
  <2>1. /\ 1 .. m + 1 \in SUBSET (1 .. Size) /\ 1 .. m + 1 # {} /\ m + 1 \in 1 .. Size
        /\ Max(1 .. m + 1) = m + 1 /\ (1 .. m + 1) \ {m + 1} = 1 .. m
    BY <1>1, PrefixOf
  <2> QED BY <1>1, <1>9, <2>1
<1> QED BY <1>8, <1>10, <1>11

\* What was read of the first n tokens
Read(s, n) ==
    /\ s \in PageReads /\ Nest(s.open, Above(n), n)
    /\ s.texts = {[at |-> k, under |-> Above(k)] : k \in TextTags \cap (1 .. n)}

LEMMA ReadNext ==
    ASSUME articlePage \in Seq(ArticleTokens), ClosedInOrder, NEW n \in 0 .. Size - 1, NEW s, Read(s, n)
    PROVE  Read(ReadTag(s, n + 1), n + 1)
<1>1. PICK c, j, r : c = Levels(OpenTags, CloseTags, Size) /\ j = n + 1 /\ r = ReadTag(s, j)
  OBVIOUS
<1>2. Heights(c, Size, OpenTags, CloseTags) /\ Size \in Nat /\ n \in Nat /\ j \in 1 .. Size
  BY <1>1, PageIs
<1>3. s \in PageReads /\ Nest(s.open, Above(n), n) /\ r \in PageReads
  BY <1>1, <1>2, ReadOne DEF Read
<1>4. TextTags \cap (1 .. j) = (TextTags \cap (1 .. n)) \cup (IF j \in TextTags THEN {j} ELSE {})
  <2>1. 1 .. j = (1 .. n) \cup {j}
    BY <1>1, <1>2
  <2> QED BY <2>1
<1>5. s.texts = {[at |-> k, under |-> Above(k)] : k \in TextTags \cap (1 .. n)}
  BY DEF Read
<1>6. CASE j \in TextTags
  <2>1. j \notin OpenTags /\ j \notin CloseTags
    BY <1>6 DEF TextTags, OpenTags, CloseTags
  <2>2. Above(j) = Above(n)
    BY <1>1, <1>2, <2>1, AroundText DEF Above
  <2>3. r.open = s.open /\ r.texts = s.texts \cup {[at |-> j, under |-> ToSet(s.open)]}
    BY <1>1, <1>2, <1>3, <1>6, ReadOne
  <2>4. Nest(r.open, Above(j), j)
    BY <1>1, <1>2, <1>3, <2>2, <2>3, NestStays
  <2>5. ToSet(s.open) = Above(j)
    BY <1>3, <2>2 DEF Nest
  <2>6. TextTags \cap (1 .. j) = (TextTags \cap (1 .. n)) \cup {j}
    BY <1>4, <1>6
  <2>7. r.texts = {[at |-> k, under |-> Above(k)] : k \in TextTags \cap (1 .. j)}
    BY <1>5, <2>3, <2>5, <2>6
  <2> QED BY <1>1, <1>3, <2>4, <2>7 DEF Read
<1>7. CASE j \notin TextTags
  <2>1. r.texts = {[at |-> k, under |-> Above(k)] : k \in TextTags \cap (1 .. j)}
    <3>1. r.texts = s.texts
      BY <1>1, <1>2, <1>3, <1>7, ReadOne
    <3>2. TextTags \cap (1 .. j) = TextTags \cap (1 .. n)
      BY <1>4, <1>7
    <3> QED BY <1>5, <3>1, <3>2
  <2>2. CASE j \in OpenTags
    <3>1. Above(j) = Above(n) \cup {j}
      BY <1>1, <1>2, <2>2, AroundOpen DEF Above
    <3>2. r.open = Append(s.open, j)
      BY <1>1, <1>2, <1>3, <2>2, ReadOne
    <3>3. Nest(r.open, Above(j), j)
      BY <1>1, <1>2, <1>3, <3>1, <3>2, NestOpens
    <3> QED BY <1>1, <1>3, <2>1, <3>3 DEF Read
  <2>3. CASE j \in CloseTags
    <3>1. PICK i \in 1 .. n : TagAt(i) = TagAt(j) /\ Inside(i, n) /\ TagsOpen(i, j) = 0
      <4>1. articlePage[j].kind = "close" /\ j \in DOMAIN articlePage /\ j - 1 = n
        BY <1>1, <1>2, <2>3, PageIs DEF CloseTags
      <4> QED BY <4>1 DEF ClosedInOrder
    <3>2. i \in Above(n) /\ c[j] = c[i - 1]
      <4>1. n \in 1 .. Size /\ i \in 1 .. Size /\ j \in i - 1 .. Size
        BY <1>1, <1>2, <3>1
      <4> QED BY <1>1, <3>1, <4>1, InsideIsAbove, TagsBetween
    <3>3. /\ Above(j) = Above(n) \ {i}
          /\ \A k \in Above(n) : k <= i
      BY <1>1, <1>2, <2>3, <3>2, AroundClose DEF Above
    <3>4. /\ Len(s.open) # 0 /\ s.open[Len(s.open)] = i
          /\ Nest(SubSeq(s.open, 1, Len(s.open) - 1), Above(j), j)
      <4>1. PICK q, A : q = s.open /\ A = Above(n)
        OBVIOUS
      <4>2. Nest(q, A, n) /\ i \in A /\ \A k \in A : k <= i
        BY <1>3, <3>2, <3>3, <4>1
      <4>3. Len(q) # 0 /\ q[Len(q)] = i /\ Nest(SubSeq(q, 1, Len(q) - 1), A \ {i}, n + 1)
        BY <1>2, <4>2, NestCloses
      <4> QED BY <1>1, <3>3, <4>1, <4>3
    <3>5. r.open = SubSeq(s.open, 1, Len(s.open) - 1)
      BY <1>1, <1>2, <1>3, <2>3, <3>1, <3>4, ReadOne
    <3> QED BY <1>1, <1>3, <2>1, <3>4, <3>5 DEF Read
  <2>4. CASE j \notin OpenTags /\ j \notin CloseTags
    <3>1. Above(j) = Above(n)
      BY <1>1, <1>2, <2>4, AroundText DEF Above
    <3>2. r.open = s.open
      BY <1>1, <1>2, <1>3, <1>7, <2>4, ReadOne
    <3>3. Nest(r.open, Above(j), j)
      BY <1>1, <1>2, <1>3, <3>1, <3>2, NestStays
    <3> QED BY <1>1, <1>3, <2>1, <3>3 DEF Read
  <2> QED BY <2>2, <2>3, <2>4
<1> QED BY <1>6, <1>7

LEMMA TextsAreRead ==
    ASSUME articlePage \in Seq(ArticleTokens), ClosedInOrder
    PROVE  ParseXmlOrHtml = {[at |-> k, under |-> Above(k)] : k \in TextTags}
<1>1. PICK g : /\ ParseXmlOrHtml = g[1 .. Size].texts /\ g[1 .. 0] = EmptyPage
               /\ \A m \in 0 .. Size - 1 : g[1 .. m] \in PageReads => g[1 .. m + 1] = ReadTag(g[1 .. m], m + 1)
  BY ArticleReads
<1>2. Size \in Nat
  BY PageIs
<1> DEFINE Good == {m \in Nat : m <= Size => Read(g[1 .. m], m)}
<1>3. 0 \in Good
  <2>1. Above(0) = {}
    BY PageIs, AroundNothing DEF Above
  <2>2. 1 .. 0 = {} /\ <<>> \in Seq(1 .. Size) /\ <<>> \in Seq(1 .. 0) /\ DOMAIN <<>> = {}
    BY LastOfPrefix
  <2>3. EmptyPage \in PageReads
    BY <2>2 DEF EmptyPage, PageReads
  <2>4. ToSet(<<>>) = {}
    BY <2>2 DEF ToSet
  <2>5. Nest(<<>>, {}, 0)
    BY <2>2, <2>4 DEF Nest
  <2>6. Read(EmptyPage, 0)
    BY <2>1, <2>2, <2>3, <2>5 DEF Read, EmptyPage
  <2> QED BY <1>1, <2>6
<1>4. ASSUME NEW m \in Good PROVE m + 1 \in Good
  <2>1. SUFFICES ASSUME m + 1 <= Size PROVE Read(g[1 .. m + 1], m + 1)
    OBVIOUS
  <2>2. m \in 0 .. Size - 1 /\ Read(g[1 .. m], m)
    BY <1>2, <2>1
  <2>3. g[1 .. m + 1] = ReadTag(g[1 .. m], m + 1)
    BY <1>1, <2>2 DEF Read
  <2> QED BY <2>2, <2>3, ReadNext
<1>5. Good = Nat
  <2> HIDE DEF Good
  <2>1. Good \in SUBSET Nat
    BY DEF Good
  <2> QED BY <1>3, <1>4, <2>1, NatSetInduction
<1>6. Read(g[1 .. Size], Size)
  BY <1>2, <1>5
<1>7. TextTags \cap (1 .. Size) = TextTags
  BY DEF TextTags
<1> QED BY <1>1, <1>6, <1>7 DEF Read

LEMMA RootIs ==
    ASSUME articlePage \in Seq(ArticleTokens)
    PROVE  ContentRoot \in 0 .. Size
<1>1. PICK best, E : /\ best = SelectInSeq(Containers, LAMBDA tag : Elements(tag) # {})
                     /\ E = Elements(Containers[best])
  OBVIOUS
<1>2. ContentRoot = IF best = 0 THEN 0 ELSE CHOOSE n \in E : \A m \in E : n <= m
  BY <1>1 DEF ContentRoot
<1>3. Size \in Nat /\ \A tag : Elements(tag) \in SUBSET (1 .. Size)
  BY PageIs DEF Elements
<1>4. CASE best = 0
  BY <1>2, <1>3, <1>4
<1>5. CASE best # 0
  <2>1. E # {}
    <3>1. PICK I : I = {i \in 1 .. Len(Containers) : Elements(Containers[i]) # {}}
      OBVIOUS
    <3>2. best = IF I # {} THEN Min(I) ELSE 0
      BY <1>1, <3>1 DEF SelectInSeq
    <3>3. I # {} /\ best = Min(I) /\ I \in SUBSET (1 .. Len(Containers)) /\ Len(Containers) \in Nat
      BY <1>5, <3>1, <3>2, ArticleAssumption
    <3>4. best \in I
      BY <3>3, FirstIsOf
    <3> QED BY <1>1, <3>1, <3>4
  <2>2. E \in SUBSET (1 .. Size)
    BY <1>1, <1>3
  <2>3. Min(E) \in E /\ \A y \in E : Min(E) <= y
    BY <1>3, <2>1, <2>2, FirstIsOf
  <2>4. ContentRoot \in E
    BY <1>2, <1>5, <2>3
  <2> QED BY <1>3, <2>2, <2>4
<1> QED BY <1>4, <1>5

LEMMA ArticleFromText == ASSUME articlePage \in Seq(ArticleTokens) PROVE TextIsOfTheArticle
<1>1. SUFFICES ASSUME ClosedInOrder PROVE TextIsOfTheArticle
  BY DEF TextIsOfTheArticle
<1>2. PICK root : root = ContentRoot
  OBVIOUS
<1>3. Size \in Nat /\ root \in 0 .. Size /\ DOMAIN articlePage = 1 .. Size
  BY <1>2, PageIs, RootIs
<1>4. PICK read : read = {[at |-> k, under |-> Above(k)] : k \in TextTags} /\ read = ParseXmlOrHtml
  BY <1>1, TextsAreRead
<1>5. CleanBodyText = {t.at : t \in {t \in read : /\ root = 0 \/ root \in t.under
                                                  /\ \A k \in t.under : k > root => TagAt(k) \notin Dropped}}
  BY <1>2, <1>4 DEF CleanBodyText
<1>6. CleanBodyText = {k \in TextTags : /\ root = 0 \/ root \in Above(k)
                                        /\ \A j \in Above(k) : j > root => TagAt(j) \notin Dropped}
  <2>1. ASSUME NEW k \in CleanBodyText
        PROVE  /\ k \in TextTags /\ (root = 0 \/ root \in Above(k))
               /\ \A j \in Above(k) : j > root => TagAt(j) \notin Dropped
    <3>1. PICK t \in read : /\ k = t.at /\ (root = 0 \/ root \in t.under)
                            /\ \A j \in t.under : j > root => TagAt(j) \notin Dropped
      BY <1>5
    <3>2. PICK i \in TextTags : t = [at |-> i, under |-> Above(i)]
      BY <1>4
    <3>3. t.at = i /\ t.under = Above(i)
      BY <3>2
    <3> QED BY <3>1, <3>3
  <2>2. ASSUME NEW k \in TextTags, root = 0 \/ root \in Above(k),
               \A j \in Above(k) : j > root => TagAt(j) \notin Dropped
        PROVE  k \in CleanBodyText
    <3>1. PICK t : t = [at |-> k, under |-> Above(k)]
      OBVIOUS
    <3>2. t \in read /\ t.at = k /\ t.under = Above(k)
      BY <1>4, <3>1
    <3> QED BY <1>5, <2>2, <3>2
  <2> QED BY <2>1, <2>2
<1>7. ASSUME NEW n \in TextTags
      PROVE  /\ root = 0 \/ root \in Above(n) <=> root = 0 \/ (root <= n /\ Inside(root, n))
             /\ (\A j \in Above(n) : j > root => TagAt(j) \notin Dropped)
                    <=> ~\E j \in root + 1 .. n : Inside(j, n) /\ TagAt(j) \in Dropped
  <2>1. n \in 1 .. Size
    BY DEF TextTags
  <2>2. \A j \in 1 .. n : Inside(j, n) <=> j \in Above(n)
    BY <2>1, InsideIsAbove
  <2>3. \A j \in Above(n) : j \in 1 .. n
    <3>1. Heights(Levels(OpenTags, CloseTags, Size), Size, OpenTags, CloseTags)
      BY PageIs
    <3>2. \A j \in OpenTags : j \in 1 .. Size
      BY <3>1, HeightsAre
    <3> QED BY <1>3, <2>1, <3>2 DEF Above, Around
  <2>4. root # 0 => (root \in Above(n) <=> (root <= n /\ Inside(root, n)))
    BY <1>3, <2>1, <2>2, <2>3
  <2>5. \A j : j \in root + 1 .. n <=> j \in 1 .. n /\ j > root
    BY <1>3, <2>1
  <2> QED BY <2>2, <2>3, <2>4, <2>5
<1>8. \A n : n \in TextTags <=> n \in DOMAIN articlePage /\ articlePage[n].kind = "text"
  BY <1>3 DEF TextTags
<1>9. CleanBodyText = {n \in DOMAIN articlePage :
        /\ articlePage[n].kind = "text"
        /\ root = 0 \/ (root <= n /\ Inside(root, n))
        /\ ~\E j \in root + 1 .. n : Inside(j, n) /\ TagAt(j) \in Dropped}
  <2>1. \A n : n \in CleanBodyText <=>
            /\ n \in DOMAIN articlePage /\ articlePage[n].kind = "text"
            /\ root = 0 \/ (root <= n /\ Inside(root, n))
            /\ ~\E j \in root + 1 .. n : Inside(j, n) /\ TagAt(j) \in Dropped
    BY <1>6, <1>7, <1>8
  <2> QED BY <2>1
<1> QED BY <1>2, <1>9 DEF TextIsOfTheArticle

-----------------------------------------------------------------------------
(***************************************************************************)
(* Raw items.                                                              *)
(***************************************************************************)
SameButFor(i, day) == [i EXCEPT !.collected = day]

LEMMA CollectedElsewhen ==
    ASSUME TextAssumption, NEW i \in RawItems, NEW day, NEW other, other = SameButFor(i, day)
    PROVE  /\ other.id = i.id /\ other.source = i.source /\ other.urlSource = i.urlSource /\ other.url = i.url
           /\ other.link = i.link /\ other.title = i.title /\ other.name = i.name /\ other.version = i.version
           /\ other.text = i.text /\ other.post = i.post /\ other.date = i.date /\ other.itemDate = i.itemDate
           /\ other.license = i.license /\ other.rights = i.rights /\ other.author = i.author
           /\ other.status = i.status
BY DEF TextAssumption, SameButFor

LEMMA DocumentsOfPayload ==
    ASSUME TextAssumption, NEW i \in RawItems, NEW day
    PROVE  NormalizedDocuments(SameButFor(i, day)) = NormalizedDocuments(i)
<1>1. PICK other : other = SameButFor(i, day)
  OBVIOUS
<1>2. /\ other.id = i.id /\ other.source = i.source /\ other.urlSource = i.urlSource /\ other.url = i.url
      /\ other.link = i.link /\ other.title = i.title /\ other.name = i.name /\ other.version = i.version
      /\ other.text = i.text /\ other.post = i.post /\ other.date = i.date /\ other.itemDate = i.itemDate
      /\ other.license = i.license /\ other.rights = i.rights /\ other.author = i.author
      /\ other.status = i.status
  BY <1>1, CollectedElsewhen
<1>3. /\ SourceKey(other, Nil) = SourceKey(i, Nil) /\ PublishedOf(other) = PublishedOf(i)
  BY <1>2 DEF SourceKey, PublishedOf
<1>4. /\ ReleaseNote(other) = ReleaseNote(i) /\ Question(other) = Question(i) /\ ForumPost(other) = ForumPost(i)
  BY <1>2, <1>3 DEF ReleaseNote, Question, ForumPost
<1>5. Paper(other) = Paper(i) /\ ChromeNotes(other) = ChromeNotes(i) /\ ReactPost(other) = ReactPost(i)
  BY <1>2, <1>3 DEF Paper, ChromeNotes, ReactPost
<1>6. /\ OriginTrial(other) = OriginTrial(i) /\ PackageRelease(other) = PackageRelease(i)
      /\ Generic(other) = Generic(i)
  BY <1>2, <1>3 DEF OriginTrial, PackageRelease, Generic
<1> QED BY <1>1, <1>3, <1>4, <1>5, <1>6 DEF NormalizedDocuments

Dated(d, i) == d.date \in {Nil, i.date, i.itemDate} /\ (d.author # Nil => d.license # Nil)

LEMMA DocumentsAreDated ==
    ASSUME TextAssumption, NEW i \in RawItems, NEW d \in NormalizedDocuments(i)
    PROVE  Dated(d, i)
<1>1. Nil \notin {"mit-or-apache-2.0", "cc0-1.0", "cc-by-4.0"}
  BY DEF TextAssumption
<1>2. PublishedOf(i) \in {Nil, i.date, i.itemDate}
  BY DEF PublishedOf, Or
<1>3. Dated(ReleaseNote(i), i) /\ Dated(Question(i), i) /\ Dated(ForumPost(i), i)
  BY <1>1, <1>2 DEF Dated, ReleaseNote, Question, ForumPost, Normalized
<1>4. Dated(Paper(i), i) /\ Dated(ChromeNotes(i), i) /\ Dated(ReactPost(i), i)
  BY <1>1, <1>2 DEF Dated, Paper, ChromeNotes, ReactPost, Normalized
<1>5. Dated(OriginTrial(i), i) /\ Dated(PackageRelease(i), i) /\ Dated(Generic(i), i)
  BY <1>1, <1>2 DEF Dated, OriginTrial, PackageRelease, Generic, Normalized
<1>6. PICK key : key = SourceKey(i, Nil)
  OBVIOUS
<1>7. \/ d \in {ReleaseNote(i), Question(i), ForumPost(i)} \/ d \in {Paper(i), ChromeNotes(i), ReactPost(i)}
      \/ d \in {OriginTrial(i), PackageRelease(i), Generic(i)}
  BY DEF NormalizedDocuments
<1> QED BY <1>3, <1>4, <1>5, <1>7

LEMMA ItemsGiveSomething ==
    ASSUME NEW i
    PROVE  NormalizedDocuments(i) # {} \/ Observations(i) # {}
<1>1. PICK key : key = SourceKey(i, Nil)
  OBVIOUS
<1>2. key \notin {"npm_downloads", "github_search", "huggingface_hub"} => NormalizedDocuments(i) # {}
  BY <1>1 DEF NormalizedDocuments
<1>3. key \in {"npm_downloads", "github_search", "huggingface_hub"} => Observations(i) # {}
  BY <1>1 DEF Observations
<1> QED BY <1>2, <1>3

LEMMA RevisionsFromItems == ASSUME TextAssumption, TextTypeOK PROVE RevisionsAreStable
<1>1. SUFFICES ASSUME rawItem # Nil PROVE RevisionsAreStable
  BY DEF RevisionsAreStable
<1>2. rawItem \in RawItems
  BY <1>1 DEF TextTypeOK
<1>3. \A day \in 0 .. 9 : NormalizedDocuments([rawItem EXCEPT !.collected = day]) = NormalizedDocuments(rawItem)
  BY <1>2, DocumentsOfPayload DEF SameButFor
<1>4. \A d \in NormalizedDocuments(rawItem) :
        d.date \in {Nil, rawItem.date, rawItem.itemDate} /\ (d.author # Nil => d.license # Nil)
  BY <1>2, DocumentsAreDated DEF Dated
<1>5. NormalizedDocuments(rawItem) # {} \/ Observations(rawItem) # {}
  BY ItemsGiveSomething
<1> QED BY <1>3, <1>4, <1>5 DEF RevisionsAreStable

(***************************************************************************)
(* When everything that is opened is closed again, and as much is closed   *)
(* as was opened, everything that is closed was opened.                    *)
(***************************************************************************)
Closing(c, j, k) == j < k /\ c[k] = c[j - 1] /\ \A m \in j .. k - 1 : c[m] > c[j - 1]

LEMMA ClosedWasOpened ==
    ASSUME NEW c, NEW N, NEW O, NEW C, Heights(c, N, O, C), c[N] = 0,
           \A j \in O : \E k \in C : Closing(c, j, k), NEW n \in C
    PROVE  \E j \in O : Closing(c, j, n)
<1>1. /\ N \in Nat /\ n \in 1 .. N /\ n \in Nat /\ n - 1 \in 0 .. N /\ n \notin O
      /\ c[n] = c[n - 1] - 1 /\ c[0] = 0
      /\ \A m \in 0 .. N : c[m] \in Int
      /\ \A m \in 1 .. N : (m \in O /\ c[m] = c[m - 1] + 1) \/ (m \notin O /\ c[m] <= c[m - 1])
  <2>1. N \in Nat /\ n \in 1 .. N /\ n \notin O /\ c[0] = 0 /\ \A m \in 0 .. N : c[m] \in Int
    BY DEF Heights
  <2>2. n \in Nat /\ n - 1 \in 0 .. N /\ c[n] = c[n - 1] - 1
    BY <2>1 DEF Heights
  <2>3. ASSUME NEW m \in 1 .. N PROVE (m \in O /\ c[m] = c[m - 1] + 1) \/ (m \notin O /\ c[m] <= c[m - 1])
    <3>1. m \in 0 .. N /\ m - 1 \in 0 .. N
      BY <2>1
    <3>2. c[m] \in Int /\ c[m - 1] \in Int
      BY <2>1, <3>1
    <3>3. /\ m \in O => c[m] = c[m - 1] + 1
          /\ m \in C => c[m] = c[m - 1] - 1
          /\ m \notin O /\ m \notin C => c[m] = c[m - 1]
          /\ ~(m \in O /\ m \in C)
      BY DEF Heights
    <3> QED BY <3>2, <3>3
  <2> QED BY <2>1, <2>2, <2>3
<1>2. PICK v : v = c[n] /\ v \in Int /\ c[n - 1] = v + 1
  BY <1>1
<1> DEFINE Low == {j \in 1 .. n : c[j - 1] <= v}
<1>3. ASSUME NEW j \in 1 .. n PROVE j \in 1 .. N /\ j - 1 \in 0 .. N /\ c[j - 1] \in Int /\ c[j] \in Int
  <2>1. j \in 1 .. N /\ j - 1 \in 0 .. N /\ j \in 0 .. N
    BY <1>1
  <2> QED BY <1>1, <2>1
<1>4. CASE Low # {}
  <2>1. PICK j \in Low : \A i \in Low : j >= i
    <3>1. Low \in SUBSET (1 .. n)
      OBVIOUS
    <3> QED BY <1>1, <1>4, <3>1, LastOne
  <2>2. j \in 1 .. n /\ c[j - 1] <= v /\ j # n /\ j < n /\ j \in 1 .. N /\ c[j - 1] \in Int
    BY <1>1, <1>2, <1>3, <2>1
  <2>3. ASSUME NEW m \in j .. n - 1 PROVE c[m] > v
    <3>1. m + 1 \in 1 .. n /\ m + 1 > j /\ m + 1 - 1 = m
      BY <1>1, <2>2
    <3>2. m + 1 \notin Low
      BY <2>1, <2>2, <3>1
    <3>3. c[m] \in Int /\ ~(c[m] <= v)
      BY <1>3, <3>1, <3>2
    <3> QED BY <1>2, <3>3
  <2>4. c[j] > v
    <3>1. j \in j .. n - 1
      BY <1>1, <2>2
    <3> QED BY <2>3, <3>1
  <2>5. j \in O /\ c[j - 1] = v
    <3>1. (j \in O /\ c[j] = c[j - 1] + 1) \/ (j \notin O /\ c[j] <= c[j - 1])
      BY <1>1, <2>2
    <3>2. c[j] \in Int /\ c[j - 1] \in Int /\ c[j - 1] <= v /\ c[j] > v
      BY <1>3, <2>2, <2>4
    <3> QED BY <1>2, <3>1, <3>2
  <2>6. Closing(c, j, n)
    BY <1>2, <2>2, <2>3, <2>5 DEF Closing
  <2> QED BY <2>5, <2>6
<1>5. CASE Low = {}
  <2>1. v < 0
    <3>1. 1 \in 1 .. n /\ 1 - 1 = 0
      BY <1>1
    <3>2. 1 \notin Low
      BY <1>5
    <3>3. ~(c[1 - 1] <= v)
      BY <3>1, <3>2
    <3> QED BY <1>1, <1>2, <3>1, <3>3
  <2> DEFINE Deep == {m \in 1 .. N : m >= n /\ c[m] <= v}
  <2>2. PICK p \in Deep : \A i \in Deep : p >= i
    <3>1. n \in Deep /\ Deep \in SUBSET (1 .. N)
      BY <1>1, <1>2
    <3> QED BY <1>1, <3>1, LastOne
  <2>3. p \in 1 .. N /\ p >= n /\ c[p] <= v /\ p # N /\ p + 1 \in 1 .. N /\ p + 1 - 1 = p /\ c[p] \in Int
    BY <1>1, <1>2, <2>1, <2>2
  <2>4. ASSUME NEW m \in p + 1 .. N PROVE c[m] > v /\ c[m] \in Int
    <3>1. m \in 1 .. N /\ m >= n /\ m > p /\ m \in 0 .. N
      BY <1>1, <2>3
    <3>2. m \notin Deep
      BY <2>2, <2>3, <3>1
    <3>3. c[m] \in Int
      BY <1>1, <3>1
    <3> QED BY <1>2, <3>1, <3>2, <3>3
  <2>5. c[p + 1] > v /\ c[p + 1] \in Int
    BY <1>1, <2>3, <2>4
  <2>6. p + 1 \in O /\ c[p] = v
    BY <1>1, <1>2, <2>3, <2>5
  <2>7. PICK k \in C : Closing(c, p + 1, k)
    BY <2>6
  <2>8. k \in 1 .. N /\ k > p + 1 /\ c[k] = v
    BY <2>3, <2>6, <2>7 DEF Closing, Heights
  <2>9. k \in p + 1 .. N
    BY <1>1, <2>3, <2>8
  <2> QED BY <1>2, <2>4, <2>8, <2>9
<1> QED BY <1>4, <1>5

\* A text stands inside of what is open around it.
LEMMA AroundIsBetween ==
    ASSUME NEW c, NEW N, NEW O, NEW C, Heights(c, N, O, C),
           \A j \in O : \E k \in C : Closing(c, j, k), NEW n \in 1 .. N, n \notin C, NEW j \in O, j <= n
    PROVE  j \in Around(c, O, n) <=> \E k \in C : n <= k /\ Closing(c, j, k)
<1>1. N \in Nat /\ n \in Nat /\ j \in 1 .. N /\ j \in Nat /\ c[j - 1] \in Int
  BY HeightsAre
<1>2. ASSUME j \in Around(c, O, n) PROVE \E k \in C : n <= k /\ Closing(c, j, k)
  <2>1. PICK k \in C : Closing(c, j, k)
    OBVIOUS
  <2>2. k \in 1 .. N /\ j < k /\ c[k] = c[j - 1]
    BY <2>1 DEF Heights, Closing
  <2>3. \A m \in j .. n : c[m] > c[j - 1]
    BY <1>2 DEF Around
  <2>4. k \notin j .. n
    BY <1>1, <2>2, <2>3
  <2>5. n <= k
    BY <1>1, <2>2, <2>4
  <2> QED BY <2>1, <2>5
<1>3. ASSUME NEW k \in C, n <= k, Closing(c, j, k) PROVE j \in Around(c, O, n)
  <2>1. k \in 1 .. N /\ n # k
    BY <1>3 DEF Heights
  <2>2. \A m \in j .. n : m \in j .. k - 1
    BY <1>1, <1>3, <2>1
  <2>3. \A m \in j .. n : c[m] > c[j - 1]
    BY <1>3, <2>2 DEF Closing
  <2> QED BY <2>3 DEF Around
<1> QED BY <1>2, <1>3

(***************************************************************************)
(* The markup of a page.                                                   *)
(***************************************************************************)
Span == Len(markup)
OpenMarks == {m \in 1 .. Span : markup[m].kind = "open" /\ ~markup[m].void}
CloseMarks == {m \in 1 .. Span : markup[m].kind = "close"}
TextMarks == {m \in 1 .. Span : markup[m].kind = "text"}
Level == Levels(OpenMarks, CloseMarks, Span)
Outside(n) == Around(Level, OpenMarks, n)
MarkupTyped == markup \in Seq(MarkupTokens)

LEMMA MarkupIs ==
    ASSUME TextAssumption, MarkupTyped
    PROVE  /\ Span \in Nat /\ DOMAIN markup = 1 .. Span
           /\ \A m \in 1 .. Span : /\ markup[m].kind \in {"text", "open", "close"}
                                   /\ markup[m].hidden \in BOOLEAN /\ markup[m].void \in BOOLEAN
           /\ Heights(Level, Span, OpenMarks, CloseMarks)
<1>1. Span \in Nat /\ DOMAIN markup = 1 .. Span /\ \A m \in 1 .. Span : markup[m] \in MarkupTokens
  BY DEF Span, MarkupTyped
<1>2. \A m \in 1 .. Span : /\ markup[m].kind \in {"text", "open", "close"}
                           /\ markup[m].hidden \in BOOLEAN /\ markup[m].void \in BOOLEAN
  BY <1>1 DEF TextAssumption
<1>3. OpenMarks \in SUBSET (1 .. Span) /\ CloseMarks \in SUBSET (1 .. Span) /\ OpenMarks \cap CloseMarks = {}
  BY DEF OpenMarks, CloseMarks
<1>4. Heights(Level, Span, OpenMarks, CloseMarks)
  BY <1>1, <1>3, LevelsAreHeights DEF Level
<1> QED BY <1>1, <1>2, <1>4

LEMMA MarksBetween ==
    ASSUME TextAssumption, MarkupTyped, NEW j \in 1 .. Span, NEW n \in j - 1 .. Span
    PROVE  /\ Opens(j, n) > Closes(j, n) <=> Level[n] > Level[j - 1]
           /\ Opens(j, n) = Closes(j, n) <=> Level[n] = Level[j - 1]
<1>1. Span \in Nat
  BY MarkupIs
<1>2. \A m \in j .. n : m \in 1 .. Span
  BY <1>1
<1>3. /\ {m \in j .. n : markup[m].kind = "open" /\ ~markup[m].void} = OpenMarks \cap (j .. n)
      /\ {m \in j .. n : markup[m].kind = "close"} = CloseMarks \cap (j .. n)
  BY <1>2 DEF OpenMarks, CloseMarks
<1>4. Opens(j, n) = HowMany(OpenMarks, j, n) /\ Closes(j, n) = HowMany(CloseMarks, j, n)
  BY <1>3 DEF Opens, Closes, HowMany
<1>5. PICK N, O, C : N = Span /\ O = OpenMarks /\ C = CloseMarks
  OBVIOUS
<1>6. CountsAgree(O, C, Levels(O, C, N), j, n)
  <2>1. N \in Nat /\ j \in 1 .. N /\ n \in j - 1 .. N
    BY <1>1, <1>5
  <2> QED BY <2>1, LevelsAgree
<1>7. Level = Levels(O, C, N)
  BY <1>5 DEF Level
<1>8. CountsAgree(OpenMarks, CloseMarks, Level, j, n)
  BY <1>5, <1>6, <1>7
<1> QED BY <1>4, <1>8 DEF CountsAgree

LEMMA PairsClose ==
    ASSUME TextAssumption, MarkupTyped, NEW j \in 1 .. Span, NEW k \in j .. Span
    PROVE  Pairs(j, k) <=> j \in OpenMarks /\ k \in CloseMarks /\ Closing(Level, j, k)
<1>1. Span \in Nat /\ k \in 1 .. Span /\ j <= k /\ k \in j - 1 .. Span
  BY MarkupIs
<1>2. \A m \in j .. k - 1 : m \in j - 1 .. Span
  BY <1>1
<1>3. /\ Opens(j, k) = Closes(j, k) <=> Level[k] = Level[j - 1]
      /\ \A m \in j .. k - 1 : Opens(j, m) > Closes(j, m) <=> Level[m] > Level[j - 1]
  BY <1>1, <1>2, MarksBetween
<1>4. /\ j \in OpenMarks <=> markup[j].kind = "open" /\ ~markup[j].void
      /\ k \in CloseMarks <=> markup[k].kind = "close"
  BY <1>1 DEF OpenMarks, CloseMarks
<1>5. j \in OpenMarks /\ k \in CloseMarks => j < k
  BY <1>1, <1>4
<1> QED BY <1>3, <1>4, <1>5 DEF Pairs, Closing

\* What a page whose tags are well nested has
LEMMA NestedClose ==
    ASSUME TextAssumption, MarkupTyped, WellNested
    PROVE  /\ \A j \in OpenMarks : \E k \in CloseMarks : Closing(Level, j, k) /\ markup[j].tag = markup[k].tag
           /\ \A n \in CloseMarks : \E j \in OpenMarks : Closing(Level, j, n) /\ markup[j].tag = markup[n].tag
<1>1. Span \in Nat /\ DOMAIN markup = 1 .. Span /\ Heights(Level, Span, OpenMarks, CloseMarks)
  BY MarkupIs
<1>2. ASSUME NEW j \in OpenMarks
      PROVE  \E k \in CloseMarks : Closing(Level, j, k) /\ markup[j].tag = markup[k].tag
  <2>1. j \in 1 .. Span /\ markup[j].kind = "open" /\ ~markup[j].void
    BY DEF OpenMarks
  <2>2. PICK k \in j + 1 .. Span : Pairs(j, k) /\ markup[j].tag = markup[k].tag
    BY <1>1, <2>1 DEF WellNested, Span
  <2>3. k \in j .. Span
    BY <1>1, <2>1
  <2> QED BY <2>1, <2>2, <2>3, PairsClose
<1>3. Level[Span] = 0
  <2>1. CASE Span = 0
    BY <1>1, <2>1 DEF Heights
  <2>2. CASE Span # 0
    <3>1. 1 \in 1 .. Span /\ Span \in 1 - 1 .. Span /\ 1 - 1 = 0
      BY <1>1, <2>2
    <3>2. Opens(1, Span) = Closes(1, Span)
      BY DEF WellNested, Span
    <3>3. Level[Span] = Level[1 - 1]
      BY <3>1, <3>2, MarksBetween
    <3> QED BY <1>1, <3>1, <3>3 DEF Heights
  <2> QED BY <2>1, <2>2
<1>4. ASSUME NEW n \in CloseMarks
      PROVE  \E j \in OpenMarks : Closing(Level, j, n) /\ markup[j].tag = markup[n].tag
  <2>1. \A j \in OpenMarks : \E k \in CloseMarks : Closing(Level, j, k)
    BY <1>2
  <2>2. PICK j \in OpenMarks : Closing(Level, j, n)
    BY <1>1, <1>3, <2>1, ClosedWasOpened
  <2>3. PICK k \in CloseMarks : Closing(Level, j, k) /\ markup[j].tag = markup[k].tag
    BY <1>2
  <2>4. k = n
    <3>1. k \in 1 .. Span /\ n \in 1 .. Span /\ j \in 1 .. Span
      BY DEF OpenMarks, CloseMarks
    <3>2. /\ j < k /\ Level[k] = Level[j - 1] /\ \A m \in j .. k - 1 : Level[m] > Level[j - 1]
          /\ j < n /\ Level[n] = Level[j - 1] /\ \A m \in j .. n - 1 : Level[m] > Level[j - 1]
      BY <2>2, <2>3 DEF Closing
    <3>3. Level[j - 1] \in Int
      BY <1>1, HeightsAre
    <3>4. k \notin j .. n - 1 /\ n \notin j .. k - 1
      BY <3>2, <3>3
    <3> QED BY <1>1, <3>1, <3>2, <3>4
  <2> QED BY <2>2, <2>3, <2>4
<1> QED BY <1>2, <1>4

LastTagged(q, tag) == SelectLastInSeq(q, LAMBDA e : e.tag = tag)
LEMMA LastTaggedIs ==
    ASSUME NEW q, Len(q) \in Nat, NEW tag
    PROVE  /\ LastTagged(q, tag) \in 0 .. Len(q)
           /\ Len(q) # 0 /\ q[Len(q)].tag = tag => LastTagged(q, tag) = Len(q)
<1>1. PICK l, I, m : l = Len(q) /\ I = {i \in 1 .. l : q[i].tag = tag} /\ m = LastTagged(q, tag)
  OBVIOUS
<1>2. l \in Nat /\ m = IF I # {} THEN Max(I) ELSE 0
  BY <1>1 DEF SelectLastInSeq, LastTagged
<1>3. I # {} => Max(I) \in I
  BY <1>1, <1>2, LastIsOf
<1>4. ASSUME l # 0, q[l].tag = tag PROVE m = l
  <2>1. l \in I /\ \A i \in I : i \in 1 .. l
    BY <1>1, <1>2, <1>4
  <2>2. \A x \in I : (\A y \in I : x >= y) => x = l
    BY <1>2, <2>1
  <2>3. \A y \in I : l >= y
    BY <1>2, <2>1
  <2>4. Max(I) = l
    BY <2>1, <2>2, <2>3 DEF Max
  <2> QED BY <1>2, <2>1, <2>4
<1> QED BY <1>1, <1>2, <1>3, <1>4

\* The fold behind SanitizeHtml
MarkEntries == [tag : {markup[m].tag : m \in 1 .. Span}, hidden : BOOLEAN]
Sanitized == [open : Seq(MarkEntries), kept : SUBSET (1 .. Span)]
NothingSanitized == [open |-> <<>>, kept |-> {}]
PlacesOfMarkup == [n \in DOMAIN markup |-> n]
MarkupFolds(g) ==
    g = [T \in SUBSET (DOMAIN PlacesOfMarkup) |->
            IF T = {} THEN NothingSanitized ELSE ReadToken(g[T \ {Max(T)}], PlacesOfMarkup[Max(T)])]

LEMMA MarkupUnfolds == SanitizeHtml = (CHOOSE g : MarkupFolds(g))[DOMAIN PlacesOfMarkup].kept
BY DEF SanitizeHtml, FoldLeft, MapThenFoldSet, MarkupFolds, NothingSanitized, PlacesOfMarkup

Opening(n, q) == [tag |-> markup[n].tag, hidden |-> markup[n].hidden \/ Hiding(q)]

\* What one token does to what was kept
LEMMA SanitizeOne ==
    ASSUME TextAssumption, MarkupTyped, NEW s \in Sanitized, NEW n \in 1 .. Span
    PROVE  /\ ReadToken(s, n) \in Sanitized
           /\ n \in TextMarks =>
                  /\ ReadToken(s, n).open = s.open
                  /\ ReadToken(s, n).kept = IF Hiding(s.open) THEN s.kept ELSE s.kept \cup {n}
           /\ n \notin TextMarks => ReadToken(s, n).kept = s.kept
           /\ n \in OpenMarks => ReadToken(s, n).open = Append(s.open, Opening(n, s.open))
           /\ n \notin TextMarks /\ n \notin OpenMarks /\ n \notin CloseMarks => ReadToken(s, n).open = s.open
           /\ n \in CloseMarks /\ Len(s.open) # 0 /\ s.open[Len(s.open)].tag = markup[n].tag =>
                  ReadToken(s, n).open = SubSeq(s.open, 1, Len(s.open) - 1)
<1>1. PICK q, x, t, r : q = s.open /\ x = s.kept /\ t = markup[n] /\ r = ReadToken(s, n)
  OBVIOUS
<1>2. PICK m, e : m = LastTagged(q, t.tag) /\ e = Opening(n, q)
  OBVIOUS
<1>3. /\ q \in Seq(MarkEntries) /\ x \in SUBSET (1 .. Span) /\ s = [open |-> q, kept |-> x]
  BY <1>1 DEF Sanitized
<1>4. Len(q) \in Nat
  BY <1>3
<1>5. m \in 0 .. Len(q) /\ (Len(q) # 0 /\ q[Len(q)].tag = t.tag => m = Len(q))
  BY <1>2, <1>4, LastTaggedIs
<1>6. t.kind \in {"text", "open", "close"} /\ t.hidden \in BOOLEAN /\ t.void \in BOOLEAN
  BY <1>1, MarkupIs
<1>7. /\ n \in TextMarks <=> t.kind = "text"
      /\ n \in OpenMarks <=> t.kind = "open" /\ ~t.void
      /\ n \in CloseMarks <=> t.kind = "close"
  BY <1>1 DEF TextMarks, OpenMarks, CloseMarks
<1>8. e \in MarkEntries
  <2>1. Hiding(q) \in BOOLEAN
    BY DEF Hiding
  <2>2. t.hidden \/ Hiding(q) \in BOOLEAN
    BY <1>6, <2>1
  <2>3. t.tag \in {markup[k].tag : k \in 1 .. Span}
    BY <1>1
  <2>4. e = [tag |-> t.tag, hidden |-> (t.hidden \/ Hiding(q))]
    BY <1>1, <1>2 DEF Opening
  <2> QED BY <2>2, <2>3, <2>4 DEF MarkEntries
<1>9. Append(q, e) \in Seq(MarkEntries)
  BY <1>3, <1>8
<1>10. m # 0 => SubSeq(q, 1, m - 1) \in Seq(MarkEntries)
  <2>1. m # 0 => m \in 1 .. Len(q)
    BY <1>4, <1>5
  <2> QED BY <1>3, <2>1, FrontOf
<1>11. CASE t.kind = "text"
  <2>1. r = IF Hiding(q) THEN s ELSE [s EXCEPT !.kept = @ \cup {n}]
    BY <1>1, <1>11 DEF ReadToken
  <2>2. r = [open |-> q, kept |-> IF Hiding(q) THEN x ELSE x \cup {n}]
    <3>1. CASE Hiding(q)
      BY <1>3, <2>1, <3>1
    <3>2. CASE ~Hiding(q)
      <4>1. r = [s EXCEPT !.kept = @ \cup {n}]
        BY <2>1, <3>2
      <4>2. r = [open |-> q, kept |-> x \cup {n}]
        BY <1>3, <4>1
      <4> QED BY <3>2, <4>2
    <3> QED BY <3>1, <3>2
  <2>3. r \in Sanitized
    BY <1>3, <2>2 DEF Sanitized
  <2> QED BY <1>1, <1>7, <1>11, <2>2, <2>3
<1>12. CASE t.kind = "open"
  <2>1. r = IF t.void THEN s ELSE [s EXCEPT !.open = Append(@, [tag |-> t.tag, hidden |-> t.hidden \/ Hiding(@)])]
    BY <1>1, <1>12 DEF ReadToken, Opened
  <2>2. CASE t.void
    BY <1>1, <1>7, <1>12, <2>1, <2>2
  <2>3. CASE ~t.void
    <3>1. r = [open |-> Append(q, e), kept |-> x]
      <4>1. r = [s EXCEPT !.open = Append(@, [tag |-> t.tag, hidden |-> t.hidden \/ Hiding(@)])]
        BY <2>1, <2>3
      <4>2. r = [open |-> Append(q, [tag |-> t.tag, hidden |-> t.hidden \/ Hiding(q)]), kept |-> x]
        BY <1>3, <4>1
      <4> QED BY <1>1, <1>2, <4>2 DEF Opening
    <3>2. r \in Sanitized
      BY <1>3, <1>9, <3>1 DEF Sanitized
    <3> QED BY <1>1, <1>2, <1>7, <1>12, <2>3, <3>1, <3>2
  <2> QED BY <2>2, <2>3
<1>13. CASE t.kind = "close"
  <2>1. r = IF m = 0 THEN s ELSE [s EXCEPT !.open = SubSeq(@, 1, m - 1)]
    BY <1>1, <1>2, <1>13 DEF ReadToken, Closed, LastTagged
  <2>2. r = [open |-> IF m = 0 THEN q ELSE SubSeq(q, 1, m - 1), kept |-> x]
    <3>1. CASE m = 0
      BY <1>3, <2>1, <3>1
    <3>2. CASE m # 0
      <4>1. r = [s EXCEPT !.open = SubSeq(@, 1, m - 1)]
        BY <2>1, <3>2
      <4>2. r = [open |-> SubSeq(q, 1, m - 1), kept |-> x]
        BY <1>3, <4>1
      <4> QED BY <3>2, <4>2
    <3> QED BY <3>1, <3>2
  <2>3. r \in Sanitized
    BY <1>3, <1>10, <2>2 DEF Sanitized
  <2>4. Len(q) # 0 /\ q[Len(q)].tag = t.tag => r.open = SubSeq(q, 1, Len(q) - 1)
    BY <1>5, <2>2
  <2>5. n \notin TextMarks /\ n \notin OpenMarks /\ n \in CloseMarks /\ r.kept = x
    BY <1>7, <1>13, <2>2
  <2> QED BY <1>1, <2>3, <2>4, <2>5
<1> QED BY <1>6, <1>11, <1>12, <1>13

LEMMA MarkupReads ==
    ASSUME TextAssumption, MarkupTyped
    PROVE  \E g : /\ SanitizeHtml = g[1 .. Span].kept /\ g[1 .. 0] = NothingSanitized
                  /\ \A m \in 0 .. Span - 1 : g[1 .. m + 1] = ReadToken(g[1 .. m], m + 1)
<1>1. /\ Span \in Nat /\ DOMAIN markup = 1 .. Span /\ DOMAIN PlacesOfMarkup = 1 .. Span
      /\ \A i \in 1 .. Span : PlacesOfMarkup[i] = i
  BY MarkupIs DEF PlacesOfMarkup
<1> DEFINE step == [p \in Sanitized \X (1 .. Span) |-> ReadToken(p[1], p[2])]
<1>2. \A a \in Sanitized : \A i \in 1 .. Span : ReadToken(a, i) \in Sanitized /\ step[<<a, i>>] = ReadToken(a, i)
  BY SanitizeOne
<1>3. step \in [Sanitized \X (1 .. Span) -> Sanitized]
  BY <1>2
<1>4. NothingSanitized \in Sanitized
  <2>1. <<>> \in Seq(MarkEntries)
    OBVIOUS
  <2> QED BY <2>1 DEF NothingSanitized, Sanitized
<1> HIDE DEF step
<1>5. PICK h : LeftFolds(h, Span, Sanitized, NothingSanitized, step)
  BY <1>1, <1>3, <1>4, LeftFoldExists
<1>6. MarkupFolds(h)
  <2>1. ASSUME NEW T \in SUBSET (1 .. Span)
        PROVE  h[T] = IF T = {} THEN NothingSanitized ELSE ReadToken(h[T \ {Max(T)}], PlacesOfMarkup[Max(T)])
    <3>1. CASE T = {}
      BY <1>5, <3>1 DEF LeftFolds
    <3>2. CASE T # {}
      <4>1. Max(T) \in 1 .. Span /\ h[T \ {Max(T)}] \in Sanitized /\ h[T] = step[<<h[T \ {Max(T)}], Max(T)>>]
        BY <1>5, <3>2 DEF LeftFolds
      <4>2. PICK a, i : a = h[T \ {Max(T)}] /\ i = Max(T)
        OBVIOUS
      <4>3. h[T] = ReadToken(a, i) /\ PlacesOfMarkup[i] = i
        BY <1>1, <1>2, <4>1, <4>2
      <4> QED BY <3>2, <4>2, <4>3
    <3> QED BY <3>1, <3>2
  <2>2. h = [T \in SUBSET (1 .. Span) |-> h[T]]
    BY <1>5 DEF LeftFolds
  <2> QED BY <1>1, <2>1, <2>2 DEF MarkupFolds
<1>7. PICK g : g = CHOOSE f : MarkupFolds(f)
  OBVIOUS
<1>8. MarkupFolds(g) /\ SanitizeHtml = g[1 .. Span].kept
  BY <1>1, <1>6, <1>7, MarkupUnfolds
<1>9. \A T \in SUBSET (1 .. Span) :
        g[T] = IF T = {} THEN NothingSanitized ELSE ReadToken(g[T \ {Max(T)}], PlacesOfMarkup[Max(T)])
  BY <1>1, <1>8 DEF MarkupFolds
<1>10. g[1 .. 0] = NothingSanitized
  <2>1. 1 .. 0 = {} /\ {} \in SUBSET (1 .. Span)
    BY LastOfPrefix
  <2> QED BY <1>9, <2>1
<1>11. ASSUME NEW m \in 0 .. Span - 1 PROVE g[1 .. m + 1] = ReadToken(g[1 .. m], m + 1)
  <2>1. /\ 1 .. m + 1 \in SUBSET (1 .. Span) /\ 1 .. m + 1 # {} /\ m + 1 \in 1 .. Span
        /\ Max(1 .. m + 1) = m + 1 /\ (1 .. m + 1) \ {m + 1} = 1 .. m
    BY <1>1, PrefixOf
  <2>2. PICK T : T = 1 .. m + 1
    OBVIOUS
  <2>3. g[T] = ReadToken(g[T \ {Max(T)}], PlacesOfMarkup[Max(T)])
    BY <1>9, <2>1, <2>2
  <2>4. Max(T) = m + 1 /\ T \ {Max(T)} = 1 .. m /\ PlacesOfMarkup[m + 1] = m + 1
    BY <1>1, <2>1, <2>2
  <2> QED BY <2>2, <2>3, <2>4
<1> QED BY <1>8, <1>10, <1>11

\* The open elements of the fold, by the places q of their tags
HiddenUpTo(q, i) == \E x \in 1 .. i : markup[q[x]].hidden
OpenAs(open, q) ==
    /\ Len(open) = Len(q) /\ DOMAIN open = DOMAIN q
    /\ \A i \in DOMAIN q : open[i].tag = markup[q[i]].tag /\ (open[i].hidden <=> HiddenUpTo(q, i))
SeenAt(k) == ~\E j \in Outside(k) : markup[j].hidden
\* What was kept of the first n tokens
Kept(s, n) ==
    /\ s \in Sanitized
    /\ \E q : Nest(q, Outside(n), n) /\ OpenAs(s.open, q)
    /\ s.kept = {k \in TextMarks \cap (1 .. n) : SeenAt(k)}

LEMMA HidingIs ==
    ASSUME NEW n \in Nat, NEW open, NEW q, NEW A, Nest(q, A, n), OpenAs(open, q), DOMAIN open = 1 .. Len(open)
    PROVE  Hiding(open) <=> \E j \in A : markup[j].hidden
<1>1. PICK l : l = Len(q)
  OBVIOUS
<1>2. l \in Nat /\ DOMAIN q = 1 .. l /\ Len(open) = l /\ q \in Seq(1 .. n)
  BY <1>1 DEF Nest, OpenAs
<1>3. open = <<>> <=> l = 0
  <2>1. open = <<>> => l = 0
    BY <1>2
  <2>2. l = 0 => open = <<>>
    <3>1. SUFFICES ASSUME l = 0 PROVE open = <<>>
      OBVIOUS
    <3> QED BY <1>2, <3>1
  <2> QED BY <2>1, <2>2
<1>4. (\E j \in A : markup[j].hidden) <=> HiddenUpTo(q, l)
  <2>1. A = {q[i] : i \in 1 .. l}
    BY <1>2 DEF Nest, ToSet
  <2> QED BY <2>1 DEF HiddenUpTo
<1>5. CASE l = 0
  BY <1>3, <1>4, <1>5 DEF Hiding, HiddenUpTo
<1>6. CASE l # 0
  <2>1. l \in 1 .. l
    BY <1>2, <1>6
  <2>2. open[l].hidden <=> HiddenUpTo(q, l)
    BY <1>2, <2>1 DEF OpenAs
  <2> QED BY <1>2, <1>3, <1>4, <1>6, <2>2 DEF Hiding, Last
<1> QED BY <1>5, <1>6

LEMMA OpenOneMore ==
    ASSUME NEW n \in Nat, NEW open \in Seq(MarkEntries), NEW q, NEW A, Nest(q, A, n), OpenAs(open, q),
           NEW e \in MarkEntries, e = Opening(n + 1, open)
    PROVE  OpenAs(Append(open, e), Append(q, n + 1))
<1>1. PICK l, o, p : l = Len(q) /\ o = Append(open, e) /\ p = Append(q, n + 1)
  OBVIOUS
<1>2. l \in Nat /\ DOMAIN q = 1 .. l /\ Len(open) = l /\ DOMAIN open = 1 .. l
  BY <1>1 DEF Nest, OpenAs
<1>3. DOMAIN o = 1 .. l + 1 /\ Len(o) = l + 1 /\ o[l + 1] = e /\ \A i \in 1 .. l : o[i] = open[i]
  BY <1>1, <1>2
<1>4. DOMAIN p = 1 .. l + 1 /\ Len(p) = l + 1 /\ p[l + 1] = n + 1 /\ \A i \in 1 .. l : p[i] = q[i]
  <2>1. q \in Seq(Nat)
    <3>1. q \in Seq(1 .. n)
      BY DEF Nest
    <3>2. \A i \in 1 .. l : q[i] \in Nat
      BY <1>1, <3>1
    <3> QED BY <1>1, <3>1, <3>2
  <2> QED BY <1>1, <1>2, <2>1
<1>5. ASSUME NEW i \in 1 .. l PROVE HiddenUpTo(p, i) <=> HiddenUpTo(q, i)
  <2>1. \A x \in 1 .. i : x \in 1 .. l
    BY <1>2
  <2> QED BY <1>4, <2>1 DEF HiddenUpTo
<1>6. HiddenUpTo(p, l + 1) <=> markup[n + 1].hidden \/ HiddenUpTo(q, l)
  <2>1. 1 .. l + 1 = (1 .. l) \cup {l + 1}
    BY <1>2
  <2> QED BY <1>4, <2>1 DEF HiddenUpTo
<1>7. Hiding(open) <=> HiddenUpTo(q, l)
  <2>1. Hiding(open) <=> \E j \in A : markup[j].hidden
    BY <1>2, HidingIs
  <2>2. A = {q[i] : i \in 1 .. l}
    BY <1>2 DEF Nest, ToSet
  <2> QED BY <2>1, <2>2 DEF HiddenUpTo
<1>8. e.tag = markup[n + 1].tag /\ (e.hidden <=> markup[n + 1].hidden \/ Hiding(open))
  BY DEF Opening
<1>9. ASSUME NEW i \in 1 .. l + 1
      PROVE  o[i].tag = markup[p[i]].tag /\ (o[i].hidden <=> HiddenUpTo(p, i))
  <2>1. CASE i \in 1 .. l
    BY <1>2, <1>3, <1>4, <1>5, <2>1 DEF OpenAs
  <2>2. CASE i = l + 1
    BY <1>3, <1>4, <1>6, <1>7, <1>8, <2>2
  <2> QED BY <1>2, <2>1, <2>2
<1>10. OpenAs(o, p)
  BY <1>3, <1>4, <1>9 DEF OpenAs
<1> QED BY <1>1, <1>10

LEMMA OpenOneLess ==
    ASSUME NEW n \in Nat, NEW open \in Seq(MarkEntries), NEW q, NEW A, Nest(q, A, n), OpenAs(open, q), Len(q) # 0
    PROVE  OpenAs(SubSeq(open, 1, Len(open) - 1), SubSeq(q, 1, Len(q) - 1))
<1>1. PICK l : l = Len(q)
  OBVIOUS
<1>2. PICK o, p : o = SubSeq(open, 1, l - 1) /\ p = SubSeq(q, 1, l - 1)
  OBVIOUS
<1>3. l \in Nat /\ DOMAIN q = 1 .. l /\ Len(open) = l /\ DOMAIN open = 1 .. l /\ l - 1 \in Nat /\ q \in Seq(1 .. n)
  BY <1>1 DEF Nest, OpenAs
<1>4. DOMAIN o = 1 .. l - 1 /\ Len(o) = l - 1 /\ \A i \in 1 .. l - 1 : o[i] = open[i]
  BY <1>2, <1>3
<1>5. DOMAIN p = 1 .. l - 1 /\ Len(p) = l - 1 /\ \A i \in 1 .. l - 1 : p[i] = q[i]
  BY <1>1, <1>2, <1>3
<1>6. ASSUME NEW i \in 1 .. l - 1 PROVE i \in 1 .. l /\ (HiddenUpTo(p, i) <=> HiddenUpTo(q, i))
  <2>1. i \in 1 .. l /\ \A x \in 1 .. i : x \in 1 .. l - 1
    BY <1>3
  <2> QED BY <1>5, <2>1 DEF HiddenUpTo
<1>7. OpenAs(o, p)
  BY <1>3, <1>4, <1>5, <1>6 DEF OpenAs
<1> QED BY <1>1, <1>2, <1>3, <1>7

LEMMA KeepNext ==
    ASSUME TextAssumption, MarkupTyped, WellNested, NEW n \in 0 .. Span - 1, NEW s, Kept(s, n)
    PROVE  Kept(ReadToken(s, n + 1), n + 1)
<1>1. PICK c, j, r, open : c = Level /\ j = n + 1 /\ r = ReadToken(s, j) /\ open = s.open
  OBVIOUS
<1>2. Heights(c, Span, OpenMarks, CloseMarks) /\ Span \in Nat /\ n \in Nat /\ j \in 1 .. Span
  BY <1>1, MarkupIs
<1>3. s \in Sanitized /\ r \in Sanitized /\ open \in Seq(MarkEntries)
  BY <1>1, <1>2, SanitizeOne DEF Kept, Sanitized
<1>4. PICK q : Nest(q, Outside(n), n) /\ OpenAs(open, q)
  BY <1>1 DEF Kept
<1>5. TextMarks \cap (1 .. j) = (TextMarks \cap (1 .. n)) \cup (IF j \in TextMarks THEN {j} ELSE {})
  <2>1. 1 .. j = (1 .. n) \cup {j}
    BY <1>1, <1>2
  <2> QED BY <2>1
<1>6. s.kept = {k \in TextMarks \cap (1 .. n) : SeenAt(k)}
  BY DEF Kept
<1>7. CASE j \in TextMarks
  <2>1. j \notin OpenMarks /\ j \notin CloseMarks
    BY <1>7 DEF TextMarks, OpenMarks, CloseMarks
  <2>2. Outside(j) = Outside(n)
    BY <1>1, <1>2, <2>1, AroundText DEF Outside
  <2>3. r.open = open /\ r.kept = IF Hiding(open) THEN s.kept ELSE s.kept \cup {j}
    BY <1>1, <1>2, <1>3, <1>7, SanitizeOne
  <2>4. Nest(q, Outside(j), j) /\ OpenAs(r.open, q)
    BY <1>1, <1>2, <1>4, <2>2, <2>3, NestStays
  <2>5. Hiding(open) <=> ~SeenAt(j)
    <3>1. DOMAIN open = 1 .. Len(open)
      BY <1>3
    <3>2. Hiding(open) <=> \E k \in Outside(n) : markup[k].hidden
      BY <1>2, <1>4, <3>1, HidingIs
    <3> QED BY <2>2, <3>2 DEF SeenAt
  <2>6. r.kept = {k \in TextMarks \cap (1 .. j) : SeenAt(k)}
    <3>1. TextMarks \cap (1 .. j) = (TextMarks \cap (1 .. n)) \cup {j}
      BY <1>5, <1>7
    <3> QED BY <1>6, <2>3, <2>5, <3>1
  <2> QED BY <1>1, <1>3, <2>4, <2>6 DEF Kept
<1>8. CASE j \notin TextMarks
  <2>1. r.kept = {k \in TextMarks \cap (1 .. j) : SeenAt(k)}
    <3>1. r.kept = s.kept
      BY <1>1, <1>2, <1>3, <1>8, SanitizeOne
    <3>2. TextMarks \cap (1 .. j) = TextMarks \cap (1 .. n)
      BY <1>5, <1>8
    <3> QED BY <1>6, <3>1, <3>2
  <2>2. CASE j \in OpenMarks
    <3>1. Outside(j) = Outside(n) \cup {j}
      BY <1>1, <1>2, <2>2, AroundOpen DEF Outside
    <3>2. PICK e : e = Opening(j, open)
      OBVIOUS
    <3>3. r.open = Append(open, e)
      BY <1>1, <1>2, <1>3, <2>2, <3>2, SanitizeOne
    <3>4. e \in MarkEntries
      <4>1. markup[j].tag \in {markup[m].tag : m \in 1 .. Span}
        BY <1>2
      <4>2. markup[j].hidden \/ Hiding(open) \in BOOLEAN
        BY <1>2, MarkupIs DEF Hiding
      <4> QED BY <3>2, <4>1, <4>2 DEF Opening, MarkEntries
    <3>5. Nest(Append(q, j), Outside(j), j) /\ OpenAs(r.open, Append(q, j))
      <4>1. PICK A : A = Outside(n)
        OBVIOUS
      <4>2. Nest(q, A, n) /\ OpenAs(open, q) /\ e = Opening(n + 1, open)
        BY <1>1, <1>4, <3>2, <4>1
      <4>3. Nest(Append(q, n + 1), A \cup {n + 1}, n + 1)
        BY <1>2, <4>2, NestOpens
      <4>4. OpenAs(Append(open, e), Append(q, n + 1))
        BY <1>2, <1>3, <3>4, <4>2, OpenOneMore
      <4> QED BY <1>1, <3>1, <3>3, <4>1, <4>3, <4>4
    <3> QED BY <1>1, <1>3, <2>1, <3>5 DEF Kept
  <2>3. CASE j \in CloseMarks
    <3>1. PICK i \in OpenMarks : Closing(c, i, j) /\ markup[i].tag = markup[j].tag
      BY <1>1, <2>3, NestedClose
    <3>2. i \in Outside(n) /\ c[j] = c[i - 1]
      <4>1. i \in 1 .. Span /\ i <= n /\ j - 1 = n
        BY <1>1, <1>2, <3>1 DEF OpenMarks, Closing
      <4> QED BY <1>1, <3>1, <4>1 DEF Closing, Outside, Around
    <3>3. /\ Outside(j) = Outside(n) \ {i}
          /\ \A k \in Outside(n) : k <= i
      BY <1>1, <1>2, <2>3, <3>2, AroundClose DEF Outside
    <3>4. /\ Len(q) \in Nat /\ Len(q) # 0 /\ Len(q) \in DOMAIN q /\ q[Len(q)] = i
          /\ Nest(SubSeq(q, 1, Len(q) - 1), Outside(j), j)
      <4>1. PICK A : A = Outside(n)
        OBVIOUS
      <4>2. Nest(q, A, n) /\ i \in A /\ \A k \in A : k <= i
        BY <1>4, <3>2, <3>3, <4>1
      <4>3. /\ Len(q) \in Nat /\ Len(q) # 0 /\ Len(q) \in DOMAIN q /\ q[Len(q)] = i
            /\ Nest(SubSeq(q, 1, Len(q) - 1), A \ {i}, n + 1)
        BY <1>2, <4>2, NestCloses
      <4> QED BY <1>1, <3>3, <4>1, <4>3
    <3>5. Len(open) # 0 /\ open[Len(open)].tag = markup[j].tag
      BY <1>4, <3>1, <3>4 DEF OpenAs
    <3>6. r.open = SubSeq(open, 1, Len(open) - 1)
      BY <1>1, <1>2, <1>3, <2>3, <3>5, SanitizeOne
    <3>7. OpenAs(r.open, SubSeq(q, 1, Len(q) - 1))
      BY <1>2, <1>3, <1>4, <3>4, <3>6, OpenOneLess
    <3> QED BY <1>1, <1>3, <2>1, <3>4, <3>7 DEF Kept
  <2>4. CASE j \notin OpenMarks /\ j \notin CloseMarks
    <3>1. Outside(j) = Outside(n)
      BY <1>1, <1>2, <2>4, AroundText DEF Outside
    <3>2. r.open = open
      BY <1>1, <1>2, <1>3, <1>8, <2>4, SanitizeOne
    <3>3. Nest(q, Outside(j), j) /\ OpenAs(r.open, q)
      BY <1>1, <1>2, <1>4, <3>1, <3>2, NestStays
    <3> QED BY <1>1, <1>3, <2>1, <3>3 DEF Kept
  <2> QED BY <2>2, <2>3, <2>4
<1> QED BY <1>7, <1>8

LEMMA MarkupIsKept ==
    ASSUME TextAssumption, MarkupTyped, WellNested
    PROVE  SanitizeHtml = {k \in TextMarks : SeenAt(k)}
<1>1. PICK g : /\ SanitizeHtml = g[1 .. Span].kept /\ g[1 .. 0] = NothingSanitized
               /\ \A m \in 0 .. Span - 1 : g[1 .. m + 1] = ReadToken(g[1 .. m], m + 1)
  BY MarkupReads
<1>2. Span \in Nat
  BY MarkupIs
<1> DEFINE Good == {m \in Nat : m <= Span => Kept(g[1 .. m], m)}
<1>3. 0 \in Good
  <2>1. Outside(0) = {}
    BY MarkupIs, AroundNothing DEF Outside
  <2>2. /\ 1 .. 0 = {} /\ <<>> \in Seq(1 .. 0) /\ <<>> \in Seq(MarkEntries) /\ Len(<<>>) = 0 /\ DOMAIN <<>> = {}
    BY LastOfPrefix
  <2>3. NothingSanitized \in Sanitized
    BY <2>2 DEF NothingSanitized, Sanitized
  <2>4. ToSet(<<>>) = {}
    BY <2>2 DEF ToSet
  <2>5. Nest(<<>>, {}, 0) /\ OpenAs(<<>>, <<>>)
    BY <2>2, <2>4 DEF Nest, OpenAs
  <2>6. Kept(NothingSanitized, 0)
    BY <2>1, <2>2, <2>3, <2>5 DEF Kept, NothingSanitized
  <2> QED BY <1>1, <2>6
<1>4. ASSUME NEW m \in Good PROVE m + 1 \in Good
  <2>1. SUFFICES ASSUME m + 1 <= Span PROVE Kept(g[1 .. m + 1], m + 1)
    OBVIOUS
  <2>2. m \in 0 .. Span - 1 /\ Kept(g[1 .. m], m)
    BY <1>2, <2>1
  <2>3. g[1 .. m + 1] = ReadToken(g[1 .. m], m + 1)
    BY <1>1, <2>2
  <2> QED BY <2>2, <2>3, KeepNext
<1>5. Good = Nat
  <2> HIDE DEF Good
  <2>1. Good \in SUBSET Nat
    BY DEF Good
  <2> QED BY <1>3, <1>4, <2>1, NatSetInduction
<1>6. Kept(g[1 .. Span], Span)
  BY <1>2, <1>5
<1>7. TextMarks \cap (1 .. Span) = TextMarks
  BY DEF TextMarks
<1> QED BY <1>1, <1>6, <1>7 DEF Kept

LEMMA VisibleFromMarkup == ASSUME TextAssumption, MarkupTyped PROVE VisibleTextIsKept
<1>1. SUFFICES ASSUME WellNested PROVE VisibleTextIsKept
  BY DEF VisibleTextIsKept
<1>2. SanitizeHtml = {k \in TextMarks : SeenAt(k)}
  BY <1>1, MarkupIsKept
<1>3. Span \in Nat /\ DOMAIN markup = 1 .. Span /\ Heights(Level, Span, OpenMarks, CloseMarks)
  BY MarkupIs
<1>4. ASSUME NEW n \in TextMarks
      PROVE  SeenAt(n) <=> ~\E j \in 1 .. n, k \in n .. Len(markup) : Pairs(j, k) /\ markup[j].hidden
  <2>1. n \in 1 .. Span /\ n \notin CloseMarks
    BY <1>4 DEF TextMarks, CloseMarks
  <2>2. \A j \in OpenMarks : \E k \in CloseMarks : Closing(Level, j, k)
    BY <1>1, NestedClose
  <2>3. \A j \in OpenMarks : j <= n => (j \in Outside(n) <=> \E k \in CloseMarks : n <= k /\ Closing(Level, j, k))
    BY <1>3, <2>1, <2>2, AroundIsBetween DEF Outside
  <2>4. ASSUME NEW j \in Outside(n) PROVE \E k \in n .. Span : j \in 1 .. n /\ Pairs(j, k)
    <3>1. j \in OpenMarks /\ j <= n /\ j \in 1 .. Span
      BY DEF Outside, Around, OpenMarks
    <3>2. PICK k \in CloseMarks : n <= k /\ Closing(Level, j, k)
      BY <2>3, <3>1
    <3>3. k \in 1 .. Span
      BY DEF CloseMarks
    <3>4. k \in j .. Span /\ k \in n .. Span /\ j \in 1 .. n
      BY <1>3, <2>1, <3>1, <3>2, <3>3
    <3> QED BY <3>1, <3>2, <3>4, PairsClose
  <2>5. ASSUME NEW j \in 1 .. n, NEW k \in n .. Span, Pairs(j, k) PROVE j \in Outside(n)
    <3>1. j \in 1 .. Span /\ k \in j .. Span /\ j <= n /\ n <= k
      BY <1>3, <2>1
    <3>2. j \in OpenMarks /\ k \in CloseMarks /\ Closing(Level, j, k)
      BY <2>5, <3>1, PairsClose
    <3> QED BY <2>3, <3>1, <3>2
  <2> QED BY <2>4, <2>5 DEF SeenAt, Span
<1>5. \A n : n \in TextMarks <=> n \in DOMAIN markup /\ markup[n].kind = "text"
  BY <1>3 DEF TextMarks
<1>6. SanitizeHtml = {n \in DOMAIN markup :
        /\ markup[n].kind = "text"
        /\ ~\E j \in 1 .. n, k \in n .. Len(markup) : Pairs(j, k) /\ markup[j].hidden}
  <2>1. \A n : n \in SanitizeHtml <=>
            /\ n \in DOMAIN markup /\ markup[n].kind = "text"
            /\ ~\E j \in 1 .. n, k \in n .. Len(markup) : Pairs(j, k) /\ markup[j].hidden
    BY <1>2, <1>4, <1>5
  <2> QED BY <2>1
<1> QED BY <1>6 DEF VisibleTextIsKept

-----------------------------------------------------------------------------
(***************************************************************************)
(* The words of a text.                                                    *)
(***************************************************************************)
BodyTyped == body \in Seq(LineKinds)
Lines == 1 .. Len(body)
Words == Lines \X Nat

LEMMA BodyIs ==
    ASSUME TextAssumption, BodyTyped
    PROVE  /\ Len(body) \in Nat /\ DOMAIN body = Lines
           /\ \A n \in Lines : /\ body[n].kind \in {"blank", "heading", "fence", "table", "text"}
                               /\ body[n].level \in Nat /\ body[n].words \in Seq(Nat)
                               /\ body[n].kind = "table" => body[n].words # <<>>
                               /\ body[n].kind = "blank" => body[n].words = <<>>
<1>1. Len(body) \in Nat /\ DOMAIN body = Lines /\ \A n \in Lines : body[n] \in LineKinds
  BY DEF BodyTyped, Lines
<1> QED BY <1>1 DEF TextAssumption

LEMMA WordsOfLine ==
    ASSUME TextAssumption, BodyTyped, NEW n \in Lines
    PROVE  /\ WordsOf(n) \in Seq(Words)
           /\ \A x \in ToSet(WordsOf(n)) : x[1] = n
           /\ body[n].kind = "table" => <<n, 1>> \in ToSet(WordsOf(n))
           /\ body[n].kind = "blank" => WordsOf(n) = <<>>
<1>1. PICK q, k : q = body[n].words /\ k = Len(q)
  OBVIOUS
<1>2. q \in Seq(Nat) /\ k \in Nat /\ DOMAIN q = 1 .. k /\ (q = <<>> <=> k = 0)
  BY <1>1, BodyIs, SeqIs
<1>3. WordsOf(n) = [w \in 1 .. k |-> <<n, w>>]
  BY <1>1, <1>2 DEF WordsOf
<1>4. WordsOf(n) \in Seq(Words)
  <2>1. \A w \in 1 .. k : <<n, w>> \in Words
    BY <1>2 DEF Words
  <2>2. PICK A : A = Words
    OBVIOUS
  <2>3. [w \in 1 .. k |-> <<n, w>>] \in [1 .. k -> A]
    BY <2>1, <2>2
  <2>4. [w \in 1 .. k |-> <<n, w>>] \in Seq(A)
    BY <1>2, <2>3
  <2> QED BY <1>3, <2>2, <2>4
<1>5. ToSet(WordsOf(n)) = {<<n, w>> : w \in 1 .. k}
  BY <1>3 DEF ToSet
<1>6. body[n].kind = "table" => 1 \in 1 .. k
  BY <1>1, <1>2, BodyIs
<1>7. body[n].kind = "blank" => k = 0
  BY <1>1, <1>2, BodyIs
<1>8. ASSUME k = 0 PROVE WordsOf(n) = <<>>
  BY <1>3, <1>8
<1> QED BY <1>4, <1>5, <1>6, <1>7, <1>8

LEMMA WordsInLines ==
    ASSUME TextAssumption, BodyTyped, NEW lines \in Seq(Lines)
    PROVE  /\ WordsIn(lines) \in Seq(Words)
           /\ ToSet(WordsIn(lines)) = UNION {ToSet(WordsOf(n)) : n \in ToSet(lines)}
           /\ WordsIn(<<>>) = <<>>
           /\ \A n \in Lines : WordsIn(Append(lines, n)) = WordsIn(lines) \o WordsOf(n)
<1>1. PICK A, k, s : A = Seq(Words) /\ k = Len(lines) /\ s = [i \in DOMAIN lines |-> WordsOf(lines[i])]
  OBVIOUS
<1>2. k \in Nat /\ DOMAIN lines = 1 .. k /\ \A i \in 1 .. k : lines[i] \in Lines
  BY <1>1, SeqIs
<1>3. s \in Seq(A) /\ Len(s) = k /\ \A i \in 1 .. k : s[i] = WordsOf(lines[i])
  <2>1. \A i \in 1 .. k : WordsOf(lines[i]) \in A
    BY <1>1, <1>2, WordsOfLine
  <2>2. s \in [1 .. k -> A]
    BY <1>1, <1>2, <2>1
  <2>3. s \in Seq(A) /\ Len(s) = k
    BY <1>2, <2>2
  <2> QED BY <1>1, <1>2, <2>3
<1>4. WordsIn(lines) = FlattenSeq(s)
  BY <1>1 DEF WordsIn
<1>5. WordsIn(lines) \in Seq(Words)
  BY <1>1, <1>3, <1>4, FlattenTyped
<1>6. ToSet(WordsIn(lines)) = UNION {ToSet(WordsOf(n)) : n \in ToSet(lines)}
  <2>1. ToSet(WordsIn(lines)) = UNION {ToSet(s[i]) : i \in 1 .. k}
    <3>1. s \in Seq(Seq(Words))
      BY <1>1, <1>3
    <3>2. ToSet(FlattenSeq(s)) = UNION {ToSet(s[i]) : i \in 1 .. Len(s)}
      BY <3>1, FlattenElements
    <3> QED BY <1>3, <1>4, <3>2
  <2>2. ToSet(lines) = {lines[i] : i \in 1 .. k}
    BY <1>2 DEF ToSet
  <2>3. \A x : (\E i \in 1 .. k : x \in ToSet(s[i])) <=> \E n \in ToSet(lines) : x \in ToSet(WordsOf(n))
    BY <1>3, <2>2
  <2> QED BY <2>1, <2>3
<1>7. WordsIn(<<>>) = <<>>
  <2>1. [i \in DOMAIN <<>> |-> WordsOf(<<>>[i])] = <<>>
    OBVIOUS
  <2> QED BY <2>1, FlattenNothing DEF WordsIn
<1>8. ASSUME NEW n \in Lines PROVE WordsIn(Append(lines, n)) = WordsIn(lines) \o WordsOf(n)
  <2>1. PICK l, t, e : l = Append(lines, n) /\ t = [i \in DOMAIN l |-> WordsOf(l[i])] /\ e = WordsOf(n)
    OBVIOUS
  <2>2. DOMAIN l = 1 .. k + 1 /\ l[k + 1] = n /\ \A i \in 1 .. k : l[i] = lines[i]
    BY <1>1, <1>2, <2>1
  <2>3. e \in A
    BY <1>1, <2>1, WordsOfLine
  <2>4. t = Append(s, e)
    <3>1. PICK u : u = Append(s, e)
      OBVIOUS
    <3>2. u \in Seq(A) /\ DOMAIN u = 1 .. k + 1 /\ u[k + 1] = e /\ \A i \in 1 .. k : u[i] = s[i]
      BY <1>3, <2>3, <3>1
    <3>3. u = [i \in 1 .. k + 1 |-> u[i]]
      BY <3>2
    <3>4. \A i \in 1 .. k + 1 : i = k + 1 \/ i \in 1 .. k
      BY <1>2
    <3>5. \A i \in 1 .. k + 1 : u[i] = WordsOf(l[i])
      BY <1>3, <2>1, <2>2, <3>2, <3>4
    <3>6. t = [i \in 1 .. k + 1 |-> WordsOf(l[i])]
      BY <2>1, <2>2
    <3> QED BY <3>1, <3>3, <3>5, <3>6
  <2>5. FlattenSeq(t) = FlattenSeq(s) \o e
    <3>1. s \in Seq(Seq(Words)) /\ e \in Seq(Words)
      BY <1>1, <1>3, <2>3
    <3>2. FlattenSeq(Append(s, e)) = FlattenSeq(s) \o e
      BY <3>1, FlattenAppend
    <3> QED BY <2>4, <3>2
  <2>6. WordsIn(l) = FlattenSeq(t)
    BY <2>1 DEF WordsIn
  <2> QED BY <1>4, <2>1, <2>5, <2>6
<1> QED BY <1>5, <1>6, <1>7, <1>8

(***************************************************************************)
(* The parts of a block of text.                                           *)
(***************************************************************************)
ChunkParts == Seq(Seq(Words))
Sized(p) == TokensIn(p) <= MaxTokens \/ Len(p) = 1
\* The first m words, divided
Divides(parts, words, m) ==
    /\ parts \in ChunkParts /\ FlattenSeq(parts) = SubSeq(words, 1, m)
    /\ \A i \in 1 .. Len(parts) : Sized(parts[i])

LEMMA AddWordIs ==
    ASSUME NEW parts \in ChunkParts, NEW w \in Words
    PROVE  /\ AddWord(parts, w) \in ChunkParts
           /\ FlattenSeq(AddWord(parts, w)) = FlattenSeq(parts) \o <<w>>
           /\ (\A i \in 1 .. Len(parts) : Sized(parts[i])) =>
                  \A i \in 1 .. Len(AddWord(parts, w)) : Sized(AddWord(parts, w)[i])
<1>1. PICK A, n, r : A = Seq(Words) /\ n = Len(parts) /\ r = AddWord(parts, w)
  OBVIOUS
<1>2. parts \in Seq(A) /\ n \in Nat /\ (n = 0 <=> parts = <<>>)
  BY <1>1, SeqIs DEF ChunkParts
<1>3. CASE parts # <<>> /\ TokensIn(Append(Last(parts), w)) <= MaxTokens
  <2>1. PICK m : m \in Nat /\ n = m + 1
    <3>1. n - 1 \in Nat /\ n = (n - 1) + 1
      BY <1>2, <1>3
    <3> QED BY <3>1
  <2>2. PICK u \in Seq(A), e \in A : parts = Append(u, e) /\ Len(u) = m
    <3>1. Len(parts) = m + 1 /\ parts \in Seq(A) /\ m \in Nat
      BY <1>1, <1>2, <2>1
    <3> QED BY <3>1, SeqEnds
  <2>3. Front(parts) = u /\ Last(parts) = e
    <3>1. Last(parts) = e
      BY <2>2 DEF Last
    <3>2. Front(parts) = SubSeq(parts, 1, m)
      BY <1>1, <2>1 DEF Front
    <3>3. \A i \in 1 .. m : parts[i] = u[i] /\ parts[i] \in A
      BY <2>2, SeqIs, AppendProperties
    <3>4. PICK v : v = SubSeq(parts, 1, m)
      OBVIOUS
    <3>5. v \in Seq(A) /\ Len(v) = m /\ \A i \in 1 .. m : v[i] = parts[i]
      BY <2>1, <3>3, <3>4, SubSeqProperties
    <3>6. v = u
      BY <2>2, <3>3, <3>5, SeqEqual
    <3> QED BY <3>1, <3>2, <3>4, <3>6
  <2>4. PICK f : f = Append(e, w)
    OBVIOUS
  <2>5. f \in A /\ f = e \o <<w>> /\ TokensIn(f) <= MaxTokens
    BY <1>1, <1>3, <2>2, <2>3, <2>4, AppendProperties, AppendIsConcat
  <2>6. r = Append(u, f)
    BY <1>1, <1>3, <2>3, <2>4 DEF AddWord
  <2>7. r \in ChunkParts
    <3>1. r \in Seq(A)
      BY <2>2, <2>5, <2>6, AppendProperties
    <3> QED BY <1>1, <3>1 DEF ChunkParts
  <2>8. FlattenSeq(r) = FlattenSeq(parts) \o <<w>>
    <3>1. u \in Seq(Seq(Words)) /\ e \in Seq(Words) /\ f \in Seq(Words) /\ <<w>> \in Seq(Words)
      BY <1>1, <2>2, <2>5
    <3>2. PICK v : v = FlattenSeq(u) /\ v \in Seq(Words)
      BY <3>1, FlattenTyped
    <3>3. FlattenSeq(Append(u, e)) = v \o e /\ FlattenSeq(Append(u, f)) = v \o f
      BY <3>1, <3>2, FlattenAppend
    <3>4. v \o (e \o <<w>>) = (v \o e) \o <<w>>
      BY <3>1, <3>2, ConcatAssociative
    <3> QED BY <2>2, <2>5, <2>6, <3>3, <3>4
  <2>9. ASSUME NEW i \in 1 .. Len(r), \A k \in 1 .. n : Sized(parts[k]) PROVE Sized(r[i])
    <3>1. Len(r) = m + 1 /\ r[m + 1] = f /\ \A k \in 1 .. m : r[k] = u[k]
      BY <2>2, <2>5, <2>6, AppendProperties
    <3>2. \A k \in 1 .. m : parts[k] = u[k] /\ k \in 1 .. n
      BY <2>1, <2>2, AppendProperties
    <3>3. i = m + 1 \/ i \in 1 .. m
      BY <2>1, <3>1
    <3>4. Sized(f)
      BY <2>5 DEF Sized
    <3> QED BY <2>9, <3>1, <3>2, <3>3, <3>4
  <2> QED BY <1>1, <2>7, <2>8, <2>9
<1>4. CASE ~(parts # <<>> /\ TokensIn(Append(Last(parts), w)) <= MaxTokens)
  <2>1. r = Append(parts, <<w>>)
    BY <1>1, <1>4 DEF AddWord
  <2>2. <<w>> \in A /\ <<w>> \in Seq(Words) /\ Len(<<w>>) = 1
    BY <1>1
  <2>3. r \in ChunkParts /\ Len(r) = n + 1 /\ r[n + 1] = <<w>> /\ \A k \in 1 .. n : r[k] = parts[k]
    BY <1>1, <1>2, <2>1, <2>2, AppendProperties DEF ChunkParts
  <2>4. FlattenSeq(r) = FlattenSeq(parts) \o <<w>>
    BY <2>1, <2>2, FlattenAppend DEF ChunkParts
  <2>5. ASSUME NEW i \in 1 .. Len(r), \A k \in 1 .. n : Sized(parts[k]) PROVE Sized(r[i])
    <3>1. i = n + 1 \/ i \in 1 .. n
      BY <1>2, <2>3
    <3>2. Sized(<<w>>)
      BY <2>2 DEF Sized
    <3> QED BY <2>3, <2>5, <3>1, <3>2
  <2> QED BY <1>1, <2>3, <2>4, <2>5
<1> QED BY <1>3, <1>4

\* The fold behind the parts of a block
WordFolds(g, words) ==
    g = [T \in SUBSET (DOMAIN words) |-> IF T = {} THEN <<>> ELSE AddWord(g[T \ {Max(T)}], words[Max(T)])]

LEMMA PartsUnfold ==
    ASSUME NEW words
    PROVE  FoldLeft(AddWord, <<>>, words) = (CHOOSE g : WordFolds(g, words))[DOMAIN words]
BY DEF FoldLeft, MapThenFoldSet, WordFolds

LEMMA PartsRead ==
    ASSUME NEW words \in Seq(Words)
    PROVE  \E g : /\ FoldLeft(AddWord, <<>>, words) = g[1 .. Len(words)] /\ g[1 .. 0] = <<>>
                  /\ \A m \in 0 .. Len(words) - 1 : g[1 .. m + 1] = AddWord(g[1 .. m], words[m + 1])
<1>1. PICK n : n = Len(words)
  OBVIOUS
<1>2. n \in Nat /\ DOMAIN words = 1 .. n /\ \A i \in 1 .. n : words[i] \in Words
  BY <1>1, SeqIs
<1> DEFINE step == [p \in ChunkParts \X (1 .. n) |-> AddWord(p[1], words[p[2]])]
<1>3. \A a \in ChunkParts : \A i \in 1 .. n : AddWord(a, words[i]) \in ChunkParts /\ step[<<a, i>>] = AddWord(a, words[i])
  BY <1>2, AddWordIs
<1>4. step \in [ChunkParts \X (1 .. n) -> ChunkParts]
  BY <1>3
<1>5. <<>> \in ChunkParts
  BY DEF ChunkParts
<1> HIDE DEF step
<1>6. PICK h : LeftFolds(h, n, ChunkParts, <<>>, step)
  BY <1>2, <1>4, <1>5, LeftFoldExists
<1>7. WordFolds(h, words)
  <2>1. ASSUME NEW T \in SUBSET (1 .. n)
        PROVE  h[T] = IF T = {} THEN <<>> ELSE AddWord(h[T \ {Max(T)}], words[Max(T)])
    <3>1. CASE T = {}
      BY <1>6, <3>1 DEF LeftFolds
    <3>2. CASE T # {}
      <4>1. Max(T) \in 1 .. n /\ h[T \ {Max(T)}] \in ChunkParts /\ h[T] = step[<<h[T \ {Max(T)}], Max(T)>>]
        BY <1>6, <3>2 DEF LeftFolds
      <4>2. PICK a, i : a = h[T \ {Max(T)}] /\ i = Max(T)
        OBVIOUS
      <4>3. h[T] = AddWord(a, words[i])
        BY <1>3, <4>1, <4>2
      <4> QED BY <3>2, <4>2, <4>3
    <3> QED BY <3>1, <3>2
  <2>2. h = [T \in SUBSET (1 .. n) |-> h[T]]
    BY <1>6 DEF LeftFolds
  <2> QED BY <1>2, <2>1, <2>2 DEF WordFolds
<1>8. PICK g : g = CHOOSE f : WordFolds(f, words)
  OBVIOUS
<1>9. WordFolds(g, words) /\ FoldLeft(AddWord, <<>>, words) = g[1 .. n]
  BY <1>2, <1>7, <1>8, PartsUnfold
<1>10. \A T \in SUBSET (1 .. n) : g[T] = IF T = {} THEN <<>> ELSE AddWord(g[T \ {Max(T)}], words[Max(T)])
  BY <1>2, <1>9 DEF WordFolds
<1>11. g[1 .. 0] = <<>>
  <2>1. 1 .. 0 = {} /\ {} \in SUBSET (1 .. n)
    BY LastOfPrefix
  <2> QED BY <1>10, <2>1
<1>12. ASSUME NEW m \in 0 .. n - 1 PROVE g[1 .. m + 1] = AddWord(g[1 .. m], words[m + 1])
  <2>1. /\ 1 .. m + 1 \in SUBSET (1 .. n) /\ 1 .. m + 1 # {} /\ m + 1 \in 1 .. n
        /\ Max(1 .. m + 1) = m + 1 /\ (1 .. m + 1) \ {m + 1} = 1 .. m
    BY <1>2, PrefixOf
  <2>2. PICK T : T = 1 .. m + 1
    OBVIOUS
  <2>3. g[T] = AddWord(g[T \ {Max(T)}], words[Max(T)])
    BY <1>10, <2>1, <2>2
  <2>4. Max(T) = m + 1 /\ T \ {Max(T)} = 1 .. m
    BY <2>1, <2>2
  <2> QED BY <2>2, <2>3, <2>4
<1> QED BY <1>1, <1>9, <1>11, <1>12

LEMMA PartsDivide ==
    ASSUME NEW words \in Seq(Words)
    PROVE  Divides(FoldLeft(AddWord, <<>>, words), words, Len(words))
<1>1. PICK g : /\ FoldLeft(AddWord, <<>>, words) = g[1 .. Len(words)] /\ g[1 .. 0] = <<>>
               /\ \A m \in 0 .. Len(words) - 1 : g[1 .. m + 1] = AddWord(g[1 .. m], words[m + 1])
  BY PartsRead
<1>2. PICK n : n = Len(words) /\ n \in Nat /\ \A i \in 1 .. n : words[i] \in Words
  BY SeqIs
<1> DEFINE Good == {m \in Nat : m <= n => Divides(g[1 .. m], words, m)}
<1>3. 0 \in Good
  <2>1. <<>> \in ChunkParts /\ Len(<<>>) = 0
    BY DEF ChunkParts
  <2>2. SubSeq(words, 1, 0) = <<>>
    <3>1. \A i \in 1 .. 0 : words[i] \in Words
      OBVIOUS
    <3>2. SubSeq(words, 1, 0) \in Seq(Words) /\ Len(SubSeq(words, 1, 0)) = 0
      BY <3>1, SubSeqProperties
    <3> QED BY <3>2, SeqIs
  <2>3. Divides(<<>>, words, 0)
    <3>1. \A i \in 1 .. Len(<<>>) : Sized(<<>>[i])
      BY <2>1
    <3>2. FlattenSeq(<<>>) = SubSeq(words, 1, 0)
      BY <2>2, FlattenNothing
    <3> QED BY <2>1, <3>1, <3>2 DEF Divides
  <2> QED BY <1>1, <2>3
<1>4. ASSUME NEW m \in Good PROVE m + 1 \in Good
  <2>1. SUFFICES ASSUME m + 1 <= n PROVE Divides(g[1 .. m + 1], words, m + 1)
    OBVIOUS
  <2>2. m \in Nat /\ m \in 0 .. n - 1 /\ m + 1 \in 1 .. n /\ 1 \in 1 .. n /\ m + 1 \in 1 .. n /\ m <= n
    BY <1>2, <2>1
  <2>3. PICK p, w : p = g[1 .. m] /\ w = words[m + 1]
    OBVIOUS
  <2>4. Divides(p, words, m) /\ w \in Words /\ g[1 .. m + 1] = AddWord(p, w)
    BY <1>1, <1>2, <1>4, <2>2, <2>3
  <2>5. SubSeq(words, 1, m + 1) = SubSeq(words, 1, m) \o <<w>>
    <3>1. m + 1 \in 1 .. Len(words) /\ 1 \in 1 .. Len(words) /\ m + 1 - 1 = m
      BY <1>2, <2>2
    <3>2. SubSeq(words, 1, m + 1) = SubSeq(words, 1, m + 1 - 1) \o <<words[m + 1]>>
      BY <3>1, SubSeqRecursiveSecond
    <3> QED BY <2>3, <3>1, <3>2
  <2>6. Divides(AddWord(p, w), words, m + 1)
    BY <2>4, <2>5, AddWordIs DEF Divides
  <2> QED BY <2>4, <2>6
<1>5. Good = Nat
  <2> HIDE DEF Good
  <2>1. Good \in SUBSET Nat
    BY DEF Good
  <2> QED BY <1>3, <1>4, <2>1, NatSetInduction
<1>6. Divides(g[1 .. n], words, n)
  <2>1. n \in Good
    <3> HIDE DEF Good
    <3> QED BY <1>2, <1>5
  <2> QED BY <1>2, <2>1
<1> QED BY <1>1, <1>2, <1>6

(***************************************************************************)
(* The chunks of the blocks.                                               *)
(***************************************************************************)
Paths == UNION {[D -> Lines] : D \in SUBSET Nat}
BlockSet == [lines : Seq(Lines), path : Paths, atomic : BOOLEAN]
ChunkSet == [words : Seq(Words), path : Paths, atomic : BOOLEAN]
SplitBlock == [b \in BlockSet |-> SplitOversizedBlock(b)]
TextOfBlock == [b \in BlockSet |-> WordsIn(b.lines)]
TextOfChunk == [c \in ChunkSet |-> c.words]
FromBlock(c, b) ==
    /\ c.path = b.path /\ (c.atomic \/ Sized(c.words))
    /\ ToSet(c.words) \subseteq ToSet(WordsIn(b.lines))

LEMMA SplitIs ==
    ASSUME TextAssumption, BodyTyped, NEW b \in BlockSet
    PROVE  /\ SplitOversizedBlock(b) \in Seq(ChunkSet)
           /\ FlattenSeq(Mapped(TextOfChunk, SplitOversizedBlock(b))) = WordsIn(b.lines)
           /\ \A c \in ToSet(SplitOversizedBlock(b)) : FromBlock(c, b)
           /\ b.atomic => WordsIn(b.lines) \in {c.words : c \in ToSet(SplitOversizedBlock(b))}
<1>1. PICK A, words, r : A = Seq(Words) /\ words = WordsIn(b.lines) /\ r = SplitOversizedBlock(b)
  OBVIOUS
<1>2. b.lines \in Seq(Lines) /\ b.path \in Paths /\ b.atomic \in BOOLEAN
  BY DEF BlockSet
<1>3. words \in Seq(Words)
  BY <1>1, <1>2, WordsInLines
<1>4. PICK parts : parts = IF b.atomic \/ TokensIn(words) <= MaxTokens THEN <<words>>
                           ELSE FoldLeft(AddWord, <<>>, words)
  OBVIOUS
<1>5. r = [k \in DOMAIN parts |-> Chunk(parts[k], b)]
  BY <1>1, <1>4 DEF SplitOversizedBlock
<1>6. /\ parts \in Seq(A) /\ FlattenSeq(parts) = words
      /\ \A i \in 1 .. Len(parts) : b.atomic \/ Sized(parts[i])
      /\ b.atomic => Len(parts) = 1 /\ parts[1] = words
  <2>1. CASE b.atomic \/ TokensIn(words) <= MaxTokens
    <3>1. parts = <<words>>
      BY <1>4, <2>1
    <3>2. parts \in Seq(A) /\ Len(parts) = 1 /\ parts[1] = words
      BY <1>1, <1>3, <3>1
    <3>3. FlattenSeq(parts) = words
      BY <1>3, <3>1, FlattenOne
    <3>4. b.atomic \/ Sized(words)
      BY <2>1 DEF Sized
    <3> QED BY <3>2, <3>3, <3>4
  <2>2. CASE ~(b.atomic \/ TokensIn(words) <= MaxTokens)
    <3>1. Divides(parts, words, Len(words))
      BY <1>3, <1>4, <2>2, PartsDivide
    <3>2. SubSeq(words, 1, Len(words)) = words
      BY <1>3, SubSeqFull
    <3> QED BY <1>1, <2>2, <3>1, <3>2 DEF Divides, ChunkParts
  <2> QED BY <2>1, <2>2
<1>7. PICK n : n = Len(parts)
  OBVIOUS
<1>8. n \in Nat /\ DOMAIN parts = 1 .. n /\ \A i \in 1 .. n : parts[i] \in A
  BY <1>6, <1>7, SeqIs
<1>9. \A i \in 1 .. n : r[i] = [words |-> parts[i], path |-> b.path, atomic |-> b.atomic] /\ r[i] \in ChunkSet
  BY <1>1, <1>2, <1>5, <1>8 DEF Chunk, ChunkSet
<1>16. ASSUME NEW i \in 1 .. n PROVE r[i].path = b.path /\ r[i].words = parts[i] /\ r[i].atomic = b.atomic
  <2>1. PICK c : c = r[i]
    OBVIOUS
  <2>2. c = [words |-> parts[i], path |-> b.path, atomic |-> b.atomic]
    BY <1>9, <2>1
  <2>3. c.path = b.path /\ c.words = parts[i] /\ c.atomic = b.atomic
    BY <2>2
  <2> QED BY <2>1, <2>3
<1>10. r \in Seq(ChunkSet) /\ Len(r) = n /\ DOMAIN r = 1 .. n
  <2>1. r \in [1 .. n -> ChunkSet]
    BY <1>5, <1>8, <1>9
  <2> QED BY <1>8, <2>1
<1>11. Mapped(TextOfChunk, r) = parts
  <2>1. Maps(TextOfChunk, ChunkSet, A)
    <3>1. \A c \in ChunkSet : c.words \in A
      BY <1>1 DEF ChunkSet
    <3> QED BY <3>1 DEF Maps, TextOfChunk
  <2>2. PICK m : m = Mapped(TextOfChunk, r)
    OBVIOUS
  <2>3. m \in Seq(A) /\ Len(m) = Len(r) /\ \A i \in 1 .. Len(r) : m[i] = TextOfChunk[r[i]]
    BY <1>10, <2>1, <2>2, MappedIs
  <2>4. ASSUME NEW i \in 1 .. n PROVE TextOfChunk[r[i]] = parts[i]
    <3>1. PICK c : c = r[i]
      OBVIOUS
    <3>2. c \in ChunkSet /\ c = [words |-> parts[i], path |-> b.path, atomic |-> b.atomic]
      BY <1>9, <3>1
    <3>3. TextOfChunk[c] = c.words
      BY <3>2 DEF TextOfChunk
    <3>4. c.words = parts[i]
      BY <3>2
    <3> QED BY <3>1, <3>3, <3>4
  <2>5. m \in Seq(A) /\ Len(m) = n /\ \A i \in 1 .. n : m[i] = parts[i]
    BY <1>10, <2>3, <2>4
  <2>6. m = parts
    BY <1>6, <1>7, <2>5, SeqEqual
  <2> QED BY <2>2, <2>6
<1>12. ASSUME NEW i \in 1 .. n PROVE FromBlock(r[i], b)
  <2>1. r[i].path = b.path /\ r[i].words = parts[i] /\ r[i].atomic = b.atomic
    BY <1>16
  <2>2. b.atomic \/ Sized(parts[i])
    BY <1>6, <1>7
  <2>3. ToSet(parts[i]) \subseteq ToSet(words)
    <3>1. parts \in Seq(Seq(Words))
      BY <1>1, <1>6
    <3>2. ToSet(FlattenSeq(parts)) = UNION {ToSet(parts[k]) : k \in 1 .. Len(parts)}
      BY <3>1, FlattenElements
    <3> QED BY <1>6, <1>7, <3>2
  <2> QED BY <1>1, <2>1, <2>2, <2>3 DEF FromBlock
<1>13. ToSet(r) = {r[i] : i \in 1 .. n}
  BY <1>10 DEF ToSet
<1>14. b.atomic => words \in {c.words : c \in ToSet(r)}
  <2>1. SUFFICES ASSUME b.atomic PROVE words \in {c.words : c \in ToSet(r)}
    OBVIOUS
  <2>2. 1 \in 1 .. n /\ parts[1] = words
    BY <1>6, <1>7, <2>1
  <2>3. r[1] \in ToSet(r) /\ r[1].words = words
    BY <1>13, <1>16, <2>2
  <2> QED BY <2>3
<1>15. \A c \in ToSet(r) : FromBlock(c, b)
  BY <1>12, <1>13
<1> QED BY <1>1, <1>6, <1>10, <1>11, <1>14, <1>15

\* The chunks of blocks, in order
ChunksOf(blocks) == FlattenSeq(Mapped(SplitBlock, blocks))

LEMMA BlocksMap ==
    ASSUME TextAssumption, BodyTyped
    PROVE  /\ Maps(SplitBlock, BlockSet, Seq(ChunkSet)) /\ Maps(TextOfBlock, BlockSet, Seq(Words))
           /\ Maps(TextOfChunk, ChunkSet, Seq(Words))
<1>1. \A b \in BlockSet : SplitOversizedBlock(b) \in Seq(ChunkSet)
  BY SplitIs
<1>2. \A b \in BlockSet : WordsIn(b.lines) \in Seq(Words)
  <2>1. \A b \in BlockSet : b.lines \in Seq(Lines)
    BY DEF BlockSet
  <2> QED BY <2>1, WordsInLines
<1>3. \A c \in ChunkSet : c.words \in Seq(Words)
  BY DEF ChunkSet
<1> QED BY <1>1, <1>2, <1>3 DEF Maps, SplitBlock, TextOfBlock, TextOfChunk

LEMMA ChunksAreOf ==
    ASSUME TextAssumption, BodyTyped, NEW blocks \in Seq(BlockSet)
    PROVE  /\ ChunksOf(blocks) \in Seq(ChunkSet)
           /\ ToSet(ChunksOf(blocks)) = UNION {ToSet(SplitOversizedBlock(b)) : b \in ToSet(blocks)}
<1>1. PICK s, n : s = Mapped(SplitBlock, blocks) /\ n = Len(blocks)
  OBVIOUS
<1>2. n \in Nat /\ DOMAIN blocks = 1 .. n /\ \A i \in 1 .. n : blocks[i] \in BlockSet
  BY <1>1, SeqIs
<1>3. s \in Seq(Seq(ChunkSet)) /\ Len(s) = Len(blocks) /\ \A i \in 1 .. Len(blocks) : s[i] = SplitBlock[blocks[i]]
  BY <1>1, BlocksMap, MappedIs
<1>4. \A i \in 1 .. n : s[i] = SplitOversizedBlock(blocks[i])
  BY <1>1, <1>2, <1>3 DEF SplitBlock
<1>5. FlattenSeq(s) \in Seq(ChunkSet) /\ ToSet(FlattenSeq(s)) = UNION {ToSet(s[i]) : i \in 1 .. Len(s)}
  BY <1>3, FlattenTyped, FlattenElements
<1>6. ToSet(blocks) = {blocks[i] : i \in 1 .. n}
  BY <1>2 DEF ToSet
<1>7. ASSUME NEW x
      PROVE  x \in ToSet(FlattenSeq(s)) <=> \E b \in ToSet(blocks) : x \in ToSet(SplitOversizedBlock(b))
  <2>1. x \in ToSet(FlattenSeq(s)) <=> \E i \in 1 .. n : x \in ToSet(s[i])
    BY <1>1, <1>3, <1>5
  <2> QED BY <1>4, <1>6, <2>1
<1>8. ToSet(FlattenSeq(s)) = UNION {ToSet(SplitOversizedBlock(b)) : b \in ToSet(blocks)}
  BY <1>7
<1> QED BY <1>1, <1>5, <1>8 DEF ChunksOf

\* The chunks of blocks have the words of the blocks.
LEMMA ChunksHaveWords ==
    ASSUME TextAssumption, BodyTyped, NEW blocks \in Seq(BlockSet)
    PROVE  FlattenSeq(Mapped(TextOfChunk, ChunksOf(blocks))) = FlattenSeq(Mapped(TextOfBlock, blocks))
<1>0. /\ Maps(SplitBlock, BlockSet, Seq(ChunkSet)) /\ Maps(TextOfBlock, BlockSet, Seq(Words))
      /\ Maps(TextOfChunk, ChunkSet, Seq(Words))
  BY BlocksMap
<1> DEFINE Same(s) == FlattenSeq(Mapped(TextOfChunk, ChunksOf(s))) = FlattenSeq(Mapped(TextOfBlock, s))
<1> DEFINE Good == {m \in Nat : \A s \in Seq(BlockSet) : Len(s) = m => Same(s)}
<1>1. 0 \in Good
  <2>1. Mapped(SplitBlock, <<>>) = <<>> /\ Mapped(TextOfChunk, <<>>) = <<>> /\ Mapped(TextOfBlock, <<>>) = <<>>
    BY DEF Mapped
  <2>2. Same(<<>>)
    BY <2>1, FlattenNothing DEF ChunksOf
  <2> HIDE DEF Same
  <2>3. \A s \in Seq(BlockSet) : Len(s) = 0 => Same(s)
    BY <2>2, SeqIs
  <2> QED BY <2>3
<1>2. ASSUME NEW m \in Good PROVE m + 1 \in Good
  <2>1. m \in Nat /\ m + 1 \in Nat
    OBVIOUS
  <2>2. ASSUME NEW s \in Seq(BlockSet), Len(s) = m + 1 PROVE Same(s)
    <3>1. PICK u \in Seq(BlockSet), b \in BlockSet : s = Append(u, b) /\ Len(u) = m
      <4>1. LastApart(BlockSet, s, m)
        BY <2>1, <2>2, LastIsApart
      <4> QED BY <4>1 DEF LastApart
    <3>2. FlattenSeq(Mapped(TextOfChunk, ChunksOf(u))) = FlattenSeq(Mapped(TextOfBlock, u))
      <4>1. Same(u)
        <5> HIDE DEF Same
        <5> QED BY <1>2, <3>1
      <4> QED BY <4>1
    <3>3. PICK x, y, p, q, w : /\ x = ChunksOf(u) /\ y = SplitOversizedBlock(b) /\ p = Mapped(TextOfChunk, x)
                               /\ q = Mapped(TextOfChunk, y) /\ w = Mapped(TextOfBlock, u)
      OBVIOUS
    <3>4. x \in Seq(ChunkSet) /\ y \in Seq(ChunkSet) /\ FlattenSeq(q) = WordsIn(b.lines)
      BY <3>3, ChunksAreOf, SplitIs
    <3>5. ChunksOf(s) = x \o y
      <4>1. Mapped(SplitBlock, u) \in Seq(Seq(ChunkSet))
        BY BlocksMap, MappedIs
      <4>2. SplitBlock[b] = y
        BY <3>3 DEF SplitBlock
      <4>3. Mapped(SplitBlock, s) = Append(Mapped(SplitBlock, u), y)
        BY <1>0, <3>1, <4>2, MappedAppend
      <4>4. PICK v : v = Mapped(SplitBlock, u) /\ v \in Seq(Seq(ChunkSet))
        BY <4>1
      <4>5. FlattenSeq(Append(v, y)) = FlattenSeq(v) \o y
        <5>1. PICK S : S = ChunkSet
          OBVIOUS
        <5>2. v \in Seq(Seq(S)) /\ y \in Seq(S)
          BY <3>4, <4>4, <5>1
        <5> QED BY <5>2, FlattenAppend
      <4>6. FlattenSeq(Mapped(SplitBlock, s)) = FlattenSeq(v) \o y
        BY <4>3, <4>4, <4>5
      <4>7. x = FlattenSeq(v)
        BY <3>3, <4>4 DEF ChunksOf
      <4> QED BY <4>6, <4>7 DEF ChunksOf
    <3>6. Mapped(TextOfChunk, x \o y) = p \o q
      <4>1. Maps(TextOfChunk, ChunkSet, Seq(Words)) /\ x \in Seq(ChunkSet) /\ y \in Seq(ChunkSet)
        BY <1>0, <3>4
      <4>2. Mapped(TextOfChunk, x \o y) = Mapped(TextOfChunk, x) \o Mapped(TextOfChunk, y)
        BY <4>1, MappedConcat
      <4> QED BY <3>3, <4>2
    <3>7. p \in Seq(Seq(Words)) /\ q \in Seq(Seq(Words))
      BY <3>3, <3>4, BlocksMap, MappedIs
    <3>8. FlattenSeq(p \o q) = FlattenSeq(p) \o FlattenSeq(q)
      BY <3>7, FlattenConcat
    <3>9. w \in Seq(Seq(Words))
      BY <3>3, BlocksMap, MappedIs
    <3>10. TextOfBlock[b] = WordsIn(b.lines) /\ WordsIn(b.lines) \in Seq(Words)
      <4>1. b.lines \in Seq(Lines)
        BY DEF BlockSet
      <4> QED BY <4>1, WordsInLines DEF TextOfBlock
    <3>11. Mapped(TextOfBlock, s) = Append(w, WordsIn(b.lines))
      <4>1. Mapped(TextOfBlock, Append(u, b)) = Append(Mapped(TextOfBlock, u), TextOfBlock[b])
        BY <1>0, <3>1, MappedAppend
      <4> QED BY <3>1, <3>3, <3>10, <4>1
    <3>12. FlattenSeq(Mapped(TextOfBlock, s)) = FlattenSeq(w) \o WordsIn(b.lines)
      <4>1. PICK v : v = WordsIn(b.lines) /\ v \in Seq(Words)
        BY <3>10
      <4>2. FlattenSeq(Append(w, v)) = FlattenSeq(w) \o v
        BY <3>9, <4>1, FlattenAppend
      <4> QED BY <3>11, <4>1, <4>2
    <3> QED BY <3>2, <3>3, <3>4, <3>5, <3>6, <3>8, <3>12
  <2> HIDE DEF Same
  <2> QED BY <2>1, <2>2
<1>3. Good = Nat
  <2> HIDE DEF Good
  <2>1. Good \in SUBSET Nat
    BY DEF Good
  <2> QED BY <1>1, <1>2, <2>1, NatSetInduction
<1>4. Len(blocks) \in Good
  <2> HIDE DEF Good
  <2> QED BY <1>3
<1> QED BY <1>4

(***************************************************************************)
(* The headings over a line, and the text of the first lines.              *)
(***************************************************************************)
HeadingsIn(path) == {path[l] : l \in DOMAIN path}
PathIs(path, n) ==
    /\ path \in Paths /\ HeadingsIn(path) = HeadingsOver(n + 1)
    /\ \A l \in DOMAIN path : body[path[l]].level = l

LEMMA NoHeadingYet ==
    ASSUME NEW n \in Nat, ~Heading(n + 1)
    PROVE  HeadingsOver(n + 1 + 1) = HeadingsOver(n + 1)
<1>1. n + 1 - 1 = n /\ n + 1 + 1 - 1 = n + 1
  OBVIOUS
<1>2. ASSUME NEW m
      PROVE  m \in HeadingsOver(n + 1 + 1) <=> m \in HeadingsOver(n + 1)
  <2>1. m \in HeadingsOver(n + 1) <=>
            m \in 1 .. n /\ Heading(m) /\ \A o \in m + 1 .. n : Heading(o) => body[o].level > body[m].level
    BY <1>1 DEF HeadingsOver
  <2>2. m \in HeadingsOver(n + 1 + 1) <=>
            m \in 1 .. n + 1 /\ Heading(m) /\ \A o \in m + 1 .. n + 1 : Heading(o) => body[o].level > body[m].level
    BY <1>1 DEF HeadingsOver
  <2>3. CASE m \in 1 .. n
    <3>1. m + 1 .. n + 1 = (m + 1 .. n) \cup {n + 1} /\ m \in 1 .. n + 1
      BY <2>3
    <3> QED BY <2>1, <2>2, <3>1
  <2>4. CASE m \notin 1 .. n
    <3>1. m \in 1 .. n + 1 => m = n + 1
      BY <2>4
    <3> QED BY <2>1, <2>2, <2>4, <3>1
  <2> QED BY <2>3, <2>4
<1> QED BY <1>2

LEMMA HeadingComes ==
    ASSUME TextAssumption, BodyTyped, NEW n \in Nat, n + 1 \in Lines, Heading(n + 1)
    PROVE  HeadingsOver(n + 1 + 1) =
               {m \in HeadingsOver(n + 1) : body[m].level < body[n + 1].level} \cup {n + 1}
<1>1. n + 1 - 1 = n /\ n + 1 + 1 - 1 = n + 1
  OBVIOUS
<1>2. ASSUME NEW m
      PROVE  m \in HeadingsOver(n + 1 + 1) <=>
                 (m \in HeadingsOver(n + 1) /\ body[m].level < body[n + 1].level) \/ m = n + 1
  <2>1. m \in HeadingsOver(n + 1) <=>
            m \in 1 .. n /\ Heading(m) /\ \A o \in m + 1 .. n : Heading(o) => body[o].level > body[m].level
    BY <1>1 DEF HeadingsOver
  <2>2. m \in HeadingsOver(n + 1 + 1) <=>
            m \in 1 .. n + 1 /\ Heading(m) /\ \A o \in m + 1 .. n + 1 : Heading(o) => body[o].level > body[m].level
    BY <1>1 DEF HeadingsOver
  <2>3. CASE m \in 1 .. n
    <3>1. m + 1 .. n + 1 = (m + 1 .. n) \cup {n + 1} /\ m \in 1 .. n + 1 /\ m # n + 1
      BY <2>3
    <3>2. m \in Lines
      BY <2>3, BodyIs DEF Lines
    <3>3. body[m].level \in Nat /\ body[n + 1].level \in Nat
      BY <3>2, BodyIs
    <3>4. body[n + 1].level > body[m].level <=> body[m].level < body[n + 1].level
      BY <3>3
    <3> QED BY <2>1, <2>2, <2>3, <3>1, <3>4
  <2>4. CASE m = n + 1
    <3>1. m + 1 .. n + 1 = {} /\ m \in 1 .. n + 1
      BY <2>4
    <3> QED BY <2>2, <2>4, <3>1
  <2>5. CASE m \notin 1 .. n + 1
    <3>1. m \notin 1 .. n /\ m # n + 1
      BY <2>5
    <3> QED BY <2>1, <2>2, <2>5, <3>1
  <2>6. m \in 1 .. n + 1 => m \in 1 .. n \/ m = n + 1
    OBVIOUS
  <2> QED BY <2>3, <2>4, <2>5, <2>6
<1> QED BY <1>2

LEMMA PathStays ==
    ASSUME NEW n \in Nat, NEW path, PathIs(path, n), ~Heading(n + 1)
    PROVE  PathIs(path, n + 1)
BY NoHeadingYet DEF PathIs

LEMMA PathTurns ==
    ASSUME TextAssumption, BodyTyped, NEW n \in Nat, n + 1 \in Lines, NEW path, PathIs(path, n), Heading(n + 1)
    PROVE  PathIs(Under(path, body[n + 1].level, n + 1), n + 1)
<1>1. PICK k, j, r : k = body[n + 1].level /\ j = n + 1 /\ r = Under(path, k, j)
  OBVIOUS
<1>2. k \in Nat /\ j \in Lines
  BY <1>1, BodyIs
<1>3. PICK D \in SUBSET Nat : path \in [D -> Lines]
  BY DEF PathIs, Paths
<1> DEFINE E == {l \in D : l < k} \cup {k}
<1>4. r = [l \in E |-> IF l = k THEN j ELSE path[l]]
  BY <1>1, <1>3 DEF Under
<1>5. DOMAIN r = E /\ r[k] = j /\ \A l \in D : l < k => l \in E /\ r[l] = path[l]
  <2>1. \A l \in D : l < k => l # k
    BY <1>2, <1>3
  <2> QED BY <1>4, <2>1
<1>6. \A l \in E : l = k \/ (l \in D /\ l < k)
  OBVIOUS
<1>7. E \in SUBSET Nat
  BY <1>2, <1>3
<1> HIDE DEF E
<1>8. r \in [E -> Lines]
  <2>1. \A l \in E : r[l] \in Lines
    BY <1>2, <1>3, <1>5, <1>6
  <2>2. r = [l \in E |-> r[l]]
    BY <1>4
  <2> QED BY <2>1, <2>2
<1>9. r \in Paths
  BY <1>7, <1>8 DEF Paths
<1>10. \A l \in D : body[path[l]].level = l
  BY <1>3 DEF PathIs
<1>11. \A l \in E : body[r[l]].level = l
  BY <1>1, <1>5, <1>6, <1>10
<1>12. HeadingsIn(r) = {m \in HeadingsIn(path) : body[m].level < k} \cup {j}
  <2>1. HeadingsIn(path) = {path[l] : l \in D}
    BY <1>3 DEF HeadingsIn
  <2>2. HeadingsIn(r) = {r[l] : l \in E}
    BY <1>5 DEF HeadingsIn
  <2>3. ASSUME NEW l \in E PROVE r[l] \in {m \in HeadingsIn(path) : body[m].level < k} \cup {j}
    <3>1. CASE l = k
      BY <1>5, <3>1
    <3>2. CASE l \in D /\ l < k
      <4>1. PICK m : m = path[l]
        OBVIOUS
      <4>2. r[l] = m /\ m \in HeadingsIn(path) /\ body[m].level = l
        BY <1>5, <1>10, <2>1, <3>2, <4>1
      <4>3. m \in {i \in HeadingsIn(path) : body[i].level < k}
        BY <3>2, <4>2
      <4> QED BY <4>2, <4>3
    <3> QED BY <1>6, <3>1, <3>2
  <2>4. ASSUME NEW m \in HeadingsIn(path), body[m].level < k PROVE m \in HeadingsIn(r)
    <3>1. PICK l \in D : m = path[l]
      BY <2>1
    <3>2. l < k
      BY <1>10, <2>4, <3>1
    <3> QED BY <1>5, <2>2, <3>1, <3>2
  <2>5. k \in E
    BY DEF E
  <2>6. j \in HeadingsIn(r)
    BY <1>5, <2>2, <2>5
  <2> QED BY <2>2, <2>3, <2>4, <2>6
<1>13. HeadingsIn(r) = HeadingsOver(n + 1 + 1)
  <2>1. HeadingsIn(path) = HeadingsOver(n + 1)
    BY DEF PathIs
  <2>2. HeadingsOver(n + 1 + 1) =
            {m \in HeadingsOver(n + 1) : body[m].level < body[n + 1].level} \cup {n + 1}
    BY HeadingComes
  <2>3. \A m : m \in HeadingsIn(r) <=> (m \in HeadingsOver(n + 1) /\ body[m].level < k) \/ m = j
    BY <1>12, <2>1
  <2>4. \A m : m \in HeadingsOver(n + 1 + 1) <=> (m \in HeadingsOver(n + 1) /\ body[m].level < k) \/ m = j
    BY <1>1, <2>2
  <2>5. \A m : m \in HeadingsIn(r) <=> m \in HeadingsOver(n + 1 + 1)
    BY <2>3, <2>4
  <2> QED BY <2>5
<1> QED BY <1>1, <1>5, <1>9, <1>11, <1>13 DEF PathIs

\* The text of a line, and of the first lines
TextOfLine(m) == IF Heading(m) THEN <<>> ELSE WordsOf(m)
FirstLines(n) == [m \in 1 .. n |-> TextOfLine(m)]
TextOfLines(n) == FlattenSeq(FirstLines(n))

LEMMA OneMoreLine ==
    ASSUME TextAssumption, BodyTyped, NEW n \in Nat, n + 1 \in Lines
    PROVE  /\ TextOfLines(n) \in Seq(Words) /\ TextOfLine(n + 1) \in Seq(Words)
           /\ TextOfLines(n + 1) = TextOfLines(n) \o TextOfLine(n + 1)
<1>1. PICK A, x, y, e : A = Seq(Words) /\ x = FirstLines(n) /\ y = FirstLines(n + 1) /\ e = TextOfLine(n + 1)
  OBVIOUS
<1>2. Len(body) \in Nat /\ \A m \in 1 .. n + 1 : m \in Lines
  BY BodyIs DEF Lines
<1>3. ASSUME NEW m \in 1 .. n + 1 PROVE TextOfLine(m) \in A
  <2>1. <<>> \in Seq(Words)
    OBVIOUS
  <2>2. m \in Lines
    BY <1>2
  <2>3. WordsOf(m) \in Seq(Words)
    BY <2>2, WordsOfLine
  <2> QED BY <1>1, <2>1, <2>3 DEF TextOfLine
<1>4. \A m \in 1 .. n : TextOfLine(m) \in A
  BY <1>3
<1>5. x \in Seq(A) /\ Len(x) = n /\ \A m \in 1 .. n : x[m] = TextOfLine(m)
  <2>1. x \in [1 .. n -> A]
    BY <1>1, <1>4 DEF FirstLines
  <2>2. x \in Seq(A) /\ Len(x) = n
    BY <2>1
  <2> QED BY <1>1, <2>2 DEF FirstLines
<1>6. y \in Seq(A) /\ Len(y) = n + 1 /\ \A m \in 1 .. n + 1 : y[m] = TextOfLine(m)
  <2>1. y \in [1 .. n + 1 -> A]
    BY <1>1, <1>3 DEF FirstLines
  <2>2. y \in Seq(A) /\ Len(y) = n + 1
    BY <2>1
  <2> QED BY <1>1, <2>2 DEF FirstLines
<1>7. e \in A
  BY <1>1, <1>3
<1>8. y = Append(x, e)
  <2>1. PICK z : z = Append(x, e)
    OBVIOUS
  <2>2. z \in Seq(A) /\ Len(z) = n + 1 /\ z[n + 1] = e /\ \A m \in 1 .. n : z[m] = x[m]
    BY <1>5, <1>7, <2>1, AppendProperties
  <2>3. \A m \in 1 .. n + 1 : m = n + 1 \/ m \in 1 .. n
    OBVIOUS
  <2>4. \A m \in 1 .. n + 1 : y[m] = z[m]
    BY <1>1, <1>5, <1>6, <2>2, <2>3
  <2>5. y = z
    BY <1>6, <2>2, <2>4, SeqEqual
  <2> QED BY <2>1, <2>5
<1>9. x \in Seq(Seq(Words)) /\ e \in Seq(Words)
  BY <1>1, <1>5, <1>7
<1>10. FlattenSeq(x) \in Seq(Words) /\ FlattenSeq(Append(x, e)) = FlattenSeq(x) \o e
  BY <1>9, FlattenTyped, FlattenAppend
<1> QED BY <1>1, <1>8, <1>9, <1>10 DEF TextOfLines

(***************************************************************************)
(* The blocks of the first n lines: their text, with the lines gathered    *)
(* since, is that of the lines, and each stands under its path.            *)
(***************************************************************************)
TextOfBlocks(blocks) == FlattenSeq(Mapped(TextOfBlock, blocks))
Stand(lines, path) == \A m \in ToSet(lines) : HeadingsOver(m) = HeadingsIn(path)
Row(m) == body[m].kind = "table" /\ ~Fenced(m)
Unsplit(m, blocks, rows) ==
    \/ m \in ToSet(rows) /\ m + 1 \in ToSet(rows)
    \/ \E b \in ToSet(blocks) : b.atomic /\ m \in ToSet(b.lines) /\ m + 1 \in ToSet(b.lines)
RowsUnsplit(blocks, rows, n) ==
    \A m \in 1 .. n - 1 : Row(m) /\ body[m + 1].kind = "table" => Unsplit(m, blocks, rows)
Sound(blocks, path, lines, rows, n) ==
    /\ blocks \in Seq(BlockSet) /\ lines \in Seq(Lines) /\ rows \in {<<>>, lines}
    /\ PathIs(path, n)
    /\ TextOfBlocks(blocks) \o WordsIn(lines) = TextOfLines(n)
    /\ Stand(lines, path) /\ \A b \in ToSet(blocks) : Stand(b.lines, b.path)
    /\ RowsUnsplit(blocks, rows, n)

LEMMA NothingIsIn == ToSet(<<>>) = {}
BY DEF ToSet

LEMMA TextsAre ==
    ASSUME TextAssumption, BodyTyped, NEW blocks \in Seq(BlockSet)
    PROVE  /\ TextOfBlocks(blocks) \in Seq(Words)
           /\ \A b \in BlockSet : TextOfBlocks(Append(blocks, b)) = TextOfBlocks(blocks) \o WordsIn(b.lines)
<1>1. Maps(TextOfBlock, BlockSet, Seq(Words))
  BY BlocksMap
<1>2. PICK s : s = Mapped(TextOfBlock, blocks) /\ s \in Seq(Seq(Words))
  BY <1>1, MappedIs
<1>3. FlattenSeq(s) \in Seq(Words)
  BY <1>2, FlattenTyped
<1>4. ASSUME NEW b \in BlockSet PROVE TextOfBlocks(Append(blocks, b)) = TextOfBlocks(blocks) \o WordsIn(b.lines)
  <2>1. b.lines \in Seq(Lines)
    BY DEF BlockSet
  <2>2. PICK e : e = WordsIn(b.lines) /\ e \in Seq(Words)
    BY <2>1, WordsInLines
  <2>3. TextOfBlock[b] = e
    BY <2>2 DEF TextOfBlock
  <2>4. Mapped(TextOfBlock, Append(blocks, b)) = Append(Mapped(TextOfBlock, blocks), TextOfBlock[b])
    BY <1>1, MappedAppend
  <2>5. Mapped(TextOfBlock, Append(blocks, b)) = Append(s, e)
    BY <1>2, <2>3, <2>4
  <2>6. FlattenSeq(Append(s, e)) = FlattenSeq(s) \o e
    BY <1>2, <2>2, FlattenAppend
  <2> QED BY <1>2, <2>2, <2>5, <2>6 DEF TextOfBlocks
<1> QED BY <1>2, <1>3, <1>4 DEF TextOfBlocks

LEMMA SoundFlush ==
    ASSUME TextAssumption, BodyTyped, NEW n \in Nat, NEW blocks, NEW path, NEW lines, NEW rows,
           Sound(blocks, path, lines, rows, n), NEW atomic \in BOOLEAN, rows # <<>> => atomic
    PROVE  Sound(Append(blocks, Block(lines, path, atomic)), path, <<>>, <<>>, n)
<1>1. PICK b, r : b = Block(lines, path, atomic) /\ r = Append(blocks, b)
  OBVIOUS
<1>2. blocks \in Seq(BlockSet) /\ lines \in Seq(Lines) /\ rows \in {<<>>, lines} /\ path \in Paths
  BY DEF Sound, PathIs
<1>3. b \in BlockSet /\ b.lines = lines /\ b.path = path /\ b.atomic = atomic
  BY <1>1, <1>2 DEF Block, BlockSet
<1>4. r \in Seq(BlockSet) /\ ToSet(r) = ToSet(blocks) \cup {b}
  BY <1>1, <1>2, <1>3, AppendProperties, SetOfAppend
<1>5. TextOfBlocks(r) \o WordsIn(<<>>) = TextOfLines(n)
  <2>1. TextOfBlocks(r) = TextOfBlocks(blocks) \o WordsIn(lines)
    BY <1>1, <1>2, <1>3, TextsAre
  <2>2. TextOfBlocks(r) \in Seq(Words) /\ WordsIn(<<>>) = <<>>
    BY <1>2, <1>4, TextsAre, WordsInLines
  <2>3. TextOfBlocks(r) \o <<>> = TextOfBlocks(r)
    BY <2>2, ConcatEmptySeq
  <2>4. TextOfBlocks(blocks) \o WordsIn(lines) = TextOfLines(n)
    BY DEF Sound
  <2> QED BY <2>1, <2>2, <2>3, <2>4
<1>6. Stand(<<>>, path) /\ \A d \in ToSet(r) : Stand(d.lines, d.path)
  <2>1. Stand(lines, path) /\ \A d \in ToSet(blocks) : Stand(d.lines, d.path)
    BY DEF Sound
  <2>2. Stand(<<>>, path)
    BY NothingIsIn DEF Stand
  <2>3. Stand(b.lines, b.path)
    BY <1>3, <2>1
  <2> QED BY <1>4, <2>1, <2>2, <2>3
<1>7. RowsUnsplit(r, <<>>, n)
  <2>1. ASSUME NEW m \in 1 .. n - 1, Row(m) /\ body[m + 1].kind = "table" PROVE Unsplit(m, r, <<>>)
    <3>1. Unsplit(m, blocks, rows)
      BY <2>1 DEF Sound, RowsUnsplit
    <3>2. CASE m \in ToSet(rows) /\ m + 1 \in ToSet(rows)
      <4>1. rows # <<>>
        BY <3>2, NothingIsIn
      <4>2. b.atomic /\ m \in ToSet(b.lines) /\ m + 1 \in ToSet(b.lines) /\ b \in ToSet(r)
        BY <1>2, <1>3, <1>4, <3>2, <4>1
      <4> QED BY <4>2 DEF Unsplit
    <3>3. CASE ~(m \in ToSet(rows) /\ m + 1 \in ToSet(rows))
      BY <1>4, <3>1, <3>3 DEF Unsplit
    <3> QED BY <3>2, <3>3
  <2> QED BY <2>1 DEF RowsUnsplit
<1>8. <<>> \in Seq(Lines) /\ PathIs(path, n)
  BY DEF Sound
<1>9. Sound(r, path, <<>>, <<>>, n)
  BY <1>4, <1>5, <1>6, <1>7, <1>8 DEF Sound
<1> QED BY <1>1, <1>9

LEMMA SoundExtend ==
    ASSUME TextAssumption, BodyTyped, NEW n \in Nat, n + 1 \in Lines, ~Heading(n + 1),
           NEW blocks, NEW path, NEW lines, NEW rows, Sound(blocks, path, lines, rows, n),
           NEW more \in {<<>>, Append(lines, n + 1)}, rows # <<>> => more = Append(lines, n + 1),
           n # 0 /\ Row(n) /\ body[n + 1].kind = "table" => n \in ToSet(rows)
    PROVE  Sound(blocks, path, Append(lines, n + 1), more, n + 1)
<1>1. PICK j, l : j = n + 1 /\ l = Append(lines, j)
  OBVIOUS
<1>2. blocks \in Seq(BlockSet) /\ lines \in Seq(Lines) /\ rows \in {<<>>, lines} /\ PathIs(path, n)
  BY DEF Sound
<1>3. l \in Seq(Lines) /\ ToSet(l) = ToSet(lines) \cup {j}
  BY <1>1, <1>2, AppendProperties, SetOfAppend
<1>4. TextOfBlocks(blocks) \o WordsIn(l) = TextOfLines(n + 1)
  <2>1. PICK x, y, e : x = TextOfBlocks(blocks) /\ y = WordsIn(lines) /\ e = WordsOf(j)
    OBVIOUS
  <2>2. x \in Seq(Words) /\ y \in Seq(Words) /\ e \in Seq(Words)
    BY <1>1, <1>2, <2>1, TextsAre, WordsInLines, WordsOfLine
  <2>3. WordsIn(l) = y \o e
    BY <1>1, <1>2, <2>1, WordsInLines
  <2>4. x \o y = TextOfLines(n)
    BY <2>1 DEF Sound
  <2>5. TextOfLines(n + 1) = TextOfLines(n) \o e
    BY <1>1, <2>1, OneMoreLine DEF TextOfLine
  <2>6. (x \o y) \o e = x \o (y \o e)
    BY <2>2, ConcatAssociative
  <2> QED BY <2>1, <2>3, <2>4, <2>5, <2>6
<1>5. PathIs(path, n + 1)
  BY <1>2, PathStays
<1>6. Stand(l, path)
  <2>1. HeadingsOver(j) = HeadingsIn(path)
    BY <1>1, <1>2 DEF PathIs
  <2>2. Stand(lines, path)
    BY DEF Sound
  <2> QED BY <1>3, <2>1, <2>2 DEF Stand
<1>7. RowsUnsplit(blocks, more, n + 1)
  <2>1. ASSUME NEW m \in 1 .. n + 1 - 1, Row(m) /\ body[m + 1].kind = "table" PROVE Unsplit(m, blocks, more)
    <3>1. ToSet(rows) # {} => more = l /\ ToSet(rows) \subseteq ToSet(more) /\ n + 1 \in ToSet(more)
      <4>1. SUFFICES ASSUME ToSet(rows) # {}
                     PROVE  more = l /\ ToSet(rows) \subseteq ToSet(more) /\ n + 1 \in ToSet(more)
        OBVIOUS
      <4>2. rows # <<>> /\ rows = lines
        BY <1>2, <4>1, NothingIsIn
      <4> QED BY <1>1, <1>3, <4>2
    <3>2. CASE m = n
      <4>1. n \in ToSet(rows)
        BY <2>1, <3>2
      <4> QED BY <3>1, <3>2, <4>1 DEF Unsplit
    <3>3. CASE m # n
      <4>1. m \in 1 .. n - 1
        BY <3>3
      <4>2. Unsplit(m, blocks, rows)
        BY <2>1, <4>1 DEF Sound, RowsUnsplit
      <4> QED BY <3>1, <4>2 DEF Unsplit
    <3> QED BY <3>2, <3>3
  <2> QED BY <2>1 DEF RowsUnsplit
<1>8. \A b \in ToSet(blocks) : Stand(b.lines, b.path)
  BY DEF Sound
<1>9. more \in {<<>>, l}
  BY <1>1
<1>10. Sound(blocks, path, l, more, n + 1)
  BY <1>2, <1>3, <1>4, <1>5, <1>6, <1>7, <1>8, <1>9 DEF Sound
<1> QED BY <1>1, <1>10

\* A line without text, which is no row of a table
LEMMA SoundSkip ==
    ASSUME TextAssumption, BodyTyped, NEW n \in Nat, n + 1 \in Lines, TextOfLine(n + 1) = <<>>,
           body[n + 1].kind # "table", NEW blocks, NEW path, NEW under, PathIs(under, n + 1),
           Sound(blocks, path, <<>>, <<>>, n)
    PROVE  Sound(blocks, under, <<>>, <<>>, n + 1)
<1>1. blocks \in Seq(BlockSet) /\ <<>> \in Seq(Lines) /\ \A b \in ToSet(blocks) : Stand(b.lines, b.path)
  BY DEF Sound
<1>2. TextOfBlocks(blocks) \o WordsIn(<<>>) = TextOfLines(n + 1)
  <2>1. TextOfBlocks(blocks) \o WordsIn(<<>>) = TextOfLines(n)
    BY DEF Sound
  <2>2. TextOfLines(n) \in Seq(Words) /\ TextOfLines(n + 1) = TextOfLines(n) \o <<>>
    BY OneMoreLine
  <2>3. TextOfLines(n) \o <<>> = TextOfLines(n)
    BY <2>2, ConcatEmptySeq
  <2> QED BY <2>1, <2>2, <2>3
<1>3. Stand(<<>>, under)
  BY NothingIsIn DEF Stand
<1>4. RowsUnsplit(blocks, <<>>, n + 1)
  <2>1. ASSUME NEW m \in 1 .. n + 1 - 1, Row(m) /\ body[m + 1].kind = "table" PROVE Unsplit(m, blocks, <<>>)
    <3>1. m # n
      BY <2>1
    <3>2. m \in 1 .. n - 1
      BY <3>1
    <3> QED BY <2>1, <3>2 DEF Sound, RowsUnsplit
  <2> QED BY <2>1 DEF RowsUnsplit
<1> QED BY <1>1, <1>2, <1>3, <1>4 DEF Sound

(***************************************************************************)
(* The fold over the lines.  Of what is gathered only one is there at a    *)
(* time; a fence is open when an odd number of fences was read, and the    *)
(* last row of a table is still gathered.                                  *)
(***************************************************************************)
Collected == [blocks : Seq(BlockSet), path : Paths, pending : Seq(Lines), table : Seq(Lines), fence : Seq(Lines)]
Reading(b, p, x, y, z) == [blocks |-> b, path |-> p, pending |-> x, table |-> y, fence |-> z]
Gathered(x, y, z) == IF x # <<>> THEN x ELSE IF y # <<>> THEN y ELSE z
OneOf(x, y, z) == (x # <<>> => y = <<>> /\ z = <<>>) /\ (y # <<>> => z = <<>>)
Half(s, n) ==
    /\ s \in Collected /\ OneOf(s.pending, s.table, s.fence)
    /\ Sound(s.blocks, s.path, Gathered(s.pending, s.table, s.fence), s.table, n)
Held(s, n) ==
    /\ Half(s, n)
    /\ s.fence # <<>> <=> Fences(n) % 2 = 1
    /\ n # 0 /\ Row(n) => n \in ToSet(s.table)

LEMMA ReadingIs ==
    ASSUME NEW b, NEW p, NEW x, NEW y, NEW z
    PROVE  /\ Reading(b, p, x, y, z).blocks = b /\ Reading(b, p, x, y, z).path = p
           /\ Reading(b, p, x, y, z).pending = x /\ Reading(b, p, x, y, z).table = y
           /\ Reading(b, p, x, y, z).fence = z
BY DEF Reading

LEMMA HalfIs ==
    ASSUME NEW n, NEW b, NEW p, NEW x \in Seq(Lines), NEW y \in Seq(Lines), NEW z \in Seq(Lines),
           OneOf(x, y, z), Sound(b, p, Gathered(x, y, z), y, n)
    PROVE  Half(Reading(b, p, x, y, z), n)
<1>1. b \in Seq(BlockSet) /\ p \in Paths
  BY DEF Sound, PathIs
<1>2. Reading(b, p, x, y, z) \in Collected
  BY <1>1 DEF Reading, Collected
<1> QED BY <1>2, ReadingIs DEF Half

LEMMA CollectedIs ==
    ASSUME NEW s \in Collected
    PROVE  /\ s = Reading(s.blocks, s.path, s.pending, s.table, s.fence)
           /\ s.pending \in Seq(Lines) /\ s.table \in Seq(Lines) /\ s.fence \in Seq(Lines)
           /\ s.blocks \in Seq(BlockSet) /\ s.path \in Paths
BY DEF Collected, Reading

LEMMA FlushPending ==
    ASSUME TextAssumption, BodyTyped, NEW n \in Nat, NEW s, Half(s, n)
    PROVE  /\ Half(Flush(s, "pending"), n) /\ Flush(s, "pending").path = s.path
           /\ Flush(s, "pending").pending = <<>> /\ Flush(s, "pending").table = s.table /\ Flush(s, "pending").fence = s.fence
<1>1. PICK b, p, x, y, z, r : /\ b = s.blocks /\ p = s.path /\ x = s.pending /\ y = s.table /\ z = s.fence
                              /\ r = Flush(s, "pending")
  OBVIOUS
<1>2. s \in Collected /\ s = Reading(b, p, x, y, z) /\ x \in Seq(Lines) /\ y \in Seq(Lines) /\ z \in Seq(Lines)
  BY <1>1, CollectedIs DEF Half
<1>3. OneOf(x, y, z) /\ Sound(b, p, Gathered(x, y, z), y, n)
  BY <1>1 DEF Half
<1>4. CASE x = <<>>
  <2>1. r = s
    BY <1>1, <1>4 DEF Flush
  <2> QED BY <1>1, <1>4, <2>1
<1>5. CASE x # <<>>
  <2>1. y = <<>> /\ z = <<>> /\ Gathered(x, y, z) = x
    BY <1>3, <1>5 DEF OneOf, Gathered
  <2>2. r = [s EXCEPT !.blocks = Append(@, Block(x, p, FALSE)), !.pending = <<>>]
    BY <1>1, <1>5 DEF Flush
  <2>3. PICK e : e = Append(b, Block(x, p, FALSE))
    OBVIOUS
  <2>4. r = Reading(e, p, <<>>, y, z)
    BY <1>2, <2>2, <2>3 DEF Reading
  <2>5. r = Reading(e, p, <<>>, <<>>, <<>>)
    BY <2>1, <2>4
  <2>6. Sound(e, p, <<>>, <<>>, n)
    <3>1. Sound(b, p, x, y, n)
      BY <1>3, <2>1
    <3> QED BY <2>1, <2>3, <3>1, SoundFlush
  <2>7. OneOf(<<>>, <<>>, <<>>) /\ Gathered(<<>>, <<>>, <<>>) = <<>> /\ <<>> \in Seq(Lines)
    BY DEF OneOf, Gathered
  <2>8. Half(Reading(e, p, <<>>, <<>>, <<>>), n)
    BY <2>6, <2>7, HalfIs
  <2> QED BY <1>1, <2>1, <2>5, <2>8, ReadingIs
<1> QED BY <1>4, <1>5

LEMMA FlushTable ==
    ASSUME TextAssumption, BodyTyped, NEW n \in Nat, NEW s, Half(s, n)
    PROVE  /\ Half(Flush(s, "table"), n) /\ Flush(s, "table").path = s.path
           /\ Flush(s, "table").table = <<>> /\ Flush(s, "table").pending = s.pending /\ Flush(s, "table").fence = s.fence
<1>1. PICK b, p, x, y, z, r : /\ b = s.blocks /\ p = s.path /\ x = s.pending /\ y = s.table /\ z = s.fence
                              /\ r = Flush(s, "table")
  OBVIOUS
<1>2. s \in Collected /\ s = Reading(b, p, x, y, z) /\ x \in Seq(Lines) /\ y \in Seq(Lines) /\ z \in Seq(Lines)
  BY <1>1, CollectedIs DEF Half
<1>3. OneOf(x, y, z) /\ Sound(b, p, Gathered(x, y, z), y, n)
  BY <1>1 DEF Half
<1>4. CASE y = <<>>
  <2>1. r = s
    BY <1>1, <1>4 DEF Flush
  <2> QED BY <1>1, <1>4, <2>1
<1>5. CASE y # <<>>
  <2>1. x = <<>> /\ z = <<>> /\ Gathered(x, y, z) = y
    BY <1>3, <1>5 DEF OneOf, Gathered
  <2>2. r = [s EXCEPT !.blocks = Append(@, Block(y, p, TRUE)), !.table = <<>>]
    BY <1>1, <1>5 DEF Flush
  <2>3. PICK e : e = Append(b, Block(y, p, TRUE))
    OBVIOUS
  <2>4. r = Reading(e, p, x, <<>>, z)
    BY <1>2, <2>2, <2>3 DEF Reading
  <2>5. r = Reading(e, p, <<>>, <<>>, <<>>)
    BY <2>1, <2>4
  <2>6. Sound(e, p, <<>>, <<>>, n)
    <3>1. Sound(b, p, y, y, n)
      BY <1>3, <2>1
    <3> QED BY <2>1, <2>3, <3>1, SoundFlush
  <2>7. OneOf(<<>>, <<>>, <<>>) /\ Gathered(<<>>, <<>>, <<>>) = <<>> /\ <<>> \in Seq(Lines)
    BY DEF OneOf, Gathered
  <2>8. Half(Reading(e, p, <<>>, <<>>, <<>>), n)
    BY <2>6, <2>7, HalfIs
  <2> QED BY <1>1, <2>1, <2>5, <2>8, ReadingIs
<1> QED BY <1>4, <1>5

LEMMA FlushFence ==
    ASSUME TextAssumption, BodyTyped, NEW n \in Nat, NEW s, Half(s, n)
    PROVE  /\ Half(Flush(s, "fence"), n) /\ Flush(s, "fence").path = s.path
           /\ Flush(s, "fence").fence = <<>> /\ Flush(s, "fence").pending = s.pending /\ Flush(s, "fence").table = s.table
<1>1. PICK b, p, x, y, z, r : /\ b = s.blocks /\ p = s.path /\ x = s.pending /\ y = s.table /\ z = s.fence
                              /\ r = Flush(s, "fence")
  OBVIOUS
<1>2. s \in Collected /\ s = Reading(b, p, x, y, z) /\ x \in Seq(Lines) /\ y \in Seq(Lines) /\ z \in Seq(Lines)
  BY <1>1, CollectedIs DEF Half
<1>3. OneOf(x, y, z) /\ Sound(b, p, Gathered(x, y, z), y, n)
  BY <1>1 DEF Half
<1>4. CASE z = <<>>
  <2>1. r = s
    BY <1>1, <1>4 DEF Flush
  <2> QED BY <1>1, <1>4, <2>1
<1>5. CASE z # <<>>
  <2>1. x = <<>> /\ y = <<>> /\ Gathered(x, y, z) = z
    BY <1>3, <1>5 DEF OneOf, Gathered
  <2>2. r = [s EXCEPT !.blocks = Append(@, Block(z, p, TRUE)), !.fence = <<>>]
    BY <1>1, <1>5 DEF Flush
  <2>3. PICK e : e = Append(b, Block(z, p, TRUE))
    OBVIOUS
  <2>4. r = Reading(e, p, x, y, <<>>)
    BY <1>2, <2>2, <2>3 DEF Reading
  <2>5. r = Reading(e, p, <<>>, <<>>, <<>>)
    BY <2>1, <2>4
  <2>6. Sound(e, p, <<>>, <<>>, n)
    <3>1. Sound(b, p, z, y, n)
      BY <1>3, <2>1
    <3> QED BY <2>1, <2>3, <3>1, SoundFlush
  <2>7. OneOf(<<>>, <<>>, <<>>) /\ Gathered(<<>>, <<>>, <<>>) = <<>> /\ <<>> \in Seq(Lines)
    BY DEF OneOf, Gathered
  <2>8. Half(Reading(e, p, <<>>, <<>>, <<>>), n)
    BY <2>6, <2>7, HalfIs
  <2> QED BY <1>1, <2>1, <2>5, <2>8, ReadingIs
<1> QED BY <1>4, <1>5

LEMMA FencesRise ==
    ASSUME TextAssumption, BodyTyped, NEW n \in Nat, n + 1 \in Lines
    PROVE  /\ Fences(n) \in Nat
           /\ Fences(n + 1) = Fences(n) + (IF body[n + 1].kind = "fence" THEN 1 ELSE 0)
<1>1. PICK X, Y : X = {m \in 1 .. n : body[m].kind = "fence"} /\ Y = {m \in 1 .. n + 1 : body[m].kind = "fence"}
  OBVIOUS
<1>2. IsFiniteSet(X) /\ n + 1 \notin X
  <2>1. PICK I : I = 1 .. n /\ IsFiniteSet(I)
    BY LastOfPrefix
  <2>2. X \in SUBSET I /\ n + 1 \notin X
    BY <1>1, <2>1
  <2>3. IsFiniteSet(X)
    BY <2>1, <2>2, FS_Subset
  <2> QED BY <2>2, <2>3
<1>3. 1 .. n + 1 = (1 .. n) \cup {n + 1}
  OBVIOUS
<1>4. Y = IF body[n + 1].kind = "fence" THEN X \cup {n + 1} ELSE X
  BY <1>1, <1>3
<1>5. Cardinality(X) \in Nat /\ Cardinality(X \cup {n + 1}) = Cardinality(X) + 1
  BY <1>2, FS_CardinalityType, FS_AddElement
<1>6. Fences(n) = Cardinality(X) /\ Fences(n + 1) = Cardinality(Y)
  BY <1>1 DEF Fences
<1> QED BY <1>4, <1>5, <1>6

\* Whether a line is fenced, from what was read before it
LEMMA FencedIs ==
    ASSUME TextAssumption, BodyTyped, NEW n \in Nat, n + 1 \in Lines
    PROVE  /\ body[n + 1].kind # "fence" =>
                  /\ Fences(n + 1) % 2 = 1 <=> Fences(n) % 2 = 1
                  /\ Fenced(n + 1) <=> Fences(n) % 2 = 1
           /\ body[n + 1].kind = "fence" => Fenced(n + 1) /\ (Fences(n + 1) % 2 = 1 <=> ~(Fences(n) % 2 = 1))
<1>1. PICK f, g : f = Fences(n) /\ g = Fences(n + 1)
  OBVIOUS
<1>2. f \in Nat /\ g = f + (IF body[n + 1].kind = "fence" THEN 1 ELSE 0)
  BY <1>1, FencesRise
<1>3. (f + 1) % 2 = 1 <=> ~(f % 2 = 1)
  BY <1>2
<1>4. body[n + 1].kind = "fence" => g = f + 1
  BY <1>2
<1>5. body[n + 1].kind # "fence" => g = f
  BY <1>2
<1> QED BY <1>1, <1>3, <1>4, <1>5 DEF Fenced

LEMMA GatherPending ==
    ASSUME TextAssumption, BodyTyped, NEW n \in Nat, n + 1 \in Lines, ~Heading(n + 1), NEW s, Half(s, n),
           s.table = <<>> /\ s.fence = <<>>, ~(n # 0 /\ Row(n) /\ body[n + 1].kind = "table"), NEW r, r = [s EXCEPT !.pending = Append(@, n + 1)]
    PROVE  Half(r, n + 1) /\ r.table = <<>> /\ r.fence = <<>>
<1>1. PICK b, p, x, y, z : b = s.blocks /\ p = s.path /\ x = s.pending /\ y = s.table /\ z = s.fence
  OBVIOUS
<1>2. PICK l : l = Append(x, n + 1)
  OBVIOUS
<1>3. s \in Collected /\ s = Reading(b, p, x, y, z) /\ x \in Seq(Lines) /\ y = <<>> /\ z = <<>>
  BY <1>1, CollectedIs DEF Half
<1>4. l \in Seq(Lines) /\ l # <<>> /\ ToSet(l) = ToSet(x) \cup {n + 1}
  BY <1>2, <1>3, AppendProperties, SetOfAppend
<1>5. r = Reading(b, p, l, <<>>, <<>>)
  <2>1. r = Reading(b, p, l, y, z)
    BY <1>2, <1>3 DEF Reading
  <2> QED BY <1>3, <2>1
<1>6. Sound(b, p, x, <<>>, n)
  <2>1. Sound(b, p, Gathered(x, y, z), y, n)
    BY <1>1 DEF Half
  <2>2. Gathered(x, y, z) = x
    BY <1>3 DEF Gathered
  <2> QED BY <1>3, <2>1, <2>2
<1>7. Sound(b, p, l, <<>>, n + 1)
  <2>1. n # 0 /\ Row(n) /\ body[n + 1].kind = "table" => n \in ToSet(<<>>)
    BY <1>1
  <2> QED BY <1>2, <1>6, <2>1, SoundExtend
<1>8. OneOf(l, <<>>, <<>>) /\ Gathered(l, <<>>, <<>>) = l /\ <<>> \in Seq(Lines)
  BY <1>4 DEF OneOf, Gathered
<1>9. Half(Reading(b, p, l, <<>>, <<>>), n + 1)
  BY <1>4, <1>7, <1>8, HalfIs
<1>10. PICK q : q = Reading(b, p, l, <<>>, <<>>) /\ q.table = <<>> /\ q.fence = <<>> /\ q.pending = l
  BY ReadingIs
<1>11. r = q
  BY <1>5, <1>10
<1> QED BY <1>4, <1>9, <1>10, <1>11

LEMMA GatherRow ==
    ASSUME TextAssumption, BodyTyped, NEW n \in Nat, n + 1 \in Lines, ~Heading(n + 1), NEW s, Half(s, n),
           s.pending = <<>> /\ s.fence = <<>>, n # 0 /\ Row(n) => n \in ToSet(s.table), NEW r, r = [s EXCEPT !.table = Append(@, n + 1)]
    PROVE  Half(r, n + 1) /\ n + 1 \in ToSet(r.table) /\ r.fence = <<>>
<1>1. PICK b, p, x, y, z : b = s.blocks /\ p = s.path /\ x = s.pending /\ y = s.table /\ z = s.fence
  OBVIOUS
<1>2. PICK l : l = Append(y, n + 1)
  OBVIOUS
<1>3. s \in Collected /\ s = Reading(b, p, x, y, z) /\ y \in Seq(Lines) /\ x = <<>> /\ z = <<>>
  BY <1>1, CollectedIs DEF Half
<1>4. l \in Seq(Lines) /\ l # <<>> /\ ToSet(l) = ToSet(y) \cup {n + 1}
  BY <1>2, <1>3, AppendProperties, SetOfAppend
<1>5. r = Reading(b, p, <<>>, l, <<>>)
  <2>1. r = Reading(b, p, x, l, z)
    BY <1>2, <1>3 DEF Reading
  <2> QED BY <1>3, <2>1
<1>6. Sound(b, p, y, y, n)
  <2>1. Sound(b, p, Gathered(x, y, z), y, n)
    BY <1>1 DEF Half
  <2>2. Gathered(x, y, z) = y
    BY <1>3 DEF Gathered
  <2> QED BY <1>3, <2>1, <2>2
<1>7. Sound(b, p, l, l, n + 1)
  <2>1. n # 0 /\ Row(n) /\ body[n + 1].kind = "table" => n \in ToSet(y)
    BY <1>1
  <2> QED BY <1>2, <1>6, <2>1, SoundExtend
<1>8. OneOf(<<>>, l, <<>>) /\ Gathered(<<>>, l, <<>>) = l /\ <<>> \in Seq(Lines)
  BY <1>4 DEF OneOf, Gathered
<1>9. Half(Reading(b, p, <<>>, l, <<>>), n + 1)
  BY <1>4, <1>7, <1>8, HalfIs
<1>10. PICK q : q = Reading(b, p, <<>>, l, <<>>) /\ q.pending = <<>> /\ q.fence = <<>> /\ q.table = l
  BY ReadingIs
<1>11. r = q
  BY <1>5, <1>10
<1> QED BY <1>4, <1>9, <1>10, <1>11

LEMMA GatherFence ==
    ASSUME TextAssumption, BodyTyped, NEW n \in Nat, n + 1 \in Lines, ~Heading(n + 1), NEW s, Half(s, n),
           s.pending = <<>> /\ s.table = <<>>, ~(n # 0 /\ Row(n) /\ body[n + 1].kind = "table"), NEW r, r = [s EXCEPT !.fence = Append(@, n + 1)]
    PROVE  Half(r, n + 1) /\ r.pending = <<>> /\ r.table = <<>> /\ r.fence # <<>>
<1>1. PICK b, p, x, y, z : b = s.blocks /\ p = s.path /\ x = s.pending /\ y = s.table /\ z = s.fence
  OBVIOUS
<1>2. PICK l : l = Append(z, n + 1)
  OBVIOUS
<1>3. s \in Collected /\ s = Reading(b, p, x, y, z) /\ z \in Seq(Lines) /\ x = <<>> /\ y = <<>>
  BY <1>1, CollectedIs DEF Half
<1>4. l \in Seq(Lines) /\ l # <<>> /\ ToSet(l) = ToSet(z) \cup {n + 1}
  BY <1>2, <1>3, AppendProperties, SetOfAppend
<1>5. r = Reading(b, p, <<>>, <<>>, l)
  <2>1. r = Reading(b, p, x, y, l)
    BY <1>2, <1>3 DEF Reading
  <2> QED BY <1>3, <2>1
<1>6. Sound(b, p, z, <<>>, n)
  <2>1. Sound(b, p, Gathered(x, y, z), y, n)
    BY <1>1 DEF Half
  <2>2. Gathered(x, y, z) = z
    BY <1>3 DEF Gathered
  <2> QED BY <1>3, <2>1, <2>2
<1>7. Sound(b, p, l, <<>>, n + 1)
  <2>1. n # 0 /\ Row(n) /\ body[n + 1].kind = "table" => n \in ToSet(<<>>)
    BY <1>1
  <2> QED BY <1>2, <1>6, <2>1, SoundExtend
<1>8. OneOf(<<>>, <<>>, l) /\ Gathered(<<>>, <<>>, l) = l /\ <<>> \in Seq(Lines)
  BY <1>4 DEF OneOf, Gathered
<1>9. Half(Reading(b, p, <<>>, <<>>, l), n + 1)
  BY <1>4, <1>7, <1>8, HalfIs
<1>10. PICK q : q = Reading(b, p, <<>>, <<>>, l) /\ q.pending = <<>> /\ q.table = <<>> /\ q.fence = l
  BY ReadingIs
<1>11. r = q
  BY <1>5, <1>10
<1> QED BY <1>4, <1>9, <1>10, <1>11

LEMMA GatherNothing ==
    ASSUME TextAssumption, BodyTyped, NEW n \in Nat, n + 1 \in Lines, TextOfLine(n + 1) = <<>>,
           body[n + 1].kind # "table", NEW s, Half(s, n), s.pending = <<>> /\ s.table = <<>> /\ s.fence = <<>>,
           NEW under, PathIs(under, n + 1), NEW r, r = [s EXCEPT !.path = under]
    PROVE  Half(r, n + 1) /\ r.table = <<>> /\ r.fence = <<>>
<1>1. PICK b, p : b = s.blocks /\ p = s.path
  OBVIOUS
<1>2. s = Reading(b, p, <<>>, <<>>, <<>>)
  BY <1>1, CollectedIs DEF Half
<1>3. r = Reading(b, under, <<>>, <<>>, <<>>)
  BY <1>2 DEF Reading
<1>4. OneOf(<<>>, <<>>, <<>>) /\ Gathered(<<>>, <<>>, <<>>) = <<>> /\ <<>> \in Seq(Lines)
  BY DEF OneOf, Gathered
<1>5. Sound(b, p, <<>>, <<>>, n)
  BY <1>1, <1>4 DEF Half
<1>6. Sound(b, under, <<>>, <<>>, n + 1)
  BY <1>5, SoundSkip
<1>7. Half(Reading(b, under, <<>>, <<>>, <<>>), n + 1)
  BY <1>4, <1>6, HalfIs
<1> QED BY <1>3, <1>7, ReadingIs

\* What one line does to what was read
LEMMA LineIsRead ==
    ASSUME TextAssumption, BodyTyped, NEW n \in Nat, n + 1 \in Lines, NEW s, Held(s, n)
    PROVE  Held(ReadLine(s, n + 1), n + 1)
<1>1. PICK k, r : k = body[n + 1].kind /\ r = ReadLine(s, n + 1)
  OBVIOUS
<1>2. k \in {"blank", "heading", "fence", "table", "text"}
  BY <1>1, BodyIs
<1>3. /\ Half(s, n) /\ (s.fence # <<>> <=> Fences(n) % 2 = 1) /\ (n # 0 /\ Row(n) => n \in ToSet(s.table))
  BY DEF Held
<1>4. /\ k # "fence" => /\ Fences(n + 1) % 2 = 1 <=> s.fence # <<>>
                        /\ Fenced(n + 1) <=> s.fence # <<>>
      /\ k = "fence" => Fenced(n + 1) /\ (Fences(n + 1) % 2 = 1 <=> s.fence = <<>>)
  BY <1>1, <1>3, FencedIs
<1>5. Row(n + 1) <=> k = "table" /\ s.fence = <<>>
  BY <1>1, <1>4 DEF Row
<1>6. Heading(n + 1) <=> k = "heading" /\ s.fence = <<>>
  BY <1>1, <1>4 DEF Heading
<1>7. n + 1 # 0
  OBVIOUS
<1>8. CASE s.fence # <<>>
  <2>1. PICK u : u = [s EXCEPT !.fence = Append(@, n + 1)]
    OBVIOUS
  <2>2. s.pending = <<>> /\ s.table = <<>>
    BY <1>3, <1>8 DEF Half, OneOf
  <2>3. ~(n # 0 /\ Row(n) /\ body[n + 1].kind = "table")
    BY <1>3, <2>2, NothingIsIn
  <2>4. Half(u, n + 1) /\ u.pending = <<>> /\ u.table = <<>> /\ u.fence # <<>>
    BY <1>3, <1>6, <1>8, <2>1, <2>2, <2>3, GatherFence
  <2>5. CASE k = "fence"
    <3>1. r = Flush(u, "fence")
      BY <1>1, <1>8, <2>1, <2>5 DEF ReadLine
    <3>2. n + 1 \in Nat
      OBVIOUS
    <3>3. Half(r, n + 1) /\ r.fence = <<>>
      BY <2>4, <3>1, <3>2, FlushFence
    <3> QED BY <1>1, <1>4, <1>5, <1>8, <2>5, <3>3 DEF Held
  <2>6. CASE k # "fence"
    <3>1. r = u
      BY <1>1, <1>8, <2>1, <2>6 DEF ReadLine
    <3> QED BY <1>1, <1>4, <1>5, <1>8, <2>4, <2>6, <3>1 DEF Held
  <2> QED BY <2>5, <2>6
<1>9. CASE s.fence = <<>>
  <2>1. PICK v : v = FlushBoth(s)
    OBVIOUS
  <2>2. Half(v, n) /\ v.pending = <<>> /\ v.table = <<>> /\ v.fence = <<>> /\ v.path = s.path
    <3>1. PICK w : w = Flush(s, "pending")
      OBVIOUS
    <3>2. Half(w, n) /\ w.pending = <<>> /\ w.fence = <<>> /\ w.path = s.path
      BY <1>3, <1>9, <3>1, FlushPending
    <3>3. v = Flush(w, "table")
      BY <2>1, <3>1 DEF FlushBoth
    <3> QED BY <3>2, <3>3, FlushTable
  <2>3. CASE k = "fence"
    <3>1. r = [v EXCEPT !.fence = <<n + 1>>]
      BY <1>1, <1>9, <2>1, <2>3 DEF ReadLine
    <3>2. Append(<<>>, n + 1) = <<n + 1>>
      OBVIOUS
    <3>3. r = [v EXCEPT !.fence = Append(@, n + 1)]
      <4>1. v \in Collected
        BY <2>2 DEF Half
      <4>2. v = Reading(v.blocks, v.path, v.pending, v.table, v.fence)
        BY <4>1, CollectedIs
      <4> QED BY <2>2, <3>1, <3>2, <4>2 DEF Reading
    <3>4. ~(n # 0 /\ Row(n) /\ body[n + 1].kind = "table")
      BY <1>1, <2>3
    <3>5. Half(r, n + 1) /\ r.fence # <<>>
      BY <1>6, <2>2, <2>3, <3>3, <3>4, GatherFence
    <3> QED BY <1>1, <1>4, <1>5, <1>9, <2>3, <3>5 DEF Held
  <2>4. CASE k = "heading"
    <3>1. r = [v EXCEPT !.path = Under(@, body[n + 1].level, n + 1)]
      BY <1>1, <1>9, <2>1, <2>4 DEF ReadLine
    <3>2. PICK under : under = Under(v.path, body[n + 1].level, n + 1)
      OBVIOUS
    <3>3. r = [v EXCEPT !.path = under]
      BY <3>1, <3>2
    <3>4. PathIs(v.path, n)
      BY <2>2 DEF Half, Sound
    <3>5. PathIs(under, n + 1)
      BY <1>6, <1>9, <2>4, <3>2, <3>4, PathTurns
    <3>6. TextOfLine(n + 1) = <<>> /\ body[n + 1].kind # "table"
      BY <1>1, <1>6, <1>9, <2>4 DEF TextOfLine
    <3>7. v.pending = <<>> /\ v.table = <<>> /\ v.fence = <<>>
      BY <2>2
    <3>8. Half(r, n + 1) /\ r.fence = <<>>
      BY <2>2, <3>3, <3>5, <3>6, <3>7, GatherNothing
    <3> QED BY <1>1, <1>4, <1>5, <1>9, <2>4, <3>8 DEF Held
  <2>5. CASE k = "table"
    <3>1. PICK w : w = Flush(s, "pending")
      OBVIOUS
    <3>2. Half(w, n) /\ w.pending = <<>> /\ w.fence = <<>> /\ w.table = s.table
      BY <1>3, <1>9, <3>1, FlushPending
    <3>3. r = [w EXCEPT !.table = Append(@, n + 1)]
      BY <1>1, <1>9, <2>5, <3>1 DEF ReadLine
    <3>4. n # 0 /\ Row(n) => n \in ToSet(w.table)
      BY <1>3, <3>2
    <3>5. Half(r, n + 1) /\ n + 1 \in ToSet(r.table) /\ r.fence = <<>>
      BY <1>6, <2>5, <3>2, <3>3, <3>4, GatherRow
    <3> QED BY <1>1, <1>4, <1>5, <1>9, <2>5, <3>5 DEF Held
  <2>6. CASE k = "blank"
    <3>1. PICK w : w = Flush(s, "table")
      OBVIOUS
    <3>2. Half(w, n) /\ w.table = <<>> /\ w.fence = <<>>
      BY <1>3, <1>9, <3>1, FlushTable
    <3>3. r = Flush(w, "pending")
      BY <1>1, <1>9, <2>6, <3>1 DEF ReadLine
    <3>4. Half(r, n) /\ r.pending = <<>> /\ r.table = <<>> /\ r.fence = <<>>
      BY <3>2, <3>3, FlushPending
    <3>5. r = [r EXCEPT !.path = r.path]
      <4>1. r \in Collected
        BY <3>4 DEF Half
      <4> QED BY <4>1 DEF Collected
    <3>6. PathIs(r.path, n)
      BY <3>4 DEF Half, Sound
    <3>7. PathIs(r.path, n + 1)
      BY <1>6, <2>6, <3>6, PathStays
    <3>8. TextOfLine(n + 1) = <<>> /\ body[n + 1].kind # "table"
      BY <1>1, <2>6, WordsOfLine DEF TextOfLine
    <3>9. Half(r, n + 1) /\ r.fence = <<>>
      BY <3>4, <3>5, <3>7, <3>8, GatherNothing
    <3> QED BY <1>1, <1>4, <1>5, <1>9, <2>6, <3>9 DEF Held
  <2>7. CASE k = "text"
    <3>1. PICK w : w = Flush(s, "table")
      OBVIOUS
    <3>2. Half(w, n) /\ w.table = <<>> /\ w.fence = <<>>
      BY <1>3, <1>9, <3>1, FlushTable
    <3>3. r = [w EXCEPT !.pending = Append(@, n + 1)]
      BY <1>1, <1>9, <2>7, <3>1 DEF ReadLine
    <3>4. ~(n # 0 /\ Row(n) /\ body[n + 1].kind = "table")
      BY <1>1, <2>7
    <3>5. Half(r, n + 1) /\ r.fence = <<>>
      BY <1>6, <2>7, <3>2, <3>3, <3>4, GatherPending
    <3> QED BY <1>1, <1>4, <1>5, <1>9, <2>7, <3>5 DEF Held
  <2> QED BY <1>2, <2>3, <2>4, <2>5, <2>6, <2>7
<1> QED BY <1>8, <1>9

LEMMA ReadingTyped ==
    ASSUME NEW b \in Seq(BlockSet), NEW p \in Paths, NEW x \in Seq(Lines), NEW y \in Seq(Lines), NEW z \in Seq(Lines)
    PROVE  Reading(b, p, x, y, z) \in Collected
BY DEF Reading, Collected

LEMMA FlushTyped ==
    ASSUME NEW s \in Collected, NEW f \in {"pending", "table", "fence"}
    PROVE  Flush(s, f) \in Collected
<1>1. PICK b, p, x, y, z, r : /\ b = s.blocks /\ p = s.path /\ x = s.pending /\ y = s.table /\ z = s.fence
                              /\ r = Flush(s, f)
  OBVIOUS
<1>2. /\ s = Reading(b, p, x, y, z) /\ x \in Seq(Lines) /\ y \in Seq(Lines) /\ z \in Seq(Lines)
      /\ b \in Seq(BlockSet) /\ p \in Paths /\ <<>> \in Seq(Lines)
  BY <1>1, CollectedIs
<1>3. \A l \in Seq(Lines) : \A a \in BOOLEAN : Append(b, Block(l, p, a)) \in Seq(BlockSet)
  <2>1. \A l \in Seq(Lines) : \A a \in BOOLEAN : Block(l, p, a) \in BlockSet
    BY <1>2 DEF Block, BlockSet
  <2> QED BY <1>2, <2>1, AppendProperties
<1>4. CASE f = "pending"
  <2>1. r = s \/ r = [s EXCEPT !.blocks = Append(@, Block(x, p, FALSE)), !.pending = <<>>]
    BY <1>1, <1>4 DEF Flush
  <2>2. PICK e : e = Append(b, Block(x, p, FALSE)) /\ e \in Seq(BlockSet)
    BY <1>2, <1>3
  <2>3. r = s \/ r = Reading(e, p, <<>>, y, z)
    BY <1>2, <2>1, <2>2 DEF Reading
  <2>4. Reading(e, p, <<>>, y, z) \in Collected
    BY <1>2, <2>2, ReadingTyped
  <2> QED BY <1>1, <2>3, <2>4
<1>5. CASE f = "table"
  <2>1. r = s \/ r = [s EXCEPT !.blocks = Append(@, Block(y, p, TRUE)), !.table = <<>>]
    BY <1>1, <1>5 DEF Flush
  <2>2. PICK e : e = Append(b, Block(y, p, TRUE)) /\ e \in Seq(BlockSet)
    BY <1>2, <1>3
  <2>3. r = s \/ r = Reading(e, p, x, <<>>, z)
    BY <1>2, <2>1, <2>2 DEF Reading
  <2>4. Reading(e, p, x, <<>>, z) \in Collected
    BY <1>2, <2>2, ReadingTyped
  <2> QED BY <1>1, <2>3, <2>4
<1>6. CASE f = "fence"
  <2>1. r = s \/ r = [s EXCEPT !.blocks = Append(@, Block(z, p, TRUE)), !.fence = <<>>]
    BY <1>1, <1>6 DEF Flush
  <2>2. PICK e : e = Append(b, Block(z, p, TRUE)) /\ e \in Seq(BlockSet)
    BY <1>2, <1>3
  <2>3. r = s \/ r = Reading(e, p, x, y, <<>>)
    BY <1>2, <2>1, <2>2 DEF Reading
  <2>4. Reading(e, p, x, y, <<>>) \in Collected
    BY <1>2, <2>2, ReadingTyped
  <2> QED BY <1>1, <2>3, <2>4
<1> QED BY <1>4, <1>5, <1>6

LEMMA UnderTyped ==
    ASSUME NEW path \in Paths, NEW k \in Nat, NEW n \in Lines
    PROVE  Under(path, k, n) \in Paths
<1>1. PICK D \in SUBSET Nat : path \in [D -> Lines]
  BY DEF Paths
<1> DEFINE E == {l \in D : l < k} \cup {k}
<1>2. Under(path, k, n) = [l \in E |-> IF l = k THEN n ELSE path[l]]
  BY <1>1 DEF Under
<1>3. E \in SUBSET Nat
  BY <1>1
<1>4. \A l \in E : (IF l = k THEN n ELSE path[l]) \in Lines
  BY <1>1
<1> HIDE DEF E
<1>5. Under(path, k, n) \in [E -> Lines]
  BY <1>2, <1>4
<1> QED BY <1>3, <1>5 DEF Paths

LEMMA ReadTyped ==
    ASSUME TextAssumption, BodyTyped, NEW s \in Collected, NEW n \in Lines
    PROVE  ReadLine(s, n) \in Collected
<1>1. PICK k, r : k = body[n].kind /\ r = ReadLine(s, n)
  OBVIOUS
<1>2. k \in {"blank", "heading", "fence", "table", "text"} /\ body[n].level \in Nat
  BY <1>1, BodyIs
<1>3. ASSUME NEW q \in Collected
      PROVE  /\ [q EXCEPT !.fence = Append(@, n)] \in Collected /\ [q EXCEPT !.fence = <<n>>] \in Collected
             /\ [q EXCEPT !.table = Append(@, n)] \in Collected /\ [q EXCEPT !.pending = Append(@, n)] \in Collected
             /\ [q EXCEPT !.path = Under(@, body[n].level, n)] \in Collected
  <2>1. /\ q.pending \in Seq(Lines) /\ q.table \in Seq(Lines) /\ q.fence \in Seq(Lines) /\ q.path \in Paths
    BY CollectedIs
  <2>2. /\ Append(q.pending, n) \in Seq(Lines) /\ Append(q.table, n) \in Seq(Lines)
        /\ Append(q.fence, n) \in Seq(Lines) /\ <<n>> \in Seq(Lines)
    BY <2>1, AppendProperties
  <2>3. Under(q.path, body[n].level, n) \in Paths
    BY <1>2, <2>1, UnderTyped
  <2> QED BY <2>2, <2>3 DEF Collected
<1>4. FlushBoth(s) \in Collected /\ Flush(s, "pending") \in Collected /\ Flush(s, "table") \in Collected
  BY FlushTyped DEF FlushBoth
<1>5. CASE s.fence # <<>>
  <2>1. r = Flush([s EXCEPT !.fence = Append(@, n)], "fence") \/ r = [s EXCEPT !.fence = Append(@, n)]
    BY <1>1, <1>5 DEF ReadLine
  <2>2. Flush([s EXCEPT !.fence = Append(@, n)], "fence") \in Collected
    BY <1>3, FlushTyped
  <2> QED BY <1>1, <1>3, <2>1, <2>2
<1>6. CASE s.fence = <<>>
  <2>1. CASE k = "fence"
    <3>1. PICK q : q = FlushBoth(s) /\ q \in Collected
      BY <1>4
    <3>2. r = [q EXCEPT !.fence = <<n>>]
      BY <1>1, <1>6, <2>1, <3>1 DEF ReadLine
    <3>3. [q EXCEPT !.fence = <<n>>] \in Collected
      BY <1>3, <3>1
    <3> QED BY <1>1, <3>2, <3>3
  <2>2. CASE k = "heading"
    <3>1. PICK q : q = FlushBoth(s) /\ q \in Collected
      BY <1>4
    <3>2. r = [q EXCEPT !.path = Under(@, body[n].level, n)]
      BY <1>1, <1>6, <2>2, <3>1 DEF ReadLine
    <3>3. [q EXCEPT !.path = Under(@, body[n].level, n)] \in Collected
      BY <1>3, <3>1
    <3> QED BY <1>1, <3>2, <3>3
  <2>3. CASE k = "table"
    <3>1. PICK q : q = Flush(s, "pending") /\ q \in Collected
      BY <1>4
    <3>2. r = [q EXCEPT !.table = Append(@, n)]
      BY <1>1, <1>6, <2>3, <3>1 DEF ReadLine
    <3>3. [q EXCEPT !.table = Append(@, n)] \in Collected
      BY <1>3, <3>1
    <3> QED BY <1>1, <3>2, <3>3
  <2>4. CASE k = "blank"
    <3>1. r = Flush(Flush(s, "table"), "pending")
      BY <1>1, <1>6, <2>4 DEF ReadLine
    <3> QED BY <1>1, <1>4, <3>1, FlushTyped
  <2>5. CASE k = "text"
    <3>1. r = [Flush(s, "table") EXCEPT !.pending = Append(@, n)]
      BY <1>1, <1>6, <2>5 DEF ReadLine
    <3> QED BY <1>1, <1>3, <1>4, <3>1
  <2> QED BY <1>2, <2>1, <2>2, <2>3, <2>4, <2>5
<1> QED BY <1>5, <1>6

\* The fold behind CollectBlocks
PlacesOfLines == [n \in DOMAIN body |-> n]
LinesRead == FoldLeft(ReadLine, NothingCollected, PlacesOfLines)
LineFolds(g) ==
    g = [T \in SUBSET (DOMAIN PlacesOfLines) |->
            IF T = {} THEN NothingCollected ELSE ReadLine(g[T \ {Max(T)}], PlacesOfLines[Max(T)])]

LEMMA LinesUnfold == LinesRead = (CHOOSE g : LineFolds(g))[DOMAIN PlacesOfLines]
BY DEF LinesRead, FoldLeft, MapThenFoldSet, LineFolds, PlacesOfLines

LEMMA NothingTyped == NothingCollected \in Collected
<1>1. <<>> \in Seq(BlockSet) /\ <<>> \in Seq(Lines)
  OBVIOUS
<1>2. [l \in {} |-> 0] \in Paths
  <2>1. [l \in {} |-> 0] \in [{} -> Lines] /\ {} \in SUBSET Nat
    OBVIOUS
  <2> QED BY <2>1 DEF Paths
<1> QED BY <1>1, <1>2 DEF NothingCollected, Collected

LEMMA LinesAreRead ==
    ASSUME TextAssumption, BodyTyped, NEW n \in Nat, n = Len(body)
    PROVE  \E g : /\ LinesRead = g[1 .. n] /\ g[1 .. 0] = NothingCollected
                  /\ \A m \in 0 .. n - 1 : g[1 .. m + 1] = ReadLine(g[1 .. m], m + 1)
<1>1. DOMAIN PlacesOfLines = 1 .. n /\ Lines = 1 .. n /\ \A i \in 1 .. n : PlacesOfLines[i] = i
  BY BodyIs DEF PlacesOfLines, Lines
<1> DEFINE step == [p \in Collected \X (1 .. n) |-> ReadLine(p[1], p[2])]
<1>2. \A a \in Collected : \A i \in 1 .. n : ReadLine(a, i) \in Collected /\ step[<<a, i>>] = ReadLine(a, i)
  BY <1>1, ReadTyped
<1>3. step \in [Collected \X (1 .. n) -> Collected]
  BY <1>2
<1> HIDE DEF step
<1>4. PICK h : LeftFolds(h, n, Collected, NothingCollected, step)
  BY <1>3, NothingTyped, LeftFoldExists
<1>5. LineFolds(h)
  <2>1. ASSUME NEW T \in SUBSET (1 .. n)
        PROVE  h[T] = IF T = {} THEN NothingCollected ELSE ReadLine(h[T \ {Max(T)}], PlacesOfLines[Max(T)])
    <3>1. CASE T = {}
      BY <1>4, <3>1 DEF LeftFolds
    <3>2. CASE T # {}
      <4>1. Max(T) \in 1 .. n /\ h[T \ {Max(T)}] \in Collected /\ h[T] = step[<<h[T \ {Max(T)}], Max(T)>>]
        BY <1>4, <3>2 DEF LeftFolds
      <4>2. PICK a, i : a = h[T \ {Max(T)}] /\ i = Max(T)
        OBVIOUS
      <4>3. h[T] = ReadLine(a, i) /\ PlacesOfLines[i] = i
        BY <1>1, <1>2, <4>1, <4>2
      <4> QED BY <3>2, <4>2, <4>3
    <3> QED BY <3>1, <3>2
  <2>2. h = [T \in SUBSET (1 .. n) |-> h[T]]
    BY <1>4 DEF LeftFolds
  <2> QED BY <1>1, <2>1, <2>2 DEF LineFolds
<1>6. PICK g : g = CHOOSE f : LineFolds(f)
  OBVIOUS
<1>7. LineFolds(g) /\ LinesRead = g[1 .. n]
  BY <1>1, <1>5, <1>6, LinesUnfold
<1>8. \A T \in SUBSET (1 .. n) :
        g[T] = IF T = {} THEN NothingCollected ELSE ReadLine(g[T \ {Max(T)}], PlacesOfLines[Max(T)])
  BY <1>1, <1>7 DEF LineFolds
<1>9. g[1 .. 0] = NothingCollected
  <2>1. 1 .. 0 = {} /\ {} \in SUBSET (1 .. n)
    BY LastOfPrefix
  <2> QED BY <1>8, <2>1
<1>10. ASSUME NEW m \in 0 .. n - 1 PROVE g[1 .. m + 1] = ReadLine(g[1 .. m], m + 1)
  <2>1. /\ 1 .. m + 1 \in SUBSET (1 .. n) /\ 1 .. m + 1 # {} /\ m + 1 \in 1 .. n
        /\ Max(1 .. m + 1) = m + 1 /\ (1 .. m + 1) \ {m + 1} = 1 .. m
    BY PrefixOf
  <2>2. PICK T : T = 1 .. m + 1
    OBVIOUS
  <2>3. g[T] = ReadLine(g[T \ {Max(T)}], PlacesOfLines[Max(T)])
    BY <1>8, <2>1, <2>2
  <2>4. Max(T) = m + 1 /\ T \ {Max(T)} = 1 .. m /\ PlacesOfLines[m + 1] = m + 1
    BY <1>1, <2>1, <2>2
  <2> QED BY <2>2, <2>3, <2>4
<1> QED BY <1>7, <1>9, <1>10

LEMMA NothingHeld == ASSUME TextAssumption, BodyTyped PROVE Held(NothingCollected, 0)
<1>1. PICK p : p = [l \in {} |-> 0]
  OBVIOUS
<1>2. NothingCollected = Reading(<<>>, p, <<>>, <<>>, <<>>)
  BY <1>1 DEF NothingCollected, Reading
<1>3. <<>> \in Seq(Lines) /\ <<>> \in Seq(BlockSet)
  OBVIOUS
<1>4. PathIs(p, 0)
  <2>1. p \in Paths
    BY <1>1, NothingTyped DEF NothingCollected, Collected
  <2>2. HeadingsIn(p) = {}
    BY <1>1 DEF HeadingsIn
  <2>3. HeadingsOver(0 + 1) = {}
    BY DEF HeadingsOver
  <2>4. DOMAIN p = {}
    BY <1>1
  <2> QED BY <2>1, <2>2, <2>3, <2>4 DEF PathIs
<1>5. TextOfBlocks(<<>>) \o WordsIn(<<>>) = TextOfLines(0)
  <2>1. Mapped(TextOfBlock, <<>>) = <<>>
    BY DEF Mapped
  <2>2. FirstLines(0) = <<>>
    <3>1. FirstLines(0) \in [1 .. 0 -> {}]
      BY DEF FirstLines
    <3>2. FirstLines(0) \in Seq({}) /\ Len(FirstLines(0)) = 0
      BY <3>1
    <3> QED BY <3>2, SeqIs
  <2>3. WordsIn(<<>>) = <<>>
    BY <1>3, WordsInLines
  <2>4. <<>> \o <<>> = <<>>
    OBVIOUS
  <2> QED BY <2>1, <2>2, <2>3, <2>4, FlattenNothing DEF TextOfBlocks, TextOfLines
<1>6. Stand(<<>>, p) /\ \A b \in ToSet(<<>>) : Stand(b.lines, b.path)
  BY NothingIsIn DEF Stand
<1>7. RowsUnsplit(<<>>, <<>>, 0)
  BY DEF RowsUnsplit
<1>8. OneOf(<<>>, <<>>, <<>>) /\ Gathered(<<>>, <<>>, <<>>) = <<>>
  BY DEF OneOf, Gathered
<1>9. Sound(<<>>, p, <<>>, <<>>, 0)
  BY <1>3, <1>4, <1>5, <1>6, <1>7 DEF Sound
<1>10. Half(NothingCollected, 0)
  BY <1>2, <1>3, <1>8, <1>9, HalfIs
<1>11. Fences(0) = 0
  <2>1. {m \in 1 .. 0 : body[m].kind = "fence"} = {}
    OBVIOUS
  <2> QED BY <2>1, FS_EmptySet DEF Fences
<1>12. ~(Fences(0) % 2 = 1) /\ NothingCollected.fence = <<>>
  BY <1>11 DEF NothingCollected
<1> QED BY <1>10, <1>12 DEF Held

LEMMA BlocksAreSound ==
    ASSUME TextAssumption, BodyTyped, NEW n \in Nat, n = Len(body)
    PROVE  \E path : Sound(CollectBlocks, path, <<>>, <<>>, n)
<1>1. PICK g : /\ LinesRead = g[1 .. n] /\ g[1 .. 0] = NothingCollected
               /\ \A m \in 0 .. n - 1 : g[1 .. m + 1] = ReadLine(g[1 .. m], m + 1)
  BY LinesAreRead
<1> DEFINE Good == {m \in Nat : m <= n => Held(g[1 .. m], m)}
<1>2. 0 \in Good
  BY <1>1, NothingHeld
<1>3. ASSUME NEW m \in Good PROVE m + 1 \in Good
  <2>1. SUFFICES ASSUME m + 1 <= n PROVE Held(g[1 .. m + 1], m + 1)
    OBVIOUS
  <2>2. m \in Nat /\ m \in 0 .. n - 1 /\ m + 1 \in Lines /\ Held(g[1 .. m], m)
    BY <1>3, <2>1 DEF Lines
  <2>3. g[1 .. m + 1] = ReadLine(g[1 .. m], m + 1)
    BY <1>1, <2>2
  <2> QED BY <2>2, <2>3, LineIsRead
<1>4. Good = Nat
  <2> HIDE DEF Good
  <2>1. Good \in SUBSET Nat
    BY DEF Good
  <2> QED BY <1>2, <1>3, <2>1, NatSetInduction
<1>5. Held(LinesRead, n)
  <2>1. n \in Good
    <3> HIDE DEF Good
    <3> QED BY <1>4
  <2> QED BY <1>1, <2>1
<1>6. PICK s, u, v, w : /\ s = LinesRead /\ u = Flush(s, "fence") /\ v = Flush(u, "table")
                        /\ w = Flush(v, "pending")
  OBVIOUS
<1>7. Half(u, n) /\ u.fence = <<>>
  BY <1>5, <1>6, FlushFence DEF Held
<1>8. Half(v, n) /\ v.fence = <<>> /\ v.table = <<>>
  BY <1>6, <1>7, FlushTable
<1>9. Half(w, n) /\ w.fence = <<>> /\ w.table = <<>> /\ w.pending = <<>>
  BY <1>6, <1>8, FlushPending
<1>10. Gathered(<<>>, <<>>, <<>>) = <<>>
  BY DEF Gathered
<1>11. Sound(w.blocks, w.path, <<>>, <<>>, n)
  BY <1>9, <1>10 DEF Half
<1>12. CollectBlocks = w.blocks
  BY <1>6 DEF CollectBlocks, LinesRead, PlacesOfLines
<1> QED BY <1>11, <1>12

LEMMA ChunksFromBody == ASSUME TextAssumption, BodyTyped PROVE ChunksHoldTheText
<1>1. PICK n, blocks, chunks : n = Len(body) /\ blocks = CollectBlocks /\ chunks = ChunkDocument
  OBVIOUS
<1>2. n \in Nat /\ DOMAIN body = 1 .. n /\ Lines = 1 .. n
  BY <1>1, BodyIs DEF Lines
<1>3. PICK path : Sound(blocks, path, <<>>, <<>>, n)
  BY <1>1, <1>2, BlocksAreSound
<1>4. blocks \in Seq(BlockSet) /\ \A b \in ToSet(blocks) : b \in BlockSet
  <2>1. blocks \in Seq(BlockSet)
    BY <1>3 DEF Sound
  <2> QED BY <2>1 DEF ToSet
<1>5. chunks = ChunksOf(blocks)
  <2>1. \A b \in DOMAIN blocks : blocks[b] \in BlockSet
    BY <1>4
  <2>2. [b \in DOMAIN blocks |-> SplitOversizedBlock(blocks[b])] = Mapped(SplitBlock, blocks)
    BY <2>1 DEF Mapped, SplitBlock
  <2> QED BY <1>1, <2>2 DEF ChunkDocument, ChunksOf
<1>6. chunks \in Seq(ChunkSet)
  BY <1>4, <1>5, ChunksAreOf
<1>7. FlattenSeq([c \in DOMAIN chunks |-> chunks[c].words])
        = FlattenSeq([m \in DOMAIN body |-> IF Heading(m) THEN <<>> ELSE WordsOf(m)])
  <2>1. [c \in DOMAIN chunks |-> chunks[c].words] = Mapped(TextOfChunk, chunks)
    <3>1. \A c \in DOMAIN chunks : chunks[c] \in ChunkSet
      BY <1>6
    <3> QED BY <3>1 DEF Mapped, TextOfChunk
  <2>2. FlattenSeq(Mapped(TextOfChunk, chunks)) = TextOfBlocks(blocks)
    BY <1>4, <1>5, ChunksHaveWords DEF TextOfBlocks
  <2>3. TextOfBlocks(blocks) = TextOfLines(n)
    <3>1. TextOfBlocks(blocks) \in Seq(Words) /\ WordsIn(<<>>) = <<>>
      BY <1>3, <1>4, TextsAre, WordsInLines DEF Sound
    <3>2. TextOfBlocks(blocks) \o <<>> = TextOfBlocks(blocks)
      BY <3>1, ConcatEmptySeq
    <3>3. TextOfBlocks(blocks) \o WordsIn(<<>>) = TextOfLines(n)
      BY <1>3 DEF Sound
    <3> QED BY <3>1, <3>2, <3>3
  <2>4. [m \in DOMAIN body |-> IF Heading(m) THEN <<>> ELSE WordsOf(m)] = FirstLines(n)
    BY <1>2 DEF FirstLines, TextOfLine
  <2> QED BY <2>1, <2>2, <2>3, <2>4 DEF TextOfLines
<1>8. ASSUME NEW c \in DOMAIN chunks
      PROVE  /\ chunks[c].words # <<>> =>
                    {chunks[c].path[l] : l \in DOMAIN chunks[c].path} = HeadingsOver(chunks[c].words[1][1])
             /\ chunks[c].atomic \/ TokensIn(chunks[c].words) <= MaxTokens \/ Len(chunks[c].words) = 1
  <2>1. PICK x : x = chunks[c]
    OBVIOUS
  <2>2. x \in ChunkSet /\ x \in ToSet(chunks)
    BY <1>6, <2>1 DEF ToSet
  <2>3. PICK b \in ToSet(blocks) : x \in ToSet(SplitOversizedBlock(b))
    BY <1>4, <1>5, <2>2, ChunksAreOf
  <2>4. FromBlock(x, b) /\ b \in BlockSet
    BY <1>4, <2>3, SplitIs
  <2>5. ASSUME x.words # <<>> PROVE {x.path[l] : l \in DOMAIN x.path} = HeadingsOver(x.words[1][1])
    <3>1. PICK w : w = x.words /\ w \in Seq(Words)
      BY <2>2 DEF ChunkSet
    <3>2. 1 \in DOMAIN w
      BY <2>5, <3>1
    <3>3. PICK m \in ToSet(b.lines) : w[1] \in ToSet(WordsOf(m))
      <4>1. w[1] \in ToSet(w)
        BY <3>2 DEF ToSet
      <4>2. b.lines \in Seq(Lines)
        BY <2>4 DEF BlockSet
      <4>3. w[1] \in ToSet(WordsIn(b.lines))
        BY <2>4, <3>1, <4>1 DEF FromBlock
      <4> QED BY <4>2, <4>3, WordsInLines
    <3>4. w[1][1] = m
      <4>1. m \in Lines
        BY <2>4 DEF BlockSet, ToSet
      <4> QED BY <3>3, <4>1, WordsOfLine
    <3>5. HeadingsOver(m) = HeadingsIn(b.path)
      BY <1>3, <2>3, <3>3 DEF Sound, Stand
    <3> QED BY <2>4, <3>1, <3>4, <3>5 DEF FromBlock, HeadingsIn
  <2>6. x.atomic \/ TokensIn(x.words) <= MaxTokens \/ Len(x.words) = 1
    BY <2>4 DEF FromBlock, Sized
  <2> QED BY <2>1, <2>5, <2>6
<1>9. ASSUME NEW m \in 1 .. Len(body) - 1, body[m].kind = "table" /\ body[m + 1].kind = "table" /\ ~Fenced(m)
      PROVE  \E c \in DOMAIN chunks : {<<m, 1>>, <<m + 1, 1>>} \subseteq ToSet(chunks[c].words)
  <2>1. m \in Lines /\ m + 1 \in Lines /\ m \in 1 .. n - 1
    BY <1>1, <1>2
  <2>2. Unsplit(m, blocks, <<>>)
    BY <1>3, <1>9, <2>1 DEF Sound, RowsUnsplit, Row
  <2>3. PICK b \in ToSet(blocks) : b.atomic /\ m \in ToSet(b.lines) /\ m + 1 \in ToSet(b.lines)
    BY <2>2, NothingIsIn DEF Unsplit
  <2>4. b \in BlockSet /\ b.lines \in Seq(Lines)
    BY <1>4 DEF BlockSet
  <2>5. <<m, 1>> \in ToSet(WordsIn(b.lines)) /\ <<m + 1, 1>> \in ToSet(WordsIn(b.lines))
    <3>1. <<m, 1>> \in ToSet(WordsOf(m)) /\ <<m + 1, 1>> \in ToSet(WordsOf(m + 1))
      BY <1>9, <2>1, WordsOfLine
    <3> QED BY <2>3, <2>4, <3>1, WordsInLines
  <2>6. PICK x \in ToSet(SplitOversizedBlock(b)) : x.words = WordsIn(b.lines)
    BY <2>3, <2>4, SplitIs
  <2>7. x \in ToSet(chunks)
    BY <1>4, <1>5, ChunksAreOf
  <2>8. PICK c \in DOMAIN chunks : x = chunks[c]
    BY <2>7 DEF ToSet
  <2> QED BY <2>5, <2>6, <2>8
<1> QED BY <1>1, <1>7, <1>8, <1>9 DEF ChunksHoldTheText

-----------------------------------------------------------------------------
(***************************************************************************)
(* The corpus.  Each part keeps what it is sound by, and the steps of the  *)
(* others leave its variables alone.                                       *)
(***************************************************************************)
CorpusInv ==
    GroupInv /\ TextTypeOK /\ TopicTypeOK /\ articlePage \in Seq(ArticleTokens) /\ CoverageInv

LEMMA CorpusInitInv == CorpusInit => CorpusInv
<1> SUFFICES ASSUME CorpusInit PROVE CorpusInv
  OBVIOUS
<1>1. GroupInv
  BY GroupAssumption, GroupsInitInv DEF CorpusInit
<1>2. TextTypeOK /\ TopicTypeOK /\ articlePage \in Seq(ArticleTokens)
  BY DEF CorpusInit, TextInit, TextTypeOK, TopicInit, TopicTypeOK, ArticleInit
<1>3. CoverageInv
  BY CoverageAssumption, CoverageInitInv DEF CorpusInit
<1> QED BY <1>1, <1>2, <1>3 DEF CorpusInv

LEMMA TextStep == TextTypeOK /\ [TextNext]_textVars => TextTypeOK'
<1> SUFFICES ASSUME TextTypeOK, [TextNext]_textVars PROVE TextTypeOK'
  OBVIOUS
<1>1. CASE NextItem
  BY <1>1 DEF NextItem, TextTypeOK
<1>2. CASE NextLine
  BY <1>2 DEF NextLine, TextTypeOK
<1>3. CASE NextToken
  BY <1>3 DEF NextToken, TextTypeOK
<1>4. CASE UNCHANGED textVars
  BY <1>4 DEF textVars, TextTypeOK
<1> QED BY <1>1, <1>2, <1>3, <1>4 DEF TextNext

LEMMA PageStep ==
    articlePage \in Seq(ArticleTokens) /\ (NextArticleToken \/ UNCHANGED articlePage)
        => articlePage' \in Seq(ArticleTokens)
BY DEF NextArticleToken

\* A step of the corpus is at most a step of each part.
LEMMA CorpusPartsStep ==
    ASSUME [CorpusNext]_corpusVars
    PROVE  /\ [GroupNext]_groupVars /\ [TextNext]_textVars /\ [TopicNext]_topicText
           /\ NextArticleToken \/ UNCHANGED articlePage
           /\ [CoverageNext]_coverageVars
BY DEF CorpusNext, corpusVars, articleVars

LEMMA CorpusStep == CorpusInv /\ [CorpusNext]_corpusVars => CorpusInv'
<1> SUFFICES ASSUME CorpusInv, [CorpusNext]_corpusVars PROVE CorpusInv'
  OBVIOUS
<1>1. GroupInv'
  BY CorpusPartsStep, GroupAssumption, GroupStep DEF CorpusInv
<1>2. TextTypeOK' /\ TopicTypeOK'
  BY CorpusPartsStep, TextStep, TopicStep DEF CorpusInv
<1>3. articlePage' \in Seq(ArticleTokens)
  BY CorpusPartsStep, PageStep DEF CorpusInv
<1>4. CoverageInv'
  BY CorpusPartsStep, CoverageAssumption, CoverageStep DEF CorpusInv
<1> QED BY <1>1, <1>2, <1>3, <1>4 DEF CorpusInv

LEMMA SoundFromInv == CorpusInv => CorpusIsSound
<1> SUFFICES ASSUME CorpusInv PROVE CorpusIsSound
  OBVIOUS
<1>1. GroupsAreExact
  BY GroupsFromInv DEF CorpusInv
<1>2. RevisionsAreStable
  BY TextAssumption, RevisionsFromItems DEF CorpusInv
<1>3. VisibleTextIsKept
  BY TextAssumption, VisibleFromMarkup DEF CorpusInv, TextTypeOK, MarkupTyped
<1>4. ChunksHoldTheText
  BY TextAssumption, ChunksFromBody DEF CorpusInv, TextTypeOK, BodyTyped
<1>5. TopicsAreHeard
  BY TopicAssumption, TopicsFromText DEF CorpusInv
<1>6. TextIsOfTheArticle
  BY ArticleFromText DEF CorpusInv
<1>7. ReportsAreHonest
  BY CoverageAssumption, HonestReports DEF CorpusInv
<1> QED BY <1>1, <1>2, <1>3, <1>4, <1>5, <1>6, <1>7 DEF CorpusIsSound, TextIsKept

\* For any texts, items, pages, taxonomies and partitions, and however jobs and
\* statements interleave: the documents of a group hang together by exact
\* duplicates (deduplication.ts), an item makes the same revision whenever it is
\* collected (normalization.ts), what is visible on a well nested page is kept
\* (sanitizer.ts), the chunks hold every word once and under its headings
\* (chunking.ts), a topic of a part is one of the whole (topic-classification.ts,
\* query-parser.ts), the text of a page of a feed is that of its article
\* (article.ts), and what a report of coverage says is so (coverage.ts).
THEOREM CorpusStaysSound == CorpusSpec => []CorpusIsSound
<1>1. CorpusInit => CorpusInv
  BY CorpusInitInv
<1>2. CorpusInv /\ [CorpusNext]_corpusVars => CorpusInv'
  BY CorpusStep
<1>3. CorpusInv => CorpusIsSound
  BY SoundFromInv
<1> QED BY <1>1, <1>2, <1>3, PTL DEF CorpusSpec
=============================================================================
