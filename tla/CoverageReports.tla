--------------------------- MODULE CoverageReports ---------------------------
(***************************************************************************)
(* What the archive says of itself: the coverage report of a period, and   *)
(* the comparison of two periods over the members of a cohort.  A report   *)
(* is one statement, of one snapshot; a comparison reads the partitions    *)
(* and then the observations of one member after the other, while the      *)
(* collection goes on.  Partitions, documents and observations are here    *)
(* only what these two read of them.                                       *)
(***************************************************************************)
EXTENDS Naturals, Sequences, FiniteSets, Functions

CONSTANTS
    CohortMembers,   \* the matching members of a cohort, in order: target, signature
    SliceOf,         \* partition -> target, mode, window, and the items it can find
    ItemFacts,       \* raw item -> day; day, value and signature of its metric; rights
    Periods,         \* the two windows: baseline, current
    Missed,          \* items that an evaluation has labelled as missed
    NoDate,          \* an item without a date of publication
    NoSignature, NoValue,
    Approves,        \* an embedding profile is given
    AlreadyPlanned,  \* partitions that are planned before
    MaxCollected     \* bound: steps of the collection

\* Finite tables of rows that name each other, and a cohort that is not empty
ASSUME CoverageAssumption ==
    /\ IsFiniteSet(DOMAIN SliceOf) /\ IsFiniteSet(DOMAIN ItemFacts)
    /\ \A p \in DOMAIN SliceOf : SliceOf[p].items \subseteq DOMAIN ItemFacts
    /\ \A i \in DOMAIN ItemFacts : ItemFacts[i].value \in Nat
    /\ NoValue \notin Nat /\ MaxCollected \in Nat
    /\ Len(CohortMembers) \in Nat \ {0} /\ DOMAIN Periods = {1, 2}

VARIABLES
    slices,      \* partition -> absent, pending, partial or completed
    memberships, \* of raw items in partitions
    attached,    \* memberships that name a revision of their item
    searchable, embedded, tombstoned,   \* items, by the state of their revision
    measured,    \* items whose observation is stored
    openTargets, \* targets that are enabled, with their source
    comparison,  \* a comparison: where it is, and what it has read
    collectedSoFar
coverageVars == <<slices, memberships, attached, searchable, embedded, tombstoned, measured,
                  openTargets, comparison, collectedSoFar>>
documentVars == <<attached, searchable, embedded, tombstoned, measured>>

Slices == DOMAIN SliceOf
ReportItems == DOMAIN ItemFacts
CohortTargets == {SliceOf[p].target : p \in Slices}
Regular(p) == SliceOf[p].mode # "on_demand"
Overlaps(p, w) == SliceOf[p].window[1] < w[2] /\ SliceOf[p].window[2] > w[1]
PublishedIn(i, w) == ItemFacts[i].day # NoDate /\ w[1] <= ItemFacts[i].day /\ ItemFacts[i].day < w[2]

-----------------------------------------------------------------------------
(***************************************************************************)
(* getCoverage: one snapshot, counted at every stage over the same         *)
(* partitions, and the reasons why it may fall short.                      *)
(***************************************************************************)
EligibleSlices(w) ==
    {p \in Slices : /\ slices[p] # "absent" /\ SliceOf[p].target \in openTargets
                    /\ Overlaps(p, w) /\ Regular(p)}
EligibleRaw(w) ==
    {m \in memberships : /\ m[1] \in EligibleSlices(w)
                      /\ ItemFacts[m[2]].licensed /\ PublishedIn(m[2], w)}
EligibleLexical(w) ==
    {m[2] : m \in {m \in EligibleRaw(w) \cap attached :
                       m[2] \in searchable \ tombstoned}}
EligibleVector(w) ==
    {i \in EligibleLexical(w) : Approves /\ ItemFacts[i].embeddable /\ i \in embedded}

CoverageCounts(w) ==
    [targets   |-> Cardinality(openTargets),
     checked   |-> Cardinality(EligibleSlices(w)),
     completed |-> Cardinality({p \in EligibleSlices(w) : slices[p] = "completed"}),
     partial   |-> Cardinality({p \in EligibleSlices(w) : slices[p] = "partial"}),
     raw       |-> Cardinality({m[2] : m \in EligibleRaw(w)}),
     lexical   |-> Cardinality(EligibleLexical(w)),
     vector    |-> Cardinality(EligibleVector(w)),
     missed    |-> Cardinality(EligibleLexical(w) \cap Missed)]

DiagnoseCoverage(n) ==
    LET asked == n.targets > 0 \/ n.checked > 0
        known == {r \in {"raw_shortage", "processing_pending", "period_gap", "retrieval_miss"} :
            CASE r = "raw_shortage" -> asked /\ n.raw = 0
              [] r = "processing_pending" -> n.raw > 0 /\ (n.lexical < n.raw \/ n.vector < n.raw)
              [] r = "period_gap" ->
                     n.partial > 0 \/ n.checked > n.completed \/ (asked /\ n.checked = 0)
              [] r = "retrieval_miss" -> n.missed > 0}
    IN  IF known = {} /\ n.raw = 0 /\ ~asked THEN {"unknown"} ELSE known
CoverageReasons(w) == DiagnoseCoverage(CoverageCounts(w))

-----------------------------------------------------------------------------
(***************************************************************************)
(* compareWindows: a member that is covered in both periods is counted,    *)
(* with the sum of its observations in each.                               *)
(***************************************************************************)
MemberSlices(m, w) ==
    {p \in Slices : /\ slices[p] # "absent" /\ SliceOf[p].target = m.target
                    /\ Regular(p) /\ Overlaps(p, w)}
CoveredWhole(m, w) ==
    MemberSlices(m, w) # {} /\ \A p \in MemberSlices(m, w) : slices[p] = "completed"

\* An observation of an item lies within a period with both its ends; it
\* belongs to a member by the signature of its query or through a partition of
\* the member's target.
ObservedIn(w) == {i \in measured : w[1] <= ItemFacts[i].metricDay /\ ItemFacts[i].metricDay <= w[2]}
BelongsTo(i, m) ==
    \/ ItemFacts[i].signature = m.signature
    \/ \E p \in Slices : <<p, i>> \in memberships /\ SliceOf[p].target = m.target /\ Regular(p)
OnDemand(i) == \E p \in Slices : <<p, i>> \in memberships /\ ~Regular(p)
SumOf(items) == SumFunctionOnSet([i \in ReportItems |-> ItemFacts[i].value], items)
Total(m, w) == SumOf({i \in ObservedIn(w) : BelongsTo(i, m) /\ ~OnDemand(i)})

NothingRead == [covered |-> FALSE, baseline |-> NoValue, current |-> NoValue]
NoComparison == [at |-> "idle", read |-> <<>>, result |-> NothingRead, began |-> {}]
UnderWay == Len(comparison.read)
Member == CohortMembers[UnderWay]
Reads(at, evaluation) ==
    comparison' = [comparison EXCEPT !.at = at, !.read[UnderWay] = evaluation]
\* The next member, or the sums
Proceed(evaluation) ==
    comparison' =
        IF UnderWay < Len(CohortMembers)
        THEN [comparison EXCEPT !.at = "baseline", !.read = Append([@ EXCEPT ![UnderWay] = evaluation], NothingRead)]
        ELSE [comparison EXCEPT !.at = "evaluate", !.read[UnderWay] = evaluation]
ComparisonOnly == UNCHANGED <<slices, memberships, documentVars, openTargets, collectedSoFar>>

CompareWindows ==
    /\ comparison.at = "idle"
    /\ comparison' = [comparison EXCEPT
           !.at = "baseline", !.read = <<NothingRead>>,
           !.began = {p \in Slices : slices[p] # "absent"}]
    /\ ComparisonOnly
ReadBaselineSlices ==
    /\ comparison.at = "baseline"
    /\ Reads("current", [NothingRead EXCEPT !.covered = CoveredWhole(Member, Periods[1])])
    /\ ComparisonOnly
ReadCurrentSlices ==
    /\ comparison.at = "current"
    /\ LET both == comparison.read[UnderWay].covered /\ CoveredWhole(Member, Periods[2])
       IN  IF both THEN Reads("sumBaseline", [NothingRead EXCEPT !.covered = TRUE])
           ELSE Proceed(NothingRead)
    /\ ComparisonOnly
SumBaseline ==
    /\ comparison.at = "sumBaseline"
    /\ Reads("sumCurrent", [comparison.read[UnderWay] EXCEPT !.baseline = Total(Member, Periods[1])])
    /\ ComparisonOnly
SumCurrent ==
    /\ comparison.at = "sumCurrent"
    /\ Proceed([comparison.read[UnderWay] EXCEPT !.current = Total(Member, Periods[2])])
    /\ ComparisonOnly

Counted == {n \in DOMAIN comparison.read : comparison.read[n].covered}
Evaluated ==
    [covered |-> Counted # {},
     baseline |-> IF Counted = {} THEN NoValue
                  ELSE SumFunctionOnSet([n \in Counted |-> comparison.read[n].baseline], Counted),
     current |-> IF Counted = {} THEN NoValue
                 ELSE SumFunctionOnSet([n \in Counted |-> comparison.read[n].current], Counted)]
EvaluateComparison ==
    /\ comparison.at = "evaluate"
    /\ comparison' = [comparison EXCEPT !.at = "done", !.result = Evaluated]
    /\ ComparisonOnly
CompareNext ==
    \/ CompareWindows \/ ReadBaselineSlices \/ ReadCurrentSlices
    \/ SumBaseline \/ SumCurrent \/ EvaluateComparison

-----------------------------------------------------------------------------
(***************************************************************************)
(* What goes on meanwhile.                                                 *)
(***************************************************************************)
CollectionMoves == collectedSoFar < MaxCollected /\ collectedSoFar' = collectedSoFar + 1
PlanReportedSlice(p) ==
    /\ slices[p] = "absent" /\ SliceOf[p].target \in openTargets
    /\ CollectionMoves /\ slices' = [slices EXCEPT ![p] = "pending"]
    /\ UNCHANGED <<memberships, documentVars, openTargets, comparison>>
\* A page is stored with its items and what it makes of the partition.
CommitSlicePage(p, items, state) ==
    /\ slices[p] \in {"pending", "partial"} /\ SliceOf[p].target \in openTargets
    /\ CollectionMoves /\ slices' = [slices EXCEPT ![p] = state]
    /\ memberships' = memberships \cup ({p} \X items)
    /\ UNCHANGED <<documentVars, openTargets, comparison>>
Known == {m[2] : m \in memberships}
\* The item becomes searchable, and all memberships it has then get its
\* revision.
PublishItem(i) ==
    /\ i \in Known \ tombstoned /\ ~({m \in memberships : m[2] = i} \subseteq attached)
    /\ CollectionMoves /\ searchable' = searchable \cup {i}
    /\ attached' = attached \cup {m \in memberships : m[2] = i}
    /\ UNCHANGED <<slices, memberships, embedded, tombstoned, measured, openTargets, comparison>>
EmbedItem(i) ==
    /\ i \in searchable \ (tombstoned \cup embedded) /\ ItemFacts[i].embeddable
    /\ CollectionMoves /\ embedded' = embedded \cup {i}
    /\ UNCHANGED <<slices, memberships, attached, searchable, tombstoned, measured, openTargets, comparison>>
\* One observation of an item is kept; the first one stands.
UpsertObservation(i) ==
    /\ i \in searchable \ measured
    /\ CollectionMoves /\ measured' = measured \cup {i}
    /\ UNCHANGED <<slices, memberships, attached, searchable, embedded, tombstoned, openTargets, comparison>>
TombstoneItem(i) ==
    /\ i \in searchable \ tombstoned
    /\ CollectionMoves /\ tombstoned' = tombstoned \cup {i}
    /\ UNCHANGED <<slices, memberships, attached, searchable, embedded, measured, openTargets, comparison>>
DisableTarget(t) ==
    /\ t \in openTargets
    /\ CollectionMoves /\ openTargets' = openTargets \ {t}
    /\ UNCHANGED <<slices, memberships, documentVars, comparison>>

CoverageInit ==
    /\ slices = [p \in Slices |-> IF p \in AlreadyPlanned THEN "pending" ELSE "absent"]
    /\ memberships = {} /\ attached = {}
    /\ searchable = {} /\ embedded = {} /\ tombstoned = {} /\ measured = {}
    /\ openTargets = CohortTargets
    /\ comparison = NoComparison /\ collectedSoFar = 0
CoverageNext ==
    \/ CompareNext
    \/ \E p \in Slices :
           \/ PlanReportedSlice(p)
           \/ \E items \in SUBSET SliceOf[p].items, state \in {"pending", "partial", "completed"} :
                  CommitSlicePage(p, items, state)
    \/ \E i \in ReportItems :
           PublishItem(i) \/ EmbedItem(i) \/ UpsertObservation(i) \/ TombstoneItem(i)
    \/ \E t \in CohortTargets : DisableTarget(t)

-----------------------------------------------------------------------------
CoverageTypeOK ==
    /\ \A p \in Slices : slices[p] \in {"absent", "pending", "partial", "completed"}
    /\ memberships \subseteq Slices \X ReportItems /\ attached \subseteq memberships
    /\ searchable \cup embedded \cup tombstoned \cup measured \subseteq ReportItems
    /\ Len(comparison.read) <= Len(CohortMembers) /\ collectedSoFar \in 0 .. MaxCollected

\* A period of which the report gives no reason to doubt it is complete: every
\* partition that is planned for an enabled target and meets the period was
\* collected to the end, it has documents that were not acquired for a question
\* only, and whatever those partitions published in it can be found, by its
\* words and by its meaning.  Of a target without a partition it says nothing.
NoReasonMeansWhole ==
    \A n \in DOMAIN Periods : CoverageReasons(Periods[n]) = {} =>
        LET w == Periods[n]
            asked == {p \in Slices : /\ slices[p] # "absent" /\ SliceOf[p].target \in openTargets
                                     /\ Regular(p) /\ Overlaps(p, w)}
            published == {m \in memberships : /\ m[1] \in asked
                                              /\ ItemFacts[m[2]].licensed /\ PublishedIn(m[2], w)}
        IN  /\ \A p \in asked : slices[p] = "completed"
            /\ published # {}
            /\ \A m \in published : m[2] \in (searchable \cap embedded) \ tombstoned

\* A comparison that was read while the collection went on: a member is
\* counted only where every partition that there was when it began is now
\* completed, in both periods; without such a member there are no numbers; and
\* what was acquired for questions alone adds nothing to them.
RegularTotal(m, w) ==
    SumOf({i \in ObservedIn(w) : /\ BelongsTo(i, m)
                                 /\ \E p \in Slices : <<p, i>> \in memberships /\ Regular(p)})
ComparisonIsHonest ==
    LET result == comparison.result
        Bound(w) == SumFunctionOnSet([n \in Counted |-> RegularTotal(CohortMembers[n], w)], Counted)
    IN  comparison.at = "done" =>
            /\ result.covered <=> result.baseline # NoValue
            /\ result.covered <=> result.current # NoValue
            /\ \A n \in Counted, k \in DOMAIN Periods :
                   LET of == MemberSlices(CohortMembers[n], Periods[k])
                   IN  /\ \E p \in of : slices[p] = "completed"
                       /\ \A p \in of \cap comparison.began : slices[p] = "completed"
            /\ result.covered => /\ result.baseline <= Bound(Periods[1])
                                 /\ result.current <= Bound(Periods[2])

\* What the archive says of itself is so: no reason means a whole period, and
\* the numbers of a comparison are those of members that were covered.
ReportsAreHonest == NoReasonMeansWhole /\ ComparisonIsHonest

=============================================================================
