---------------------------- MODULE RawIngestion ----------------------------
(***************************************************************************)
(* executeIngestion: a call collects one page of a source under a run,     *)
(* stores its items, and hands those that are new to normalization.  Each  *)
(* statement commits by itself; calls for one run may overlap, and one     *)
(* that failed is made again.                                              *)
(***************************************************************************)
EXTENDS Naturals, Sequences, SequencesExt, FiniteSets

CONSTANTS
    Ingesters,     \* callers of one run
    Places,        \* cursors of the source
    NoPlace,       \* null
    PageAt,        \* what the collector finds at a place: items, next
    FetchEnds,     \* how collect may end
    Publishers,    \* the optional ports of the service: "events", "jobs"
    MaxIngests,    \* bound: calls
    IngestFaults   \* bound: calls that throw, processes that die

\* Every place of the cursor has a page, whose next place is one or none.
ASSUME IngestAssumption ==
    \A c \in Places \cup {NoPlace} :
        /\ PageAt[c].items \in Seq(ToSet(PageAt[c].items))
        /\ PageAt[c].next \in Places \cup {NoPlace}

VARIABLES
    feedState,     \* sources.enabled, or absent
    runRow,        \* the row of the run in collection_runs
    storedRows,    \* raw_items, by source, external id and payload hash
    savedEvents,   \* pipeline events of stage raw_saved that say succeeded
    stageJobs,     \* jobs published for an item
    ingest,        \* the call of an ingester
    ingests, ingestFaults

ingestVars ==
    <<feedState, runRow, storedRows, savedEvents, stageJobs, ingest, ingests, ingestFaults>>

PlacesOrNone == Places \cup {NoPlace}
Publishes == "jobs" \in Publishers
Notes == "events" \in Publishers
ItemsOf(c) == ToSet(PageAt[c].items)
FeedItems == UNION {ItemsOf(c) : c \in PlacesOrNone}
NoCounts == [fetched |-> 0, persisted |-> 0, skipped |-> 0, published |-> 0]
NoRunRow == [status |-> "absent", before |-> NoPlace, after |-> NoPlace, counts |-> NoCounts]
NoIngest == [at |-> "idle", asked |-> NoPlace, before |-> NoPlace, place |-> NoPlace, known |-> FALSE,
             left |-> <<>>, fresh |-> <<>>, skipped |-> 0, sent |-> 0, isNew |-> FALSE,
             verdict |-> "none"]

IngestInit ==
    /\ feedState \in {"on", "absent"}
    /\ runRow = NoRunRow /\ storedRows = {}
    /\ savedEvents = [i \in FeedItems |-> 0]
    /\ stageJobs = [i \in FeedItems |-> 0]
    /\ ingest = [e \in Ingesters |-> NoIngest]
    /\ ingests = 0 /\ ingestFaults = 0

IngestMoves(e, c) == ingest' = [ingest EXCEPT ![e] = c]
IngestEnds(e, verdict) == IngestMoves(e, [NoIngest EXCEPT !.verdict = verdict])
AtStep(e, step) == ingest[e].at = step
IngestFault == ingestFaults < IngestFaults /\ ingestFaults' = ingestFaults + 1

AskIngestion(e, c) ==
    /\ AtStep(e, "idle") /\ ingests < MaxIngests
    /\ ingests' = ingests + 1
    /\ IngestMoves(e, [NoIngest EXCEPT !.at = "finding", !.asked = c])
    /\ UNCHANGED <<feedState, runRow, storedRows, savedEvents, stageJobs, ingestFaults>>

FindSource(e) ==
    /\ AtStep(e, "finding")
    /\ CASE feedState = "absent" -> IngestEnds(e, "source_not_found")
         [] feedState = "off" -> IngestMoves(e, [ingest[e] EXCEPT !.at = "looking_to_cancel"])
         [] OTHER -> IngestMoves(e, [ingest[e] EXCEPT !.at = "looking"])
    /\ UNCHANGED <<feedState, runRow, storedRows, savedEvents, stageJobs, ingests, ingestFaults>>

\* A run of a disabled source is cancelled, whatever became of it before.
LookToCancel(e) ==
    /\ AtStep(e, "looking_to_cancel")
    /\ IngestMoves(e, [ingest[e] EXCEPT !.at = "cancelling", !.known = runRow # NoRunRow])
    /\ UNCHANGED <<feedState, runRow, storedRows, savedEvents, stageJobs, ingests, ingestFaults>>

\* The id of a run is its key: of two creations one throws.
Creates(e, status) ==
    /\ runRow = NoRunRow
    /\ runRow' = [NoRunRow EXCEPT !.status = status, !.before = ingest[e].asked]
CancelRun(e) ==
    /\ AtStep(e, "cancelling")
    /\ \/ ingest[e].known /\ runRow' = [runRow EXCEPT !.status = "cancelled"] /\ IngestEnds(e, "cancelled")
       \/ ~ingest[e].known /\ Creates(e, "cancelled") /\ IngestEnds(e, "cancelled")
       \/ ~ingest[e].known /\ runRow # NoRunRow /\ UNCHANGED runRow /\ IngestEnds(e, "rejected")
    /\ UNCHANGED <<feedState, storedRows, savedEvents, stageJobs, ingests, ingestFaults>>

\* A run that has succeeded is not repeated.
LookUpRun(e) ==
    LET c == ingest[e]
        before == IF c.asked # NoPlace THEN c.asked ELSE runRow.before
    IN
    /\ AtStep(e, "looking")
    /\ IF runRow.status = "succeeded" THEN IngestEnds(e, "already")
       ELSE IngestMoves(e, [c EXCEPT !.at = "opening", !.known = runRow # NoRunRow, !.before = before])
    /\ UNCHANGED <<feedState, runRow, storedRows, savedEvents, stageJobs, ingests, ingestFaults>>

Collects(e) ==
    IngestMoves(e, [ingest[e] EXCEPT !.at = "collecting",
                  !.place = IF ingest[e].asked # NoPlace THEN ingest[e].asked ELSE runRow'.before])
OpenRun(e) ==
    LET c == ingest[e] IN
    /\ AtStep(e, "opening")
    /\ \/ /\ c.known
          /\ runRow' = [runRow EXCEPT !.status = "running",
                                      !.before = IF c.before # NoPlace THEN c.before ELSE @]
          /\ Collects(e)
       \/ ~c.known /\ Creates(e, "running") /\ Collects(e)
       \/ ~c.known /\ runRow # NoRunRow /\ UNCHANGED runRow /\ IngestEnds(e, "rejected")
    /\ UNCHANGED <<feedState, storedRows, savedEvents, stageJobs, ingests, ingestFaults>>

\* What is next: an item to store, a job to publish, or the end of the run
Onward(c) ==
    [c EXCEPT !.at = IF c.left # <<>> THEN "saving"
                     ELSE IF Publishes /\ c.sent < Len(c.fresh) THEN "publishing" ELSE "closing"]

\* No collector for the source, a violation of a policy, any other error
CollectPage(e) ==
    /\ AtStep(e, "collecting")
    /\ \E end \in FetchEnds :
           IF end = "page" THEN IngestMoves(e, Onward([ingest[e] EXCEPT !.left = PageAt[ingest[e].place].items]))
           ELSE IngestMoves(e, [ingest[e] EXCEPT !.at = "failing", !.verdict = end])
    /\ UNCHANGED <<feedState, runRow, storedRows, savedEvents, stageJobs, ingests, ingestFaults>>

\* Faulty variant: an item that was there already is handed on too.
KeptAgain(c, i) == [c EXCEPT !.at = "noting", !.isNew = i \notin storedRows, !.fresh = Append(@, i)]
\* upsert: on conflict do nothing
KeptItem(c, i) ==
    IF i \in storedRows
    THEN [c EXCEPT !.at = "noting", !.isNew = FALSE, !.skipped = @ + 1]
    ELSE [c EXCEPT !.at = "noting", !.isNew = TRUE, !.fresh = Append(@, i)]

SaveItem(e) ==
    /\ AtStep(e, "saving")
    /\ storedRows' = storedRows \cup {Head(ingest[e].left)}
    /\ IngestMoves(e, KeptItem(ingest[e], Head(ingest[e].left)))
    /\ UNCHANGED <<feedState, runRow, savedEvents, stageJobs, ingests, ingestFaults>>

NoteSaved(e) ==
    LET c == ingest[e] IN
    /\ AtStep(e, "noting")
    /\ savedEvents' = [savedEvents EXCEPT ![Head(c.left)] = @ + (IF Notes /\ c.isNew THEN 1 ELSE 0)]
    /\ IngestMoves(e, Onward([c EXCEPT !.left = Tail(@)]))
    /\ UNCHANGED <<feedState, runRow, storedRows, stageJobs, ingests, ingestFaults>>

\* A statement of the loop throws; the row may have been stored.
SaveThrows(e) ==
    /\ ingest[e].at \in {"saving", "noting"}
    /\ \E reached \in {{}, {Head(ingest[e].left)}} : storedRows' = storedRows \cup reached
    /\ IngestMoves(e, [ingest[e] EXCEPT !.at = "failing", !.verdict = "transient"])
    /\ IngestFault
    /\ UNCHANGED <<feedState, runRow, savedEvents, stageJobs, ingests>>

FailRun(e) ==
    /\ AtStep(e, "failing")
    /\ runRow' = [runRow EXCEPT !.status = "failed"]
    /\ IngestEnds(e, ingest[e].verdict)
    /\ UNCHANGED <<feedState, storedRows, savedEvents, stageJobs, ingests, ingestFaults>>

PublishStageJob(e) ==
    LET c == ingest[e] IN
    /\ AtStep(e, "publishing")
    /\ stageJobs' = [stageJobs EXCEPT ![c.fresh[c.sent + 1]] = @ + 1]
    /\ IngestMoves(e, Onward([c EXCEPT !.sent = @ + 1]))
    /\ UNCHANGED <<feedState, runRow, storedRows, savedEvents, ingests, ingestFaults>>

\* The run succeeds, even if another call has meanwhile failed or cancelled it.
CloseRun(e) ==
    LET c == ingest[e] IN
    /\ AtStep(e, "closing")
    /\ runRow' = [runRow EXCEPT
           !.status = "succeeded",
           !.after = IF PageAt[c.place].next # NoPlace THEN PageAt[c.place].next ELSE @,
           !.counts = [fetched |-> Len(PageAt[c.place].items), persisted |-> Len(c.fresh),
                       skipped |-> c.skipped, published |-> c.sent]]
    /\ IngestEnds(e, "succeeded")
    /\ UNCHANGED <<feedState, storedRows, savedEvents, stageJobs, ingests, ingestFaults>>

\* What is awaited throws where nothing catches it, or the process dies.
IngestionRejects(e) ==
    /\ ~AtStep(e, "idle")
    /\ IngestEnds(e, "rejected") /\ IngestFault
    /\ UNCHANGED <<feedState, runRow, storedRows, savedEvents, stageJobs, ingests>>

\* updateEnabled, by an operator
SwitchFeed ==
    /\ feedState # "absent"
    /\ feedState' = IF feedState = "on" THEN "off" ELSE "on"
    /\ UNCHANGED <<runRow, storedRows, savedEvents, stageJobs, ingest, ingests, ingestFaults>>

IngestNext ==
    \/ \E e \in Ingesters :
        \/ \E c \in PlacesOrNone : AskIngestion(e, c)
        \/ FindSource(e) \/ LookToCancel(e) \/ CancelRun(e) \/ LookUpRun(e) \/ OpenRun(e)
        \/ CollectPage(e) \/ SaveItem(e) \/ NoteSaved(e) \/ SaveThrows(e) \/ FailRun(e)
        \/ PublishStageJob(e) \/ CloseRun(e) \/ IngestionRejects(e)
    \/ SwitchFeed

-----------------------------------------------------------------------------
IngestSteps == {"idle", "finding", "looking_to_cancel", "cancelling", "looking", "opening",
                "collecting", "saving", "noting", "failing", "publishing", "closing"}
IngestTypeOK ==
    /\ feedState \in {"on", "off", "absent"}
    /\ runRow.status \in {"absent", "running", "succeeded", "failed", "cancelled"}
    /\ {runRow.before, runRow.after} \subseteq PlacesOrNone
    /\ storedRows \subseteq FeedItems
    /\ savedEvents \in [FeedItems -> Nat] /\ stageJobs \in [FeedItems -> Nat]
    /\ \A e \in Ingesters : ingest[e].at \in IngestSteps

\* However calls overlap, fail and are repeated, a stored item is handed to
\* normalization at most once and only when it is stored; a run that succeeded
\* has stored a page and counts each of its items once; and as long as nothing
\* throws, a service that has the port forgets no stored item.  (After an error it may be: the next
\* call takes what the failed one stored for a duplicate.)
StageJobsFollowItems ==
    /\ \A i \in FeedItems : stageJobs[i] <= 1 /\ (stageJobs[i] = 1 => i \in storedRows)
    /\ runRow.status = "succeeded" =>
           LET n == runRow.counts
           IN  /\ n.fetched = n.persisted + n.skipped
               /\ n.published = IF Publishes THEN n.persisted ELSE 0
               /\ \E c \in PlacesOrNone :
                      n.fetched = Len(PageAt[c].items) /\ ItemsOf(c) \subseteq storedRows
    /\ ingestFaults = 0 /\ (\A e \in Ingesters : AtStep(e, "idle")) =>
           \A i \in storedRows :
               (Publishes => stageJobs[i] = 1) /\ (Notes => savedEvents[i] = 1)
=============================================================================
