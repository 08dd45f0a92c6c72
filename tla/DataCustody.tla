----------------------------- MODULE DataCustody -----------------------------
(***************************************************************************)
(* What is deleted when its time is over, and the drill that restores a    *)
(* backup.  Both count or look first and act later, while the archive goes *)
(* on being written; a transaction of PostgreSQL is one action.            *)
(***************************************************************************)
EXTENDS Integers, Sequences, SequencesExt, FiniteSets

CONSTANTS
    RowOf,           \* raw item -> source and day of collection
    EventOf,         \* pipeline event -> raw item, status and day
    QueryDay,        \* query run -> day
    RetentionDays,   \* SOURCE_RAW_RETENTION_DAYS: days, by source
    EventDays, QueryDays,
    RetentionRequests, \* day, dry, token, and days of its own by source
    Keepers,         \* calls of the retention service
    Manifests,       \* manifests of backups
    DrillRequests,   \* dry, token
    CustodyFaults    \* bound: calls that throw

\* Tables are finite, days are numbers, and a manifest is what JSON may hold.
ASSUME CustodyAssumption ==
    /\ \A S \in {Keepers, DOMAIN RowOf, DOMAIN EventOf, DOMAIN QueryDay} : IsFiniteSet(S)
    /\ \A r \in DOMAIN RowOf : RowOf[r].day \in Int
    /\ \A s \in DOMAIN RetentionDays : RetentionDays[s] \in Int
    /\ \A q \in RetentionRequests :
           /\ q.day \in Int /\ q.dry \in BOOLEAN /\ q.token \in BOOLEAN
           /\ \A s \in DOMAIN q.custom : q.custom[s] \in Int
    /\ \A q \in DrillRequests : q.dry \in BOOLEAN /\ q.token \in BOOLEAN
    /\ \A m \in Manifests : \A n \in DOMAIN m.tables : m.tables[n].rows \in Int

VARIABLES
    custodyPorts,    \* what the services are given: a "purge", "purge_audit", "drill_audit"
    rawKept,         \* rows of raw_items
    tied,            \* ... that a membership, a delivery or a piece of evidence refers to
    derived,         \* ... that a revision or an observation names
    bereft,          \* history: rows whose revisions and observations lost them
    eventsKept, queriesKept,
    custodyTrail,    \* audit events
    keeper,          \* a call of the retention service
    purges,          \* history: what committed purges deleted
    shelf,           \* the database that is restored into: missing, empty or filled
    drill,           \* the call of the restore drill
    custodyFaults

heldVars == <<rawKept, tied, derived, bereft, eventsKept, queriesKept>>
retentionVars == <<heldVars, keeper, purges>>
drillVars == <<shelf, drill>>
custodyVars == <<custodyPorts, retentionVars, drillVars, custodyTrail, custodyFaults>>

NoKeeper == [at |-> "idle", request |-> {}, total |-> 0, rows |-> 0, verdict |-> "none"]
NoDrill == [at |-> "idle", manifest |-> {}, request |-> {}, clean |-> TRUE, looked |-> FALSE,
            met |-> FALSE, rows |-> 0, verdict |-> "none"]
CustodyFault == custodyFaults < CustodyFaults /\ custodyFaults' = custodyFaults + 1

CustodyInit ==
    /\ custodyPorts \in SUBSET {"purge", "purge_audit", "drill_audit"}
    /\ rawKept \in SUBSET DOMAIN RowOf
    /\ tied = {} /\ derived = {} /\ bereft = {}
    /\ eventsKept = {e \in DOMAIN EventOf : EventOf[e].row \in rawKept}
    /\ queriesKept = DOMAIN QueryDay
    /\ custodyTrail = <<>>
    /\ keeper = [k \in Keepers |-> NoKeeper]
    /\ purges = <<>>
    /\ shelf \in {"missing", "empty", "filled"}
    /\ drill = NoDrill
    /\ custodyFaults = 0

-----------------------------------------------------------------------------
(* Retention.                                                              *)

\* computeRetentionCutoff and isRetentionCandidate: strictly before the cutoff
DaysFor(q, s) == IF s \in DOMAIN q.custom THEN q.custom[s] ELSE RetentionDays[s]
Expired(day, days, now) == day < now - days
\* A source without an entry has no cutoff: its rows are kept for ever.
ExpiredRows(q) ==
    {r \in rawKept : /\ RowOf[r].source \in DOMAIN RetentionDays
                     /\ Expired(RowOf[r].day, DaysFor(q, RowOf[r].source), q.day)}
ExpiredEvents(q) ==
    {e \in eventsKept : /\ EventOf[e].status \in {"failed", "quarantined", "skipped"}
                        /\ Expired(EventOf[e].day, EventDays, q.day)}
ExpiredQueries(q) == {u \in queriesKept : Expired(QueryDay[u], QueryDays, q.day)}

KeeperMoves(k, c) == keeper' = [keeper EXCEPT ![k] = c]
KeeperEnds(k, verdict) == KeeperMoves(k, [keeper[k] EXCEPT !.at = "idle", !.verdict = verdict])

\* Negative days are refused before anything is counted.
AskRetention(k, q) ==
    /\ keeper[k].at = "idle" /\ keeper[k].verdict = "none"
    /\ IF \E s \in DOMAIN q.custom : q.custom[s] < 0
       THEN KeeperMoves(k, [NoKeeper EXCEPT !.verdict = "invalid"])
       ELSE KeeperMoves(k, [NoKeeper EXCEPT !.at = "counting_rows", !.request = q])
    /\ UNCHANGED <<heldVars, purges, drillVars, custodyTrail, custodyFaults>>

\* countCandidates: one query after the other
CountRows(k) ==
    /\ keeper[k].at = "counting_rows"
    /\ KeeperMoves(k, [keeper[k] EXCEPT !.at = "counting_logs",
                                        !.total = Cardinality(ExpiredRows(keeper[k].request))])
    /\ UNCHANGED <<heldVars, purges, drillVars, custodyTrail, custodyFaults>>
CountLogs(k) ==
    LET q == keeper[k].request
        total == keeper[k].total + Cardinality(ExpiredEvents(q)) + Cardinality(ExpiredQueries(q))
    IN
    /\ keeper[k].at = "counting_logs"
    /\ IF q.dry THEN KeeperMoves(k, [keeper[k] EXCEPT !.at = "auditing", !.total = total])
       ELSE IF q.token /\ "purge" \in custodyPorts
            THEN KeeperMoves(k, [keeper[k] EXCEPT !.at = "purging", !.total = total])
       ELSE KeeperEnds(k, "refused")
    /\ UNCHANGED <<heldVars, purges, drillVars, custodyTrail, custodyFaults>>

\* An event, a membership or a delivery restricts: the row that it refers to
\* cannot be deleted.  A revision or an observation lets it go.
HeldRow(r) == r \in tied \/ \E e \in eventsKept : EventOf[e].row = r

\* One transaction, raw items first: one that is held undoes the whole purge.
\* Revisions and observations of the deleted ones name no row from then on.
PurgeExpired(k) ==
    LET q == keeper[k].request
        rows == ExpiredRows(q)
        events == ExpiredEvents(q)
        queries == ExpiredQueries(q)
    IN
    /\ keeper[k].at = "purging"
    /\ IF \E r \in rows : HeldRow(r)
       THEN KeeperEnds(k, "rejected") /\ UNCHANGED <<heldVars, purges>>
       ELSE /\ rawKept' = rawKept \ rows
            /\ derived' = derived \ rows
            /\ bereft' = bereft \cup (derived \cap rows)
            /\ eventsKept' = eventsKept \ events
            /\ queriesKept' = queriesKept \ queries
            /\ purges' = Append(purges, [request |-> q, rows |-> rows, events |-> events, queries |-> queries])
            /\ KeeperMoves(k, [keeper[k] EXCEPT !.at = "auditing",
                   !.rows = Cardinality(rows) + Cardinality(events) + Cardinality(queries)])
    /\ UNCHANGED <<tied, drillVars, custodyTrail, custodyFaults>>

\* The event is recorded where the service has an audit.
Records(port, event) ==
    custodyTrail' = IF port \in custodyPorts THEN Append(custodyTrail, event) ELSE custodyTrail
AuditRetention(k) ==
    LET c == keeper[k] IN
    /\ c.at = "auditing"
    /\ Records("purge_audit",
           [action |-> IF c.request.dry THEN "retention_dry_run" ELSE "retention_purge",
            total |-> c.total, rows |-> c.rows])
    /\ KeeperEnds(k, IF c.request.dry THEN "counted" ELSE "purged")
    /\ UNCHANGED <<heldVars, purges, drillVars, custodyFaults>>

\* A query or the audit throws, or the process dies; what was committed stays.
KeeperThrows(k) ==
    /\ keeper[k].at # "idle"
    /\ KeeperEnds(k, "rejected") /\ CustodyFault
    /\ UNCHANGED <<heldVars, purges, drillVars, custodyTrail>>

\* Meanwhile a row gets its first membership, delivery or evidence, or its
\* first revision or observation.
TieRow(r) ==
    /\ r \in rawKept
    /\ \/ r \notin tied /\ tied' = tied \cup {r} /\ UNCHANGED derived
       \/ r \notin derived /\ derived' = derived \cup {r} /\ UNCHANGED tied
    /\ UNCHANGED <<rawKept, bereft, eventsKept, queriesKept, keeper, purges, drillVars, custodyTrail,
                   custodyFaults>>

RetentionNext ==
    /\ UNCHANGED custodyPorts
    /\ \/ \E k \in Keepers :
            \/ \E q \in RetentionRequests : AskRetention(k, q)
            \/ CountRows(k) \/ CountLogs(k) \/ PurgeExpired(k) \/ AuditRetention(k) \/ KeeperThrows(k)
       \/ \E r \in DOMAIN RowOf : TieRow(r)

-----------------------------------------------------------------------------
(* The restore drill.                                                      *)

RowsIn(m) == FoldLeft(LAMBDA sum, t : IF t.rows < 0 THEN sum ELSE sum + t.rows, 0, m.tables)
TotalFits(m) == m.total = -1 \/ m.total = RowsIn(m) \/ \E n \in DOMAIN m.tables : m.tables[n].rows < 0
\* validateBackupManifest; -1 stands for a number that is missing
ValidateManifest(m) ==
    /\ m.version /\ m.named /\ m.dimensions > 0
    /\ m.tables # <<>>
    /\ \A n \in DOMAIN m.tables : m.tables[n].named /\ m.tables[n].rows >= 0 /\ m.tables[n].checksum
    /\ TotalFits(m)

DrillEnds(verdict) == drill' = [drill EXCEPT !.at = "idle", !.verdict = verdict]
AskDrill(m, q) ==
    /\ drill.at = "idle" /\ drill.verdict = "none"
    /\ drill' = [NoDrill EXCEPT !.manifest = m, !.request = q,
                     !.at = IF ValidateManifest(m) THEN "looking" ELSE "idle",
                     !.verdict = IF ValidateManifest(m) THEN "none" ELSE "invalid"]
    /\ UNCHANGED <<retentionVars, shelf, custodyTrail, custodyFaults>>

\* isCleanEnvironment: any error counts as a database without tables
LookAtShelf ==
    /\ drill.at = "looking"
    /\ \E looked \in {shelf # "missing", FALSE} :
        LET clean == looked => shelf = "empty"
        IN  /\ IF looked = (shelf # "missing") THEN UNCHANGED custodyFaults ELSE CustodyFault
            /\ drill' = [drill EXCEPT !.clean = clean, !.looked = looked, !.met = shelf = "filled",
                   !.at = CASE ~clean /\ ~drill.request.dry /\ ~drill.request.token -> "refusing"
                            [] drill.request.dry -> "auditing"
                            [] OTHER -> "migrating"]
    /\ UNCHANGED <<retentionVars, shelf, custodyTrail>>

\* The counts that the refusal names are read first.
RefuseRestore ==
    /\ drill.at = "refusing"
    /\ DrillEnds("refused")
    /\ UNCHANGED <<retentionVars, shelf, custodyTrail, custodyFaults>>

MigrateShelf ==
    /\ drill.at = "migrating"
    /\ shelf' = IF shelf = "missing" THEN "empty" ELSE shelf
    /\ drill' = [drill EXCEPT !.at = "restoring"]
    /\ UNCHANGED <<retentionVars, custodyTrail, custodyFaults>>

\* restoreTables adds up the manifest and writes nothing.
RestoreTables ==
    /\ drill.at = "restoring"
    /\ drill' = [drill EXCEPT !.at = "verifying", !.rows = RowsIn(drill.manifest)]
    /\ UNCHANGED <<retentionVars, shelf, custodyTrail, custodyFaults>>

\* verifyIntegrity passes unless a query throws, which it catches.
VerifyShelf ==
    /\ drill.at = "verifying"
    /\ drill' = [drill EXCEPT !.at = "auditing"]
    /\ UNCHANGED <<retentionVars, shelf, custodyTrail, custodyFaults>>

AuditDrill ==
    /\ drill.at = "auditing"
    /\ Records("drill_audit",
           [action |-> IF drill.request.dry THEN "restore_drill_dry_run" ELSE "restore_drill_execution",
            total |-> drill.manifest.total, rows |-> drill.rows])
    /\ DrillEnds(IF drill.request.dry THEN "planned" ELSE "restored")
    /\ UNCHANGED <<retentionVars, shelf, custodyFaults>>

\* A statement or the audit throws, or the process dies.
DrillThrows ==
    /\ drill.at # "idle"
    /\ DrillEnds("rejected") /\ CustodyFault
    /\ UNCHANGED <<retentionVars, shelf, custodyTrail>>

\* Somebody else writes to the database.
FillShelf ==
    /\ shelf = "empty" /\ shelf' = "filled"
    /\ UNCHANGED <<retentionVars, drill, custodyTrail, custodyFaults>>

DrillNext ==
    /\ UNCHANGED custodyPorts
    /\ \/ \E m \in Manifests, q \in DrillRequests : AskDrill(m, q)
       \/ LookAtShelf \/ RefuseRestore \/ MigrateShelf \/ RestoreTables \/ VerifyShelf
       \/ AuditDrill \/ DrillThrows \/ FillShelf

-----------------------------------------------------------------------------
CustodyTypeOK ==
    /\ tied \cup derived \cup bereft \subseteq DOMAIN RowOf /\ rawKept \subseteq DOMAIN RowOf
    /\ eventsKept \subseteq DOMAIN EventOf /\ queriesKept \subseteq DOMAIN QueryDay
    /\ \A k \in Keepers : keeper[k].at \in {"idle", "counting_rows", "counting_logs", "purging", "auditing"}
    /\ shelf \in {"missing", "empty", "filled"}
    /\ drill.at \in {"idle", "looking", "refusing", "migrating", "restoring", "verifying", "auditing"}

AuditsOf(action) == {n \in DOMAIN custodyTrail : custodyTrail[n].action = action}
SizeOf(p) == Cardinality(p.rows) + Cardinality(p.events) + Cardinality(p.queries)
\* Only a confirmed purge deletes, and only what is older than its source's
\* days; no event, membership, delivery, revision or observation names a row
\* that is gone, however the purge meets them; and the service that has an audit
\* records every purge with the number of deleted rows, unless a call threw
\* after it.  Revisions and observations are not deleted with their rows, as
\* retention.ts:99-101 promises, but they are altered, as it says that they must
\* never be: those that name no row lost one that a purge deleted.
PurgesAreAccounted ==
    /\ tied \cup derived \subseteq rawKept
    /\ \A e \in eventsKept : EventOf[e].row \in rawKept
    /\ \A r \in bereft : \E n \in DOMAIN purges : r \in purges[n].rows
    /\ \A n \in DOMAIN purges :
           LET p == purges[n]
           IN  /\ p.request.token /\ ~p.request.dry
               /\ \A r \in p.rows : RowOf[r].day + DaysFor(p.request, RowOf[r].source) < p.request.day
               /\ \A e \in p.events : EventOf[e].status # "succeeded"
    /\ \A n \in AuditsOf("retention_purge") :
           \E j \in DOMAIN purges : custodyTrail[n].rows = SizeOf(purges[j])
    /\ "purge_audit" \in custodyPorts =>
           Cardinality(AuditsOf("retention_purge")) + custodyFaults
               + Cardinality({k \in Keepers : keeper[k].at = "auditing" /\ ~keeper[k].request.dry})
               >= Len(purges)

\* A drill that says that it restored had a whole manifest, whose total is the
\* number of rows that another function reports; and a database that held data
\* when the drill looked was written to unconfirmed only if the look failed.
DrillsAreGuarded ==
    /\ drill.verdict = "restored" =>
           /\ \A n \in DOMAIN drill.manifest.tables : drill.manifest.tables[n].checksum
           /\ drill.rows = IF drill.manifest.total = -1 THEN RowsIn(drill.manifest) ELSE drill.manifest.total
           /\ drill.met => drill.request.token \/ ~drill.looked
    /\ AuditsOf("restore_drill_execution") # {} => drill.verdict = "restored"
=============================================================================
