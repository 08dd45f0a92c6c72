---------------------------- MODULE ArchiveCustody ----------------------------
(***************************************************************************)
(* What comes into the archive and what goes: the ingestion of a run, the  *)
(* feed of articles, retention and the drill that restores a backup, each  *)
(* at its own pace and none with a variable of another.                    *)
(***************************************************************************)
EXTENDS RawIngestion, ArticleFeed, DataCustody

CustodyNext ==
    \/ IngestNext /\ UNCHANGED <<articleVars, custodyVars>>
    \/ FeedNext /\ UNCHANGED <<ingestVars, custodyVars>>
    \/ RetentionNext /\ UNCHANGED <<ingestVars, articleVars>>
    \/ DrillNext /\ UNCHANGED <<ingestVars, articleVars>>
CustodySpec ==
    /\ IngestInit /\ ArticleInit /\ CustodyInit
    /\ [][CustodyNext]_<<ingestVars, articleVars, custodyVars>>

\* An item is handed on once and counted, no article of a feed is lost or
\* stored twice, a purge deletes what is old and nothing that an event, a
\* membership or a delivery refers to and leaves its audit event where there is
\* an audit, and a restore reports the rows of a whole backup.
CustodyIsKept ==
    StageJobsFollowItems /\ FeedIsRead /\ PurgesAreAccounted /\ DrillsAreGuarded
=============================================================================
