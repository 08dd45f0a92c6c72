------------------------------ MODULE Collectors ------------------------------
(***************************************************************************)
(* The parts of the source collectors: the pages of a partition, one       *)
(* session of a browser, and the queue of requests of a connection.  Each  *)
(* goes at its own pace and none has a variable of another.                *)
(***************************************************************************)
EXTENDS SourcePages, BrowserSession, PoliteFetch

collectorVars == <<pageVars, sessionVars, fetchVars>>

CollectorsInit == PagesInit /\ SessionInit /\ FetchInit
CollectorsNext ==
    \/ PagesNext /\ UNCHANGED <<sessionVars, fetchVars>>
    \/ SessionNext /\ UNCHANGED <<pageVars, fetchVars>>
    \/ FetchNext /\ UNCHANGED <<pageVars, sessionVars>>
CollectorsSpec == CollectorsInit /\ [][CollectorsNext]_collectorVars

\* Pages, sessions and the connection keep their types.
CollectorsTypeOK == PagesTypeOK /\ SessionTypeOK /\ FetchTypeOK
=============================================================================
