---------------------------- MODULE MCSourcePages ----------------------------
(***************************************************************************)
(* The parts of the source collectors on a small instance, one at a time:  *)
(* `part', which Init fixes, says which of them moves, and the others stay *)
(* as they are set here.                                                   *)
(***************************************************************************)
EXTENDS Collectors

CONSTANTS a1, a2, a3, k1, k2, f1, f2, q1, q2

VARIABLE part

ThreeItems == <<a1, a2, a3>>

NoPages ==
    /\ source = "arxiv" /\ mode = "backfill"
    /\ when = [i \in PageItems |-> "in"]
    /\ listing = <<>>/\ listedAll = {} /\ place = None /\ etag = None
    /\ progress = "completed" /\ collected = {} /\ lost = {} /\ unmodified = FALSE
    /\ moves = 0 /\ refusals = 0
NoSession ==
    /\ site = "trials" /\ injected = "nothing" /\ step = "done"
    /\ SessionIdle

PagesPart == part = "pages" /\ PagesNext /\ UNCHANGED <<part, sessionVars, fetchVars>>
SessionPart == part = "session" /\ SessionNext /\ UNCHANGED <<part, pageVars, fetchVars>>
FetchPart == part = "fetch" /\ FetchNext /\ UNCHANGED <<part, pageVars, sessionVars>>

PartInit ==
    /\ FetchInit
    /\ \/ part = "pages" /\ PagesInit /\ NoSession
       \/ part = "session" /\ SessionInit /\ NoPages
       \/ part = "fetch" /\ NoPages /\ NoSession

PartSpec ==
    /\ PartInit
    /\ [][PagesPart \/ SessionPart \/ FetchPart]_<<part, collectorVars>>
    /\ WF_pageVars(part = "pages" /\ CollectPage)
    /\ WF_fetchVars(part = "fetch" /\ Advance)
    /\ \A c \in Callers :
        /\ WF_fetchVars(part = "fetch" /\ Enter(c))
        /\ WF_fetchVars(part = "fetch" /\ Start(c))
        /\ WF_fetchVars(part = "fetch" /\ (Answered(c) \/ Fails(c)))
=============================================================================
