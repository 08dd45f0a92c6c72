---------------------------- MODULE RevisionLife ----------------------------
(***************************************************************************)
(* What the delivery pipeline promises of one document revision.  It goes  *)
(* through the stages one at a time and never back, it becomes readable    *)
(* and counts as embedded only while it is not withdrawn, and only a       *)
(* revision that was readable once is restored.                            *)
(***************************************************************************)
CONSTANT Revisions

VARIABLES stage, hidden
vars == <<stage, hidden>>

\* <<from, to>>: saved, cut into chunks, readable, queued for its vectors
Stages == {<<"absent", "saved">>, <<"saved", "chunked">>, <<"chunked", "ready">>,
           <<"ready", "queued">>, <<"queued", "embedded">>}
Guarded == {"ready", "embedded"}
WasReady == {"ready", "queued", "embedded"}

Init ==
    /\ stage = [r \in Revisions |-> "absent"]
    /\ hidden = {}

Advance(r) ==
    \E s \in Stages :
        /\ stage[r] = s[1]
        /\ s[2] \in Guarded => r \notin hidden
        /\ stage' = [stage EXCEPT ![r] = s[2]]
        /\ UNCHANGED hidden

Withdraw(R) ==
    /\ \A r \in R : stage[r] # "absent"
    /\ hidden' = hidden \cup R
    /\ UNCHANGED stage

Restore(R) ==
    /\ \A r \in R : stage[r] \in WasReady
    /\ hidden' = hidden \ R
    /\ UNCHANGED stage

Next ==
    \/ \E r \in Revisions : Advance(r)
    \/ \E R \in SUBSET Revisions : Withdraw(R) \/ Restore(R)

Spec == Init /\ [][Next]_vars
==============================================================================
