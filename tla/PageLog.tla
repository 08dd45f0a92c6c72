------------------------------- MODULE PageLog -------------------------------
(***************************************************************************)
(* What collection promises of a partition, whatever happens to workers,   *)
(* leases and deliveries: an append-only log of pages, each fetched from   *)
(* the cursor where the log ended, closed once and given up or taken up    *)
(* again only in between.                                                  *)
(***************************************************************************)
EXTENDS Sequences

CONSTANTS Partitions, Cursors, NoCursor

VARIABLES log, status
vars == <<log, status>>

Cursor == Cursors \cup {NoCursor}

End(p) == IF log[p] = << >> THEN NoCursor ELSE log[p][Len(log[p])].to

Init ==
    /\ log = [p \in Partitions |-> << >>]
    /\ status = [p \in Partitions |-> "open"]

\* One page is appended; it may be the last one.
AppendPage(p, to, last) ==
    /\ status[p] = "open"
    /\ log' = [log EXCEPT ![p] =
                  Append(@, [from |-> End(p), fetched |-> End(p), to |-> to])]
    /\ status' = [status EXCEPT ![p] = IF last THEN "closed" ELSE "open"]

GiveUp(p) ==
    /\ status[p] = "open"
    /\ status' = [status EXCEPT ![p] = "failed"]
    /\ UNCHANGED log

TakeUp(p) ==
    /\ status[p] = "failed"
    /\ status' = [status EXCEPT ![p] = "open"]
    /\ UNCHANGED log

Next == \E p \in Partitions :
    \/ \E to \in Cursor, last \in BOOLEAN : AppendPage(p, to, last)
    \/ GiveUp(p)
    \/ TakeUp(p)

Spec == Init /\ [][Next]_vars
==============================================================================
