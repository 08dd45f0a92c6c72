-------------------------- MODULE DocumentPipeline --------------------------
(***************************************************************************)
(* From a raw item to a searchable, embedded revision, and the operator    *)
(* who withdraws and restores sources, documents and revisions meanwhile.  *)
(*                                                                         *)
(* An action of a worker is one transaction of the normalization or the    *)
(* embedding handler.  A withdrawal is two: its UPDATE sees the revisions  *)
(* that exist when the statement starts and locks them until it commits.   *)
(* Everything here is a row of PostgreSQL except worker and operator.      *)
(***************************************************************************)
EXTENDS Naturals, FiniteSets

CONSTANTS
    Sources,    \* sources
    Items,      \* raw items that collection has committed
    SourceOf,   \* raw_items.source_id
    Texts,      \* normalized contents, told apart by normalized_hash
    Urls,       \* canonical URLs
    UrlOf,      \* the hash covers the URL: a text has one
    Own,        \* the text that the normalizer of the item's source produces,
                \* or None: metrics only
    Fallback,   \* the text that the normalizer of github_releases produces
    Blank,      \* texts with an empty body, which have no chunks
    Docs,       \* pool of document row ids
    Workers,    \* executors of deliveries
    Operators,  \* concurrent operator requests
    Scopes,     \* the tombstone scopes in use
    None,       \* null
    MaxFaults   \* bound: failures, duplicate executions and operator requests

ASSUME PipelineConstants ==
    /\ SourceOf \in [Items -> Sources]
    /\ UrlOf \in [Texts -> Urls]
    /\ Own \in [Items -> Texts \cup {None}]
    /\ Fallback \in [Items -> Texts]
    /\ Blank \subseteq Texts
    /\ None \notin Items \cup Texts \cup Urls \cup Docs \cup (Docs \X Texts)
    /\ Scopes \subseteq {"source", "document", "document_revision"}
    /\ MaxFaults \in Nat

VARIABLES
    enabled,    \* sources.enabled
    url,        \* documents.canonical_url of the rows that exist
    status,     \* document_revisions.status
    raw,        \* ... .raw_item_id
    ready,      \* ... .lexical_ready_at and .searchable_at are set
    chunked,    \* the chunks of the revision are stored
    vectors,    \* every chunk has a completed embedding
    attached,   \* acquisition_memberships.revision_id of the item
    normalized, \* the normalization delivery of the item is completed
    embedding,  \* the embedding delivery of the revision
    worker,     \* the delivery that each executor is at
    operator,   \* the request that each operator is at
    withdrawn,  \* history: withdrawals in force, as <<scope, target>>
    faults

rowVars == <<url, status, raw, ready, chunked, vectors>>
deliveryVars == <<attached, normalized, embedding>>
operatorVars == <<enabled, operator, withdrawn>>
vars == <<rowVars, deliveryVars, operatorVars, worker, faults>>

\* The natural key of a revision: document and hash
Revs == Docs \X Texts
Targets(k) == CASE k = "source" -> Sources
                [] k = "document" -> Docs
                [] k = "document_revision" -> Revs
AnyTarget == Sources \cup Docs \cup Revs

Idle == [pc |-> "idle", item |-> None, doc |-> None, text |-> None]
AtEase == [pc |-> "idle", scope |-> None, target |-> None, revs |-> {}]

OnText == {"enriching", "publishing", "attaching"}
OnVectors == {"embedding", "finishing"}
Execution ==
    {Idle}
    \cup [pc : {"starting", "completing"}, item : Items, doc : {None}, text : {None}]
    \cup [pc : {"locating"}, item : Items, doc : {None}, text : Texts]
    \cup [pc : {"saving"}, item : Items, doc : Docs \cup {None}, text : Texts]
    \cup [pc : OnText, item : Items, doc : Docs, text : Texts]
    \cup [pc : OnVectors, item : {None}, doc : Docs, text : Texts]
Request ==
    {AtEase} \cup [pc : {"withdrawing", "enabling", "disabling"}, scope : Scopes,
                   target : AnyTarget, revs : SUBSET Revs]

TypeOK ==
    /\ enabled \in [Sources -> BOOLEAN]
    /\ url \in [Docs -> Urls \cup {None}]
    /\ status \in [Revs -> {"absent", "pending", "searchable", "tombstoned"}]
    /\ raw \in [Revs -> Items \cup {None}]
    /\ ready \in [Revs -> BOOLEAN]
    /\ chunked \in [Revs -> BOOLEAN]
    /\ vectors \in [Revs -> BOOLEAN]
    /\ attached \in [Items -> Revs \cup {None}]
    /\ normalized \in [Items -> BOOLEAN]
    /\ embedding \in [Revs -> {"none", "open", "done"}]
    /\ worker \in [Workers -> Execution]
    /\ operator \in [Operators -> Request]
    /\ withdrawn \subseteq Scopes \X AnyTarget
    /\ faults \in 0 .. MaxFaults

Exists(r) == status[r] # "absent"
Locked(r) == \E o \in Operators :
    operator[o].pc = "withdrawing" /\ r \in operator[o].revs
SourceLocked(s) == \E o \in Operators :
    /\ operator[o].pc = "withdrawing"
    /\ operator[o].scope = "source" /\ operator[o].target = s

RevOf(w) == <<worker[w].doc, worker[w].text>>
Goes(w, pc) == worker' = [worker EXCEPT ![w].pc = pc]
Rests(w) == worker' = [worker EXCEPT ![w] = Idle]
OneMoreFault ==
    /\ faults < MaxFaults
    /\ faults' = faults + 1

Init ==
    /\ enabled = [s \in Sources |-> TRUE]
    /\ url = [d \in Docs |-> None]
    /\ status = [r \in Revs |-> "absent"]
    /\ raw = [r \in Revs |-> None]
    /\ ready = [r \in Revs |-> FALSE]
    /\ chunked = [r \in Revs |-> FALSE]
    /\ vectors = [r \in Revs |-> FALSE]
    /\ attached = [i \in Items |-> None]
    /\ normalized = [i \in Items |-> FALSE]
    /\ embedding = [r \in Revs |-> "none"]
    /\ worker = [w \in Workers |-> Idle]
    /\ operator = [o \in Operators |-> AtEase]
    /\ withdrawn = {}
    /\ faults = 0
-----------------------------------------------------------------------------
(* The normalization delivery of an item.                                  *)

OnItem(i) == \E w \in Workers : worker[w].item = i

\* handle: a delivery that is completed is skipped
Begin(w, i) ==
    /\ worker[w] = Idle /\ ~normalized[i]
    /\ worker' = [worker EXCEPT ![w] = [Idle EXCEPT !.pc = "starting", !.item = i]]
    /\ UNCHANGED <<rowVars, deliveryVars, operatorVars>>

StartNormalization(w, i) == ~OnItem(i) /\ Begin(w, i) /\ UNCHANGED faults

\* A stalled job is given to a second executor.
RepeatNormalization(w, i) == OnItem(i) /\ Begin(w, i) /\ OneMoreFault

\* listEnabled does not find the source while it is disabled: the source key
\* then keeps its default, github_releases
TextOf(i) == IF enabled[SourceOf[i]] THEN Own[i] ELSE Fallback[i]

Normalize(w) ==
    /\ worker[w].pc = "starting"
    /\ LET t == TextOf(worker[w].item)
       IN  worker' = [worker EXCEPT ![w].text = t,
                          ![w].pc = IF t = None THEN "completing" ELSE "locating"]
    /\ UNCHANGED <<rowVars, deliveryVars, operatorVars, faults>>

\* findFirst by canonical URL, which is not unique; the row is not locked
Locations(t) ==
    LET same == {d \in Docs : url[d] = UrlOf[t]}
    IN  IF same = {} THEN {None} ELSE same

Locate(w) ==
    /\ worker[w].pc = "locating"
    /\ \E d \in Locations(worker[w].text) :
           worker' = [worker EXCEPT ![w].pc = "saving", ![w].doc = d]
    /\ UNCHANGED <<rowVars, deliveryVars, operatorVars, faults>>

\* The same document and hash name one revision, whichever item it came from.
\* Faulty variant: the revision is taken over by the last item that saves it.
InsertOrUpdate(d, w) ==
    /\ status' = [status EXCEPT ![<<d, worker[w].text>>] =
                      IF @ = "absent" THEN "pending" ELSE @]
    /\ raw' = [raw EXCEPT ![<<d, worker[w].text>>] = worker[w].item]
Insert(d, w) ==
    LET r == <<d, worker[w].text>>
    IN  IF Exists(r) THEN UNCHANGED <<status, raw>>
        ELSE /\ status' = [status EXCEPT ![r] = "pending"]
             /\ raw' = [raw EXCEPT ![r] = worker[w].item]

\* Faulty variant: the row that the lookup found, if any, is passed on.
SavedAsFound(w, d) == [worker[w] EXCEPT !.pc = "enriching"]
SavedAs(w, d) == [worker[w] EXCEPT !.pc = "enriching", !.doc = d]

Save(w) ==
    /\ worker[w].pc = "saving"
    /\ \E d \in Docs :
           /\ IF worker[w].doc = None
              THEN /\ url[d] = None
                   /\ url' = [url EXCEPT ![d] = UrlOf[worker[w].text]]
              ELSE d = worker[w].doc /\ UNCHANGED url
           /\ Insert(d, w)
           /\ worker' = [worker EXCEPT ![w] = SavedAs(w, d)]
    /\ UNCHANGED <<ready, chunked, vectors, deliveryVars, operatorVars, faults>>

\* deduplicate and enrich: topics and chunks
Enrich(w) ==
    /\ worker[w].pc = "enriching"
    /\ chunked' = [chunked EXCEPT ![RevOf(w)] = worker[w].text \notin Blank]
    /\ Goes(w, "publishing")
    /\ UNCHANGED <<url, status, raw, ready, vectors, deliveryVars, operatorVars, faults>>

\* Faulty variants: a withdrawn revision is published; one that is published
\* already is refused.
PublishAny(r) == chunked[r] /\ enabled[SourceOf[raw[r]]]
PublishOnce(r) == status[r] = "pending" /\ chunked[r] /\ enabled[SourceOf[raw[r]]]

\* markLexicalReady
MayPublish(r) == status[r] # "tombstoned" /\ chunked[r] /\ enabled[SourceOf[raw[r]]]

Publish(w) ==
    LET r == RevOf(w) IN
    /\ worker[w].pc = "publishing" /\ ~Locked(r)
    /\ IF MayPublish(r)
       THEN /\ ready' = [ready EXCEPT ![r] = TRUE]
            /\ status' = [status EXCEPT ![r] = "searchable"]
            /\ Goes(w, "attaching")
       ELSE Rests(w) /\ UNCHANGED <<ready, status>>
    /\ UNCHANGED <<url, raw, chunked, vectors, deliveryVars, operatorVars, faults>>

\* attachRevision: not found when the revision came from another item
Attach(w) ==
    LET r == RevOf(w)
        i == worker[w].item
    IN
    /\ worker[w].pc = "attaching"
    /\ IF raw[r] = i
       THEN /\ attached' = [attached EXCEPT ![i] = r]
            /\ embedding' = [embedding EXCEPT ![r] = IF @ = "none" THEN "open" ELSE @]
            /\ worker' = [worker EXCEPT
                   ![w] = [Idle EXCEPT !.pc = "completing", !.item = i]]
       ELSE Rests(w) /\ UNCHANGED <<attached, embedding>>
    /\ UNCHANGED <<rowVars, normalized, operatorVars, faults>>

MayComplete(i) ==
    \E r \in Revs : /\ attached[i] = r /\ raw[r] = i
                    /\ status[r] = "searchable" /\ chunked[r]

Complete(w) ==
    LET i == worker[w].item IN
    /\ worker[w].pc = "completing"
    /\ normalized' = [normalized EXCEPT ![i] = @ \/ MayComplete(i)]
    /\ Rests(w)
    /\ UNCHANGED <<rowVars, attached, embedding, operatorVars, faults>>
-----------------------------------------------------------------------------
(* The embedding delivery of a revision.  Which calls are paid for is the  *)
(* subject of EmbeddingWork; here a chunk has a vector or it has none.     *)

OnRevision(r) == \E w \in Workers : worker[w].pc \in OnVectors /\ RevOf(w) = r

BeginVectors(w, r) ==
    /\ worker[w] = Idle /\ embedding[r] = "open"
    /\ worker' = [worker EXCEPT
           ![w] = [Idle EXCEPT !.pc = "embedding", !.doc = r[1], !.text = r[2]]]
    /\ UNCHANGED <<rowVars, deliveryVars, operatorVars>>

StartEmbedding(w, r) == ~OnRevision(r) /\ BeginVectors(w, r) /\ UNCHANGED faults
RepeatEmbedding(w, r) == OnRevision(r) /\ BeginVectors(w, r) /\ OneMoreFault

\* checkWorkRights, with row locks on revision and source
HasRights(r) ==
    /\ attached[raw[r]] = r
    /\ status[r] # "tombstoned"
    /\ enabled[SourceOf[raw[r]]]

Embed(w) ==
    LET r == RevOf(w) IN
    /\ worker[w].pc = "embedding"
    /\ ~Locked(r) /\ ~SourceLocked(SourceOf[raw[r]])
    /\ IF HasRights(r)
       THEN vectors' = [vectors EXCEPT ![r] = TRUE] /\ Goes(w, "finishing")
       ELSE Rests(w) /\ UNCHANGED vectors
    /\ UNCHANGED <<url, status, raw, ready, chunked, deliveryVars, operatorVars, faults>>

\* Faulty variant: a withdrawal during the calls is overlooked.
FinishAny(r) == chunked[r] /\ vectors[r]
MayFinish(r) == status[r] # "tombstoned" /\ chunked[r] /\ vectors[r]

Finish(w) ==
    LET r == RevOf(w) IN
    /\ worker[w].pc = "finishing"
    /\ embedding' = [embedding EXCEPT
           ![r] = IF MayFinish(r) THEN "done" ELSE @]
    /\ Rests(w)
    /\ UNCHANGED <<rowVars, attached, normalized, operatorVars, faults>>

\* Any call may throw and any process may die: what was committed stays.
Fail(w) ==
    /\ worker[w] # Idle
    /\ Rests(w) /\ OneMoreFault
    /\ UNCHANGED <<rowVars, deliveryVars, operatorVars>>
-----------------------------------------------------------------------------
(* The tombstone service, called by an operator or, for a source, by the   *)
(* enable and disable routes, which swallow its errors and set the switch. *)

\* Revisions that a tombstone of this scope and target speaks of
Covers(k, t, r) ==
    CASE k = "source" -> SourceOf[raw[r]] = t
      [] k = "document" -> r[1] = t
      [] OTHER -> r = t
Covered(k, t) == {r \in Revs : Exists(r) /\ Covers(k, t, r)}

Asks(o, pc, k, t, R) ==
    operator' = [operator EXCEPT
        ![o] = [pc |-> pc, scope |-> k, target |-> t, revs |-> R]]
\* What the route does when the service has answered
After(o, k, t, pc) ==
    operator' = [operator EXCEPT
        ![o] = IF k = "source" THEN [pc |-> pc, scope |-> k, target |-> t, revs |-> {}]
               ELSE AtEase]

\* applyTombstone up to its last UPDATE, which sees the rows of its snapshot
\* and holds them; the row of the source is held as well
BeginWithdraw(o, k, t) ==
    LET seen == {r \in Covered(k, t) : status[r] # "tombstoned"} IN
    /\ operator[o] = AtEase
    /\ k = "source" => ~SourceLocked(t)
    /\ k = "document" => url[t] # None
    /\ k = "document_revision" => Exists(t)
    /\ \A r \in seen : ~Locked(r)
    /\ Asks(o, "withdrawing", k, t, seen)
    /\ OneMoreFault
    /\ UNCHANGED <<rowVars, deliveryVars, enabled, withdrawn, worker>>

CommitWithdraw(o) ==
    LET k == operator[o].scope
        t == operator[o].target
    IN
    /\ operator[o].pc = "withdrawing"
    /\ status' = [r \in Revs |->
                     IF r \in operator[o].revs THEN "tombstoned" ELSE status[r]]
    /\ enabled' = [s \in Sources |-> IF k = "source" /\ s = t THEN FALSE ELSE enabled[s]]
    /\ withdrawn' = withdrawn \cup {<<k, t>>}
    /\ After(o, k, t, "disabling")
    /\ UNCHANGED <<url, raw, ready, chunked, vectors, deliveryVars, worker, faults>>

\* The transaction is rolled back.
WithdrawFails(o) ==
    /\ operator[o].pc = "withdrawing"
    /\ After(o, operator[o].scope, operator[o].target, "disabling")
    /\ OneMoreFault
    /\ UNCHANGED <<rowVars, deliveryVars, enabled, withdrawn, worker>>

\* reindex: what was searchable once is searchable again
Restorable(k, t) == {r \in Covered(k, t) : status[r] = "tombstoned" /\ ready[r]}

Reindex(o, k, t) ==
    /\ operator[o] = AtEase
    /\ k = "source" => ~SourceLocked(t)
    /\ k = "document" => url[t] # None
    /\ k = "document_revision" => Exists(t)
    /\ status' = [r \in Revs |->
                     IF r \in Restorable(k, t) THEN "searchable" ELSE status[r]]
    /\ enabled' = [s \in Sources |-> (k = "source" /\ s = t) \/ enabled[s]]
    /\ withdrawn' = withdrawn \ {<<k, t>>}
    /\ After(o, k, t, "enabling")
    /\ OneMoreFault
    /\ UNCHANGED <<url, raw, ready, chunked, vectors, deliveryVars, worker>>

\* The routes where no tombstone service is configured, or reindex throws
StartSwitch(o, s, pc) ==
    /\ operator[o] = AtEase
    /\ Asks(o, pc, "source", s, {})
    /\ OneMoreFault
    /\ UNCHANGED <<rowVars, deliveryVars, enabled, withdrawn, worker>>

\* updateEnabled
Switch(o) ==
    LET s == operator[o].target IN
    /\ operator[o].pc \in {"enabling", "disabling"} /\ ~SourceLocked(s)
    /\ enabled' = [enabled EXCEPT ![s] = operator[o].pc = "enabling"]
    /\ withdrawn' = IF operator[o].pc = "enabling" THEN withdrawn \ {<<"source", s>>}
                    ELSE withdrawn
    /\ operator' = [operator EXCEPT ![o] = AtEase]
    /\ UNCHANGED <<rowVars, deliveryVars, worker, faults>>
-----------------------------------------------------------------------------
Delivers(w) ==
    \/ \E i \in Items : StartNormalization(w, i) \/ RepeatNormalization(w, i)
    \/ \E r \in Revs : StartEmbedding(w, r) \/ RepeatEmbedding(w, r)

Works(w) ==
    \/ Normalize(w) \/ Locate(w) \/ Save(w) \/ Enrich(w)
    \/ Publish(w) \/ Attach(w) \/ Complete(w)
    \/ Embed(w) \/ Finish(w)

Finishes(o) == CommitWithdraw(o) \/ Switch(o)

Operates(o) ==
    \/ \E k \in Scopes : \E t \in Targets(k) : BeginWithdraw(o, k, t) \/ Reindex(o, k, t)
    \/ /\ "source" \in Scopes
       /\ \E s \in Sources, pc \in {"enabling", "disabling"} : StartSwitch(o, s, pc)
    \/ WithdrawFails(o)
    \/ Finishes(o)

Next ==
    \/ \E w \in Workers : Delivers(w) \/ Works(w) \/ Fail(w)
    \/ \E o \in Operators : Operates(o)

Spec == Init /\ [][Next]_vars

(* Deliveries that are not completed come again, and executors become free *)
(* again and again; what was started goes on.                              *)
Fairness ==
    /\ \A i \in Items : SF_vars(\E w \in Workers : StartNormalization(w, i))
    /\ \A r \in Revs : SF_vars(\E w \in Workers : StartEmbedding(w, r))
    /\ \A w \in Workers : WF_vars(Works(w))
    /\ \A o \in Operators : WF_vars(Finishes(o))

FairSpec == Spec /\ Fairness
-----------------------------------------------------------------------------
(* Properties.                                                             *)

(* A completed normalization left a revision of its own item, with chunks, *)
(* that was published once and whose embedding delivery exists; a          *)
(* completed embedding has a vector for every chunk.  The stages commit    *)
(* separately, and executors repeat, fail and overtake each other.         *)
DoneMeansIndexed ==
    /\ \A i \in Items : normalized[i] =>
           \E r \in Revs : /\ attached[i] = r /\ raw[r] = i
                           /\ chunked[r] /\ ready[r] /\ embedding[r] # "none"
    /\ \A r \in Revs : embedding[r] = "done" => chunked[r] /\ vectors[r]

(* A withdrawn revision comes back only by a reindex: no worker that was   *)
(* under way when it was withdrawn makes it searchable, and one that was   *)
(* never published does not come back at all.                              *)
TombstoneHolds ==
    [][\A r \in Revs : status[r] = "tombstoned" /\ status'[r] # "tombstoned" =>
           /\ status'[r] = "searchable" /\ ready[r]
           /\ worker' = worker]_vars

(* The mapping to the abstract life of a revision.                         *)
StageOf(r) ==
    CASE embedding[r] = "done" -> "embedded"
      [] embedding[r] = "open" -> "queued"
      [] embedding[r] = "none" /\ ready[r] -> "ready"
      [] embedding[r] = "none" /\ ~ready[r] /\ chunked[r] -> "chunked"
      [] OTHER -> IF Exists(r) THEN "saved" ELSE "absent"

Life == INSTANCE RevisionLife WITH
    Revisions <- Revs,
    stage <- [r \in Revs |-> StageOf(r)],
    hidden <- {r \in Revs : status[r] = "tombstoned"}

(* However executors and operators interleave, a revision only ever does   *)
(* what RevisionLife allows: it is published only after its chunks, queued *)
(* only when it is readable, and embedded only while it is not withdrawn.  *)
ImplementsRevisionLife == Life!Spec

(* An item whose text no other item yields is published, and the vectors   *)
(* of its revision follow, once its source stays enabled and none of its   *)
(* revisions stays withdrawn.                                              *)
Undisturbed(i) ==
    /\ enabled[SourceOf[i]]
    /\ \A r \in Revs : raw[r] = i => status[r] # "tombstoned"
Indexed(i) ==
    normalized[i] /\ \E r \in Revs : attached[i] = r /\ embedding[r] = "done"
Published ==
    \A i \in Items :
        /\ Own[i] \in Texts \ Blank
        /\ \A j \in Items \ {i} : Own[i] \notin {Own[j], Fallback[j]}
        => (<>[]Undisturbed(i) => <>Indexed(i))
-----------------------------------------------------------------------------
(* What the documents and tests say and the code does not keep.            *)

(* docs/SECURITY.md:96: what is withdrawn is not found by any search.      *)
Served(r) == status[r] = "searchable" /\ ready[r] /\ enabled[SourceOf[raw[r]]]
WithdrawnIsHidden ==
    \A x \in withdrawn : \A r \in Covered(x[1], x[2]) : ~Served(r)
==============================================================================
