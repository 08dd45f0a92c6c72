----------------------------- MODULE MCLiveness -----------------------------
(***************************************************************************)
(* The progress of collection, of normalization and of embedding work,     *)
(* each on an instance of its own.  They share no state; `part`, which     *)
(* Init fixes, says which moves, and the others stay at their beginning.   *)
(***************************************************************************)
EXTENDS CollectionState

CONSTANTS w1, w2, p1, p2, r1, r2, c1, i1, k1, ingestion, chat
CONSTANTS Executors, Chunks, NoAttempt, MaxEpoch, Attempts, Callers, Lanes,
          LaneOf, Unchecked, Units, DailyCap, LaneCap, OutstandingCap, LastDay,
          MaxUsage, WorkFaults

VARIABLES work, workEpoch, workLease, reservation, rights, executor, sent,
          refused, approved, blocked, today, ledger, caller, failures

CONSTANTS s1, m1, m2, t1, t2, u1, d1, d2, o1
CONSTANTS Sources, RawItems, SourceOf, Texts, Urls, UrlOf, Own, Fallback,
          Blank, Docs, Normalizers, Operators, Scopes, None, PipelineFaults

VARIABLES sourceEnabled, url, status, rawOf, ready, chunked, vectors, attached,
          normalized, embedding, normalizer, operator, withdrawn, mishaps

VARIABLE part

E == INSTANCE EmbeddingWork
        WITH epoch <- workEpoch, lease <- workLease, worker <- executor,
             faults <- failures, Workers <- Executors, MaxFaults <- WorkFaults

workVars == <<work, workEpoch, workLease, reservation, rights, executor, sent,
              refused, approved, blocked, today, ledger, caller, failures>>

D == INSTANCE DocumentPipeline
        WITH Items <- RawItems, Workers <- Normalizers, MaxFaults <- PipelineFaults,
             enabled <- sourceEnabled, raw <- rawOf, worker <- normalizer,
             faults <- mishaps

pipelineVars == <<sourceEnabled, url, status, rawOf, ready, chunked, vectors,
                  attached, normalized, embedding, normalizer, operator,
                  withdrawn, mishaps>>

OneSource == [i \in RawItems |-> s1]
OneUrl == [t \in Texts |-> u1]
AllSecond == [i \in RawItems |-> t2]
\* An item that has a text, and one with metrics only
WithMetrics == [i \in RawItems |-> IF i = m1 THEN t1 ELSE None]

TwoRevisions == [p \in Partitions |-> IF p = p1 THEN r1 ELSE r2]

AllAttempts == Chunks \X (1 .. MaxEpoch)
LaneOfAttempt == [a \in AllAttempts |-> ingestion]
OneUnit == [a \in AllAttempts |-> 1]
Ample == [l \in {ingestion, chat} |-> 9]

LiveInit ==
    /\ Init /\ E!Init /\ D!Init
    /\ \/ part = "collection"
       \/ part \in {"embedding", "pipeline"} /\ current = r1 /\ enabled /\ raw = {}

InCollection(A) == part = "collection" /\ A /\ UNCHANGED <<part, workVars, pipelineVars>>
InWork(A) == part = "embedding" /\ A /\ UNCHANGED <<part, vars, pipelineVars>>
InPipeline(A) == part = "pipeline" /\ A /\ UNCHANGED <<part, vars, workVars>>
allVars == <<part, vars, workVars, pipelineVars>>

(* Fairness of the three specifications.  Only one part moves, so that     *)
(* being fair to a step of one or a step of another is being fair to both; *)
(* the strong conditions are paired this way, TLC's work doubling with     *)
(* each of them.                                                           *)
CollectionFair ==
    /\ \A p \in Partitions :
        /\ WF_vars(part = "collection" /\ DuePasses(p))
        /\ WF_vars(part = "collection" /\ LeaseExpires(p))
        /\ WF_vars(part = "collection" /\ Enqueue(<<p, 0>>))
        /\ WF_vars(part = "collection" /\ NotBeforePasses(<<p, 0>>))
        /\ WF_vars(part = "collection" /\ DeliveryLeaseExpires(<<p, 0>>))
    /\ \A w \in Workers : WF_vars(part = "collection" /\ Returns(w))
WorkFair ==
    /\ \A k \in Chunks :
        /\ WF_workVars(part = "embedding" /\ E!LeaseExpires(k))
        /\ WF_workVars(part = "embedding" /\ E!GiveUpCall(k))
    /\ \A w \in Executors : WF_workVars(part = "embedding" /\ E!Process(w))
PipelineFair ==
    /\ \A w \in Normalizers : WF_pipelineVars(part = "pipeline" /\ D!Works(w))
    /\ \A o \in Operators : WF_pipelineVars(part = "pipeline" /\ D!Finishes(o))

\* The delivery of a partition's page is paired with a document.
DeliveryFor(d) == <<IF d = d1 THEN p1 ELSE p2, 0>>
StrongFair ==
    /\ \A d \in Docs :
        /\ SF_allVars(\/ InCollection(ClaimRow(DeliveryFor(d)))
                      \/ InPipeline(\E w \in Normalizers : D!StartEmbedding(w, <<d, t1>>)))
        /\ SF_allVars(\/ InCollection(\E w \in Workers : TakeJob(w, DeliveryFor(d)))
                      \/ InPipeline(\E w \in Normalizers : D!StartEmbedding(w, <<d, t2>>)))
    /\ SF_allVars(\/ InWork(\E w \in Executors : E!ClaimWork(w, k1))
                  \/ InPipeline(\E w \in Normalizers : D!StartNormalization(w, m1)))
    /\ SF_allVars(InPipeline(\E w \in Normalizers : D!StartNormalization(w, m2)))

LiveSpec ==
    /\ LiveInit
    /\ [][InCollection(Next) \/ InWork(E!Next) \/ InPipeline(D!Next)]_allVars
    /\ CollectionFair /\ WorkFair /\ PipelineFair /\ StrongFair

\* Decided of EmbeddingWork: while rights, approval and budget last, every
\* chunk gets its outcome.
EveryChunkDecided == [](part = "embedding") => E!Decided

\* Published of DocumentPipeline: an item whose source stays enabled and whose
\* revisions stay restored gets a searchable revision with vectors.
EveryItemPublished == [](part = "pipeline") => D!Published
=============================================================================
