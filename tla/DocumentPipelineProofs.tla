----------------------- MODULE DocumentPipelineProofs -----------------------
(***************************************************************************)
(* What DocumentPipeline promises for any items, texts, executors,         *)
(* operators and numbers of failures.                                      *)
(***************************************************************************)
EXTENDS DocumentPipeline, TLAPS

(***************************************************************************)
(* Executions and requests.                                                *)
(***************************************************************************)

LEMMA NoneIsNothing ==
    /\ None \notin Items /\ None \notin Texts /\ None \notin Urls
    /\ None \notin Docs /\ None \notin Revs
BY PipelineConstants DEF Revs

LEMMA ExecutionFields ==
    ASSUME TypeOK, NEW w \in Workers
    PROVE  /\ worker[w] \in Execution
           /\ worker[w].pc \in {"starting", "completing", "locating", "saving"} \cup OnText
                  => worker[w].item \in Items
           /\ worker[w].pc \in {"locating", "saving"} \cup OnText
                  => worker[w].text \in Texts
           /\ worker[w].pc = "saving" => worker[w].doc \in Docs \cup {None}
           /\ worker[w].pc \in OnText \cup OnVectors
                  => /\ worker[w].doc \in Docs /\ worker[w].text \in Texts
                     /\ RevOf(w) \in Revs
BY DEF TypeOK, Execution, Idle, OnText, OnVectors, RevOf, Revs

LEMMA RequestFields ==
    ASSUME TypeOK, NEW o \in Operators, operator[o].pc # "idle"
    PROVE  /\ operator[o].scope \in Scopes
           /\ operator[o].target \in AnyTarget
           /\ operator[o].revs \in SUBSET Revs
BY DEF TypeOK, Request, AtEase

LEMMA TargetsAreTargets ==
    ASSUME NEW k \in Scopes, NEW t \in Targets(k)
    PROVE  t \in AnyTarget
BY PipelineConstants DEF Targets, AnyTarget

LEMMA RestsTypes ==
    ASSUME TypeOK, NEW w \in Workers, Rests(w)
    PROVE  worker' \in [Workers -> Execution]
BY DEF TypeOK, Rests, Execution

\* The stages of an execution that has its revision follow one another.
LEMMA GoesTypes ==
    ASSUME TypeOK, NEW w \in Workers, NEW pc,
           Goes(w, pc),
           \/ worker[w].pc \in OnText /\ pc \in OnText
           \/ worker[w].pc \in OnVectors /\ pc \in OnVectors
    PROVE  worker' \in [Workers -> Execution]
<1>1. worker \in [Workers -> Execution] /\ worker[w] \in Execution
  BY DEF TypeOK
<1>2. [worker[w] EXCEPT !.pc = pc] \in Execution
  BY <1>1 DEF Execution, Idle, OnText, OnVectors
<1>3. worker' = [worker EXCEPT ![w] = [worker[w] EXCEPT !.pc = pc]]
  BY <1>1 DEF Goes
<1>4. QED
  BY <1>1, <1>2, <1>3

LEMMA AfterTypes ==
    ASSUME TypeOK, NEW o \in Operators, NEW k \in Scopes, NEW t \in AnyTarget,
           NEW pc \in {"enabling", "disabling"}, After(o, k, t, pc)
    PROVE  operator' \in [Operators -> Request]
<1>1. [pc |-> pc, scope |-> k, target |-> t, revs |-> {}] \in Request
  BY DEF Request
<1>2. AtEase \in Request
  BY DEF Request
<1>3. QED
  BY <1>1, <1>2 DEF TypeOK, After

LEMMA AsksTypes ==
    ASSUME TypeOK, NEW o \in Operators, NEW k \in Scopes, NEW t \in AnyTarget,
           NEW pc \in {"withdrawing", "enabling", "disabling"},
           NEW R \in SUBSET Revs, Asks(o, pc, k, t, R)
    PROVE  operator' \in [Operators -> Request]
<1>1. [pc |-> pc, scope |-> k, target |-> t, revs |-> R] \in Request
  BY DEF Request
<1>2. QED
  BY <1>1 DEF TypeOK, Asks

LEMMA OneMoreFaultTypes ==
    ASSUME TypeOK, OneMoreFault
    PROVE  faults' \in 0 .. MaxFaults
BY PipelineConstants DEF TypeOK, OneMoreFault

(***************************************************************************)
(* Type correctness, one step per action.                                  *)
(***************************************************************************)

LEMMA InitTypes == Init => TypeOK
<1>1. Idle \in Execution /\ AtEase \in Request
  BY DEF Execution, Request
<1>2. QED
  BY <1>1, PipelineConstants DEF Init, TypeOK

LEMMA DeliversTypes ==
    ASSUME TypeOK, NEW w \in Workers, Delivers(w)
    PROVE  TypeOK'
<1>1. CASE \E i \in Items : StartNormalization(w, i) \/ RepeatNormalization(w, i)
  <2>1. PICK i \in Items : StartNormalization(w, i) \/ RepeatNormalization(w, i)
    BY <1>1
  <2>2. [Idle EXCEPT !.pc = "starting", !.item = i] \in Execution
    BY DEF Idle, Execution
  <2>3. Begin(w, i) /\ faults' \in 0 .. MaxFaults
    BY <2>1, OneMoreFaultTypes DEF StartNormalization, RepeatNormalization, TypeOK
  <2>4. worker' \in [Workers -> Execution]
    BY <2>2, <2>3 DEF Begin, TypeOK
  <2>5. QED
    BY <2>3, <2>4 DEF Begin, TypeOK, rowVars, deliveryVars, operatorVars
<1>2. CASE \E r \in Revs : StartEmbedding(w, r) \/ RepeatEmbedding(w, r)
  <2>1. PICK r \in Revs : StartEmbedding(w, r) \/ RepeatEmbedding(w, r)
    BY <1>2
  <2>2. [Idle EXCEPT !.pc = "embedding", !.doc = r[1], !.text = r[2]] \in Execution
    BY DEF Idle, Execution, Revs, OnVectors
  <2>3. BeginVectors(w, r) /\ faults' \in 0 .. MaxFaults
    BY <2>1, OneMoreFaultTypes DEF StartEmbedding, RepeatEmbedding, TypeOK
  <2>4. worker' \in [Workers -> Execution]
    BY <2>2, <2>3 DEF BeginVectors, TypeOK
  <2>5. QED
    BY <2>3, <2>4 DEF BeginVectors, TypeOK, rowVars, deliveryVars, operatorVars
<1>3. QED
  BY <1>1, <1>2 DEF Delivers

LEMMA WorksTypes ==
    ASSUME TypeOK, NEW w \in Workers, Works(w)
    PROVE  TypeOK'
<1> USE NoneIsNothing
<1>e. worker \in [Workers -> Execution] /\ worker[w] \in Execution
  BY DEF TypeOK
<1>1. CASE Normalize(w)
  <2>1. worker[w].item \in Items
    BY <1>1, ExecutionFields DEF Normalize
  <2>2. TextOf(worker[w].item) \in Texts \cup {None}
    BY <2>1, PipelineConstants DEF TextOf
  <2>3. [worker[w] EXCEPT !.text = TextOf(worker[w].item),
             !.pc = IF TextOf(worker[w].item) = None THEN "completing" ELSE "locating"]
            \in Execution
    BY <1>1, <1>e, <2>2 DEF Normalize, Execution, Idle, OnText, OnVectors
  <2>4. worker' \in [Workers -> Execution]
    BY <1>1, <1>e, <2>3 DEF Normalize
  <2>5. QED
    BY <1>1, <2>4 DEF Normalize, TypeOK, rowVars, deliveryVars, operatorVars
<1>2. CASE Locate(w)
  <2>1. PICK d \in Locations(worker[w].text) :
            worker' = [worker EXCEPT ![w].pc = "saving", ![w].doc = d]
    BY <1>2 DEF Locate
  <2>2. d \in Docs \cup {None}
    BY <2>1 DEF Locations
  <2>a. worker[w] \in [pc : {"locating"}, item : Items, doc : {None}, text : Texts]
    BY <1>2, <1>e DEF Locate, Execution, Idle, OnText, OnVectors
  <2>b. [worker[w] EXCEPT !.pc = "saving", !.doc = d]
            \in [pc : {"saving"}, item : Items, doc : Docs \cup {None}, text : Texts]
    BY <2>a, <2>2
  <2>3. [worker[w] EXCEPT !.pc = "saving", !.doc = d] \in Execution
    BY <2>b DEF Execution
  <2>4. worker' \in [Workers -> Execution]
    BY <2>1, <1>e, <2>3
  <2>5. QED
    BY <1>2, <2>4 DEF Locate, TypeOK, rowVars, deliveryVars, operatorVars
<1>3. CASE Save(w)
  <2>1. PICK d \in Docs :
            /\ IF worker[w].doc = None
               THEN /\ url[d] = None
                    /\ url' = [url EXCEPT ![d] = UrlOf[worker[w].text]]
               ELSE d = worker[w].doc /\ UNCHANGED url
            /\ Insert(d, w)
            /\ worker' = [worker EXCEPT ![w] = SavedAs(w, d)]
    BY <1>3 DEF Save
  <2>2. worker[w].item \in Items /\ worker[w].text \in Texts
    BY <1>3, ExecutionFields DEF Save
  <2>3. url' \in [Docs -> Urls \cup {None}]
    BY <2>1, <2>2, PipelineConstants DEF TypeOK
  <2>4. /\ status' \in [Revs -> {"absent", "pending", "searchable", "tombstoned"}]
        /\ raw' \in [Revs -> Items \cup {None}]
    BY <2>1, <2>2 DEF TypeOK, Insert, Revs
  <2>a. worker[w] \in [pc : {"saving"}, item : Items, doc : Docs \cup {None}, text : Texts]
    BY <1>3, <1>e DEF Save, Execution, Idle, OnText, OnVectors
  <2>b. SavedAs(w, d) \in [pc : OnText, item : Items, doc : Docs, text : Texts]
    BY <2>a DEF SavedAs, OnText
  <2>5. SavedAs(w, d) \in Execution
    BY <2>b DEF Execution
  <2>6. worker' \in [Workers -> Execution]
    BY <2>1, <1>e, <2>5
  <2>7. QED
    BY <1>3, <2>3, <2>4, <2>6 DEF Save, TypeOK, deliveryVars, operatorVars
<1>4. CASE Enrich(w)
  <2>1. worker' \in [Workers -> Execution]
    BY <1>4, GoesTypes DEF Enrich, OnText
  <2>2. RevOf(w) \in Revs
    BY <1>4, ExecutionFields DEF Enrich, OnText
  <2>3. QED
    BY <1>4, <2>1, <2>2 DEF Enrich, TypeOK, deliveryVars, operatorVars
<1>5. CASE Publish(w)
  <2>1. RevOf(w) \in Revs
    BY <1>5, ExecutionFields DEF Publish, OnText
  <2>2. worker' \in [Workers -> Execution]
    BY <1>5, GoesTypes, RestsTypes DEF Publish, OnText
  <2>3. QED
    BY <1>5, <2>1, <2>2 DEF Publish, TypeOK, deliveryVars, operatorVars
<1>6. CASE Attach(w)
  <2>1. RevOf(w) \in Revs /\ worker[w].item \in Items
    BY <1>6, ExecutionFields DEF Attach, OnText
  <2>2. [Idle EXCEPT !.pc = "completing", !.item = worker[w].item] \in Execution
    BY <2>1 DEF Execution, Idle
  <2>3. worker' \in [Workers -> Execution]
    BY <1>6, <1>e, <2>2, RestsTypes DEF Attach
  <2>4. QED
    BY <1>6, <2>1, <2>3 DEF Attach, TypeOK, rowVars, operatorVars
<1>7. CASE Complete(w)
  <2>1. worker[w].item \in Items
    BY <1>7, ExecutionFields DEF Complete
  <2>2. QED
    BY <1>7, <2>1, RestsTypes DEF Complete, MayComplete, TypeOK, rowVars, operatorVars
<1>8. CASE Embed(w)
  <2>1. RevOf(w) \in Revs
    BY <1>8, ExecutionFields DEF Embed, OnVectors
  <2>2. worker' \in [Workers -> Execution]
    BY <1>8, GoesTypes, RestsTypes DEF Embed, OnVectors
  <2>3. QED
    BY <1>8, <2>1, <2>2 DEF Embed, TypeOK, deliveryVars, operatorVars
<1>9. CASE Finish(w)
  <2>1. RevOf(w) \in Revs
    BY <1>9, ExecutionFields DEF Finish, OnVectors
  <2>2. worker' \in [Workers -> Execution]
    BY <1>9, RestsTypes DEF Finish
  <2>3. QED
    BY <1>9, <2>1, <2>2 DEF Finish, TypeOK, rowVars, operatorVars
<1>10. QED
  BY <1>1, <1>2, <1>3, <1>4, <1>5, <1>6, <1>7, <1>8, <1>9 DEF Works

LEMMA OperatesTypes ==
    ASSUME TypeOK, NEW o \in Operators, Operates(o)
    PROVE  TypeOK'
<1>1. ASSUME NEW k \in Scopes, NEW t \in Targets(k), BeginWithdraw(o, k, t)
      PROVE  TypeOK'
  <2>1. t \in AnyTarget /\ Covered(k, t) \in SUBSET Revs
    BY TargetsAreTargets DEF Covered
  <2>2. operator' \in [Operators -> Request]
    BY <1>1, <2>1, AsksTypes DEF BeginWithdraw
  <2>3. QED
    BY <1>1, <2>2, OneMoreFaultTypes DEF BeginWithdraw, TypeOK, rowVars, deliveryVars
<1>2. ASSUME NEW k \in Scopes, NEW t \in Targets(k), Reindex(o, k, t)
      PROVE  TypeOK'
  <2>1. operator' \in [Operators -> Request]
    BY <1>2, TargetsAreTargets, AfterTypes DEF Reindex
  <2>2. QED
    BY <1>2, <2>1, OneMoreFaultTypes DEF Reindex, TypeOK, deliveryVars
<1>3. ASSUME "source" \in Scopes, NEW s \in Sources, NEW pc \in {"enabling", "disabling"},
             StartSwitch(o, s, pc)
      PROVE  TypeOK'
  <2>1. operator' \in [Operators -> Request]
    BY <1>3, AsksTypes DEF StartSwitch, AnyTarget
  <2>2. QED
    BY <1>3, <2>1, OneMoreFaultTypes DEF StartSwitch, TypeOK, rowVars, deliveryVars
<1>4. CASE WithdrawFails(o)
  <2>1. operator' \in [Operators -> Request]
    BY <1>4, RequestFields, AfterTypes DEF WithdrawFails
  <2>2. QED
    BY <1>4, <2>1, OneMoreFaultTypes DEF WithdrawFails, TypeOK, rowVars, deliveryVars
<1>5. CASE CommitWithdraw(o)
  <2>1. operator[o].scope \in Scopes /\ operator[o].target \in AnyTarget
    BY <1>5, RequestFields DEF CommitWithdraw
  <2>2. operator' \in [Operators -> Request]
    BY <1>5, <2>1, AfterTypes DEF CommitWithdraw
  <2>3. /\ status' \in [Revs -> {"absent", "pending", "searchable", "tombstoned"}]
        /\ enabled' \in [Sources -> BOOLEAN]
    BY <1>5 DEF CommitWithdraw, TypeOK
  <2>4. withdrawn' \subseteq Scopes \X AnyTarget
    BY <1>5, <2>1 DEF CommitWithdraw, TypeOK
  <2>5. QED
    BY <1>5, <2>2, <2>3, <2>4 DEF CommitWithdraw, TypeOK, deliveryVars
<1>6. CASE Switch(o)
  <2>1. operator' \in [Operators -> Request]
    BY <1>6 DEF Switch, TypeOK, Request
  <2>2. QED
    BY <1>6, <2>1 DEF Switch, TypeOK, rowVars, deliveryVars
<1>7. QED
  BY <1>1, <1>2, <1>3, <1>4, <1>5, <1>6 DEF Operates, Finishes

LEMMA StepTypes ==
    ASSUME TypeOK, [Next]_vars
    PROVE  TypeOK'
<1>1. CASE UNCHANGED vars
  BY <1>1 DEF vars, TypeOK, rowVars, deliveryVars, operatorVars
<1>2. ASSUME NEW w \in Workers, Fail(w)
      PROVE  TypeOK'
  BY <1>2, RestsTypes, OneMoreFaultTypes
     DEF Fail, TypeOK, rowVars, deliveryVars, operatorVars
<1>3. QED
  BY <1>1, <1>2, DeliversTypes, WorksTypes, OperatesTypes DEF Next

(* Every variable keeps its type, for any number of executors, operators,  *)
(* items and texts.                                                        *)
THEOREM TypeCorrect == Spec => []TypeOK
<1>1. TypeOK /\ [Next]_vars => TypeOK'
  BY StepTypes
<1>2. QED
  BY InitTypes, <1>1, PTL DEF Spec

(***************************************************************************)
(* The inductive invariant: what the rows of a revision, an item, an       *)
(* execution and a withdrawal say of one another.                          *)
(***************************************************************************)

StagesInOrder ==
    \A r \in Revs :
        /\ ~Exists(r) => ~chunked[r]
        /\ Exists(r) => raw[r] \in Items
        /\ chunked[r] => r[2] \notin Blank
        /\ ready[r] => chunked[r]
        /\ embedding[r] # "none" => ready[r]
        /\ embedding[r] = "done" => vectors[r]

ItemsKnowTheirs ==
    \A i \in Items :
        /\ attached[i] # None =>
               /\ Exists(attached[i]) /\ raw[attached[i]] = i
               /\ embedding[attached[i]] # "none"
        /\ normalized[i] => attached[i] # None

\* What an execution whose program counter is pc has seen of revision r
Seen(pc, r) ==
    /\ pc \in OnText \cup OnVectors => Exists(r)
    /\ pc = "attaching" => ready[r]
    /\ pc \in OnVectors => embedding[r] # "none"
WorkersKnowTheirs == \A w \in Workers : Seen(worker[w].pc, RevOf(w))

HeldExist == \A o \in Operators : \A r \in operator[o].revs : Exists(r)

PipelineInv ==
    TypeOK /\ StagesInOrder /\ ItemsKnowTheirs /\ WorkersKnowTheirs /\ HeldExist

\* No step takes back what the invariant says has been reached.
Grows ==
    \A r \in Revs :
        /\ Exists(r) => Exists(r)' /\ raw'[r] = raw[r]
        /\ ready[r] => ready'[r]
        /\ embedding[r] # "none" => embedding'[r] # "none"

LEMMA InitInv == Init => PipelineInv
BY InitTypes DEF Init, PipelineInv, StagesInOrder, ItemsKnowTheirs, WorkersKnowTheirs,
                 Seen, HeldExist, Exists, Idle, AtEase, OnText, OnVectors

LEMMA NothingStirs ==
    ASSUME UNCHANGED <<rowVars, deliveryVars>>
    PROVE  /\ Grows
           /\ StagesInOrder => StagesInOrder'
           /\ ItemsKnowTheirs => ItemsKnowTheirs'
BY DEF rowVars, deliveryVars, Grows, StagesInOrder, ItemsKnowTheirs, Exists

LEMMA OthersKnow ==
    ASSUME PipelineInv, Grows, NEW w \in Workers, NEW e,
           worker' = [worker EXCEPT ![w] = e],
           Seen(e.pc, <<e.doc, e.text>>)'
    PROVE  WorkersKnowTheirs'
<1> SUFFICES ASSUME NEW v \in Workers
             PROVE  Seen(worker[v].pc, RevOf(v))'
  BY DEF WorkersKnowTheirs
<1>1. CASE v = w
  <2>1. worker'[v] = e
    BY <1>1 DEF PipelineInv, TypeOK
  <2>2. QED
    BY <2>1 DEF RevOf, Seen
<1>2. CASE v # w
  <2>1. worker'[v] = worker[v] /\ RevOf(v)' = RevOf(v)
    BY <1>2 DEF PipelineInv, TypeOK, RevOf
  <2>2. Seen(worker[v].pc, RevOf(v))
    BY DEF PipelineInv, WorkersKnowTheirs
  <2>3. worker[v].pc \in OnText \cup OnVectors => RevOf(v) \in Revs
    BY ExecutionFields DEF PipelineInv
  <2>4. QED
    BY <2>1, <2>2, <2>3 DEF Seen, Grows, OnText
<1>3. QED
  BY <1>1, <1>2

LEMMA SameWorkersKnow ==
    ASSUME PipelineInv, Grows, UNCHANGED worker
    PROVE  WorkersKnowTheirs'
<1> SUFFICES ASSUME NEW v \in Workers
             PROVE  Seen(worker[v].pc, RevOf(v))'
  BY DEF WorkersKnowTheirs
<1>1. worker'[v] = worker[v] /\ RevOf(v)' = RevOf(v)
  BY DEF RevOf
<1>2. Seen(worker[v].pc, RevOf(v))
  BY DEF PipelineInv, WorkersKnowTheirs
<1>3. worker[v].pc \in OnText \cup OnVectors => RevOf(v) \in Revs
  BY ExecutionFields DEF PipelineInv
<1>4. QED
  BY <1>1, <1>2, <1>3 DEF Seen, Grows, OnText

LEMMA RestingKnows ==
    ASSUME PipelineInv, Grows, NEW w \in Workers, Rests(w)
    PROVE  WorkersKnowTheirs'
<1>1. Seen(Idle.pc, <<Idle.doc, Idle.text>>)'
  BY DEF Seen, Idle, OnText, OnVectors
<1>2. QED
  BY <1>1, OthersKnow DEF Rests

LEMMA GoingKnows ==
    ASSUME PipelineInv, Grows, NEW w \in Workers, NEW pc, Goes(w, pc),
           NEW r \in Revs, r = RevOf(w), Seen(pc, r)'
    PROVE  WorkersKnowTheirs'
<1>1. worker \in [Workers -> Execution] /\ worker[w] \in Execution
  BY DEF PipelineInv, TypeOK
<1>e. PICK e : e = [worker[w] EXCEPT !.pc = pc]
  OBVIOUS
<1>2. worker' = [worker EXCEPT ![w] = e]
  BY <1>1, <1>e DEF Goes
<1>3. e.pc = pc /\ <<e.doc, e.text>> = RevOf(w)
  BY <1>1, <1>e DEF Execution, Idle, RevOf
<1>4. Seen(e.pc, <<e.doc, e.text>>)'
  BY <1>3 DEF Seen
<1>5. QED
  BY <1>2, <1>4, OthersKnow

LEMMA HeldKeep ==
    ASSUME PipelineInv, Grows, UNCHANGED operator
    PROVE  HeldExist'
BY DEF PipelineInv, TypeOK, Request, AtEase, HeldExist, Grows

\* The rows and the executions that an invariant of its own speaks of
Orders == StagesInOrder /\ ItemsKnowTheirs /\ WorkersKnowTheirs /\ HeldExist

\* Steps of an executor that write no row
LEMMA TurningOrders ==
    ASSUME PipelineInv, NEW w \in Workers, NEW e,
           worker' = [worker EXCEPT ![w] = e], e.pc \notin OnText \cup OnVectors,
           UNCHANGED <<rowVars, deliveryVars, operatorVars>>
    PROVE  Orders'
<1>1. Grows /\ StagesInOrder' /\ ItemsKnowTheirs'
  BY NothingStirs DEF PipelineInv
<1>2. Seen(e.pc, <<e.doc, e.text>>)'
  BY DEF Seen, OnText
<1>3. WorkersKnowTheirs'
  BY <1>1, <1>2, OthersKnow
<1>4. HeldExist'
  BY <1>1, HeldKeep DEF operatorVars
<1>5. QED
  BY <1>1, <1>3, <1>4 DEF Orders

LEMMA DeliversOrders ==
    ASSUME PipelineInv, NEW w \in Workers, Delivers(w)
    PROVE  Orders'
<1>1. ASSUME NEW i \in Items, Begin(w, i)
      PROVE  Orders'
  <2>1. PICK e : e = [Idle EXCEPT !.pc = "starting", !.item = i]
    OBVIOUS
  <2>2. e.pc \notin OnText \cup OnVectors
    BY <2>1 DEF Idle, OnText, OnVectors
  <2>3. QED
    BY <1>1, <2>1, <2>2, TurningOrders DEF Begin
<1>2. ASSUME NEW r \in Revs, BeginVectors(w, r)
      PROVE  Orders'
  <2>1. Grows /\ StagesInOrder' /\ ItemsKnowTheirs'
    BY <1>2, NothingStirs DEF PipelineInv, BeginVectors
  <2>2. PICK e : e = [Idle EXCEPT !.pc = "embedding", !.doc = r[1], !.text = r[2]]
    OBVIOUS
  <2>3. e.pc = "embedding" /\ <<e.doc, e.text>> = r
    BY <2>2 DEF Idle, Revs
  <2>4. Exists(r) /\ embedding[r] # "none"
    BY <1>2 DEF BeginVectors, PipelineInv, StagesInOrder
  <2>5. Seen(e.pc, <<e.doc, e.text>>)'
    BY <2>1, <2>3, <2>4 DEF Seen, Grows
  <2>6. WorkersKnowTheirs'
    BY <1>2, <2>1, <2>2, <2>5, OthersKnow DEF BeginVectors
  <2>7. HeldExist'
    BY <1>2, <2>1, HeldKeep DEF BeginVectors, operatorVars
  <2>8. QED
    BY <2>1, <2>6, <2>7 DEF Orders
<1>3. QED
  BY <1>1, <1>2 DEF Delivers, StartNormalization, RepeatNormalization,
                    StartEmbedding, RepeatEmbedding

LEMMA SaveOrders ==
    ASSUME PipelineInv, NEW w \in Workers, Save(w)
    PROVE  Orders'
<1>1. PICK d \in Docs : Insert(d, w) /\ worker' = [worker EXCEPT ![w] = SavedAs(w, d)]
  BY DEF Save
<1>2. PICK r : r = <<d, worker[w].text>>
  OBVIOUS
<1>3. worker[w].item \in Items /\ r \in Revs
  BY <1>2, ExecutionFields DEF Save, PipelineInv, Revs
<1>4. IF Exists(r) THEN UNCHANGED <<status, raw>>
      ELSE /\ status' = [status EXCEPT ![r] = "pending"]
           /\ raw' = [raw EXCEPT ![r] = worker[w].item]
  BY <1>1, <1>2 DEF Insert
<1>5. /\ UNCHANGED <<ready, chunked, vectors, attached, normalized, embedding, operator>>
      /\ status \in [Revs -> {"absent", "pending", "searchable", "tombstoned"}]
      /\ raw \in [Revs -> Items \cup {None}]
      /\ attached \in [Items -> Revs \cup {None}]
  BY DEF Save, deliveryVars, operatorVars, PipelineInv, TypeOK
<1>6. Grows /\ Exists(r)'
  BY <1>3, <1>4, <1>5 DEF Grows, Exists
<1>7. StagesInOrder'
  BY <1>3, <1>4, <1>5 DEF PipelineInv, StagesInOrder, Exists
<1>8. ItemsKnowTheirs'
  BY <1>5, <1>6 DEF PipelineInv, ItemsKnowTheirs, Grows
<1>9. PICK e : e = SavedAs(w, d)
  OBVIOUS
<1>10. e.pc = "enriching" /\ <<e.doc, e.text>> = r
  BY <1>2, <1>9 DEF SavedAs, PipelineInv, TypeOK, Execution, Idle
<1>11. Seen(e.pc, <<e.doc, e.text>>)'
  BY <1>6, <1>10 DEF Seen, OnVectors
<1>12. WorkersKnowTheirs'
  BY <1>1, <1>6, <1>9, <1>11, OthersKnow
<1>13. QED
  BY <1>5, <1>6, <1>7, <1>8, <1>12, HeldKeep DEF Orders

LEMMA EnrichOrders ==
    ASSUME PipelineInv, NEW w \in Workers, Enrich(w)
    PROVE  Orders'
<1>1. PICK r : r = RevOf(w)
  OBVIOUS
<1>2. r \in Revs /\ Exists(r) /\ r[2] = worker[w].text
  BY <1>1, ExecutionFields
     DEF Enrich, OnText, PipelineInv, WorkersKnowTheirs, Seen, RevOf
<1>3. /\ chunked' = [chunked EXCEPT ![r] = r[2] \notin Blank]
      /\ chunked \in [Revs -> BOOLEAN]
      /\ UNCHANGED <<status, raw, ready, vectors, attached, normalized, embedding, operator>>
  BY <1>1, <1>2 DEF Enrich, deliveryVars, operatorVars, PipelineInv, TypeOK
<1>4. Grows
  BY <1>3 DEF Grows, Exists
<1>5. StagesInOrder'
  BY <1>2, <1>3 DEF PipelineInv, StagesInOrder, Exists
<1>6. ItemsKnowTheirs'
  BY <1>3 DEF PipelineInv, ItemsKnowTheirs, Exists
<1>7. Seen("publishing", r)'
  BY <1>2, <1>4 DEF Seen, Grows, OnVectors
<1>8. QED
  BY <1>1, <1>2, <1>3, <1>4, <1>5, <1>6, <1>7, GoingKnows, HeldKeep DEF Enrich, Orders

LEMMA PublishOrders ==
    ASSUME PipelineInv, NEW w \in Workers, Publish(w)
    PROVE  Orders'
<1>1. PICK r : r = RevOf(w)
  OBVIOUS
<1>2. r \in Revs /\ Exists(r)
  BY <1>1, ExecutionFields
     DEF Publish, OnText, PipelineInv, WorkersKnowTheirs, Seen
<1>3. /\ UNCHANGED <<raw, chunked, vectors, attached, normalized, embedding, operator>>
      /\ status \in [Revs -> {"absent", "pending", "searchable", "tombstoned"}]
      /\ ready \in [Revs -> BOOLEAN]
  BY DEF Publish, deliveryVars, operatorVars, PipelineInv, TypeOK
<1>4. \/ /\ chunked[r]
         /\ ready' = [ready EXCEPT ![r] = TRUE]
         /\ status' = [status EXCEPT ![r] = "searchable"]
         /\ Goes(w, "attaching")
      \/ Rests(w) /\ UNCHANGED <<ready, status>>
  BY <1>1 DEF Publish, MayPublish
<1>5. Grows
  BY <1>2, <1>3, <1>4 DEF Grows, Exists
<1>6. StagesInOrder'
  BY <1>2, <1>3, <1>4 DEF PipelineInv, StagesInOrder, Exists
<1>7. ItemsKnowTheirs'
  BY <1>3, <1>5 DEF PipelineInv, TypeOK, ItemsKnowTheirs, Grows
<1>8. WorkersKnowTheirs'
  <2>1. CASE Goes(w, "attaching") /\ ready' = [ready EXCEPT ![r] = TRUE]
    <3>1. Seen("attaching", r)'
      BY <1>2, <1>3, <1>5, <2>1 DEF Seen, Grows, OnVectors
    <3>2. QED
      BY <1>1, <1>2, <1>5, <2>1, <3>1, GoingKnows
  <2>2. CASE Rests(w)
    BY <1>5, <2>2, RestingKnows
  <2>3. QED
    BY <1>4, <2>1, <2>2
<1>9. QED
  BY <1>3, <1>5, <1>6, <1>7, <1>8, HeldKeep DEF Orders

LEMMA AttachOrders ==
    ASSUME PipelineInv, NEW w \in Workers, Attach(w)
    PROVE  Orders'
<1>1. PICK r : r = RevOf(w)
  OBVIOUS
<1>2. PICK i : i = worker[w].item
  OBVIOUS
<1>3. i \in Items /\ r \in Revs /\ Exists(r) /\ ready[r]
  BY <1>1, <1>2, ExecutionFields
     DEF Attach, OnText, PipelineInv, WorkersKnowTheirs, Seen
<1>4. \/ /\ raw[r] = i
         /\ attached' = [attached EXCEPT ![i] = r]
         /\ embedding' = [embedding EXCEPT ![r] = IF @ = "none" THEN "open" ELSE @]
         /\ worker' = [worker EXCEPT ![w] = [Idle EXCEPT !.pc = "completing", !.item = i]]
      \/ Rests(w) /\ UNCHANGED <<attached, embedding>>
  BY <1>1, <1>2 DEF Attach
<1>5. /\ UNCHANGED <<status, raw, ready, chunked, vectors, normalized, operator>>
      /\ embedding \in [Revs -> {"none", "open", "done"}]
      /\ attached \in [Items -> Revs \cup {None}]
  BY DEF Attach, rowVars, operatorVars, PipelineInv, TypeOK
<1>6. Grows
  BY <1>3, <1>4, <1>5 DEF Grows, Exists
<1>7. StagesInOrder'
  BY <1>3, <1>4, <1>5 DEF PipelineInv, StagesInOrder, Exists
<1>8. ItemsKnowTheirs'
  BY <1>3, <1>4, <1>5, <1>6, NoneIsNothing DEF PipelineInv, ItemsKnowTheirs, Grows, Exists
<1>9. WorkersKnowTheirs'
  <2>1. PICK e : e = [Idle EXCEPT !.pc = "completing", !.item = i]
    OBVIOUS
  <2>2. Seen(e.pc, <<e.doc, e.text>>)'
    BY <2>1 DEF Seen, Idle, OnText, OnVectors
  <2>3. QED
    BY <1>4, <1>6, <2>1, <2>2, OthersKnow, RestingKnows
<1>10. QED
  BY <1>5, <1>6, <1>7, <1>8, <1>9, HeldKeep DEF Orders

LEMMA CompleteOrders ==
    ASSUME PipelineInv, NEW w \in Workers, Complete(w)
    PROVE  Orders'
<1>1. /\ UNCHANGED <<status, raw, ready, chunked, vectors, attached, embedding, operator>>
      /\ Rests(w)
  BY DEF Complete, rowVars, operatorVars
<1>2. Grows /\ StagesInOrder'
  BY <1>1 DEF PipelineInv, Grows, StagesInOrder, Exists
<1>3. ItemsKnowTheirs'
  <2>1. PICK i : i = worker[w].item
    OBVIOUS
  <2>2. normalized' = [normalized EXCEPT ![i] = @ \/ MayComplete(i)]
    BY <2>1 DEF Complete
  <2>3. ASSUME NEW j \in Items, normalized'[j]
        PROVE  attached[j] # None
    <3>1. normalized[j] \/ MayComplete(j)
      BY <2>2, <2>3 DEF PipelineInv, TypeOK
    <3>2. QED
      BY <3>1, NoneIsNothing DEF MayComplete, PipelineInv, ItemsKnowTheirs
  <2>4. QED
    BY <1>1, <2>3 DEF PipelineInv, ItemsKnowTheirs, Exists
<1>4. QED
  BY <1>1, <1>2, <1>3, RestingKnows, HeldKeep DEF Orders

LEMMA EmbedOrders ==
    ASSUME PipelineInv, NEW w \in Workers, Embed(w)
    PROVE  Orders'
<1>1. PICK r : r = RevOf(w)
  OBVIOUS
<1>2. r \in Revs /\ Exists(r) /\ embedding[r] # "none"
  BY <1>1, ExecutionFields
     DEF Embed, OnVectors, PipelineInv, WorkersKnowTheirs, Seen
<1>3. /\ UNCHANGED <<status, raw, ready, chunked, attached, normalized, embedding, operator>>
      /\ vectors \in [Revs -> BOOLEAN]
  BY DEF Embed, deliveryVars, operatorVars, PipelineInv, TypeOK
<1>4. \/ vectors' = [vectors EXCEPT ![r] = TRUE] /\ Goes(w, "finishing")
      \/ Rests(w) /\ UNCHANGED vectors
  BY <1>1 DEF Embed
<1>5. Grows /\ StagesInOrder' /\ ItemsKnowTheirs'
  BY <1>3, <1>4 DEF PipelineInv, Grows, StagesInOrder, ItemsKnowTheirs, Exists
<1>6. Seen("finishing", r)'
  BY <1>2, <1>5 DEF Seen, Grows, OnText
<1>7. WorkersKnowTheirs'
  BY <1>1, <1>2, <1>4, <1>5, <1>6, GoingKnows, RestingKnows
<1>8. QED
  BY <1>3, <1>5, <1>7, HeldKeep DEF Orders

LEMMA FinishOrders ==
    ASSUME PipelineInv, NEW w \in Workers, Finish(w)
    PROVE  Orders'
<1>1. PICK r : r = RevOf(w)
  OBVIOUS
<1>2. r \in Revs /\ embedding[r] # "none"
  BY <1>1, ExecutionFields
     DEF Finish, OnVectors, PipelineInv, WorkersKnowTheirs, Seen
<1>3. /\ UNCHANGED <<status, raw, ready, chunked, vectors, attached, normalized, operator>>
      /\ embedding \in [Revs -> {"none", "open", "done"}]
      /\ attached \in [Items -> Revs \cup {None}]
  BY DEF Finish, rowVars, operatorVars, PipelineInv, TypeOK
<1>4. /\ embedding' = [embedding EXCEPT ![r] = IF MayFinish(r) THEN "done" ELSE @]
      /\ Rests(w)
  BY <1>1 DEF Finish
<1>5. Grows /\ StagesInOrder'
  BY <1>2, <1>3, <1>4 DEF PipelineInv, Grows, StagesInOrder, MayFinish, Exists
<1>6. ItemsKnowTheirs'
  BY <1>3, <1>5 DEF PipelineInv, ItemsKnowTheirs, Grows
<1>7. QED
  BY <1>3, <1>4, <1>5, <1>6, RestingKnows, HeldKeep DEF Orders

LEMMA WorksOrders ==
    ASSUME PipelineInv, NEW w \in Workers, Works(w)
    PROVE  Orders'
<1>1. CASE Normalize(w)
  <2>1. PICK t : t = TextOf(worker[w].item)
    OBVIOUS
  <2>2. PICK e : e = [worker[w] EXCEPT
            !.text = t, !.pc = IF t = None THEN "completing" ELSE "locating"]
    OBVIOUS
  <2>3. worker' = [worker EXCEPT ![w] = e]
    BY <1>1, <2>1, <2>2 DEF Normalize, PipelineInv, TypeOK
  <2>4. e.pc \notin OnText \cup OnVectors
    BY <2>2 DEF PipelineInv, TypeOK, Execution, Idle, OnText, OnVectors
  <2>5. QED
    BY <1>1, <2>3, <2>4, TurningOrders DEF Normalize
<1>2. CASE Locate(w)
  <2>1. PICK d \in Locations(worker[w].text) :
            worker' = [worker EXCEPT ![w].pc = "saving", ![w].doc = d]
    BY <1>2 DEF Locate
  <2>2. PICK e : e = [worker[w] EXCEPT !.pc = "saving", !.doc = d]
    OBVIOUS
  <2>3. worker' = [worker EXCEPT ![w] = e]
    BY <2>1, <2>2 DEF PipelineInv, TypeOK
  <2>4. e.pc \notin OnText \cup OnVectors
    BY <2>2 DEF PipelineInv, TypeOK, Execution, Idle, OnText, OnVectors
  <2>5. QED
    BY <1>2, <2>3, <2>4, TurningOrders DEF Locate
<1>3. QED
  BY <1>1, <1>2, SaveOrders, EnrichOrders, PublishOrders, AttachOrders,
     CompleteOrders, EmbedOrders, FinishOrders DEF Works

\* Operators change only switches and which revisions are withdrawn.
LEMMA OperatesOrders ==
    ASSUME PipelineInv, NEW o \in Operators, Operates(o)
    PROVE  Orders'
<1>1. ASSUME NEW k \in Scopes, NEW t \in Targets(k), BeginWithdraw(o, k, t)
      PROVE  Orders'
  <2>1. UNCHANGED <<rowVars, deliveryVars, worker>>
    BY <1>1 DEF BeginWithdraw
  <2>2. Grows /\ StagesInOrder' /\ ItemsKnowTheirs'
    BY <2>1, NothingStirs DEF PipelineInv
  <2>3. PICK R : R = {r \in Covered(k, t) : status[r] # "tombstoned"}
    OBVIOUS
  <2>4. operator' = [operator EXCEPT
            ![o] = [pc |-> "withdrawing", scope |-> k, target |-> t, revs |-> R]]
    BY <1>1, <2>3 DEF BeginWithdraw, Asks
  <2>5. HeldExist'
    BY <2>1, <2>3, <2>4
       DEF PipelineInv, TypeOK, HeldExist, Covered, Exists, rowVars
  <2>6. QED
    BY <2>1, <2>2, <2>5, SameWorkersKnow DEF Orders
<1>2. ASSUME NEW k \in Scopes, NEW t \in Targets(k), Reindex(o, k, t)
      PROVE  Orders'
  <2>1. /\ UNCHANGED <<raw, ready, chunked, vectors, attached, normalized, embedding, worker>>
        /\ status' = [r \in Revs |->
                         IF r \in Restorable(k, t) THEN "searchable" ELSE status[r]]
    BY <1>2 DEF Reindex, deliveryVars
  <2>2. \A r \in Revs : Exists(r)' <=> Exists(r)
    BY <2>1 DEF Restorable, Covered, Exists
  <2>3. Grows /\ StagesInOrder'
    BY <2>1, <2>2 DEF PipelineInv, Grows, StagesInOrder
  <2>4. ItemsKnowTheirs'
    BY <2>1, <2>2 DEF PipelineInv, TypeOK, ItemsKnowTheirs
  <2>5. HeldExist'
    BY <1>2, <2>2 DEF Reindex, After, AtEase, PipelineInv, TypeOK, Request, HeldExist
  <2>6. QED
    BY <2>1, <2>3, <2>4, <2>5, SameWorkersKnow DEF Orders
<1>3. ASSUME NEW s \in Sources, NEW pc \in {"enabling", "disabling"}, StartSwitch(o, s, pc)
      PROVE  Orders'
  <2>1. UNCHANGED <<rowVars, deliveryVars, worker>>
    BY <1>3 DEF StartSwitch
  <2>2. Grows /\ StagesInOrder' /\ ItemsKnowTheirs'
    BY <2>1, NothingStirs DEF PipelineInv
  <2>3. HeldExist'
    BY <1>3, <2>2 DEF StartSwitch, Asks, PipelineInv, TypeOK, Request, AtEase, HeldExist, Grows
  <2>4. QED
    BY <2>1, <2>2, <2>3, SameWorkersKnow DEF Orders
<1>4. CASE WithdrawFails(o)
  <2>1. UNCHANGED <<rowVars, deliveryVars, worker>>
    BY <1>4 DEF WithdrawFails
  <2>2. Grows /\ StagesInOrder' /\ ItemsKnowTheirs'
    BY <2>1, NothingStirs DEF PipelineInv
  <2>3. HeldExist'
    BY <1>4, <2>2 DEF WithdrawFails, After, PipelineInv, TypeOK, Request, AtEase, HeldExist, Grows
  <2>4. QED
    BY <2>1, <2>2, <2>3, SameWorkersKnow DEF Orders
<1>5. CASE CommitWithdraw(o)
  <2>1. /\ UNCHANGED <<raw, ready, chunked, vectors, attached, normalized, embedding, worker>>
        /\ status' = [r \in Revs |->
                         IF r \in operator[o].revs THEN "tombstoned" ELSE status[r]]
    BY <1>5 DEF CommitWithdraw, deliveryVars
  <2>2. \A r \in Revs : Exists(r)' <=> Exists(r)
    BY <2>1 DEF PipelineInv, HeldExist, Exists
  <2>3. Grows /\ StagesInOrder'
    BY <2>1, <2>2 DEF PipelineInv, Grows, StagesInOrder
  <2>4. ItemsKnowTheirs'
    BY <2>1, <2>2 DEF PipelineInv, TypeOK, ItemsKnowTheirs
  <2>5. HeldExist'
    BY <1>5, <2>2 DEF CommitWithdraw, After, AtEase, PipelineInv, TypeOK, Request, HeldExist
  <2>6. QED
    BY <2>1, <2>3, <2>4, <2>5, SameWorkersKnow DEF Orders
<1>6. CASE Switch(o)
  <2>1. UNCHANGED <<rowVars, deliveryVars, worker>>
    BY <1>6 DEF Switch
  <2>2. Grows /\ StagesInOrder' /\ ItemsKnowTheirs'
    BY <2>1, NothingStirs DEF PipelineInv
  <2>3. HeldExist'
    BY <1>6, <2>2 DEF Switch, PipelineInv, TypeOK, Request, AtEase, HeldExist, Grows
  <2>4. QED
    BY <2>1, <2>2, <2>3, SameWorkersKnow DEF Orders
<1>7. QED
  BY <1>1, <1>2, <1>3, <1>4, <1>5, <1>6 DEF Operates, Finishes

LEMMA StepInv ==
    ASSUME PipelineInv, [Next]_vars
    PROVE  PipelineInv'
<1>1. CASE UNCHANGED vars
  <2>1. Grows /\ StagesInOrder' /\ ItemsKnowTheirs'
    BY <1>1, NothingStirs DEF PipelineInv, vars
  <2>2. QED
    BY <1>1, <2>1, StepTypes, SameWorkersKnow, HeldKeep DEF PipelineInv, vars, operatorVars
<1>2. ASSUME NEW w \in Workers, Fail(w)
      PROVE  Orders'
  BY <1>2, TurningOrders DEF Fail, Rests, Idle, OnText, OnVectors
<1>3. Next => Orders'
  BY <1>2, DeliversOrders, WorksOrders, OperatesOrders DEF Next
<1>4. QED
  BY <1>1, <1>3, StepTypes DEF PipelineInv, Orders

THEOREM Invariant == Spec => []PipelineInv
<1>1. PipelineInv /\ [Next]_vars => PipelineInv'
  BY StepInv
<1>2. QED
  BY InitInv, <1>1, PTL DEF Spec

(* Whatever fails, repeats or overtakes, a completed normalization left a  *)
(* revision of its own item that has chunks, was published and is queued   *)
(* for its vectors, and a completed embedding has them.                    *)
THEOREM DoneIsIndexed == Spec => []DoneMeansIndexed
<1>1. PipelineInv => DoneMeansIndexed
  <2> SUFFICES ASSUME PipelineInv
               PROVE  DoneMeansIndexed
    OBVIOUS
  <2>1. ASSUME NEW i \in Items, normalized[i]
        PROVE  \E r \in Revs : /\ attached[i] = r /\ raw[r] = i
                               /\ chunked[r] /\ ready[r] /\ embedding[r] # "none"
    <3>1. attached[i] \in Revs
      BY <2>1 DEF PipelineInv, TypeOK, ItemsKnowTheirs
    <3>2. raw[attached[i]] = i /\ embedding[attached[i]] # "none"
      BY <2>1 DEF PipelineInv, ItemsKnowTheirs
    <3>3. QED
      BY <3>1, <3>2 DEF PipelineInv, StagesInOrder
  <2>2. QED
    BY <2>1 DEF DoneMeansIndexed, PipelineInv, StagesInOrder
<1>2. QED
  BY Invariant, <1>1, PTL

(* No executor brings a withdrawn revision back: only a reindex does, and  *)
(* only what had been published before.                                    *)
THEOREM TombstonesHold == Spec => TombstoneHolds
<1> DEFINE Held == \A r \in Revs :
                       status[r] = "tombstoned" /\ status'[r] # "tombstoned" =>
                           /\ status'[r] = "searchable" /\ ready[r]
                           /\ worker' = worker
<1>1. TypeOK /\ [Next]_vars => [Held]_vars
  <2> SUFFICES ASSUME TypeOK, Next
               PROVE  Held
    OBVIOUS
  <2>1. ASSUME NEW w \in Workers, Delivers(w) \/ Fail(w)
        PROVE  UNCHANGED status
    BY <2>1 DEF Delivers, StartNormalization, RepeatNormalization, Begin,
                StartEmbedding, RepeatEmbedding, BeginVectors, Fail, rowVars
  <2>2. ASSUME NEW w \in Workers, Works(w)
        PROVE  \A r \in Revs : status[r] = "tombstoned" => status'[r] = "tombstoned"
    <3>1. CASE Save(w)
      BY <3>1 DEF Save, Insert, Exists, TypeOK
    <3>2. CASE Publish(w)
      BY <3>2 DEF Publish, MayPublish, TypeOK
    <3>3. CASE \/ Normalize(w) \/ Locate(w) \/ Enrich(w) \/ Attach(w)
               \/ Complete(w) \/ Embed(w) \/ Finish(w)
      BY <3>3 DEF Normalize, Locate, Enrich, Attach, Complete, Embed, Finish, rowVars
    <3>4. QED
      BY <2>2, <3>1, <3>2, <3>3 DEF Works
  <2>3. ASSUME NEW o \in Operators, Operates(o)
        PROVE  Held
    <3>1. ASSUME NEW k \in Scopes, NEW t \in Targets(k), Reindex(o, k, t)
          PROVE  Held
      BY <3>1 DEF Reindex, Restorable
    <3>2. CASE CommitWithdraw(o)
      BY <3>2 DEF CommitWithdraw
    <3>3. ASSUME \/ \E k \in Scopes : \E t \in Targets(k) : BeginWithdraw(o, k, t)
                 \/ \E s \in Sources, pc \in {"enabling", "disabling"} : StartSwitch(o, s, pc)
                 \/ WithdrawFails(o) \/ Switch(o)
          PROVE  UNCHANGED status
      BY <3>3 DEF BeginWithdraw, StartSwitch, WithdrawFails, Switch, rowVars
    <3>4. QED
      BY <2>3, <3>1, <3>2, <3>3 DEF Operates, Finishes
  <2>4. QED
    BY <2>1, <2>2, <2>3 DEF Next
<1>2. QED
  BY TypeCorrect, <1>1, PTL DEF Spec, TombstoneHolds

(***************************************************************************)
(* DocumentPipeline implements RevisionLife: every step is a step of the   *)
(* abstract life of a revision, or leaves it as it is.                     *)
(***************************************************************************)

Stage == [r \in Revs |-> StageOf(r)]
Hidden == {r \in Revs : status[r] = "tombstoned"}

LEMMA InitLives == Init => Life!Init
<1> SUFFICES ASSUME Init
             PROVE  Life!Init
  OBVIOUS
<1>1. \A r \in Revs : StageOf(r) = "absent"
  BY DEF Init, StageOf, Exists
<1>2. Hidden = {}
  BY DEF Init, Hidden
<1>3. QED
  BY <1>1, <1>2 DEF Life!Init, Hidden

\* A revision is where its rows say it is.
LEMMA StageFacts ==
    ASSUME PipelineInv, NEW r \in Revs
    PROVE  /\ embedding[r] = "done" <=> StageOf(r) = "embedded"
           /\ embedding[r] = "open" <=> StageOf(r) = "queued"
           /\ ready[r] <=> StageOf(r) \in {"ready", "queued", "embedded"}
           /\ ready[r] /\ embedding[r] = "none" <=> StageOf(r) = "ready"
           /\ chunked[r] /\ ~ready[r] <=> StageOf(r) = "chunked"
           /\ Exists(r) /\ ~chunked[r] <=> StageOf(r) = "saved"
           /\ ~Exists(r) <=> StageOf(r) = "absent"
BY DEF PipelineInv, TypeOK, StagesInOrder, StageOf

\* One revision advances by one stage and no other moves.
LEMMA AdvancesLife ==
    ASSUME NEW r \in Revs, NEW s \in Life!Stages,
           StageOf(r) = s[1], StageOf(r)' = s[2],
           s[2] \in Life!Guarded => status[r] # "tombstoned",
           \A q \in Revs \ {r} : StageOf(q)' = StageOf(q),
           Hidden' = Hidden
    PROVE  Life!Next
<1>1. Stage' = [Stage EXCEPT ![r] = s[2]]
  BY DEF Stage
<1>2. Life!Advance(r)
  BY <1>1 DEF Life!Advance, Stage, Hidden
<1>3. QED
  BY <1>2 DEF Life!Next

LEMMA SaveLives ==
    ASSUME PipelineInv, PipelineInv', NEW w \in Workers, Save(w)
    PROVE  Life!Next \/ UNCHANGED Life!vars
<1>1. PICK d \in Docs : Insert(d, w)
  BY DEF Save
<1>2. PICK r : r = <<d, worker[w].text>>
  OBVIOUS
<1>3. r \in Revs
  BY <1>2, ExecutionFields DEF Save, PipelineInv, Revs
<1>4. UNCHANGED <<ready, chunked, embedding>>
  BY DEF Save, deliveryVars
<1>5. CASE Exists(r)
  BY <1>1, <1>2, <1>4, <1>5 DEF Insert, Life!vars, StageOf, Exists
<1>6. CASE ~Exists(r)
  <2>1. status' = [status EXCEPT ![r] = "pending"]
    BY <1>1, <1>2, <1>6 DEF Insert
  <2>2. \A q \in Revs \ {r} : StageOf(q)' = StageOf(q)
    BY <1>3, <1>4, <2>1 DEF StageOf, Exists, PipelineInv, TypeOK
  <2>3. StageOf(r) = "absent" /\ ~chunked[r]
    BY <1>3, <1>6, StageFacts DEF PipelineInv, StagesInOrder
  <2>4. Exists(r)' /\ ~chunked'[r]
    BY <1>3, <1>4, <2>1, <2>3 DEF Exists, PipelineInv, TypeOK
  <2>5. StageOf(r)' = "saved"
    BY <1>3, <1>4, <2>4, <2>3, <1>6
       DEF StageOf, PipelineInv, TypeOK, StagesInOrder
  <2>6. Hidden' = Hidden
    BY <1>3, <1>6, <2>1 DEF Hidden, Exists, PipelineInv, TypeOK
  <2>7. <<"absent", "saved">> \in Life!Stages /\ "saved" \notin Life!Guarded
    BY DEF Life!Stages, Life!Guarded
  <2>8. QED
    BY <1>3, <2>2, <2>3, <2>5, <2>6, <2>7, AdvancesLife
<1>7. QED
  BY <1>5, <1>6

LEMMA EnrichLives ==
    ASSUME PipelineInv, NEW w \in Workers, Enrich(w)
    PROVE  Life!Next \/ UNCHANGED Life!vars
<1>1. PICK r : r = RevOf(w)
  OBVIOUS
<1>2. r \in Revs /\ Exists(r) /\ r[2] = worker[w].text
  BY <1>1, ExecutionFields
     DEF Enrich, OnText, PipelineInv, WorkersKnowTheirs, Seen, RevOf
<1>3. /\ chunked' = [chunked EXCEPT ![r] = r[2] \notin Blank]
      /\ UNCHANGED <<status, ready, embedding>>
  BY <1>1, <1>2 DEF Enrich, deliveryVars
<1>4. CASE chunked[r] \/ r[2] \in Blank
  <2>1. UNCHANGED chunked
    BY <1>2, <1>3, <1>4 DEF PipelineInv, TypeOK, StagesInOrder
  <2>2. QED
    BY <1>3, <2>1 DEF Life!vars, StageOf, Exists
<1>5. CASE ~chunked[r] /\ r[2] \notin Blank
  <2>1. chunked'[r]
    BY <1>2, <1>3, <1>5 DEF PipelineInv, TypeOK
  <2>2. StageOf(r) = "saved" /\ ~ready[r] /\ embedding[r] = "none"
    BY <1>2, <1>5, StageFacts DEF PipelineInv, StagesInOrder
  <2>3. StageOf(r)' = "chunked"
    BY <1>3, <2>1, <2>2 DEF StageOf
  <2>4. \A q \in Revs \ {r} : StageOf(q)' = StageOf(q)
    BY <1>2, <1>3 DEF StageOf, Exists, PipelineInv, TypeOK
  <2>5. Hidden' = Hidden
    BY <1>3 DEF Hidden
  <2>6. <<"saved", "chunked">> \in Life!Stages /\ "chunked" \notin Life!Guarded
    BY DEF Life!Stages, Life!Guarded
  <2>7. QED
    BY <1>2, <2>2, <2>3, <2>4, <2>5, <2>6, AdvancesLife
<1>6. QED
  BY <1>4, <1>5

LEMMA PublishLives ==
    ASSUME PipelineInv, NEW w \in Workers, Publish(w)
    PROVE  Life!Next \/ UNCHANGED Life!vars
<1>1. PICK r : r = RevOf(w)
  OBVIOUS
<1>2. r \in Revs /\ Exists(r)
  BY <1>1, ExecutionFields DEF Publish, OnText, PipelineInv, WorkersKnowTheirs, Seen
<1>3. UNCHANGED <<chunked, embedding>>
  BY DEF Publish, deliveryVars
<1>4. CASE ~MayPublish(r)
  BY <1>1, <1>3, <1>4 DEF Publish, Life!vars, StageOf, Exists
<1>5. CASE MayPublish(r)
  <2>1. /\ ready' = [ready EXCEPT ![r] = TRUE]
        /\ status' = [status EXCEPT ![r] = "searchable"]
        /\ status[r] # "tombstoned" /\ chunked[r]
    BY <1>1, <1>5 DEF Publish, MayPublish
  <2>2. Hidden' = Hidden
    BY <1>2, <2>1 DEF Hidden, PipelineInv, TypeOK
  <2>3. \A q \in Revs \ {r} : StageOf(q)' = StageOf(q)
    BY <1>2, <1>3, <2>1 DEF StageOf, Exists, PipelineInv, TypeOK
  <2>4. CASE ready[r]
    <3>1. StageOf(r)' = StageOf(r)
      BY <1>2, <1>3, <2>1, <2>4 DEF StageOf, Exists, PipelineInv, TypeOK
    <3>2. QED
      BY <1>2, <2>2, <2>3, <3>1 DEF Life!vars, Hidden
  <2>5. CASE ~ready[r]
    <3>1. StageOf(r) = "chunked" /\ embedding[r] = "none"
      BY <1>2, <2>1, <2>5, StageFacts DEF PipelineInv, StagesInOrder
    <3>2. StageOf(r)' = "ready"
      BY <1>2, <1>3, <2>1, <3>1 DEF StageOf, PipelineInv, TypeOK
    <3>3. <<"chunked", "ready">> \in Life!Stages
      BY DEF Life!Stages
    <3>4. QED
      BY <1>2, <2>1, <2>2, <2>3, <3>1, <3>2, <3>3, AdvancesLife
  <2>6. QED
    BY <2>4, <2>5
<1>6. QED
  BY <1>4, <1>5

LEMMA AttachLives ==
    ASSUME PipelineInv, NEW w \in Workers, Attach(w)
    PROVE  Life!Next \/ UNCHANGED Life!vars
<1>1. PICK r : r = RevOf(w)
  OBVIOUS
<1>2. r \in Revs /\ ready[r]
  BY <1>1, ExecutionFields DEF Attach, OnText, PipelineInv, WorkersKnowTheirs, Seen
<1>3. UNCHANGED <<status, ready, chunked>>
  BY DEF Attach, rowVars
<1>4. CASE UNCHANGED embedding
  BY <1>3, <1>4 DEF Life!vars, StageOf, Exists
<1>5. CASE embedding' # embedding
  <2>1. embedding' = [embedding EXCEPT ![r] = IF @ = "none" THEN "open" ELSE @]
    BY <1>1, <1>5 DEF Attach
  <2>2. embedding[r] = "none" /\ embedding'[r] = "open"
    BY <1>2, <1>5, <2>1 DEF PipelineInv, TypeOK
  <2>3. StageOf(r) = "ready" /\ StageOf(r)' = "queued"
    BY <1>2, <2>2, StageFacts DEF StageOf
  <2>4. \A q \in Revs \ {r} : StageOf(q)' = StageOf(q)
    BY <1>2, <1>3, <2>1 DEF StageOf, Exists, PipelineInv, TypeOK
  <2>5. Hidden' = Hidden
    BY <1>3 DEF Hidden
  <2>6. <<"ready", "queued">> \in Life!Stages /\ "queued" \notin Life!Guarded
    BY DEF Life!Stages, Life!Guarded
  <2>7. QED
    BY <1>2, <2>3, <2>4, <2>5, <2>6, AdvancesLife
<1>6. QED
  BY <1>4, <1>5

LEMMA FinishLives ==
    ASSUME PipelineInv, NEW w \in Workers, Finish(w)
    PROVE  Life!Next \/ UNCHANGED Life!vars
<1>1. PICK r : r = RevOf(w)
  OBVIOUS
<1>2. r \in Revs /\ embedding[r] # "none"
  BY <1>1, ExecutionFields DEF Finish, OnVectors, PipelineInv, WorkersKnowTheirs, Seen
<1>3. UNCHANGED <<status, ready, chunked>>
  BY DEF Finish, rowVars
<1>4. embedding' = [embedding EXCEPT ![r] = IF MayFinish(r) THEN "done" ELSE @]
  BY <1>1 DEF Finish
<1>5. CASE UNCHANGED embedding
  BY <1>3, <1>5 DEF Life!vars, StageOf, Exists
<1>6. CASE embedding' # embedding
  <2>1. MayFinish(r) /\ embedding[r] = "open" /\ embedding'[r] = "done"
    BY <1>2, <1>4, <1>6 DEF PipelineInv, TypeOK
  <2>2. StageOf(r) = "queued" /\ StageOf(r)' = "embedded"
    BY <1>2, <2>1, StageFacts DEF StageOf
  <2>3. \A q \in Revs \ {r} : StageOf(q)' = StageOf(q)
    BY <1>2, <1>3, <1>4 DEF StageOf, Exists, PipelineInv, TypeOK
  <2>4. Hidden' = Hidden
    BY <1>3 DEF Hidden
  <2>5. <<"queued", "embedded">> \in Life!Stages
    BY DEF Life!Stages
  <2>6. QED
    BY <1>2, <2>1, <2>2, <2>3, <2>4, <2>5, AdvancesLife DEF MayFinish
<1>7. QED
  BY <1>5, <1>6

LEMMA WithdrawLives ==
    ASSUME PipelineInv, NEW o \in Operators, CommitWithdraw(o)
    PROVE  Life!Next \/ UNCHANGED Life!vars
<1>1. PICK R : R = operator[o].revs
  OBVIOUS
<1>2. R \in SUBSET Revs /\ \A r \in R : Exists(r)
  BY <1>1, RequestFields DEF CommitWithdraw, PipelineInv, HeldExist
<1>3. /\ UNCHANGED <<ready, chunked, embedding>>
      /\ status' = [r \in Revs |-> IF r \in R THEN "tombstoned" ELSE status[r]]
  BY <1>1 DEF CommitWithdraw, deliveryVars
<1>4. \A r \in Revs : StageOf(r)' = StageOf(r)
  BY <1>2, <1>3 DEF StageOf, Exists
<1>5. \A r \in R : Stage[r] # "absent"
  BY <1>2, StageFacts DEF Stage
<1>6. Hidden' = Hidden \cup R
  BY <1>2, <1>3 DEF Hidden
<1>7. Life!Withdraw(R)
  BY <1>2, <1>4, <1>5, <1>6 DEF Life!Withdraw, Stage, Hidden
<1>8. QED
  BY <1>2, <1>7 DEF Life!Next

LEMMA ReindexLives ==
    ASSUME PipelineInv, NEW o \in Operators, NEW k, NEW t, Reindex(o, k, t)
    PROVE  Life!Next \/ UNCHANGED Life!vars
<1>1. PICK R : R = Restorable(k, t)
  OBVIOUS
<1>2. R \in SUBSET Revs /\ \A r \in R : status[r] = "tombstoned" /\ ready[r]
  BY <1>1 DEF Restorable, Covered
<1>3. /\ UNCHANGED <<ready, chunked, embedding>>
      /\ status' = [r \in Revs |-> IF r \in R THEN "searchable" ELSE status[r]]
  BY <1>1 DEF Reindex, deliveryVars
<1>4. \A r \in Revs : StageOf(r)' = StageOf(r)
  BY <1>2, <1>3 DEF StageOf, Exists
<1>5. \A r \in R : Stage[r] \in Life!WasReady
  BY <1>2, StageFacts DEF Stage, Life!WasReady
<1>6. Hidden' = Hidden \ R
  BY <1>2, <1>3 DEF Hidden
<1>7. Life!Restore(R)
  BY <1>2, <1>4, <1>5, <1>6 DEF Life!Restore, Stage, Hidden
<1>8. QED
  BY <1>2, <1>7 DEF Life!Next

LEMMA StepLives ==
    ASSUME PipelineInv, PipelineInv', [Next]_vars
    PROVE  Life!Next \/ UNCHANGED Life!vars
<1>1. ASSUME UNCHANGED <<status, ready, chunked, embedding>>
      PROVE  UNCHANGED Life!vars
  BY <1>1 DEF Life!vars, StageOf, Exists
<1>2. CASE UNCHANGED vars
  BY <1>1, <1>2 DEF vars, rowVars, deliveryVars
<1>3. ASSUME NEW w \in Workers, Delivers(w) \/ Fail(w)
      PROVE  UNCHANGED <<status, ready, chunked, embedding>>
  BY <1>3 DEF Delivers, StartNormalization, RepeatNormalization, Begin,
              StartEmbedding, RepeatEmbedding, BeginVectors, Fail, rowVars, deliveryVars
<1>4. ASSUME NEW w \in Workers, Works(w)
      PROVE  Life!Next \/ UNCHANGED Life!vars
  <2>1. CASE Normalize(w) \/ Locate(w) \/ Complete(w) \/ Embed(w)
    BY <1>1, <2>1 DEF Normalize, Locate, Complete, Embed, rowVars, deliveryVars
  <2>2. QED
    BY <1>4, <2>1, SaveLives, EnrichLives, PublishLives, AttachLives, FinishLives DEF Works
<1>5. ASSUME NEW o \in Operators, Operates(o)
      PROVE  Life!Next \/ UNCHANGED Life!vars
  <2>1. ASSUME \/ \E k \in Scopes : \E t \in Targets(k) : BeginWithdraw(o, k, t)
               \/ \E s \in Sources, pc \in {"enabling", "disabling"} : StartSwitch(o, s, pc)
               \/ WithdrawFails(o) \/ Switch(o)
        PROVE  UNCHANGED <<status, ready, chunked, embedding>>
    BY <2>1 DEF BeginWithdraw, StartSwitch, WithdrawFails, Switch, rowVars, deliveryVars
  <2>2. QED
    BY <1>1, <1>5, <2>1, WithdrawLives, ReindexLives DEF Operates, Finishes
<1>6. QED
  BY <1>1, <1>2, <1>3, <1>4, <1>5 DEF Next

(* Saving, cutting, publishing, queueing, embedding, withdrawing and       *)
(* restoring, in whatever order executors and operators do them, are steps *)
(* of RevisionLife or change nothing of it.                                *)
THEOREM RevisionLifeRefined == Spec => ImplementsRevisionLife
<1>1. PipelineInv /\ PipelineInv' /\ [Next]_vars => [Life!Next]_(Life!vars)
  BY StepLives
<1>2. QED
  BY InitLives, Invariant, <1>1, PTL DEF Spec, ImplementsRevisionLife, Life!Spec
==============================================================================
