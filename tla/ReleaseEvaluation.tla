-------------------------- MODULE ReleaseEvaluation --------------------------
(***************************************************************************)
(* The release evaluation of the command line: processes that measure the  *)
(* answer service on a fixed corpus with paid calls.  What they share are  *)
(* files: an append-only journal of reservations and settlements with a    *)
(* lock file beside it, and the reports that earlier runs left, from which *)
(* a later one may resume.  A process may die between any two awaits, and  *)
(* a write may reach the disk in full, in part, or not at all.             *)
(***************************************************************************)
EXTENDS Naturals, Sequences, SequencesExt, FiniteSets, FiniteSetsExt, Functions

CONSTANTS
    Runs,        \* executions of the command
    CodeOf,      \* run -> [fixed, repair]: its sources, the two repairable files apart
    Labels,      \* item -> revisions, chunks, target, from, to, answered
    Corpora,     \* the corpus as the database holds it, from one state to the next
    Retried,     \* the item that a resumed run asks again
    Allowance,   \* cap of the allowance, in the unit of Reserves
    Verdicts,    \* counts of claims and citations that a reviewer may attest
    Reserves,    \* "embedding", "chat" -> what a call reserves
    Modes,       \* modes of the command
    RunFaults    \* bound: failures and deaths of a behaviour

VARIABLES
    journal,     \* the ledger file: what its lines come to
    lock,        \* the lock file is there
    corpus,      \* position in Corpora
    release,     \* run -> what the process holds
    reports,     \* run -> its report.json
    callsSent,        \* paid calls that have left this machine
    released,    \* reports that a review has released
    releaseFaults
releaseVars == <<journal, lock, corpus, release, reports, callsSent, released, releaseFaults>>

NoRun == "none"
Items == DOMAIN Labels

\* The units of a call and the allowance are positive, the labels are finite
\* and the retried item is one of them; the corpus is in some state.
ASSUME ReleaseAssumption ==
    /\ IsFiniteSet(Items) /\ Retried \in Items /\ NoRun \notin Runs
    /\ Reserves \in [{"embedding", "chat"} -> Nat \ {0}] /\ Allowance \in Nat /\ RunFaults \in Nat
    /\ Len(Corpora) \in Nat \ {0} /\ DOMAIN Corpora = 1 .. Len(Corpora)
    /\ Modes \subseteq {"plan", "preflight", "live"}

Positive == {i \in Items : Labels[i].answered}

-----------------------------------------------------------------------------
(***************************************************************************)
(* The fixed corpus and the labels.                                        *)
(***************************************************************************)
Now == Corpora[corpus]
Fingerprint == Now.chunks
RevisionsOf(chunks) == {chunks[c].revision : c \in DOMAIN chunks}

\* Labels of an answered item name revisions and chunks; the others name none.
LabelsValid ==
    \A i \in Items :
        /\ Labels[i].answered <=> Labels[i].revisions # {}
        /\ Labels[i].answered <=> Labels[i].chunks # {}
        /\ Labels[i].from < Labels[i].to

\* What a label calls relevant is in the corpus, of its target and window.
InWindow(row, i) ==
    /\ row.target = Labels[i].target
    /\ row.date >= Labels[i].from /\ row.date < Labels[i].to
Members(chunks, i) ==
    /\ \A c \in Labels[i].chunks :
           /\ c \in DOMAIN chunks
           /\ chunks[c].revision \in Labels[i].revisions
           /\ InWindow(chunks[c], i)
    /\ \A v \in Labels[i].revisions :
           /\ \E c \in Labels[i].chunks : c \in DOMAIN chunks /\ chunks[c].revision = v
           /\ \A c \in DOMAIN chunks : chunks[c].revision = v => InWindow(chunks[c], i)

\* Together they name the corpus, neither less nor more.
LabelsCover(chunks) ==
    /\ \A i \in Positive : Members(chunks, i)
    /\ UNION {Labels[i].revisions : i \in Items} = RevisionsOf(chunks)
    /\ UNION {Labels[i].chunks : i \in Items} = DOMAIN chunks

\* Payloads as recorded, rights, collected partitions, models approved
CorpusHolds == Now.intact /\ Now.rights /\ LabelsCover(Now.chunks)
PartitionsHold == Now.partitions /\ Now.approved

\* Share of the relevant revisions among the first ten hits, at least 0.8
Recalled(i, hits) ==
    LET found == {Fingerprint[c].revision : c \in hits} \cap Labels[i].revisions
    IN  10 * Cardinality(found) >= 8 * Cardinality(Labels[i].revisions)

-----------------------------------------------------------------------------
(***************************************************************************)
(* The journal.                                                            *)
(***************************************************************************)
\* Whoever opens the journal replays it: so many reservations and settlements,
\* what was settled, what is reserved and not settled, a last line cut off.
NoLines == [reserved |-> 0, settled |-> 0, spent |-> 0, held |-> 0, torn |-> FALSE]
WithReservation(units) == [journal EXCEPT !.reserved = @ + 1, !.held = @ + units]
WithSettlement(units) == [journal EXCEPT !.settled = @ + 1, !.spent = @ + units, !.held = 0]
CutOff == [journal EXCEPT !.torn = TRUE]
\* A reservation whose settlement was not recorded
Pending == journal.reserved > journal.settled

\* A write reaches the disk, or it fails or the process dies in it.
PersistLedger(written, Ok, Failed) ==
    \/ journal' = written /\ Ok /\ UNCHANGED releaseFaults
    \/ /\ releaseFaults < RunFaults /\ releaseFaults' = releaseFaults + 1
       /\ journal' \in {journal, written, CutOff}
       /\ Failed

-----------------------------------------------------------------------------
Idle == [at |-> "idle", mode |-> "plan", from |-> NoRun, print |-> <<>>, owns |-> FALSE,
         spent |-> 0, todo |-> <<>>, embeddings |-> 0, chats |-> 0, used |-> 0,
         recalled |-> TRUE, rows |-> {}]
Unwritten == [mode |-> "none", failed |-> FALSE, gate |-> FALSE, recalled |-> FALSE,
              rows |-> {}, print |-> <<>>]

RunAt(r, at) == release' = [release EXCEPT ![r].at = at]
RunFails(r) == RunAt(r, "reporting-failure")
FreshRun(r) == release[r].from = NoRun

\* A row of an answer that counts: answered with relevant citations, or
\* refused without a call.
JudgedRow(i, passed) == [item |-> i, passed |-> passed, on |-> corpus]
AllPass(rows) == {x.item : x \in rows} = Items /\ \A x \in rows : x.passed

\* A report to resume from is a live one that did not fail, spent within the
\* allowance, recalled enough, and failed in the retried item alone.
SourceSound(s) ==
    reports[s].mode = "live" /\ ~reports[s].failed
RetrievalReusable(s) == reports[s].recalled
RowsReusable(s) ==
    \A x \in reports[s].rows : x.item # Retried => x.passed
SameCode(s, r) == CodeOf[s].fixed = CodeOf[r].fixed
Resumable(s, r) ==
    SourceSound(s) /\ RetrievalReusable(s) /\ RowsReusable(s) /\ SameCode(s, r)

\* The command checks the labels, the history and the allowance, makes the
\* directory of the run, and reads the report that it resumes from.
Begin(r, mode, s) ==
    /\ release[r].at = "idle" /\ LabelsValid
    /\ s # NoRun => mode = "live" /\ reports[s] # Unwritten
    /\ release' = [release EXCEPT ![r].mode = mode, ![r].from = s,
                       ![r].at = IF s # NoRun /\ ~Resumable(s, r) THEN "reporting-failure"
                                 ELSE IF mode = "plan" THEN "reporting" ELSE "ready"]
    /\ UNCHANGED <<journal, lock, corpus, reports, callsSent, released, releaseFaults>>

\* The corpus is verified and fingerprinted; a resumed run wants the
\* fingerprint of its source.  Only a live run goes on to pay.
Preflight(r) ==
    /\ release[r].at = "ready"
    /\ IF /\ CorpusHolds /\ PartitionsHold
          /\ FreshRun(r) \/ reports[release[r].from].print = Fingerprint
       THEN release' = [release EXCEPT
                ![r].at = IF release[r].mode = "live" THEN "verified" ELSE "reporting",
                ![r].print = Fingerprint]
       ELSE RunFails(r)
    /\ UNCHANGED <<journal, lock, corpus, reports, callsSent, released, releaseFaults>>

\* What is to be called for: the recall of each answered item, and then
\* each answer, less what the source of a resumed run has.
Call(kind, use, i) == [kind |-> kind, use |-> use, item |-> i]
Work(r) ==
    LET recall == [n \in 1 .. Cardinality(Positive) |->
                       Call("embedding", "recall", SetToSeq(Positive)[n])]
        asked == IF FreshRun(r) THEN Items ELSE {Retried}
        Answers == [n \in 1 .. 2 * Cardinality(asked) |->
                       Call(IF n % 2 = 1 THEN "embedding" ELSE "chat", "answer",
                            SetToSeq(asked)[(n + 1) \div 2])]
    IN  (IF FreshRun(r) THEN recall ELSE <<>>) \o Answers
Reused(r) ==
    IF FreshRun(r) THEN {} ELSE {x \in reports[release[r].from].rows : x.item # Retried}

\* Nothing pending, nothing left over the cap, and a call of each kind to spare
\* for a run that resumes
Ready(r) ==
    ~Pending /\ journal.spent <= Allowance /\ (FreshRun(r) \/ journal.spent + 1 <= Allowance)

\* Faulty variant: the lock file of another run does not stop this one.
OpenUnlocked(r) ==
    /\ release[r].at = "verified"
    /\ IF journal.torn THEN RunFails(r) /\ UNCHANGED lock
       ELSE /\ lock' = TRUE
            /\ release' = [release EXCEPT ![r].owns = TRUE, ![r].spent = journal.spent,
                               ![r].todo = Work(r), ![r].rows = Reused(r),
                               ![r].at = IF Ready(r) THEN "working" ELSE "reporting-failure"]
    /\ UNCHANGED <<journal, corpus, reports, callsSent, released, releaseFaults>>
\* Whoever creates the lock file reads the journal.  A last line that is cut
\* off, or a reservation that was not settled, stops the run.
Open(r) ==
    /\ release[r].at = "verified"
    /\ IF lock \/ journal.torn THEN RunFails(r) /\ UNCHANGED lock
       ELSE /\ lock' = TRUE
            /\ release' = [release EXCEPT ![r].owns = TRUE, ![r].spent = journal.spent,
                               ![r].todo = Work(r), ![r].rows = Reused(r),
                               ![r].at = IF Ready(r) THEN "working" ELSE "reporting-failure"]
    /\ UNCHANGED <<journal, corpus, reports, callsSent, released, releaseFaults>>

\* A resumed run has one call of each kind, whatever the allowance leaves.
CallsLeft(r, kind) ==
    \/ FreshRun(r)
    \/ IF kind = "embedding" THEN release[r].embeddings = 0 ELSE release[r].chats = 0
Next1(r) == Head(release[r].todo)

\* A reservation within the allowance is on disk before the call is made.
Reserve(r) ==
    /\ release[r].at = "working" /\ release[r].todo # <<>>
    /\ LET k == Next1(r).kind
       IN  IF ~CallsLeft(r, k) \/ release[r].spent + Reserves[k] > Allowance
           THEN RunFails(r) /\ UNCHANGED <<journal, releaseFaults>>
           ELSE PersistLedger(WithReservation(Reserves[k]),
                        release' = [release EXCEPT ![r].at = "reserved",
                            ![r].embeddings = @ + (IF k = "embedding" THEN 1 ELSE 0),
                            ![r].chats = @ + (IF k = "chat" THEN 1 ELSE 0)],
                        RunFails(r) \/ RunAt(r, "dead"))
    /\ UNCHANGED <<lock, corpus, reports, callsSent, released>>

\* The provider answers with a usage within the reservation, or the call
\* fails, ends late, or breaks the contract, and its outcome stays unknown.
CallOut(r) ==
    /\ release[r].at = "reserved" /\ callsSent' = callsSent + 1
    /\ \/ \E u \in 1 .. Reserves[Next1(r).kind] :
              /\ release' = [release EXCEPT ![r].at = "called", ![r].used = u]
              /\ UNCHANGED releaseFaults
       \/ /\ releaseFaults < RunFaults /\ releaseFaults' = releaseFaults + 1
          /\ RunFails(r) \/ RunAt(r, "dead")
    /\ UNCHANGED <<journal, lock, corpus, reports, released>>

\* Hits that the corpus of the preflight does not have end the run.
Retrieved(r, hits) == hits \subseteq DOMAIN release[r].print

\* After the settlement the result is used: a recall is scored, an answer is
\* sought, and an item without evidence is refused before the model is asked.
Uses(r, c, hits, passed) ==
    LET rest == Tail(release[r].todo)
        held == [release[r] EXCEPT !.at = "working", !.spent = @ + release[r].used, !.used = 0]
    IN  IF c.use = "recall"
        THEN [held EXCEPT !.todo = rest, !.recalled = @ /\ Recalled(c.item, hits)]
        ELSE IF c.kind = "embedding" /\ hits # {}
        THEN [held EXCEPT !.todo = rest]
        ELSE [held EXCEPT !.todo = IF c.kind = "embedding" THEN Tail(rest) ELSE rest,
                  !.rows = @ \cup {JudgedRow(c.item, IF c.kind = "chat"
                                                  THEN passed /\ Labels[c.item].answered
                                                  ELSE ~Labels[c.item].answered)}]
SettleRunCall(r) ==
    /\ release[r].at = "called"
    /\ \E hits \in SUBSET DOMAIN Fingerprint, passed \in BOOLEAN :
           PersistLedger(WithSettlement(release[r].used),
                   IF Next1(r).kind = "embedding" /\ ~Retrieved(r, hits)
                   THEN RunFails(r)
                   ELSE release' = [release EXCEPT ![r] = Uses(r, Next1(r), hits, passed)],
                   RunFails(r) \/ RunAt(r, "dead"))
    /\ UNCHANGED <<lock, corpus, reports, callsSent, released>>

\* The corpus has to be the one of the preflight still.
Postflight(r) ==
    /\ release[r].at = "working" /\ release[r].todo = <<>>
    /\ IF ~Pending /\ CorpusHolds /\ PartitionsHold /\ Fingerprint = release[r].print
       THEN RunAt(r, "reporting") ELSE RunFails(r)
    /\ UNCHANGED <<journal, lock, corpus, reports, callsSent, released, releaseFaults>>

Gate(r) == release[r].mode = "live" /\ release[r].recalled /\ AllPass(release[r].rows)

\* The report is written, whatever happened, or is not; then the journal is
\* closed and the lock file of this run removed.
Report(r) ==
    /\ release[r].at \in {"reporting", "reporting-failure"}
    /\ LET failed == release[r].at = "reporting-failure"
       IN  \/ /\ reports' = [reports EXCEPT ![r] =
                      [mode |-> release[r].mode, failed |-> failed,
                       gate |-> ~failed /\ Gate(r), recalled |-> release[r].recalled,
                       rows |-> release[r].rows, print |-> release[r].print]]
              /\ UNCHANGED releaseFaults
           \/ /\ releaseFaults < RunFaults /\ releaseFaults' = releaseFaults + 1
              /\ UNCHANGED reports
    /\ RunAt(r, "closing")
    /\ UNCHANGED <<journal, lock, corpus, callsSent, released>>
Close(r) ==
    /\ release[r].at = "closing"
    /\ lock' = (lock /\ ~release[r].owns)
    /\ release' = [release EXCEPT ![r].at = "done", ![r].owns = FALSE]
    /\ UNCHANGED <<journal, corpus, reports, callsSent, released, releaseFaults>>

\* Offline, a person attests counts for a report that passed the gate and
\* waits for nothing else; a ratio at its threshold is enough.
Reviewable(r) == reports[r].gate /\ AllPass(reports[r].rows)
RatiosHold(v) ==
    /\ v.claims > 0 /\ v.supported <= v.citations
    /\ 100 * v.supported >= 95 * v.citations
    /\ 100 * v.covered >= 90 * v.claims
    /\ 100 * v.unsupported <= 5 * v.claims
Review(r) ==
    /\ r \notin released /\ Reviewable(r)
    /\ \E v \in Verdicts : RatiosHold(v)
    /\ released' = released \cup {r}
    /\ UNCHANGED <<journal, lock, corpus, release, reports, callsSent, releaseFaults>>

\* A process that dies leaves its lock file.
Dies(r) ==
    /\ release[r].at \notin {"idle", "done", "dead"}
    /\ releaseFaults < RunFaults /\ releaseFaults' = releaseFaults + 1
    /\ RunAt(r, "dead")
    /\ UNCHANGED <<journal, lock, corpus, reports, callsSent, released>>
\* Somebody removes the lock file of a process that is dead.
Unlock ==
    /\ lock /\ \A r \in Runs : release[r].owns => release[r].at = "dead"
    /\ lock' = FALSE
    /\ release' = [r \in Runs |-> [release[r] EXCEPT !.owns = FALSE]]
    /\ UNCHANGED <<journal, corpus, reports, callsSent, released, releaseFaults>>
\* The pipeline changes the corpus.
CorpusMoves ==
    /\ corpus < Len(Corpora) /\ corpus' = corpus + 1
    /\ UNCHANGED <<journal, lock, release, reports, callsSent, released, releaseFaults>>

ReleaseInit ==
    /\ journal = NoLines /\ lock = FALSE /\ corpus = 1
    /\ release = [r \in Runs |-> Idle] /\ reports = [r \in Runs |-> Unwritten]
    /\ callsSent = 0 /\ released = {} /\ releaseFaults = 0
RunSteps(r) ==
    \/ \E mode \in Modes, s \in Runs \cup {NoRun} : Begin(r, mode, s)
    \/ Preflight(r) \/ Open(r) \/ Reserve(r) \/ CallOut(r) \/ SettleRunCall(r)
    \/ Postflight(r) \/ Report(r) \/ Close(r) \/ Review(r) \/ Dies(r)
ReleaseNext == (\E r \in Runs : RunSteps(r)) \/ Unlock \/ CorpusMoves

-----------------------------------------------------------------------------
ReleaseTypeOK ==
    /\ journal \in [reserved : Nat, settled : Nat, spent : Nat, held : Nat, torn : BOOLEAN]
    /\ lock \in BOOLEAN /\ corpus \in DOMAIN Corpora /\ callsSent \in Nat
    /\ releaseFaults \in 0 .. RunFaults

\* Over all the processes that ever ran, a reservation is on disk before its
\* call leaves, at most one call has an outcome that is not recorded, and
\* what is settled and reserved stays within the allowance.
PaidCallsBounded ==
    /\ callsSent <= journal.reserved /\ callsSent <= journal.settled + 1
    /\ journal.spent + journal.held <= Allowance

\* A report that passes the gate was measured, in all its rows and those it
\* took from an earlier report, on one state of the corpus.
GateOnOneCorpus ==
    \A r \in Runs : reports[r].gate =>
        /\ AllPass(reports[r].rows) /\ ~reports[r].failed
        /\ \A x \in reports[r].rows : Corpora[x.on].chunks = reports[r].print

\* The money and the measure of a release: every paid call is accounted for
\* before it leaves, and what passes the gate was measured on one corpus.
ReleaseIsBounded == PaidCallsBounded /\ GateOnOneCorpus
=============================================================================
