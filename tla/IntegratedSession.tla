------------------------- MODULE IntegratedSession -------------------------
(***************************************************************************)
(* The attempts of one run from claim to outcome in the integrated         *)
(* execution: the sources are pinned, the revision is installed, the       *)
(* session reviews it with a fresh controller, stores the review, and ends *)
(* with a verified result or with registered questions.  Every stage reads *)
(* the principal, then asks the store in a transaction whether the claim,  *)
(* the grants and the sources still stand, while leases lapse, the job is  *)
(* cancelled, grants are fenced, removed or widened, and sources vanish.   *)
(* The stored review is written outside of those transactions.  Model      *)
(* calls and the run's budget are the subject of WorkflowRun, publication  *)
(* of the result that of ArtifactPublication.                              *)
(***************************************************************************)
EXTENDS Naturals, FiniteSets

CONSTANTS
  Inventory,   \* the factors of the policy's inventory: <<context, factor>>
  Bindings,    \* configured task bindings: id, kind, context, factor, side, findings
  Materials,   \* the revision: ready, and its exactly confirmed sides
  Reviews,     \* what the controller may return: status, can, sound, case, blocked
  Disturbances, \* what may happen around the attempts
  MaxExecutions \* bound: attempts claimed of the run

ASSUME SessionAssumption == MaxExecutions \in Nat \ {0}

VARIABLES
  material,  \* the stored revision
  job,       \* the job row: last attempt, whether its lease is live, cancellation
  session,   \* the principal the directory answers with, 0 once removed
  epoch,     \* the publication epoch of the case
  docs,      \* the run's sources can still be read
  pinned,    \* the run has its document snapshot
  head,      \* the revision is installed in the task store
  bound,     \* the attempt the run's ledger row is bound to, 0 without a row
  kept,      \* workflow_reviews: the stored review of the run
  tasks,     \* registered questions of the run
  process,    \* process[a]: how far the process of attempt a has come
  returned    \* returned[a]: what its execution returned

authority == <<job, session, epoch, docs>>
stores == <<pinned, head, bound, kept, tasks>>
sessionVars == <<material, authority, stores, process, returned>>

Executions == 1 .. MaxExecutions
NoReview == [status |-> "none", can |-> FALSE, sound |-> FALSE, case |-> FALSE, blocked |-> {}]
NoRow == [by |-> 0, review |-> NoReview, shaken |-> FALSE]
NoWorker == [at |-> "none", phase |-> "idle", as |-> 0, review |-> NoReview, ask |-> {}, shaken |-> FALSE]

SessionInit ==
  /\ material \in Materials
  /\ job = [attempt |-> 0, live |-> FALSE, cancel |-> FALSE]
  /\ session = 1 /\ epoch = 0 /\ docs = TRUE
  /\ pinned = FALSE /\ head = FALSE /\ bound = 0 /\ kept = NoRow /\ tasks = {}
  /\ process = [a \in Executions |-> NoWorker] /\ returned = [a \in Executions |-> "none"]

-----------------------------------------------------------------------------
(* The questions of a review. *)

Sides == {"target", "comparable"}
Considered(blocked) == {b \in Bindings : \E f \in blocked : f.id \in b.findings}
Misbound(b, blocked) ==
  \E f \in blocked : f.id \in b.findings /\
    (f.kind = "approval" \/ f.context # b.context \/ (f.factor # "none" /\ f.factor # b.factor))

\* An exact confirmation of the side itself is not asked for again
Settled(blocked) == {b \in Considered(blocked) : b.kind = "fact" /\ <<b.context, b.factor, b.side>> \in material.confirmed}
Asked(blocked) == Considered(blocked) \ Settled(blocked)
FindingsOf(bs, blocked) == {f \in blocked : \E b \in bs : f.id \in b.findings}

ApprovalPending(blocked) == \E f \in blocked : f.id = "trust" /\ f.kind = "approval" /\ f.status = "needs_review"
ConfirmedPairs(blocked) ==
  {p \in Inventory : \A s \in Sides : \E b \in Settled(blocked) : <<b.context, b.factor, b.side>> = <<p[1], p[2], s>>}
ConfirmedContexts(blocked) ==
  {c \in {p[1] : p \in Inventory} : \A p \in Inventory : p[1] = c => p \in ConfirmedPairs(blocked)}

Deferred(blocked) ==
  IF ~ApprovalPending(blocked) THEN {}
  ELSE {f \in FindingsOf(Settled(blocked), blocked) :
          /\ f.status = "needs_review" /\ <<f.context, f.factor>> \in ConfirmedPairs(blocked)
          /\ f.kind = "evidence_reliability" \/ (f.kind = "observed_unresolved" /\ f.symptom)}

Recomputed(blocked) ==
  LET contexts == {b.context : b \in Asked(blocked)} \cup
                  (IF ApprovalPending(blocked) THEN ConfirmedContexts(blocked) ELSE {})
  IN {f \in blocked : f.kind = "calculation" /\ f.context \in contexts}

\* _tasks: every blocked finding has its question, or waits for the final authority
Askable(blocked) ==
  /\ ~\E b \in Considered(blocked) : Misbound(b, blocked)
  /\ Asked(blocked) # {}
  /\ \A f \in blocked : \/ f \in FindingsOf(Asked(blocked), blocked) \cup Deferred(blocked) \cup Recomputed(blocked)
                        \/ f.id = "trust" /\ f.kind = "approval"
Questions(blocked) == {b \in Asked(blocked) : Askable(blocked)}

Verified(r) == r.status \in {"verified", "completed"}
CaseResult(r) == r.case /\ (Verified(r) => r.can /\ r.sound)

-----------------------------------------------------------------------------
(* What happens around the attempts. *)

ClaimRun ==
  /\ ~job.live /\ ~job.cancel /\ job.attempt < MaxExecutions /\ \A a \in Executions : returned[a] \in {"none", "failed"}
  /\ job' = [job EXCEPT !.attempt = @ + 1, !.live = TRUE]
  /\ process' = [process EXCEPT ![job.attempt + 1].at = "start"]
  /\ UNCHANGED <<material, session, epoch, docs, stores, returned>>

\* history: a controller that runs meanwhile works without authority
Shaken == [a \in Executions |-> IF process[a].at \in {"controller", "stored"} THEN [process[a] EXCEPT !.shaken = TRUE] ELSE process[a]]
Around(event) ==
  /\ event \in Disturbances
  /\ process' = Shaken
  /\ UNCHANGED <<material, stores, returned>>

ClaimLapses == Around("lapse") /\ job.live /\ job' = [job EXCEPT !.live = FALSE] /\ UNCHANGED <<session, epoch, docs>>
Cancel == Around("cancel") /\ ~job.cancel /\ job' = [job EXCEPT !.cancel = TRUE] /\ UNCHANGED <<session, epoch, docs>>
SourceLost == Around("source") /\ docs /\ docs' = FALSE /\ UNCHANGED <<job, session, epoch>>

\* revoke: publications are fenced before the sessions are removed
Fence == Around("revoke") /\ epoch = 0 /\ epoch' = 1 /\ UNCHANGED <<job, session, docs>>
RemoveSession == Around("revoke") /\ epoch = 1 /\ session # 0 /\ session' = 0 /\ UNCHANGED <<job, epoch, docs>>
\* grant_case: another case widens the principal, which is compared as a whole
GrantCase ==
  /\ "grant" \in Disturbances /\ session = 1 /\ session' = 2
  /\ UNCHANGED <<material, job, epoch, docs, stores, process, returned>>

-----------------------------------------------------------------------------
(* The stages of an attempt.  A stage reads the directory, then checks. *)

Go(a, next) == [process EXCEPT ![a].at = next, ![a].phase = "idle"]
End(a, how) == process' = Go(a, "ended") /\ returned' = [returned EXCEPT ![a] = how]
Fail(a) == End(a, "failed") /\ UNCHANGED stores
At(a, stage, phase) == process[a].at = stage /\ process[a].phase = phase

Staged == {"seed", "open", "review", "stored", "ask", "register", "asked", "close", "return"}

\* directory.read
Look(a) ==
  /\ process[a].at \in Staged /\ process[a].phase = "idle"
  /\ IF session = 0 THEN Fail(a)
     ELSE process' = [process EXCEPT ![a].phase = "seen", ![a].as = session] /\ UNCHANGED <<stores, returned>>
  /\ UNCHANGED <<material, authority>>

\* _check, in a transaction: claim, cancellation, principal and epoch
Check(a) == job.live /\ job.attempt = a /\ ~job.cancel /\ session = process[a].as /\ epoch = 0
\* require_current: the pinned sources are read before
RequireCurrent(a) == docs /\ pinned /\ Check(a)

\* CurrentSourceExecution: the catalog's snapshot and the run's own document snapshot
StartExecution(a) ==
  /\ At(a, "start", "idle")
  /\ IF session = 0 \/ ~docs THEN Fail(a)
     ELSE process' = Go(a, "seed") /\ pinned' = TRUE /\ UNCHANGED <<head, bound, kept, tasks, returned>>
  /\ UNCHANGED <<material, authority>>

\* A stage that is only admitted when everything is current
AdmitStage(a, stage, next) ==
  /\ At(a, stage, "seen")
  /\ IF RequireCurrent(a) THEN process' = next /\ UNCHANGED <<stores, returned>> ELSE Fail(a)
  /\ UNCHANGED <<material, authority>>

\* register: require_current, then the transaction that checks again and seeds
Guarded(a) ==
  /\ process[a].at \in {"seed", "register"}
  /\ AdmitStage(a, process[a].at, [process EXCEPT ![a].phase = "checked"])
Seed(a) ==
  /\ At(a, "seed", "checked")
  /\ IF Check(a) THEN head' = TRUE /\ process' = Go(a, "open") /\ UNCHANGED <<pinned, bound, kept, tasks, returned>> ELSE Fail(a)
  /\ UNCHANGED <<material, authority>>

BatchOf(a) == {[by |-> a, id |-> b.id, kind |-> b.kind, context |-> b.context, factor |-> b.factor, side |-> b.side, findings |-> b.findings] : b \in process[a].ask}
Clashes(new) == \E t \in tasks, n \in new : t.id = n.id /\ t # n
RegisterTrusting(a) ==
  /\ At(a, "register", "checked")
  /\ tasks' = tasks \cup BatchOf(a) /\ process' = Go(a, "asked") /\ UNCHANGED <<pinned, head, bound, kept, returned>>
  /\ UNCHANGED <<material, authority>>
Register(a) ==
  /\ At(a, "register", "checked")
  /\ IF Check(a) /\ head /\ ~Clashes(BatchOf(a))
     THEN tasks' = tasks \cup BatchOf(a) /\ process' = Go(a, "asked") /\ UNCHANGED <<pinned, head, bound, kept, returned>>
     ELSE Fail(a)
  /\ UNCHANGED <<material, authority>>

\* execute: the session needs approved rules and complete facts, the runner its ledger row
Open(a) ==
  /\ At(a, "open", "seen")
  /\ IF RequireCurrent(a) /\ material.ready /\ bound \in {0, a}
     THEN bound' = a /\ process' = Go(a, "review") /\ UNCHANGED <<pinned, head, kept, tasks, returned>>
     ELSE Fail(a)
  /\ UNCHANGED <<material, authority>>

\* invoke, REVIEW: without a stored review a controller is started
Review(a) == AdmitStage(a, "review", Go(a, IF kept = NoRow THEN "controller" ELSE "use"))

Controller(a) ==
  /\ At(a, "controller", "idle")
  /\ \/ \E r \in Reviews :
          /\ process' = IF CaseResult(r) THEN [Go(a, "stored") EXCEPT ![a].review = r] ELSE Go(a, "ended")
          /\ returned' = IF CaseResult(r) THEN returned ELSE [returned EXCEPT ![a] = "failed"]
     \/ End(a, "failed")
  /\ UNCHANGED <<material, authority, stores>>

StoredUnchecked(a) == At(a, "stored", "seen") /\ process' = Go(a, "put") /\ UNCHANGED <<material, authority, stores, returned>>
Stored(a) == AdmitStage(a, "stored", Go(a, "put"))

\* put: insert, or accept the identical row, in a transaction of its own
Put(a) ==
  /\ At(a, "put", "idle")
  /\ LET new == [by |-> a, review |-> process[a].review, shaken |-> process[a].shaken] IN
     IF kept \in {NoRow, new}
     THEN kept' = new /\ process' = Go(a, "use") /\ UNCHANGED <<pinned, head, bound, tasks, returned>>
     ELSE Fail(a)
  /\ UNCHANGED <<material, authority>>

\* the rest of invoke, REVIEW: verified, or blocked with its questions
Use(a) ==
  /\ At(a, "use", "idle")
  /\ LET r == kept.review IN
     IF kept.by = a /\ CaseResult(r) /\ (Verified(r) \/ Questions(r.blocked) # {})
     THEN /\ process' = IF Verified(r) THEN Go(a, "close") ELSE [Go(a, "ask") EXCEPT ![a].ask = Questions(r.blocked)]
          /\ UNCHANGED <<stores, returned>>
     ELSE Fail(a)
  /\ UNCHANGED <<material, authority>>

\* invoke, HUMAN: checked before and after the registration
Ask(a) == AdmitStage(a, "ask", Go(a, "register"))
Listed(a) == {t \in tasks : t.by = a}
Confirmed(a) ==
  /\ At(a, "asked", "seen")
  /\ IF RequireCurrent(a) /\ BatchOf(a) \subseteq tasks THEN process' = Go(a, "close") /\ UNCHANGED <<stores, returned>> ELSE Fail(a)
  /\ UNCHANGED <<material, authority>>

\* execute, after the runner: the stored tasks or the stored review are read once more
Close(a) ==
  /\ At(a, "close", "seen")
  /\ IF RequireCurrent(a) /\ (IF process[a].ask # {} THEN Listed(a) = BatchOf(a) ELSE kept.by = a /\ CaseResult(kept.review))
     THEN process' = Go(a, "return") /\ UNCHANGED <<stores, returned>> ELSE Fail(a)
  /\ UNCHANGED <<material, authority>>

Return(a) ==
  /\ At(a, "return", "seen")
  /\ IF RequireCurrent(a) THEN End(a, IF process[a].ask # {} THEN "waiting" ELSE "result") /\ UNCHANGED stores ELSE Fail(a)
  /\ UNCHANGED <<material, authority>>

DieExecuting(a) ==
  /\ "die" \in Disturbances /\ process[a].at \notin {"none", "ended"}
  /\ process' = Go(a, "ended")
  /\ UNCHANGED <<material, authority, stores, returned>>

Idle == (\A a \in Executions : process[a].at \in {"none", "ended"}) /\ UNCHANGED sessionVars

SessionNext ==
  \/ ClaimRun \/ ClaimLapses \/ Cancel \/ SourceLost \/ Fence \/ RemoveSession \/ GrantCase \/ Idle
  \/ \E a \in Executions :
       \/ StartExecution(a) \/ Look(a) \/ Guarded(a) \/ Seed(a) \/ Open(a) \/ Review(a) \/ Controller(a) \/ Stored(a)
       \/ Put(a) \/ Use(a) \/ Ask(a) \/ Register(a) \/ Confirmed(a) \/ Close(a) \/ Return(a) \/ DieExecuting(a)

SessionSpec == SessionInit /\ [][SessionNext]_sessionVars

-----------------------------------------------------------------------------
(* Properties. *)

\* Types of the state, and what the stores hold of the run: the questions and
\* the review are of the attempt that holds the run's ledger row.
SessionTypeOK ==
  /\ job.attempt \in 0 .. MaxExecutions /\ session \in 0 .. 2 /\ epoch \in 0 .. 1
  /\ bound \in 0 .. MaxExecutions /\ kept.by \in {0, bound} /\ \A t \in tasks : t.by = kept.by
  /\ head => pinned
  /\ \A a \in Executions : /\ process[a].at \in Staged \cup {"none", "start", "controller", "put", "use", "ended"}
                         /\ process[a].phase \in {"idle", "seen", "checked"}
                         /\ returned[a] \in {"none", "failed", "result", "waiting"}

\* Questions are registered by the attempt that holds the live claim at that
\* very moment, of a job nobody cancelled and a case nobody fenced, for a
\* principal that is still the one the guard admitted.
TasksAreFenced ==
  [][\A t \in tasks' \ tasks :
       job.live /\ job.attempt = t.by /\ ~job.cancel /\ epoch = 0 /\ session = process[t.by].as]_sessionVars

\* A review whose controller lost its claim, its grants or its sources while
\* it ran is never stored, hence never becomes a result or a question.
StoredReviewsWereCurrent == ~kept.shaken

\* An execution returns a result only for its own stored review that is
\* verified and independently complete, without a question pending, and a
\* wait only when its questions are registered.
OutcomeIsItsReview ==
  \A a \in Executions :
    /\ returned[a] = "result" => /\ kept.by = a /\ tasks = {}
                               /\ Verified(kept.review) /\ kept.review.can /\ kept.review.sound
    /\ returned[a] = "waiting" => kept.by = a /\ tasks # {} /\ ~Verified(kept.review)

\* What an attempt stores and returns is its own review, made while it held the run.
ReviewsAreOwned == SessionTypeOK /\ StoredReviewsWereCurrent /\ OutcomeIsItsReview

\* Once a run asks, every blocked finding of its stored review has a question
\* or is one that nobody can answer now: the approval itself, a calculation
\* that is recomputed because its comparison is asked about or confirmed
\* throughout, or a symptom of the missing approval on a factor of which
\* both sides are exactly confirmed.
BothConfirmed(c, f) == \A s \in Sides : <<c, f, s>> \in material.confirmed
NothingIsDropped ==
  tasks # {} =>
    LET blocked == kept.review.blocked
        pending == \E f \in blocked : f.kind = "approval" /\ f.status = "needs_review"
    IN \A f \in blocked :
         \/ \E t \in tasks : f.id \in t.findings
         \/ f.kind = "approval"
         \/ f.kind = "calculation" /\ \/ \E t \in tasks : t.context = f.context
                                      \/ pending /\ \A p \in Inventory : p[1] = f.context => BothConfirmed(p[1], p[2])
         \/ f.kind # "calculation" /\ pending /\ BothConfirmed(f.context, f.factor)

\* What the session stores and returns is its own review, made while it held
\* the run, and a run that asks leaves no finding without a question that
\* somebody could answer.
SessionsAreSound == ReviewsAreOwned /\ NothingIsDropped
=============================================================================
